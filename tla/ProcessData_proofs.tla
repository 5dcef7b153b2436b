------------------------- MODULE ProcessData_proofs -------------------------
(***************************************************************************)
(* Proofs about the exchange of process data by one thread, for every line *)
(* of slaves and every number of datagrams, receive buffers, sends and     *)
(* upsets.  Layout_proofs shows what ecx_send_processdata and              *)
(* ecx_receive_processdata_group find; here is what they make of it.       *)
(***************************************************************************)
EXTENDS Layout_proofs, FiniteSetTheorems

Sending   == {"send", "push", "count"}
Receiving == {"pull", "pulled", "wait", "clear"}

LEMMA SlavesFinite ==
  ASSUME LayoutTyped
  PROVE  IsFiniteSet(Slaves)
<1>1. PICK n \in Nat : Slaves = 1 .. n
  BY NetworksAssumption DEF LayoutTyped, Slaves
<1> QED
  BY <1>1, FS_Interval

-----------------------------------------------------------------------------
(***************************************************************************)
(* ecx_getindex: the index it gives out is free as long as one is.         *)
(***************************************************************************)
LEMMA MinOfNaturals ==
  ASSUME NEW S \in SUBSET Nat, S # {}
  PROVE  Min(S) \in S
<1>1. PICK x \in S : \A y \in S : x <= y
  BY LeastOf
<1> QED
  BY <1>1 DEF Min

LEMMA NextIndexIs ==
  ASSUME lastidx \in Slots
  PROVE  /\ NextIndex \in Slots
         /\ used \subseteq Slots /\ used # Slots => NextIndex \notin used
<1> DEFINE at(k) == IF lastidx + k < EC_MAXBUF THEN lastidx + k ELSE lastidx + k - EC_MAXBUF
           free == {k \in 1 .. EC_MAXBUF : at(k) \notin used}
<1>0. EC_MAXBUF \in Nat \ {0} /\ lastidx \in Nat /\ lastidx < EC_MAXBUF
  BY ProcessDataAssumption DEF Slots
<1>1. \A k \in 1 .. EC_MAXBUF : at(k) \in Slots
  BY <1>0 DEF Slots
<1>2. NextIndex = at(IF free = {} THEN 1 ELSE Min(free))
  BY DEF NextIndex
<1>3. free # {} => Min(free) \in free
  BY <1>0, MinOfNaturals
<1>4. 1 \in 1 .. EC_MAXBUF
  BY <1>0
<1>5. ASSUME used \subseteq Slots, used # Slots PROVE free # {}
  <2>1. PICK x \in Slots : x \notin used
    BY <1>5
  <2> DEFINE k == IF x > lastidx THEN x - lastidx ELSE x - lastidx + EC_MAXBUF
  <2>2. k \in 1 .. EC_MAXBUF /\ at(k) = x
    BY <1>0 DEF Slots
  <2> QED
    BY <2>1, <2>2
<1> HIDE DEF at, free
<1>6. NextIndex \in Slots
  BY <1>1, <1>2, <1>3, <1>4 DEF free
<1> QED
  BY <1>2, <1>3, <1>5, <1>6 DEF free

-----------------------------------------------------------------------------
(***************************************************************************)
(* The type invariant.                                                     *)
(***************************************************************************)
Stamps == Garbage .. MaxSends + 1

Places(t) ==
  /\ pc[t] \in Sending => call[t].d \in DOMAIN datagrams
  /\ pulled <= pushed
  /\ pc[t] = "count" => pushed < EC_MAXBUF
  /\ pc[t] = "pulled" => pulled < pushed

TypeInv ==
  /\ TypeOK
  /\ stack \in [Slots -> [idx : Slots, d : DOMAIN datagrams \cup {1}, no : Nat]]
  /\ call \in [Threads -> [no : 0 .. MaxSends, d : Nat]]
  /\ \A f \in back : f.holds \in [Cells -> Stamps]
  /\ wkc \in [Threads -> Int]
  /\ got \in [Threads -> Seq([no : Nat, d : Nat])]
  /\ \A t \in Threads : Places(t)

LEMMA TypeInit == Init => TypeInv
<1> SUFFICES ASSUME Init PROVE TypeInv
  OBVIOUS
<1>0. LayoutTyped
  BY LayoutInit
<1>1. 0 \in Slots /\ EC_MAXBUF \in Nat /\ MaxSends \in Nat /\ MaxUpsets \in Nat
  BY ProcessDataAssumption DEF Slots
<1>2. TypeOK
  BY <1>0, <1>1 DEF Init, TypeOK, EC_NOFRAME, Garbage, LayoutTyped
<1> QED
  BY <1>1, <1>2 DEF Init, TypeInv, Places, Sending, EC_NOFRAME

\* what the answer to a datagram holds
LEMMA AnswerTyped ==
  ASSUME TypeInv, NEW d, NEW heard, NEW no \in 0 .. MaxSends, NEW c \in Cells
  PROVE  Answer(d, heard, no, c) \in Stamps
<1>1. image[c] \in Stamps /\ no \in Stamps /\ 0 \in Stamps /\ Garbage \in Stamps
  BY ProcessDataAssumption DEF TypeInv, TypeOK, Stamps, Cells, Garbage
<1>2. c.dir \in {"in", "out"}
  BY DEF Cells, OutCells, InCells
<1> QED
  BY <1>1, <1>2 DEF Answer

LEMMA CounterTyped ==
  ASSUME LayoutTyped, NEW d, NEW heard \in SUBSET Slaves
  PROVE  Counter(d, heard) \in Nat
<1>1. \A S \in SUBSET heard : Cardinality(S) \in Nat
  BY SlavesFinite, FS_Subset, FS_CardinalityType
<1>2. /\ Cardinality({s \in heard : Reads(d, s)}) \in Nat
      /\ Cardinality({s \in heard : Writes(d, s)}) \in Nat
  BY <1>1
<1> QED
  BY <1>2 DEF Counter

LEMMA NextDatagramTyped ==
  ASSUME NEW t \in Threads, LayoutTyped, pc = [u \in Threads |-> pc[u]],
         call \in [Threads -> [no : 0 .. MaxSends, d : Nat]],
         call[t].d \in DOMAIN datagrams, NextDatagram(t)
  PROVE  /\ call' \in [Threads -> [no : 0 .. MaxSends, d : Nat]]
         /\ pc' = [pc EXCEPT ![t] = IF call[t].d = Len(datagrams) THEN "sent" ELSE "send"]
         /\ pc'[t] = "send" \/ pc'[t] = "sent"
         /\ pc'[t] = "send" => call'[t].d \in DOMAIN datagrams
<1>1. PICK n \in Nat : DOMAIN datagrams = 1 .. n /\ Len(datagrams) = n
  BY DEF LayoutTyped
<1>2. PICK d \in 1 .. n : d = call[t].d
  BY <1>1
<1>3. pc' = [pc EXCEPT ![t] = IF d = n THEN "sent" ELSE "send"]
  BY <1>1, <1>2 DEF NextDatagram, Goto
<1>4. call' = [call EXCEPT ![t] = [@ EXCEPT !.d = d + 1]]
  BY <1>2 DEF NextDatagram
<1>5. call'[t].d = d + 1 /\ call' \in [Threads -> [no : 0 .. MaxSends, d : Nat]]
  BY <1>4
<1>6. pc'[t] = IF d = n THEN "sent" ELSE "send"
  BY <1>3
<1>7. d # n => d + 1 \in 1 .. n
  OBVIOUS
<1> QED
  BY <1>1, <1>2, <1>3, <1>5, <1>6, <1>7

LEMMA SendTyped ==
  ASSUME NEW t, Threads = {t}, TypeInv, SendStep(t), LayoutTyped'
  PROVE  TypeInv'
<1> USE DEF TypeInv, TypeOK, Places, Sending
<1>0. EC_MAXBUF \in Nat \ {0} /\ MaxSends \in Nat /\ LayoutTyped
  BY ProcessDataAssumption
<1>1. UNCHANGED fixed
  BY DEF SendStep, StartSend, SendDatagram, PushEntry, PushCount, PushFull
<1>2. Slaves' = Slaves /\ OutCells' = OutCells /\ InCells' = InCells /\ Cells' = Cells
  BY <1>1, LayoutStays
<1>3. \A n \in Nat : n \in DOMAIN datagrams <=> 1 <= n /\ n <= Len(datagrams)
  BY SMTT(30), <1>0 DEF LayoutTyped
<1>4. Len(datagrams) \in Nat /\ (datagrams = <<>> <=> Len(datagrams) = 0)
  BY <1>0 DEF LayoutTyped
<1>5. CASE StartSend(t)
  BY SMTT(30), <1>0, <1>1, <1>2, <1>3, <1>4, <1>5 DEF StartSend, Goto, shared, fixed
<1>6. CASE SendDatagram(t)
  <2>1. NextIndex \in Slots
    BY NextIndexIs
  <2>2. call[t].d \in DOMAIN datagrams /\ call[t].no \in 0 .. MaxSends /\ DOMAIN image = Cells
    BY <1>6 DEF SendDatagram, Cells
  <2>3. \A f \in back' : /\ f.idx \in Slots /\ f.d \in DOMAIN datagrams /\ f.heard \subseteq Slaves
                         /\ f.holds \in [Cells -> Stamps]
    <3> SUFFICES ASSUME NEW f \in back', f \notin back
                 PROVE  /\ f.idx \in Slots /\ f.d \in DOMAIN datagrams /\ f.heard \subseteq Slaves
                        /\ f.holds \in [Cells -> Stamps]
      OBVIOUS
    <3>1. f = [idx |-> NextIndex, d |-> call[t].d, heard |-> answering,
               holds |-> [c \in DOMAIN image |-> Answer(datagrams[call[t].d], answering, call[t].no, c)]]
      BY <1>6 DEF SendDatagram
    <3>2. \A c \in Cells : Answer(datagrams[call[t].d], answering, call[t].no, c) \in Stamps
      BY <2>2, AnswerTyped
    <3> QED
      BY <2>1, <2>2, <3>1, <3>2
  <2>4. used' \subseteq Slots /\ lastidx' \in Slots /\ idx' \in [Threads -> Slots]
    BY <1>6, <2>1 DEF SendDatagram
  <2> QED
    BY <1>0, <1>1, <1>2, <1>6, <2>2, <2>3, <2>4 DEF SendDatagram, Goto, fixed
<1>7. CASE PushEntry(t)
  <2>1. pushed \in Slots /\ idx[t] \in Slots /\ call[t].d \in DOMAIN datagrams /\ call[t].no \in Nat
    BY <1>0, <1>7 DEF PushEntry, Slots
  <2>2. stack' \in [Slots -> [idx : Slots, d : DOMAIN datagrams \cup {1}, no : Nat]]
    BY <1>7, <2>1 DEF PushEntry
  <2> QED
    BY <1>0, <1>1, <1>2, <1>7, <2>2 DEF PushEntry, Goto, fixed
<1>8. ASSUME NextDatagram(t), call[t].d \in DOMAIN datagrams
      PROVE  /\ call' \in [Threads -> [no : 0 .. MaxSends, d : Nat]]
             /\ pc'[t] = "send" \/ pc'[t] = "sent"
             /\ pc' = [pc EXCEPT ![t] = IF call[t].d = Len(datagrams) THEN "sent" ELSE "send"]
             /\ pc'[t] = "send" => call'[t].d \in DOMAIN datagrams
  BY <1>8, NextDatagramTyped
<1>9. CASE PushCount(t)
  BY <1>0, <1>1, <1>2, <1>8, <1>9 DEF PushCount, fixed
<1>10. CASE PushFull(t)
  BY <1>0, <1>1, <1>2, <1>8, <1>10 DEF PushFull, fixed, shared
<1> QED
  BY <1>5, <1>6, <1>7, <1>9, <1>10 DEF SendStep

LEMMA AddedTyped ==
  ASSUME TypeInv, NEW sum \in Int, sum >= EC_NOFRAME, NEW f \in back, NEW dc
  PROVE  Added(sum, f, dc) \in Nat
<1> DEFINE d == datagrams[f.d]
<1>1. Counter(d, f.heard) \in Nat /\ Cardinality(f.heard) \in Nat
  BY CounterTyped, SlavesFinite, FS_Subset, FS_CardinalityType DEF TypeInv, TypeOK
<1> HIDE DEF d
<1>2. PICK c \in Nat, n \in Nat : c = Counter(d, f.heard) /\ n = Cardinality(f.heard)
  BY <1>1
<1>3. (IF d.cmd = "LWR" THEN 2 ELSE 1) \in {1, 2}
  OBVIOUS
<1>4. PICK k \in {1, 2} : k = IF d.cmd = "LWR" THEN 2 ELSE 1
  BY <1>3
<1>5. Added(sum, f, dc) = IF dc THEN k * c
                          ELSE (IF sum = EC_NOFRAME THEN 0 ELSE sum) + k * (IF d.dc THEN n ELSE c)
  BY <1>2, <1>4 DEF Added, d
<1> QED
  BY <1>5 DEF EC_NOFRAME

LEMMA ReceiveTyped ==
  ASSUME NEW t, Threads = {t}, TypeInv, ReceiveStep(t), LayoutTyped'
  PROVE  TypeInv'
<1> USE DEF TypeInv, TypeOK, Places, Sending
<1>0. EC_MAXBUF \in Nat \ {0} /\ MaxSends \in Nat /\ LayoutTyped
  BY ProcessDataAssumption
<1>1. UNCHANGED fixed
  BY DEF ReceiveStep, StartReceive, PullPlace, PullCount, PullNone, Answered, NoAnswer, Clear
<1>2. Slaves' = Slaves /\ OutCells' = OutCells /\ InCells' = InCells /\ Cells' = Cells
  BY <1>1, LayoutStays
<1>3. CASE StartReceive(t)
  BY <1>0, <1>1, <1>2, <1>3 DEF StartReceive, Goto, shared, fixed
<1>4. CASE PullPlace(t)
  <2>1. pulled \in Slots
    BY <1>0, <1>4 DEF PullPlace, Slots
  <2> QED
    BY <1>0, <1>1, <1>2, <1>4, <2>1 DEF PullPlace, Goto, shared, fixed
<1>5. CASE PullCount(t)
  BY <1>0, <1>1, <1>2, <1>5 DEF PullCount, Goto, fixed
<1>6. CASE PullNone(t)
  BY <1>0, <1>1, <1>2, <1>6 DEF PullNone, Goto, shared, fixed
<1>7. pos[t] \in Slots /\ stack[pos[t]] \in [idx : Slots, d : DOMAIN datagrams \cup {1}, no : Nat]
  OBVIOUS
<1>8. DOMAIN datagrams \subseteq Nat
  BY <1>0 DEF LayoutTyped
<1>9. Append(got[t], [no |-> stack[pos[t]].no, d |-> stack[pos[t]].d]) \in Seq([no : Nat, d : Nat])
  BY <1>7, <1>8
<1>10. CASE Answered(t)
  <2>1. PICK f \in back : /\ back' = back \ {f}
                          /\ image' = Copied(f, stack[pos[t]])
                          /\ wkc' = [wkc EXCEPT ![t] = Added(@, f, datagrams[stack[pos[t]].d].dc)]
    BY <1>10 DEF Answered
  <2>2. wkc' \in [Threads -> Int] /\ wkc'[t] >= EC_NOFRAME
    <3>1. Added(wkc[t], f, datagrams[stack[pos[t]].d].dc) \in Nat
      BY AddedTyped
    <3> QED
      BY <2>1, <3>1 DEF EC_NOFRAME
  <2>3. image' \in [Cells -> Stamps]
    <3>1. DOMAIN image = Cells /\ (\A c \in Cells : image[c] \in Stamps /\ f.holds[c] \in Stamps)
      BY DEF Cells, Stamps
    <3>2. Garbage \in Stamps
      BY <1>0 DEF Garbage, Stamps
    <3> QED
      BY <2>1, <3>1, <3>2 DEF Copied
  <2>4. got' \in [Threads -> Seq([no : Nat, d : Nat])]
    BY <1>9, <1>10 DEF Answered
  <2> QED
    BY <1>0, <1>1, <1>2, <1>10, <2>1, <2>2, <2>3, <2>4 DEF Answered, Goto, fixed, Cells, Stamps
<1>11. CASE NoAnswer(t)
  <2>1. got' \in [Threads -> Seq([no : Nat, d : Nat])]
    BY <1>9, <1>11 DEF NoAnswer
  <2> QED
    BY <1>0, <1>1, <1>2, <1>11, <2>1 DEF NoAnswer, Goto, fixed
<1>12. CASE Clear(t)
  <2>1. 0 \in Slots /\ 0 \in 0 .. MaxSends /\ 0 \in 0 .. EC_MAXBUF
    BY <1>0 DEF Slots
  <2>2. /\ call' \in [Threads -> [no : 0 .. MaxSends, d : Nat]]
        /\ got' \in [Threads -> Seq([no : Nat, d : Nat])]
    BY <1>12, <2>1 DEF Clear
  <2>3. wkc' \in [Threads -> Int] /\ wkc'[t] >= EC_NOFRAME
    BY <1>12 DEF Clear, EC_NOFRAME
  <2>4. idx' \in [Threads -> Slots] /\ pos' \in [Threads -> Slots]
    BY <1>12, <2>1 DEF Clear
  <2>5. pc' = [pc EXCEPT ![t] = "idle"] /\ pushed' = 0 /\ pulled' = 0
    BY <1>12 DEF Clear, Goto
  <2> QED
    BY <1>0, <1>1, <1>2, <1>12, <2>1, <2>2, <2>3, <2>4, <2>5 DEF Clear, fixed
<1> QED
  BY <1>3, <1>4, <1>5, <1>6, <1>10, <1>11, <1>12 DEF ReceiveStep

LEMMA TypeStep ==
  ASSUME NEW t, Threads = {t}, TypeInv, [Next]_vars
  PROVE  TypeInv'
<1> USE DEF TypeInv, TypeOK, Places
<1>1. UNCHANGED fixed
  BY FixedStays
<1>2. Slaves' = Slaves /\ OutCells' = OutCells /\ InCells' = InCells /\ Cells' = Cells
  BY <1>1, LayoutStays
<1>3. LayoutTyped'
  BY <1>1, <1>2 DEF LayoutTyped, fixed
<1>4. CASE WriteOutputs
  <2>1. MaxSends \in Nat /\ serial + 1 \in Stamps /\ serial + 1 \in 0 .. MaxSends + 1
    BY ProcessDataAssumption DEF Stamps, Garbage
  <2>2. image' \in [Cells -> Stamps]
    BY <1>4, <2>1 DEF WriteOutputs, Cells, Stamps
  <2> QED
    BY <1>1, <1>2, <1>3, <1>4, <2>1, <2>2 DEF WriteOutputs, fixed, shared, local, Cells, Stamps
<1>5. CASE LoseFrame
  BY <1>1, <1>2, <1>3, <1>5, ProcessDataAssumption DEF LoseFrame, Upset, fixed, local
<1>6. ASSUME NEW s \in Slaves, FallSilent(s) PROVE TypeInv'
  BY <1>1, <1>2, <1>3, <1>6, ProcessDataAssumption DEF FallSilent, Upset, fixed, shared, local
<1>7. CASE UNCHANGED vars
  BY <1>1, <1>2, <1>3, <1>7 DEF vars, fixed, shared, local
<1> QED
  BY <1>3, <1>4, <1>5, <1>6, <1>7, SendTyped, ReceiveTyped DEF Next

(***************************************************************************)
(* Exchanged by one thread, the process data keeps every variable in its   *)
(* range: idxstack is never indexed outside of its places.                 *)
(***************************************************************************)
THEOREM ExchangeTyped ==
  ASSUME NEW t, Threads = {t}
  PROVE  Spec => []TypeOK
<1>1. TypeInv => TypeOK
  BY DEF TypeInv
<1> QED
  BY <1>1, TypeInit, TypeStep, PTL DEF Spec

-----------------------------------------------------------------------------
(***************************************************************************)
(* The indices.  Of the N datagrams of a call those from Low(t) + 1 up to  *)
(* Top(t) are under way: sent, and neither answered nor given up.  Each    *)
(* has an index of its own, which is in use for as long, and no other      *)
(* index is.  Frames on their way back are those of datagrams under way.   *)
(***************************************************************************)
Low(t)  == IF pc[t] = "wait" THEN pos[t] ELSE pulled
High(t) == IF pc[t] = "count" THEN pushed + 1 ELSE pushed
Top(t)  == IF pc[t] \in {"push", "count"} THEN pushed + 1 ELSE pushed

UnderWay(t) == Low(t) + 1 .. Top(t)

IndexOf(t, d) == IF pc[t] = "push" /\ d = pushed + 1 THEN idx[t] ELSE stack[d - 1].idx

Control(t) ==
  /\ pc[t] = "idle" => call[t].no = 0 /\ pushed = 0
  /\ pc[t] \in Sending => call[t].d = pushed + 1 /\ pushed < Len(datagrams)
  /\ pc[t] \in Sending \cup {"sent"} => call[t].no # 0 /\ pulled = 0
  /\ pc[t] \in Receiving \cup {"sent"} => pushed = IF call[t].no = 0 THEN 0 ELSE Len(datagrams)
  /\ pc[t] = "pulled" => pos[t] = pulled
  /\ pc[t] = "wait" => pulled = pos[t] + 1
  /\ pc[t] = "clear" => pulled = pushed

Stacked(t) == \A i \in 0 .. High(t) - 1 : stack[i].d = i + 1 /\ stack[i].no = call[t].no

OneIndexEach(t) ==
  /\ used = {IndexOf(t, d) : d \in UnderWay(t)}
  /\ \A d, e \in UnderWay(t) : IndexOf(t, d) = IndexOf(t, e) => d = e

OnTheirWay(t) ==
  /\ \A f \in back : f.d \in UnderWay(t) /\ f.idx = IndexOf(t, f.d)
  /\ \A f, g \in back : f.idx = g.idx => f = g
  /\ upsets = 0 => /\ answering = Slaves
                   /\ \A d \in UnderWay(t) : \E f \in back : f.d = d /\ f.heard = Slaves

Pulled(t) == got[t] = [i \in 1 .. Low(t) |-> [no |-> call[t].no, d |-> i]]

IndexInv(t) == Control(t) /\ Stacked(t) /\ OneIndexEach(t) /\ OnTheirWay(t) /\ Pulled(t)

LEMMA IndexInit == ASSUME NEW t \in Threads, LayoutTyped, Init PROVE IndexInv(t)
<1> USE DEF Init
<1>1. UnderWay(t) = {} /\ Low(t) = 0 /\ High(t) = 0
  BY DEF UnderWay, Low, Top, High
<1>2. Control(t)
  BY DEF Control, Sending, Receiving
<1>3. Stacked(t) /\ OneIndexEach(t) /\ OnTheirWay(t) /\ Pulled(t)
  BY <1>1 DEF Stacked, OneIndexEach, OnTheirWay, Pulled
<1> QED
  BY <1>2, <1>3 DEF IndexInv

\* as long as the same datagrams are under way with the same indices
LEMMA SameUnderWay ==
  ASSUME NEW t, OneIndexEach(t), OnTheirWay(t),
         UNCHANGED <<used, back, answering, upsets, datagrams, net>>,
         UnderWay(t)' = UnderWay(t),
         \A d \in UnderWay(t) : IndexOf(t, d)' = IndexOf(t, d)
  PROVE  OneIndexEach(t)' /\ OnTheirWay(t)'
<1>1. OneIndexEach(t)'
  BY DEF OneIndexEach
<1>2. Slaves' = Slaves
  BY DEF Slaves
<1>3. OnTheirWay(t)'
  BY <1>2 DEF OnTheirWay
<1> QED
  BY <1>1, <1>3

\* an index is free as long as not all receive buffers are used
LEMMA FreeIndex ==
  ASSUME NEW t \in Threads, TypeInv, Indexed, IndexInv(t), pc[t] = "send"
  PROVE  NextIndex \in Slots \ used
<1>1. EC_MAXBUF \in Nat /\ pushed \in Nat /\ pushed < EC_MAXBUF
  BY ProcessDataAssumption DEF TypeInv, TypeOK, LayoutTyped, Indexed, IndexInv, Control, Sending
<1>2. UnderWay(t) = 1 .. pushed
  BY DEF UnderWay, Low, Top, IndexInv, Control, Sending
<1> DEFINE f == [d \in 1 .. pushed |-> IndexOf(t, d)]
<1>3. f \in Surjection(1 .. pushed, used)
  BY <1>2 DEF Surjection, IndexInv, OneIndexEach
<1>4. IsFiniteSet(1 .. pushed) /\ Cardinality(1 .. pushed) = pushed
  BY <1>1, FS_Interval
<1>5. Cardinality(used) <= pushed
  BY <1>3, <1>4, FS_Surjection
<1>6. Cardinality(Slots) = EC_MAXBUF
  BY <1>1, FS_Interval DEF Slots
<1> QED
  BY <1>1, <1>5, <1>6, NextIndexIs DEF TypeInv, TypeOK

LEMMA StartSendIndices ==
  ASSUME NEW t, Threads = {t}, TypeInv, IndexInv(t), StartSend(t)
  PROVE  IndexInv(t)'
<1>1. /\ pc[t] = "idle" /\ pushed = 0 /\ pulled = 0
      /\ pc'[t] = IF datagrams = <<>> THEN "sent" ELSE "send"
      /\ call'[t].d = 1 /\ call'[t].no = serial + 1
      /\ UNCHANGED <<fixed, used, back, answering, upsets, stack, pushed, pulled, got>>
  BY DEF StartSend, Goto, TypeInv, TypeOK, Places, IndexInv, Control, shared
<1>2. Len(datagrams) \in Nat /\ (datagrams = <<>> <=> Len(datagrams) = 0) /\ serial \in Nat
  BY DEF TypeInv, TypeOK, LayoutTyped
<1>3. Control(t)'
  BY <1>1, <1>2 DEF Control, Sending, Receiving, fixed
<1>4. UnderWay(t) = {} /\ UnderWay(t)' = {} /\ Low(t) = 0 /\ Low(t)' = 0 /\ High(t)' = 0
  BY <1>1 DEF UnderWay, Low, Top, High
<1>5. OneIndexEach(t)' /\ OnTheirWay(t)'
  BY <1>1, <1>4, SameUnderWay DEF IndexInv, fixed
<1>6. Stacked(t)' /\ Pulled(t)'
  BY <1>1, <1>4 DEF IndexInv, Stacked, Pulled
<1> QED
  BY <1>3, <1>5, <1>6 DEF IndexInv

LEMMA SendDatagramIndices ==
  ASSUME NEW t, Threads = {t}, TypeInv, Indexed, IndexInv(t), SendDatagram(t)
  PROVE  IndexInv(t)'
<1>1. /\ pc[t] = "send" /\ pc'[t] = "push" /\ pulled = 0
      /\ idx'[t] = NextIndex /\ used' = used \cup {NextIndex}
      /\ UNCHANGED <<fixed, answering, upsets, stack, pushed, pulled, got, call>>
  BY DEF SendDatagram, Goto, TypeInv, TypeOK, IndexInv, Control, Sending
<1>2. NextIndex \in Slots \ used
  BY <1>1, FreeIndex
<1>3. PICK n \in Nat : n = pushed /\ call[t].d = n + 1
  BY <1>1 DEF TypeInv, TypeOK, IndexInv, Control, Sending
<1>4. Control(t)'
  BY <1>1 DEF IndexInv, Control, Sending, Receiving, fixed
<1>5. Stacked(t)' /\ Pulled(t)'
  BY <1>1 DEF IndexInv, Stacked, Pulled, Low, High
<1>6. UnderWay(t) = 1 .. n /\ UnderWay(t)' = 1 .. n + 1
  BY <1>1, <1>3 DEF UnderWay, Low, Top
<1>7. /\ \A d \in UnderWay(t) : IndexOf(t, d)' = IndexOf(t, d)
      /\ IndexOf(t, n + 1)' = NextIndex
  BY <1>1, <1>3, <1>6 DEF IndexOf
<1>8. UnderWay(t)' = UnderWay(t) \cup {n + 1}
  BY <1>3, <1>6
<1>9. \A d \in UnderWay(t) : IndexOf(t, d) # NextIndex
  BY <1>2 DEF IndexInv, OneIndexEach
<1>10. used' = {IndexOf(t, d)' : d \in UnderWay(t)'}
  BY <1>1, <1>7, <1>8 DEF IndexInv, OneIndexEach
<1>11. \A d, e \in UnderWay(t)' : IndexOf(t, d)' = IndexOf(t, e)' => d = e
  <2> TAKE d, e \in UnderWay(t)'
  <2>1. d \in UnderWay(t) => IndexOf(t, d)' = IndexOf(t, d) /\ IndexOf(t, d) # NextIndex
    BY <1>7, <1>9
  <2>2. e \in UnderWay(t) => IndexOf(t, e)' = IndexOf(t, e) /\ IndexOf(t, e) # NextIndex
    BY <1>7, <1>9
  <2>3. d \in UnderWay(t) /\ e \in UnderWay(t) => (IndexOf(t, d) = IndexOf(t, e) => d = e)
    BY DEF IndexInv, OneIndexEach
  <2>4. (d \in UnderWay(t) \/ d = n + 1) /\ (e \in UnderWay(t) \/ e = n + 1)
    BY <1>8
  <2> QED
    BY <1>7, <2>1, <2>2, <2>3, <2>4
<1>12. OneIndexEach(t)'
  BY <1>10, <1>11 DEF OneIndexEach
<1>13. PICK new : /\ back' = {f \in back : f.idx # NextIndex} \cup {new}
                  /\ new.idx = NextIndex /\ new.d = n + 1 /\ new.heard = answering
  <2> DEFINE new == [idx |-> NextIndex, d |-> call[t].d, heard |-> answering,
                     holds |-> [c \in DOMAIN image |->
                                  Answer(datagrams[call[t].d], answering, call[t].no, c)]]
  <2>1. back' = {f \in back : f.idx # NextIndex} \cup {new}
    BY DEF SendDatagram
  <2>2. new.idx = NextIndex /\ new.d = n + 1 /\ new.heard = answering
    BY <1>3
  <2> QED
    BY <2>1, <2>2
<1>14. \A f \in back : f.idx # NextIndex
  BY <1>9 DEF IndexInv, OnTheirWay
<1>15. back' = back \cup {new}
  BY <1>13, <1>14
<1>16. OnTheirWay(t)'
  <2>1. \A f \in back' : f.d \in UnderWay(t)' /\ f.idx = IndexOf(t, f.d)'
    <3> TAKE f \in back'
    <3>1. CASE f \in back
      <4>1. f.d \in UnderWay(t) /\ f.idx = IndexOf(t, f.d)
        BY <3>1 DEF IndexInv, OnTheirWay
      <4> QED
        BY <1>7, <1>8, <4>1
    <3>2. CASE f = new
      BY <1>7, <1>8, <1>13, <3>2
    <3> QED
      BY <1>15, <3>1, <3>2
  <2>2. \A f, g \in back' : f.idx = g.idx => f = g
    BY <1>13, <1>14, <1>15 DEF IndexInv, OnTheirWay
  <2>3. Slaves' = Slaves
    BY <1>1 DEF Slaves, fixed
  <2>4. upsets' = 0 => /\ answering' = Slaves'
                       /\ \A d \in UnderWay(t)' : \E f \in back' : f.d = d /\ f.heard = Slaves'
    BY <1>1, <1>8, <1>13, <1>15, <2>3 DEF IndexInv, OnTheirWay
  <2> QED
    BY <2>1, <2>2, <2>4 DEF OnTheirWay
<1> QED
  BY <1>4, <1>5, <1>12, <1>16 DEF IndexInv

LEMMA PushIndices ==
  ASSUME NEW t, Threads = {t}, TypeInv, Indexed, IndexInv(t),
         PushEntry(t) \/ PushCount(t) \/ PushFull(t)
  PROVE  IndexInv(t)'
<1>1. /\ pc[t] \in {"push", "count"} /\ pulled = 0 /\ call[t].no # 0
      /\ call[t].d = pushed + 1 /\ pushed < Len(datagrams)
      /\ UNCHANGED <<fixed, used, back, answering, upsets, pulled, got>>
  BY DEF PushEntry, PushCount, PushFull, IndexInv, Control, Sending, shared
<1>2. pushed \in Nat /\ pushed < EC_MAXBUF /\ Len(datagrams) \in Nat /\ EC_MAXBUF \in Nat
  BY <1>1, ProcessDataAssumption DEF TypeInv, TypeOK, LayoutTyped, Indexed
<1>3. UnderWay(t) = 1 .. pushed + 1 /\ Low(t) = 0
  BY <1>1 DEF UnderWay, Low, Top
<1>4. CASE PushEntry(t)
  <2>1. /\ pc[t] = "push" /\ pc'[t] = "count" /\ UNCHANGED <<pushed, call>>
        /\ stack' = [stack EXCEPT ![pushed] = [idx |-> idx[t], d |-> call[t].d, no |-> call[t].no]]
    BY <1>4 DEF PushEntry, Goto, TypeInv, TypeOK
  <2>2. pushed \in Slots /\ DOMAIN stack = Slots
    BY <1>2 DEF Slots, TypeInv
  <2>3. Control(t)'
    BY <1>1, <2>1 DEF IndexInv, Control, Sending, Receiving, fixed
  <2>4. Low(t)' = 0 /\ High(t) = pushed /\ High(t)' = pushed + 1 /\ UnderWay(t)' = 1 .. pushed + 1
    BY <1>1, <2>1 DEF Low, High, UnderWay, Top
  <2>5. \A i \in 0 .. pushed : i \in Slots /\ (i # pushed => stack'[i] = stack[i])
    BY <1>2, <2>1, <2>2 DEF Slots
  <2>6. stack'[pushed] = [idx |-> idx[t], d |-> pushed + 1, no |-> call[t].no]
    BY <1>1, <2>1, <2>2
  <2>7. Stacked(t)'
    <3>1. \A i \in 0 .. pushed : stack'[i].d = i + 1 /\ stack'[i].no = call[t].no
      BY <1>2, <2>4, <2>5, <2>6 DEF IndexInv, Stacked
    <3> QED
      BY <1>2, <2>1, <2>4, <3>1 DEF Stacked
  <2>8. \A d \in UnderWay(t) : IndexOf(t, d)' = IndexOf(t, d)
    BY <1>2, <1>3, <2>1, <2>5, <2>6 DEF IndexOf
  <2>9. OneIndexEach(t)' /\ OnTheirWay(t)'
    BY <1>1, <1>3, <2>4, <2>8, SameUnderWay DEF IndexInv, fixed
  <2>10. Pulled(t)'
    BY <1>1, <1>3, <2>1, <2>4 DEF IndexInv, Pulled
  <2> QED
    BY <2>3, <2>7, <2>9, <2>10 DEF IndexInv
<1>5. CASE PushCount(t)
  <2>1. pc[t] = "count" /\ pushed' = pushed + 1 /\ UNCHANGED <<stack, idx>> /\ NextDatagram(t)
    BY <1>5 DEF PushCount
  <2>2. /\ call'[t].d = pushed + 2 /\ call'[t].no = call[t].no
        /\ pc'[t] = IF pushed + 1 = Len(datagrams) THEN "sent" ELSE "send"
    BY <1>1, <1>2, <2>1 DEF NextDatagram, Goto, TypeInv, TypeOK
  <2>3. Control(t)'
    BY <1>1, <1>2, <2>1, <2>2 DEF Control, Sending, Receiving, fixed
  <2>4. Low(t)' = 0 /\ High(t) = pushed + 1 /\ High(t)' = pushed + 1 /\ UnderWay(t)' = 1 .. pushed + 1
    BY <1>1, <2>1, <2>2 DEF Low, High, UnderWay, Top
  <2>5. Stacked(t)' /\ Pulled(t)'
    BY <1>1, <1>3, <2>1, <2>2, <2>4 DEF IndexInv, Stacked, Pulled
  <2>6. \A d \in UnderWay(t) : IndexOf(t, d)' = IndexOf(t, d)
    BY <2>1, <2>2 DEF IndexOf
  <2>7. OneIndexEach(t)' /\ OnTheirWay(t)'
    BY <1>1, <1>3, <2>4, <2>6, SameUnderWay DEF IndexInv, fixed
  <2> QED
    BY <2>3, <2>5, <2>7 DEF IndexInv
<1>6. ~PushFull(t)
  BY <1>2 DEF PushFull
<1> QED
  BY <1>4, <1>5, <1>6

LEMMA PullIndices ==
  ASSUME NEW t, Threads = {t}, TypeInv, IndexInv(t),
         StartReceive(t) \/ PullPlace(t) \/ PullCount(t) \/ PullNone(t)
  PROVE  IndexInv(t)'
<1>1. UNCHANGED <<fixed, used, back, answering, upsets, pushed, stack, call, got>>
  BY DEF StartReceive, PullPlace, PullCount, PullNone, shared
<1>2. PICK p \in Nat, q \in Nat : p = pushed /\ q = pulled /\ q <= p
  BY DEF TypeInv, TypeOK, Places
<1>3. /\ pc[t] \notin {"push", "count", "send", "wait"} /\ pc'[t] \in Receiving /\ pushed' = p
      /\ pc[t] = "pulled" => pos[t] = q
      /\ pc[t] \in {"idle", "pull", "pulled", "sent"}
  BY <1>2 DEF StartReceive, PullPlace, PullCount, PullNone, Goto, Receiving, TypeInv, TypeOK, shared,
              IndexInv, Control
<1>4. Control(t)'
  BY <1>1, <1>2, <1>3 DEF StartReceive, PullPlace, PullCount, PullNone, Goto, shared, fixed,
                          TypeInv, TypeOK, IndexInv, Control, Receiving, Sending
<1>5. Low(t)' = Low(t)
  BY <1>2, <1>3 DEF StartReceive, PullPlace, PullCount, PullNone, Goto, shared, TypeInv, TypeOK, Low
<1>6. High(t)' = High(t) /\ Top(t)' = Top(t)
  BY <1>2, <1>3 DEF Receiving, High, Top
<1>7. UnderWay(t)' = UnderWay(t) /\ (\A d \in UnderWay(t) : IndexOf(t, d)' = IndexOf(t, d))
  BY <1>1, <1>3, <1>5, <1>6 DEF UnderWay, IndexOf, Receiving
<1>8. OneIndexEach(t)' /\ OnTheirWay(t)'
  BY <1>1, <1>7, SameUnderWay DEF IndexInv, fixed
<1>9. Stacked(t)' /\ Pulled(t)'
  BY <1>1, <1>5, <1>6 DEF IndexInv, Stacked, Pulled
<1> QED
  BY <1>4, <1>8, <1>9 DEF IndexInv

\* what the entry that is waited for says
LEMMA EntryIs ==
  ASSUME NEW t \in Threads, TypeInv, IndexInv(t), pc[t] = "wait"
  PROVE  /\ pos[t] \in Nat /\ pulled = pos[t] + 1 /\ pos[t] < pushed
         /\ pushed = Len(datagrams) /\ call[t].no # 0
         /\ UnderWay(t) = pos[t] + 1 .. pushed
         /\ stack[pos[t]].d = pos[t] + 1 /\ stack[pos[t]].no = call[t].no
         /\ stack[pos[t]].idx = IndexOf(t, pos[t] + 1)
<1>1. PICK p \in Nat, n \in Nat : p = pos[t] /\ n = pushed
  BY DEF TypeInv, TypeOK, Slots
<1>2. pulled = p + 1 /\ pulled <= n /\ p < n
  BY <1>1 DEF IndexInv, Control, TypeInv, Places
<1>3. pushed = Len(datagrams) /\ call[t].no # 0
  BY <1>1, <1>2 DEF IndexInv, Control, Receiving
<1>4. UnderWay(t) = p + 1 .. n /\ High(t) = n
  BY <1>1 DEF UnderWay, Low, Top, High
<1>5. p \in 0 .. n - 1 /\ p + 1 - 1 = p
  BY <1>2
<1>6. stack[p].d = p + 1 /\ stack[p].no = call[t].no
  BY <1>4, <1>5 DEF IndexInv, Stacked
<1>7. stack[p].idx = IndexOf(t, p + 1)
  BY <1>5 DEF IndexOf
<1> QED
  BY <1>1, <1>2, <1>3, <1>4, <1>6, <1>7

LEMMA TakenIndices ==
  ASSUME NEW t, Threads = {t}, TypeInv, IndexInv(t), Answered(t) \/ NoAnswer(t)
  PROVE  IndexInv(t)'
<1>1. /\ pc[t] = "wait" /\ pc'[t] = "pull"
      /\ UNCHANGED <<fixed, answering, upsets, pushed, pulled, stack, call>>
      /\ used' = used \ {stack[pos[t]].idx}
      /\ got' = [got EXCEPT ![t] = Append(@, [no |-> stack[pos[t]].no, d |-> stack[pos[t]].d])]
  BY DEF Answered, NoAnswer, Goto, TypeInv, TypeOK
<1>2. PICK p \in Nat, n \in Nat : p = pos[t] /\ n = pushed
  BY DEF TypeInv, TypeOK, Slots
<1>3. /\ pulled = p + 1 /\ p < n /\ n = Len(datagrams) /\ call[t].no # 0
      /\ UnderWay(t) = p + 1 .. n
      /\ stack[p].d = p + 1 /\ stack[p].no = call[t].no
      /\ stack[p].idx = IndexOf(t, p + 1)
  BY <1>1, <1>2, EntryIs
<1>4. Control(t)'
  BY <1>1, <1>2, <1>3 DEF Control, Receiving, Sending, fixed
<1>5. Low(t) = p /\ Low(t)' = p + 1 /\ High(t) = n /\ High(t)' = n /\ UnderWay(t)' = p + 2 .. n
  BY <1>1, <1>2, <1>3 DEF Low, High, UnderWay, Top
<1>6. UnderWay(t)' = UnderWay(t) \ {p + 1} /\ p + 1 \in UnderWay(t)
  BY <1>3, <1>5
<1>7. \A d \in UnderWay(t) : IndexOf(t, d)' = IndexOf(t, d)
  BY <1>1 DEF IndexOf
<1>8. Stacked(t)'
  BY <1>1, <1>5 DEF IndexInv, Stacked
<1>9. Pulled(t)'
  <2>1. got[t] = [i \in 1 .. p |-> [no |-> call[t].no, d |-> i]]
    BY <1>5 DEF IndexInv, Pulled
  <2>2. got'[t] = Append(got[t], [no |-> call[t].no, d |-> p + 1])
    BY <1>1, <1>2, <1>3 DEF TypeInv
  <2>3. Append(got[t], [no |-> call[t].no, d |-> p + 1]) = [i \in 1 .. p + 1 |-> [no |-> call[t].no, d |-> i]]
    BY <2>1
  <2> QED
    BY <1>1, <1>5, <2>2, <2>3 DEF Pulled
<1>10. OneIndexEach(t)'
  <2>1. used' = {IndexOf(t, d)' : d \in UnderWay(t)'}
    BY <1>1, <1>2, <1>3, <1>6, <1>7 DEF IndexInv, OneIndexEach
  <2>2. \A d, e \in UnderWay(t)' : IndexOf(t, d)' = IndexOf(t, e)' => d = e
    BY <1>6, <1>7 DEF IndexInv, OneIndexEach
  <2> QED
    BY <2>1, <2>2 DEF OneIndexEach
<1>11. /\ back' \subseteq back /\ \A f \in back : f.d = p + 1 <=> f \notin back'
  <2>1. \A f \in back : f.idx = stack[pos[t]].idx <=> f.d = p + 1
    BY <1>2, <1>3, <1>6 DEF IndexInv, OneIndexEach, OnTheirWay
  <2>2. CASE Answered(t)
    <3>1. PICK f \in back : f.idx = stack[pos[t]].idx /\ back' = back \ {f}
      BY <2>2 DEF Answered
    <3>2. \A g \in back : g.idx = f.idx <=> g = f
      BY DEF IndexInv, OnTheirWay
    <3> QED
      BY <2>1, <3>1, <3>2
  <2>3. CASE NoAnswer(t)
    BY <2>1, <2>3 DEF NoAnswer
  <2> QED
    BY <2>2, <2>3
<1>12. OnTheirWay(t)'
  <2>1. \A f \in back' : f.d \in UnderWay(t)' /\ f.idx = IndexOf(t, f.d)'
    <3> TAKE f \in back'
    <3>1. f.d \in UnderWay(t) /\ f.d # p + 1 /\ f.idx = IndexOf(t, f.d)
      BY <1>11 DEF IndexInv, OnTheirWay
    <3> QED
      BY <1>6, <1>7, <3>1
  <2>2. \A f, g \in back' : f.idx = g.idx => f = g
    BY <1>11 DEF IndexInv, OnTheirWay
  <2>3. Slaves' = Slaves
    BY <1>1 DEF Slaves, fixed
  <2>4. upsets' = 0 => /\ answering' = Slaves'
                       /\ \A d \in UnderWay(t)' : \E f \in back' : f.d = d /\ f.heard = Slaves'
    BY <1>1, <1>6, <1>11, <2>3 DEF IndexInv, OnTheirWay
  <2> QED
    BY <2>1, <2>2, <2>4 DEF OnTheirWay
<1> QED
  BY <1>4, <1>8, <1>9, <1>10, <1>12 DEF IndexInv

LEMMA ClearIndices ==
  ASSUME NEW t, Threads = {t}, TypeInv, IndexInv(t), Clear(t)
  PROVE  IndexInv(t)'
<1>1. /\ pc[t] = "clear" /\ pc'[t] = "idle" /\ pushed' = 0 /\ pulled' = 0 /\ call'[t].no = 0
      /\ got'[t] = <<>>
      /\ UNCHANGED <<fixed, used, back, answering, upsets, stack>>
  BY DEF Clear, Goto, TypeInv, TypeOK
<1>2. pulled = pushed /\ pushed \in Nat
  BY <1>1 DEF IndexInv, Control, TypeInv, TypeOK
<1>3. UnderWay(t) = {} /\ UnderWay(t)' = {} /\ Low(t)' = 0 /\ High(t)' = 0
  BY <1>1, <1>2 DEF UnderWay, Low, Top, High
<1>4. OneIndexEach(t)' /\ OnTheirWay(t)'
  BY <1>1, <1>3, SameUnderWay DEF IndexInv, fixed
<1>5. Control(t)' /\ Stacked(t)' /\ Pulled(t)'
  BY <1>1, <1>3 DEF Control, Sending, Receiving, Stacked, Pulled
<1> QED
  BY <1>4, <1>5 DEF IndexInv

LEMMA IndexStep ==
  ASSUME NEW t, Threads = {t}, TypeInv, Indexed, IndexInv(t), [Next]_vars
  PROVE  IndexInv(t)'
<1>1. CASE SendStep(t)
  BY <1>1, StartSendIndices, SendDatagramIndices, PushIndices DEF SendStep
<1>2. CASE ReceiveStep(t)
  BY <1>2, PullIndices, TakenIndices, ClearIndices DEF ReceiveStep
<1>3. CASE WriteOutputs \/ LoseFrame \/ (\E s \in Slaves : FallSilent(s)) \/ UNCHANGED vars
  <2>1. UNCHANGED <<fixed, local, used, pushed, pulled, stack>>
    BY <1>3 DEF WriteOutputs, LoseFrame, FallSilent, vars, shared
  <2>2. Control(t)' /\ Stacked(t)' /\ OneIndexEach(t)' /\ Pulled(t)'
    BY <2>1 DEF IndexInv, Control, Stacked, High, Low, Top, UnderWay, IndexOf, OneIndexEach, Pulled,
                fixed, local
  <2>3. UnderWay(t)' = UnderWay(t) /\ (\A d : IndexOf(t, d)' = IndexOf(t, d)) /\ Slaves' = Slaves
    BY <2>1 DEF UnderWay, Low, Top, IndexOf, Slaves, fixed, local
  <2>4. back' \subseteq back /\ (upsets' = 0 => UNCHANGED <<upsets, back, answering>>)
    BY <1>3 DEF WriteOutputs, LoseFrame, FallSilent, Upset, vars, shared, TypeInv, TypeOK
  <2>5. OnTheirWay(t)'
    BY <2>3, <2>4 DEF IndexInv, OnTheirWay
  <2> QED
    BY <2>2, <2>5 DEF IndexInv
<1> QED
  BY <1>1, <1>2, <1>3 DEF Next

IndexedInv == TypeInv /\ (Indexed => \A t \in Threads : IndexInv(t))

LEMMA IndexedInductive ==
  ASSUME NEW t, Threads = {t}
  PROVE  Spec => []IndexedInv
<1>1. Init => IndexedInv
  BY TypeInit, IndexInit, LayoutInit DEF IndexedInv
<1>2. IndexedInv /\ [Next]_vars => IndexedInv'
  <2> SUFFICES ASSUME IndexedInv, [Next]_vars PROVE IndexedInv'
    OBVIOUS
  <2>1. TypeInv'
    BY TypeStep DEF IndexedInv
  <2>2. Indexed' <=> Indexed
    BY FixedStays, LayoutStays
  <2>3. Indexed => IndexInv(t)'
    BY IndexStep DEF IndexedInv
  <2> QED
    BY <2>1, <2>2, <2>3 DEF IndexedInv
<1> QED
  BY <1>1, <1>2, PTL DEF Spec

(***************************************************************************)
(* Exchanged by one thread, the process data leaves no index in use and    *)
(* nothing on idxstack between two exchanges, whatever frames are lost.    *)
(***************************************************************************)
THEOREM IndicesAreReturned ==
  ASSUME NEW t, Threads = {t}
  PROVE  Spec => []IndicesReturned
<1>1. IndexedInv => IndicesReturned
  <2> SUFFICES ASSUME IndexedInv, Indexed, pc[t] = "idle"
               PROVE  used = {} /\ pushed = 0 /\ pulled = 0
    BY DEF IndicesReturned
  <2>1. pushed = 0 /\ pulled = 0
    BY DEF IndexedInv, IndexInv, Control, TypeInv, TypeOK, Places
  <2>2. UnderWay(t) = {}
    BY <2>1 DEF UnderWay, Low, Top
  <2> QED
    BY <2>1, <2>2 DEF IndexedInv, IndexInv, OneIndexEach
<1> QED
  BY <1>1, IndexedInductive, PTL

(***************************************************************************)
(* With one thread the comment of ecx_receive_processdata_group is right:  *)
(* a receive takes the very datagrams off idxstack that the send before it *)
(* put there, all of them and in their order.  It is two threads that      *)
(* break it.                                                               *)
(***************************************************************************)
THEOREM OneThreadReadsWhatItSent ==
  ASSUME NEW t, Threads = {t}
  PROVE  Spec => []ReadsWhatItSent
<1>1. IndexedInv => ReadsWhatItSent
  <2> SUFFICES ASSUME IndexedInv, Indexed, pc[t] = "clear", call[t].no # 0
               PROVE  got[t] = [i \in DOMAIN datagrams |-> [no |-> call[t].no, d |-> i]]
    BY DEF ReadsWhatItSent, Returning
  <2>1. Low(t) = Len(datagrams)
    BY DEF IndexedInv, IndexInv, Control, Receiving, Low
  <2>2. DOMAIN datagrams = 1 .. Len(datagrams)
    BY DEF IndexedInv, TypeInv, TypeOK, LayoutTyped
  <2> QED
    BY <2>1, <2>2 DEF IndexedInv, IndexInv, Pulled
<1> QED
  BY <1>1, IndexedInductive, PTL

-----------------------------------------------------------------------------
(***************************************************************************)
(* The outputs in the image.  An answer under way holds, wherever it is    *)
(* put over outputs, the outputs the application wrote last.               *)
(***************************************************************************)
SavedOver(d, c) == d.cmd # "LWR" /\ d.data <= Place(c) /\ Place(c) < d.data + d.len

OutputsHeld ==
  /\ \A f \in back : \A c \in OutCells : SavedOver(datagrams[f.d], c) => f.holds[c] = written
  /\ \A c \in OutCells : image[c] = written

LEMMA OutputsStep ==
  ASSUME NEW t, Threads = {t}, TypeInv, Indexed, IndexInv(t), Fits, DatagramsTile, OutputsHeld,
         [Next]_vars
  PROVE  OutputsHeld'
<1>1. UNCHANGED fixed
  BY FixedStays
<1>2. OutCells' = OutCells /\ InCells' = InCells
  BY <1>1, LayoutStays
<1>3. \A d, c : SavedOver(d, c)' <=> SavedOver(d, c)
  BY <1>1 DEF SavedOver, Place, fixed
<1>4. SavedInPlace
  BY DEF DatagramsTile
<1>5. CASE WriteOutputs
  <2>1. back' = {}
    <3>1. pc[t] = "idle"
      BY <1>5 DEF WriteOutputs
    <3>2. UnderWay(t) = {}
      BY <3>1 DEF IndexInv, Control, TypeInv, TypeOK, Places, UnderWay, Low, Top
    <3> QED
      BY <1>5, <3>2 DEF WriteOutputs, shared, IndexInv, OnTheirWay
  <2>2. \A c \in OutCells : c \in DOMAIN image /\ c.dir = "out"
    BY DEF TypeInv, TypeOK, OutCells
  <2>3. \A c \in OutCells : image'[c] = written'
    BY <1>5, <2>2 DEF WriteOutputs
  <2> QED
    BY <1>2, <2>1, <2>3 DEF OutputsHeld
<1>6. CASE SendDatagram(t)
  <2> DEFINE d == datagrams[call[t].d]
             new == [idx |-> NextIndex, d |-> call[t].d, heard |-> answering,
                     holds |-> [c \in DOMAIN image |-> Answer(d, answering, call[t].no, c)]]
  <2>1. back' \subseteq back \cup {new} /\ UNCHANGED <<image, written>>
    BY <1>6 DEF SendDatagram
  <2>2. call[t].d \in DOMAIN datagrams /\ answering \subseteq Slaves
    BY <1>6 DEF SendDatagram, TypeInv, TypeOK, Places, Sending
  <2>3. ASSUME NEW c \in OutCells, SavedOver(d, c) PROVE Answer(d, answering, call[t].no, c) = image[c]
    <3>1. c.dir = "out"
      BY DEF OutCells
    <3>2. \A s \in Slaves : c.log \notin InBytes(s)
      BY <1>4, <2>2, <2>3, <3>1 DEF SavedInPlace, SavedOver
    <3> QED
      BY <2>2, <3>1, <3>2 DEF Answer
  <2>4. \A c \in OutCells : c \in DOMAIN image
    BY DEF TypeInv, TypeOK
  <2>5. \A c \in OutCells : SavedOver(datagrams[new.d], c) => new.holds[c] = written
    BY <2>3, <2>4 DEF OutputsHeld
  <2> HIDE DEF new
  <2> QED
    BY <1>1, <1>2, <1>3, <2>1, <2>5 DEF OutputsHeld, fixed
<1>7. CASE Answered(t)
  <2>1. PICK f \in back : /\ f.idx = stack[pos[t]].idx
                          /\ back' = back \ {f}
                          /\ image' = Copied(f, stack[pos[t]])
                          /\ UNCHANGED written
    BY <1>7 DEF Answered
  <2>2. f.d = stack[pos[t]].d /\ f.d \in DOMAIN datagrams
    <3>1. pc[t] = "wait"
      BY <1>7 DEF Answered
    <3>2. PICK p \in Nat : /\ p = pos[t] /\ p < pushed /\ UnderWay(t) = p + 1 .. pushed
                           /\ stack[p].d = p + 1 /\ stack[p].idx = IndexOf(t, p + 1)
      BY <3>1, EntryIs
    <3>3. pushed \in Nat
      BY DEF TypeInv, TypeOK
    <3>4. p + 1 \in UnderWay(t)
      BY <3>2, <3>3
    <3>5. f.d \in UnderWay(t) /\ f.idx = IndexOf(t, f.d)
      BY DEF IndexInv, OnTheirWay
    <3>6. f.d = p + 1
      BY <2>1, <3>2, <3>4, <3>5 DEF IndexInv, OneIndexEach
    <3>7. f.d \in DOMAIN datagrams
      BY DEF TypeInv, TypeOK
    <3> QED
      BY <3>2, <3>6, <3>7
  <2>3. ASSUME NEW c \in OutCells PROVE image'[c] = written
    <3> DEFINE d == datagrams[f.d]
    <3>1. c \in DOMAIN image
      BY DEF TypeInv, TypeOK
    <3>2. image'[c] = IF ~SavedOver(d, c) THEN image[c]
                      ELSE IF d.log + Place(c) - d.data = c.log THEN f.holds[c] ELSE Garbage
      BY <2>1, <2>2, <3>1 DEF Copied, SavedOver
    <3>3. SavedOver(d, c) => d.log + Place(c) - d.data = c.log
      BY <1>4, <2>2 DEF SavedInPlace, SavedOver
    <3> QED
      BY <3>2, <3>3 DEF OutputsHeld
  <2> QED
    BY <1>1, <1>2, <1>3, <2>1, <2>3 DEF OutputsHeld, fixed
<1>8. ASSUME back' \subseteq back, UNCHANGED <<image, written>> PROVE OutputsHeld'
  BY <1>1, <1>2, <1>3, <1>8 DEF OutputsHeld, fixed
<1>9. ASSUME SendStep(t), ~SendDatagram(t) PROVE back' \subseteq back /\ UNCHANGED <<image, written>>
  BY <1>9 DEF SendStep, StartSend, PushEntry, PushCount, PushFull, shared
<1>10. ASSUME ReceiveStep(t), ~Answered(t) PROVE back' \subseteq back /\ UNCHANGED <<image, written>>
  BY <1>10 DEF ReceiveStep, StartReceive, PullPlace, PullCount, PullNone, NoAnswer, Clear, shared
<1>11. ASSUME LoseFrame \/ (\E s \in Slaves : FallSilent(s)) \/ UNCHANGED vars
       PROVE  back' \subseteq back /\ UNCHANGED <<image, written>>
  BY <1>11 DEF LoseFrame, FallSilent, vars, shared
<1> QED
  BY <1>5, <1>6, <1>7, <1>8, <1>9, <1>10, <1>11 DEF Next

(***************************************************************************)
(* Exchanged by one thread, the answers put into the image never touch the *)
(* outputs: it holds what the application wrote, whatever comes back or is *)
(* lost.                                                                   *)
(***************************************************************************)
THEOREM OutputsAreKept ==
  ASSUME NEW t, Threads = {t}, LRWWhereOverlapping
  PROVE  Spec => []OutputsKept
<1>1. Init => DatagramsTile /\ OutputsHeld
  BY TilesInit DEF Init, OutputsHeld
<1>2. IndexedInv /\ DatagramsTile /\ (Indexed /\ Fits => OutputsHeld) /\ [Next]_vars
        => DatagramsTile' /\ (Indexed /\ Fits => OutputsHeld)'
  <2> SUFFICES ASSUME IndexedInv, DatagramsTile, Indexed /\ Fits => OutputsHeld, [Next]_vars
               PROVE  DatagramsTile' /\ (Indexed /\ Fits => OutputsHeld)'
    OBVIOUS
  <2>1. (Indexed' <=> Indexed) /\ (Fits' <=> Fits) /\ DatagramsTile'
    BY FixedStays, LayoutStays
  <2>2. Indexed /\ Fits => OutputsHeld'
    BY OutputsStep DEF IndexedInv
  <2> QED
    BY <2>1, <2>2
<1>3. DatagramsTile /\ (Indexed /\ Fits => OutputsHeld) => OutputsKept
  BY DEF OutputsHeld, OutputsKept
<1> QED
  BY <1>1, <1>2, <1>3, IndexedInductive, PTL DEF Spec

-----------------------------------------------------------------------------
(***************************************************************************)
(* The working counter.  If no sync manager is broken each slave is read   *)
(* by at most one datagram and written by at most one: the slaves of the   *)
(* first p datagrams split into those of each.                             *)
(***************************************************************************)
Readers(i) == {s \in Slaves : Reads(datagrams[i], s)}
Writers(i) == {s \in Slaves : Writes(datagrams[i], s)}

ReadUpTo(p)    == {s \in Slaves : \E i \in DOMAIN datagrams : i <= p /\ Reads(datagrams[i], s)}
WrittenUpTo(p) == {s \in Slaves : \E i \in DOMAIN datagrams : i <= p /\ Writes(datagrams[i], s)}

LEMMA CardinalityOfUnion ==
  ASSUME NEW S, IsFiniteSet(S), NEW A \in SUBSET S, NEW B \in SUBSET S, A \cap B = {}
  PROVE  Cardinality(A \cup B) = Cardinality(A) + Cardinality(B)
<1>1. IsFiniteSet(A) /\ IsFiniteSet(B)
  BY FS_Subset
<1>2. Cardinality(A) \in Nat /\ Cardinality(B) \in Nat /\ Cardinality(A \cap B) = 0
  BY <1>1, FS_CardinalityType, FS_EmptySet
<1>3. Cardinality(A \cup B) = Cardinality(A) + Cardinality(B) - Cardinality(A \cap B)
  BY <1>1, FS_Union
<1> QED
  BY <1>2, <1>3

LEMMA SizeOfSlaves ==
  ASSUME LayoutTyped, NEW A \in SUBSET Slaves
  PROVE  /\ IsFiniteSet(A) /\ Cardinality(A) \in Nat
         /\ \A B \in SUBSET A : Cardinality(B) \in Nat /\ Cardinality(B) <= Cardinality(A)
         /\ \A B \in SUBSET A : Cardinality(B) = Cardinality(A) => B = A
<1>1. IsFiniteSet(A)
  BY SlavesFinite, FS_Subset
<1> QED
  BY <1>1, FS_Subset, FS_CardinalityType

LEMMA NextSlaves ==
  ASSUME LayoutTyped, SmNotBroken, NEW p \in Nat, p + 1 \in DOMAIN datagrams
  PROVE  /\ ReadUpTo(p + 1) = ReadUpTo(p) \cup Readers(p + 1)
         /\ ReadUpTo(p) \cap Readers(p + 1) = {}
         /\ WrittenUpTo(p + 1) = WrittenUpTo(p) \cup Writers(p + 1)
         /\ WrittenUpTo(p) \cap Writers(p + 1) = {}
         /\ Cardinality(ReadUpTo(p + 1)) = Cardinality(ReadUpTo(p)) + Cardinality(Readers(p + 1))
         /\ Cardinality(WrittenUpTo(p + 1)) = Cardinality(WrittenUpTo(p)) + Cardinality(Writers(p + 1))
<1>1. \A i \in DOMAIN datagrams : i \in Nat /\ (i <= p + 1 <=> i <= p \/ i = p + 1) /\ ~(p + 1 <= p)
  BY DEF LayoutTyped
<1>2. ReadUpTo(p + 1) = ReadUpTo(p) \cup Readers(p + 1)
  BY <1>1 DEF ReadUpTo, Readers
<1>3. WrittenUpTo(p + 1) = WrittenUpTo(p) \cup Writers(p + 1)
  BY <1>1 DEF WrittenUpTo, Writers
<1>4. ReadUpTo(p) \cap Readers(p + 1) = {}
  BY <1>1 DEF ReadUpTo, Readers, SmNotBroken
<1>5. WrittenUpTo(p) \cap Writers(p + 1) = {}
  BY <1>1 DEF WrittenUpTo, Writers, SmNotBroken
<1>6. /\ ReadUpTo(p) \subseteq Slaves /\ Readers(p + 1) \subseteq Slaves
      /\ WrittenUpTo(p) \subseteq Slaves /\ Writers(p + 1) \subseteq Slaves
  BY DEF ReadUpTo, Readers, WrittenUpTo, Writers
<1>7. Cardinality(ReadUpTo(p) \cup Readers(p + 1)) = Cardinality(ReadUpTo(p)) + Cardinality(Readers(p + 1))
  BY <1>4, <1>6, SlavesFinite, CardinalityOfUnion
<1>8. Cardinality(WrittenUpTo(p) \cup Writers(p + 1)) = Cardinality(WrittenUpTo(p)) + Cardinality(Writers(p + 1))
  BY <1>5, <1>6, SlavesFinite, CardinalityOfUnion
<1> QED
  BY <1>2, <1>3, <1>4, <1>5, <1>7, <1>8

\* Over LRW, or over LRD and LWR as ecx_receive_processdata_group weighs them, a slave
\* that is read adds one and a slave that is written two.
LEMMA CounterIs ==
  ASSUME LayoutTyped, NEW i \in DOMAIN datagrams, NEW heard \in SUBSET Slaves
  PROVE  (IF datagrams[i].cmd = "LWR" THEN 2 ELSE 1) * Counter(datagrams[i], heard)
           = Cardinality(heard \cap Readers(i)) + 2 * Cardinality(heard \cap Writers(i))
<1> DEFINE d == datagrams[i]
<1>1. /\ {s \in heard : Reads(d, s)} = heard \cap Readers(i)
      /\ {s \in heard : Writes(d, s)} = heard \cap Writers(i)
  BY DEF Readers, Writers
<1>2. PICK r \in Nat, w \in Nat : /\ r = Cardinality(heard \cap Readers(i))
                                  /\ w = Cardinality(heard \cap Writers(i))
  BY SizeOfSlaves
<1>3. Counter(d, heard) = r + (IF d.cmd = "LRW" THEN 2 ELSE 1) * w
  BY <1>1, <1>2 DEF Counter
<1>4. d.cmd \in {"LRD", "LWR", "LRW"}
  <2>1. datagrams[i] \in Datagram
    BY DEF LayoutTyped
  <2> QED
    BY <2>1 DEF Datagram
<1>5. d.cmd = "LWR" => r = 0
  BY <1>2, FS_EmptySet DEF Readers, Reads
<1>6. d.cmd = "LRD" => w = 0
  BY <1>2, FS_EmptySet DEF Writers, Writes
<1> HIDE DEF d
<1>7. (IF d.cmd = "LWR" THEN 2 ELSE 1) * Counter(d, heard) = r + 2 * w
  BY <1>3, <1>4, <1>5, <1>6
<1> QED
  BY <1>2, <1>7 DEF d

\* a slave with data of a direction has a byte of it, one without has none
LEMMA HasBytes ==
  ASSUME LayoutTyped, NEW s \in Slaves
  PROVE  /\ InBytes(s) = {} <=> net.slaves[s].Ibits = 0
         /\ OutBytes(s) = {} <=> net.slaves[s].Obits = 0
<1>1. ASSUME NEW a \in Nat, NEW n \in Nat PROVE Occupied(a, n) = {} <=> n = 0
  <2>1. CASE n # 0
    <3>1. SizeOf(n) \in Nat /\ SizeOf(n) > 0
      BY <2>1 DEF SizeOf, Bytes
    <3>2. PICK k \in Nat : k = SizeOf(n) /\ k > 0
      BY <3>1
    <3>3. a \div 8 \in a \div 8 .. (a + k - 1) \div 8
      BY <3>2
    <3> QED
      BY <2>1, <3>2, <3>3 DEF Occupied
  <2> QED
    BY <2>1 DEF Occupied
<1>2. net.slaves[s].Ibits \in Nat /\ net.slaves[s].Obits \in Nat
  <2>1. net.slaves[s] \in SlaveSizes
    BY NetworksAssumption DEF LayoutTyped, Slaves
  <2> QED
    BY <2>1 DEF SlaveSizes
<1>3. group.inAt[s] \in Nat /\ group.outAt[s] \in Nat
  BY DEF LayoutTyped
<1> QED
  BY <1>1, <1>2, <1>3 DEF InBytes, OutBytes

\* what all datagrams together read and write is what the expected counter counts
LEMMA AllSlaves ==
  ASSUME LayoutTyped, DatagramsTile, Fits, NEW n, n = Len(datagrams)
  PROVE  /\ Cardinality(ReadUpTo(n)) = inputsWKC(net.slaves)
         /\ Cardinality(WrittenUpTo(n)) = outputsWKC(net.slaves)
         /\ \A c \in InCells : c.slave \in ReadUpTo(n)
<1>1. \A i \in DOMAIN datagrams : i <= n
  BY DEF LayoutTyped
<1>2. ReadUpTo(n) = {s \in Slaves : net.slaves[s].Ibits # 0}
  <2>1. ASSUME NEW s \in Slaves, NEW b \in InBytes(s)
        PROVE  \E i \in DOMAIN datagrams : Reads(datagrams[i], s)
    <3>1. PICK i \in DOMAIN datagrams : Only(i, LAMBDA d : d.cmd \in {"LRD", "LRW"} /\ Covers(d, b))
      BY DEF DatagramsTile
    <3>2. datagrams[i].cmd \in {"LRD", "LRW"} /\ Covers(datagrams[i], b)
      BY <3>1 DEF Only
    <3> QED
      BY <3>2 DEF Reads
  <2>2. \A s \in Slaves : InBytes(s) = {} => \A i \in DOMAIN datagrams : ~Reads(datagrams[i], s)
    BY DEF Reads
  <2> QED
    BY <1>1, <2>1, <2>2, HasBytes DEF ReadUpTo
<1>3. WrittenUpTo(n) = {s \in Slaves : net.slaves[s].Obits # 0}
  <2>1. ASSUME NEW s \in Slaves, NEW b \in OutBytes(s)
        PROVE  \E i \in DOMAIN datagrams : Writes(datagrams[i], s)
    <3>1. PICK i \in DOMAIN datagrams : Only(i, LAMBDA d : d.cmd \in {"LWR", "LRW"} /\ Covers(d, b))
      BY DEF DatagramsTile
    <3>2. datagrams[i].cmd \in {"LWR", "LRW"} /\ Covers(datagrams[i], b)
      BY <3>1 DEF Only
    <3> QED
      BY <3>2 DEF Writes
  <2>2. \A s \in Slaves : OutBytes(s) = {} => \A i \in DOMAIN datagrams : ~Writes(datagrams[i], s)
    BY DEF Writes
  <2> QED
    BY <1>1, <2>1, <2>2, HasBytes DEF WrittenUpTo
<1>4. \A c \in InCells : c.slave \in Slaves /\ InBytes(c.slave) # {}
  BY DEF InCells
<1>5. \A c \in InCells : c.slave \in ReadUpTo(n)
  BY <1>2, <1>4, HasBytes
<1> QED
  BY <1>2, <1>3, <1>5 DEF inputsWKC, outputsWKC, Slaves

-----------------------------------------------------------------------------
(***************************************************************************)
(* While a receive sums up, the counter never exceeds what the slaves      *)
(* whose inputs are already new in the image and the slaves that could     *)
(* have been written account for; without an upset it is exactly what the  *)
(* datagrams taken so far make up.                                         *)
(***************************************************************************)
FreshUpTo(t, p) == {s \in ReadUpTo(p) : \A c \in InCells : c.slave = s => image[c] = call[t].no}

Counted(t) ==
  /\ \A f \in back : \A c \in InCells : c.slave \in f.heard => f.holds[c] = call[t].no
  /\ wkc[t] <= Cardinality(FreshUpTo(t, Low(t))) + 2 * Cardinality(WrittenUpTo(Low(t)))
  /\ upsets = 0 =>
       wkc[t] = IF Low(t) = 0 THEN EC_NOFRAME
                ELSE Cardinality(ReadUpTo(Low(t))) + 2 * Cardinality(WrittenUpTo(Low(t)))

LEMMA UpToStays ==
  ASSUME UNCHANGED fixed, NEW p
  PROVE  ReadUpTo(p)' = ReadUpTo(p) /\ WrittenUpTo(p)' = WrittenUpTo(p)
<1>1. Slaves' = Slaves
  BY LayoutStays
<1> QED
  BY <1>1 DEF fixed, ReadUpTo, WrittenUpTo, Reads, Writes, Covers, InBytes, OutBytes

LEMMA NothingYet ==
  ASSUME LayoutTyped, NEW t
  PROVE  /\ ReadUpTo(0) = {} /\ WrittenUpTo(0) = {} /\ FreshUpTo(t, 0) = {}
         /\ Cardinality(ReadUpTo(0)) = 0 /\ Cardinality(WrittenUpTo(0)) = 0
         /\ Cardinality(FreshUpTo(t, 0)) = 0
<1>1. \A i \in DOMAIN datagrams : ~(i <= 0)
  BY DEF LayoutTyped
<1>2. ReadUpTo(0) = {} /\ WrittenUpTo(0) = {}
  BY <1>1 DEF ReadUpTo, WrittenUpTo
<1>3. FreshUpTo(t, 0) = {}
  BY <1>2 DEF FreshUpTo
<1> QED
  BY <1>2, <1>3, FS_EmptySet

\* between two calls of receive, or before the first datagram of one, nothing is counted
LEMMA NothingCountedNext ==
  ASSUME NEW t, LayoutTyped', back' = {}, Low(t)' = 0, wkc'[t] \in Int, wkc'[t] <= 0,
         upsets' = 0 => wkc'[t] = EC_NOFRAME
  PROVE  Counted(t)'
<1>1. /\ Cardinality(FreshUpTo(t, 0))' = 0 /\ Cardinality(WrittenUpTo(0))' = 0
  <2>1. FreshUpTo(t, 0)' = {} /\ WrittenUpTo(0)' = {}
    BY DEF LayoutTyped, FreshUpTo, ReadUpTo, WrittenUpTo
  <2> QED
    BY <2>1, FS_EmptySet
<1> QED
  BY <1>1 DEF Counted

\* steps that neither put inputs into the image nor go on to another datagram
LEMMA CountedStays ==
  ASSUME NEW t, LayoutTyped, Counted(t), UNCHANGED fixed,
         Low(t)' = Low(t), wkc'[t] = wkc[t], call'[t].no = call[t].no,
         \A c \in InCells : image'[c] = image[c],
         \A f \in back' : f \in back \/ \A c \in InCells : c.slave \in f.heard => f.holds[c] = call[t].no,
         upsets' = 0 => upsets = 0
  PROVE  Counted(t)'
<1>1. InCells' = InCells
  BY LayoutStays
<1>2. PICK p, no : p = Low(t) /\ no = call[t].no
  OBVIOUS
<1>3. Low(t)' = p /\ ReadUpTo(p)' = ReadUpTo(p) /\ WrittenUpTo(p)' = WrittenUpTo(p)
  BY <1>2, UpToStays
<1>4. FreshUpTo(t, p)' = FreshUpTo(t, p)
  BY <1>1, <1>3 DEF FreshUpTo
<1> QED
  BY <1>1, <1>2, <1>3, <1>4 DEF Counted

\* the answer to datagram p + 1 renews the inputs of the slaves that it read and that answered, and no other
LEMMA InputsRenewed ==
  ASSUME LayoutTyped, Fits, DatagramsTile, SmNotBroken,
         NEW p \in Nat, p + 1 \in DOMAIN datagrams,
         NEW f, f.d = p + 1, NEW e, e.d = p + 1, NEW c \in InCells, c \in DOMAIN image
  PROVE  /\ c.slave \in Readers(p + 1) => Copied(f, e)[c] = f.holds[c]
         /\ c.slave \notin Readers(p + 1) => Copied(f, e)[c] = image[c]
<1> DEFINE d == datagrams[p + 1]
<1>1. c.dir = "in" /\ c.slave \in Slaves /\ c.log \in InBytes(c.slave)
  BY DEF InCells
<1>2. Copied(f, e)[c] = IF ~SavedOver(d, c) THEN image[c]
                        ELSE IF d.log + Place(c) - d.data = c.log THEN f.holds[c] ELSE Garbage
  BY DEF Copied, SavedOver
<1>3. SavedOver(d, c) => d.log + Place(c) - d.data = c.log
  BY DEF DatagramsTile, SavedInPlace, SavedOver, Cells
<1>4. Place(c) = c.log + group.inputs /\ c.log \in Int /\ group.inputs \in Nat
  <2>1. ASSUME NEW a, NEW n PROVE \A b \in Occupied(a, n) : b \in Int
    BY DEF Occupied
  <2>2. c.log \in Int
    BY <1>1, <2>1 DEF InBytes
  <2> QED
    BY <1>1, <2>2 DEF Place, LayoutTyped
<1>5. d \in Datagram
  BY DEF LayoutTyped
<1>6. d.log \in Nat /\ d.len \in Nat /\ d.data \in Nat /\ d.cmd \in {"LRD", "LWR", "LRW"}
  BY <1>5 DEF Datagram
<1> HIDE DEF d
<1>7. ASSUME c.slave \in Readers(p + 1) PROVE SavedOver(d, c)
  <2>1. PICK i \in DOMAIN datagrams :
          /\ Only(i, LAMBDA x : x.cmd \in {"LRD", "LRW"} /\ Covers(x, c.log))
          /\ datagrams[i].data - datagrams[i].log = group.inputs
    BY <1>1 DEF DatagramsTile
  <2>2. datagrams[i].cmd \in {"LRD", "LRW"} /\ Covers(datagrams[i], c.log)
    BY <2>1 DEF Only
  <2>3. Reads(datagrams[i], c.slave)
    BY <1>1, <2>2 DEF Reads
  <2>4. i = p + 1
    BY <1>1, <1>7, <2>3 DEF Readers, SmNotBroken
  <2> QED
    BY <1>4, <1>6, <2>1, <2>2, <2>4 DEF SavedOver, Covers, d
<1>8. ASSUME SavedOver(d, c) PROVE c.slave \in Readers(p + 1)
  <2>1. d.cmd \in {"LRD", "LRW"} /\ Covers(d, c.log)
    BY <1>3, <1>4, <1>6, <1>8 DEF SavedOver, Covers
  <2> QED
    BY <1>1, <2>1 DEF Readers, Reads, d
<1> QED
  BY <1>2, <1>3, <1>7, <1>8

\* what ecx_receive_processdata_group adds for an answer: what the slaves that answered it make up
LEMMA AddedIs ==
  ASSUME LayoutTyped, NEW sum \in Int, NEW f, f.d \in DOMAIN datagrams, f.heard \subseteq Slaves
  PROVE  Added(sum, f, datagrams[f.d].dc)
           = (IF sum = EC_NOFRAME \/ datagrams[f.d].dc THEN 0 ELSE sum)
             + Cardinality(f.heard \cap Readers(f.d)) + 2 * Cardinality(f.heard \cap Writers(f.d))
<1> DEFINE d == datagrams[f.d]
           times == IF d.cmd = "LWR" THEN 2 ELSE 1
<1>1. PICK r \in Nat, w \in Nat : /\ r = Cardinality(f.heard \cap Readers(f.d))
                                  /\ w = Cardinality(f.heard \cap Writers(f.d))
  BY SizeOfSlaves
<1>2. times * Counter(d, f.heard) = r + 2 * w
  BY <1>1, CounterIs
<1>3. CASE d.dc
  <2>1. Added(sum, f, d.dc) = times * Counter(d, f.heard)
    BY <1>3 DEF Added
  <2>2. (IF sum = EC_NOFRAME \/ d.dc THEN 0 ELSE sum) = 0
    BY <1>3
  <2>3. Added(sum, f, d.dc) = 0 + r + 2 * w
    BY <1>1, <1>2, <2>1
  <2> QED
    BY <1>1, <2>2, <2>3
<1>4. CASE ~d.dc
  <2>1. Added(sum, f, d.dc) = (IF sum = EC_NOFRAME THEN 0 ELSE sum) + times * Counter(d, f.heard)
    BY <1>4 DEF Added
  <2>2. PICK k \in Nat : k = r + 2 * w
    BY <1>1
  <2> QED
    BY <1>1, <1>2, <1>4, <2>1, <2>2
<1> QED
  BY <1>3, <1>4

LEMMA AnsweredCounted ==
  ASSUME NEW t, Threads = {t}, TypeInv, IndexInv(t), Fits, DatagramsTile, SmNotBroken, Counted(t),
         Answered(t)
  PROVE  Counted(t)'
<1>1. PICK f \in back : /\ f.idx = stack[pos[t]].idx
                        /\ back' = back \ {f}
                        /\ image' = Copied(f, stack[pos[t]])
                        /\ wkc' = [wkc EXCEPT ![t] = Added(@, f, datagrams[stack[pos[t]].d].dc)]
  BY DEF Answered
<1>2. pc[t] = "wait" /\ pc'[t] = "pull" /\ UNCHANGED <<fixed, pulled, call, upsets>>
  BY DEF Answered, Goto, TypeInv, TypeOK
<1>3. PICK p \in Nat : p = pos[t]
  BY DEF TypeInv, TypeOK, Slots
<1>4. /\ pulled = p + 1 /\ stack[pos[t]].d = p + 1 /\ p + 1 \in UnderWay(t) /\ f.d = p + 1
      /\ p + 1 \in DOMAIN datagrams
  <2>1. /\ pulled = p + 1 /\ stack[pos[t]].d = p + 1 /\ p + 1 \in UnderWay(t)
        /\ stack[pos[t]].idx = IndexOf(t, p + 1)
    BY <1>2, <1>3, EntryIs DEF TypeInv, TypeOK
  <2>2. f.d = p + 1
    BY <1>1, <2>1 DEF IndexInv, OneIndexEach, OnTheirWay
  <2> QED
    BY <2>1, <2>2 DEF TypeInv, TypeOK
<1>5. Low(t) = p /\ Low(t)' = p + 1
  BY <1>2, <1>3, <1>4 DEF Low
<1>6. LayoutTyped /\ f.heard \subseteq Slaves /\ DOMAIN image = Cells /\ wkc[t] \in Int /\ wkc[t] >= EC_NOFRAME
  BY DEF TypeInv, TypeOK, Cells
<1>7. InCells' = InCells /\ InCells \subseteq Cells
  BY <1>2, LayoutStays DEF Cells
<1>8. PICK no : no = call[t].no /\ call'[t].no = no
  BY <1>2
<1> DEFINE fresh == FreshUpTo(t, p)
           more  == f.heard \cap Readers(p + 1)
<1>9. ASSUME NEW c \in InCells
      PROVE  /\ c.slave \in more => image'[c] = no
             /\ c.slave \notin Readers(p + 1) => image'[c] = image[c]
  <2>1. /\ c.slave \in Readers(p + 1) => image'[c] = f.holds[c]
        /\ c.slave \notin Readers(p + 1) => image'[c] = image[c]
    BY <1>1, <1>4, <1>6, <1>7, InputsRenewed
  <2>2. c.slave \in f.heard => f.holds[c] = no
    BY <1>8 DEF Counted
  <2> QED
    BY <2>1, <2>2
<1>10. /\ ReadUpTo(p + 1) = ReadUpTo(p) \cup Readers(p + 1)
       /\ ReadUpTo(p) \cap Readers(p + 1) = {}
       /\ Cardinality(ReadUpTo(p + 1)) = Cardinality(ReadUpTo(p)) + Cardinality(Readers(p + 1))
       /\ Cardinality(WrittenUpTo(p + 1)) = Cardinality(WrittenUpTo(p)) + Cardinality(Writers(p + 1))
  BY <1>4, <1>6, NextSlaves
<1>11. ReadUpTo(p + 1)' = ReadUpTo(p + 1) /\ WrittenUpTo(p + 1)' = WrittenUpTo(p + 1)
  BY <1>2, UpToStays
<1>12. fresh \cup more \subseteq FreshUpTo(t, p + 1)'
  <2>1. \A s \in fresh \cup more : s \in ReadUpTo(p + 1)'
    BY <1>10, <1>11 DEF FreshUpTo
  <2>2. \A s \in fresh : s \notin Readers(p + 1)
    BY <1>10 DEF FreshUpTo
  <2>3. \A s \in fresh : \A c \in InCells : c.slave = s => image'[c] = no
    BY <1>8, <1>9, <2>2 DEF FreshUpTo
  <2>4. \A s \in more : \A c \in InCells : c.slave = s => image'[c] = no
    BY <1>9
  <2> QED
    BY <1>7, <1>8, <2>1, <2>3, <2>4 DEF FreshUpTo
<1>13. Cardinality(fresh) + Cardinality(more) <= Cardinality(FreshUpTo(t, p + 1)')
  <2>1. fresh \cap more = {} /\ fresh \subseteq Slaves /\ more \subseteq Slaves
    BY <1>6, <1>10 DEF FreshUpTo, ReadUpTo
  <2>2. Cardinality(fresh \cup more) = Cardinality(fresh) + Cardinality(more)
    BY <1>6, <2>1, SlavesFinite, CardinalityOfUnion
  <2>3. FreshUpTo(t, p + 1)' \subseteq Slaves
    BY <1>11 DEF FreshUpTo, ReadUpTo
  <2>4. Cardinality(fresh \cup more) <= Cardinality(FreshUpTo(t, p + 1)')
    BY <1>6, <1>12, <2>3, SizeOfSlaves
  <2> QED
    BY <2>2, <2>4
<1>14. PICK F \in Nat, F1 \in Nat, W \in Nat, W1 \in Nat, R \in Nat, Rp \in Nat, Wp \in Nat,
            r \in Nat, w \in Nat :
         /\ F = Cardinality(fresh) /\ F1 = Cardinality(FreshUpTo(t, p + 1)')
         /\ W = Cardinality(WrittenUpTo(p)) /\ W1 = Cardinality(Writers(p + 1))
         /\ R = Cardinality(Readers(p + 1)) /\ Rp = Cardinality(ReadUpTo(p))
         /\ Wp = Cardinality(WrittenUpTo(p + 1))
         /\ r = Cardinality(more) /\ w = Cardinality(f.heard \cap Writers(p + 1))
  <2>1. /\ fresh \subseteq Slaves /\ FreshUpTo(t, p + 1)' \subseteq Slaves
        /\ WrittenUpTo(p) \subseteq Slaves /\ Writers(p + 1) \subseteq Slaves
        /\ Readers(p + 1) \subseteq Slaves /\ ReadUpTo(p) \subseteq Slaves
        /\ WrittenUpTo(p + 1) \subseteq Slaves /\ more \subseteq Slaves
        /\ f.heard \cap Writers(p + 1) \subseteq Slaves
    BY <1>6, <1>11 DEF FreshUpTo, ReadUpTo, WrittenUpTo, Readers, Writers
  <2>2. \A A \in SUBSET Slaves : Cardinality(A) \in Nat
    BY <1>6, SizeOfSlaves
  <2>3. /\ Cardinality(fresh) \in Nat /\ Cardinality(FreshUpTo(t, p + 1)') \in Nat
        /\ Cardinality(WrittenUpTo(p)) \in Nat /\ Cardinality(Writers(p + 1)) \in Nat
        /\ Cardinality(Readers(p + 1)) \in Nat /\ Cardinality(ReadUpTo(p)) \in Nat
        /\ Cardinality(WrittenUpTo(p + 1)) \in Nat /\ Cardinality(more) \in Nat
        /\ Cardinality(f.heard \cap Writers(p + 1)) \in Nat
    BY <2>1, <2>2
  <2> HIDE DEF fresh, more
  <2> QED
    BY <2>3
<1>15. w <= W1
  BY <1>6, <1>14, SizeOfSlaves DEF Writers
<1>16. PICK k \in Int : k = wkc[t] /\ k >= EC_NOFRAME
  BY <1>6
<1>17. wkc'[t] = (IF k = EC_NOFRAME \/ datagrams[p + 1].dc THEN 0 ELSE k) + r + 2 * w
  <2>1. Added(k, f, datagrams[f.d].dc)
          = (IF k = EC_NOFRAME \/ datagrams[f.d].dc THEN 0 ELSE k)
            + Cardinality(f.heard \cap Readers(f.d)) + 2 * Cardinality(f.heard \cap Writers(f.d))
    BY <1>4, <1>6, AddedIs
  <2>2. wkc'[t] = Added(k, f, datagrams[f.d].dc)
    BY <1>1, <1>4, <1>16 DEF TypeInv
  <2> QED
    BY <1>4, <1>14, <2>1, <2>2
<1>18. datagrams[p + 1].dc => p = 0
  BY <1>4, <1>6 DEF LayoutTyped
<1>19. k <= F + 2 * W /\ (upsets = 0 => k = IF p = 0 THEN EC_NOFRAME ELSE Rp + 2 * W)
  BY <1>5, <1>14, <1>16 DEF Counted
<1>20. F + r <= F1 /\ Wp = W + W1
  BY <1>10, <1>13, <1>14
<1>21. wkc'[t] <= F1 + 2 * Wp
  BY <1>15, <1>17, <1>19, <1>20
<1>22. ASSUME upsets = 0 PROVE wkc'[t] = Rp + R + 2 * Wp
  <2>1. f.heard = Slaves
    BY <1>1, <1>4, <1>22 DEF IndexInv, OnTheirWay
  <2>2. r = R /\ w = W1
    <3>1. more = Readers(p + 1) /\ f.heard \cap Writers(p + 1) = Writers(p + 1)
      BY <2>1 DEF Readers, Writers
    <3> QED
      BY <1>14, <3>1
  <2>3. p = 0 => Rp = 0 /\ W = 0
    BY <1>6, <1>14, NothingYet
  <2> QED
    BY <1>17, <1>18, <1>19, <1>20, <1>22, <2>2, <2>3 DEF EC_NOFRAME
<1>23. \A g \in back' : \A c \in InCells : c.slave \in g.heard => g.holds[c] = no
  BY <1>1, <1>8 DEF Counted
<1>24. wkc'[t] <= Cardinality(FreshUpTo(t, Low(t))') + 2 * Cardinality(WrittenUpTo(Low(t))')
  BY <1>5, <1>11, <1>14, <1>21 DEF FreshUpTo
<1>25. upsets' = 0 => wkc'[t] = Cardinality(ReadUpTo(Low(t))') + 2 * Cardinality(WrittenUpTo(Low(t))')
  BY <1>2, <1>5, <1>10, <1>11, <1>14, <1>22
<1> QED
  BY <1>5, <1>7, <1>8, <1>23, <1>24, <1>25 DEF Counted

\* a datagram that stays without an answer adds nothing, and none is new: but none stays so
\* without an upset
LEMMA NoAnswerCounted ==
  ASSUME NEW t, Threads = {t}, TypeInv, IndexInv(t), SmNotBroken, Counted(t), NoAnswer(t)
  PROVE  Counted(t)'
<1>1. /\ pc[t] = "wait" /\ pc'[t] = "pull"
      /\ UNCHANGED <<fixed, pulled, call, upsets, back, image, wkc>>
      /\ \A f \in back : f.idx # stack[pos[t]].idx
  BY DEF NoAnswer, Goto, TypeInv, TypeOK
<1>2. PICK p \in Nat : p = pos[t]
  BY DEF TypeInv, TypeOK, Slots
<1>3. /\ pulled = p + 1 /\ p + 1 \in UnderWay(t) /\ stack[pos[t]].idx = IndexOf(t, p + 1)
      /\ p + 1 \in DOMAIN datagrams
  <2>1. /\ pulled = p + 1 /\ stack[pos[t]].d = p + 1 /\ stack[pos[t]].idx = IndexOf(t, p + 1)
        /\ UnderWay(t) = p + 1 .. pushed /\ pushed = Len(datagrams) /\ p < pushed
    BY <1>1, <1>2, EntryIs DEF TypeInv, TypeOK
  <2> QED
    BY <2>1 DEF TypeInv, TypeOK, LayoutTyped
<1>4. Low(t) = p /\ Low(t)' = p + 1 /\ LayoutTyped
  BY <1>1, <1>2, <1>3 DEF Low, TypeInv, TypeOK
<1>5. upsets # 0
  BY <1>1, <1>3 DEF IndexInv, OnTheirWay
<1>6. ReadUpTo(p + 1)' = ReadUpTo(p + 1) /\ WrittenUpTo(p + 1)' = WrittenUpTo(p + 1) /\ InCells' = InCells
  BY <1>1, UpToStays, LayoutStays
<1>7. /\ ReadUpTo(p) \subseteq ReadUpTo(p + 1) /\ WrittenUpTo(p) \subseteq WrittenUpTo(p + 1)
      /\ ReadUpTo(p + 1) \subseteq Slaves /\ WrittenUpTo(p + 1) \subseteq Slaves
  BY <1>3, <1>4, NextSlaves DEF ReadUpTo, WrittenUpTo
<1>8. FreshUpTo(t, p) \subseteq FreshUpTo(t, p + 1)' /\ FreshUpTo(t, p + 1)' \subseteq Slaves
  BY <1>1, <1>6, <1>7 DEF FreshUpTo
<1>9. /\ Cardinality(FreshUpTo(t, p)) <= Cardinality(FreshUpTo(t, p + 1)')
      /\ Cardinality(FreshUpTo(t, p)) \in Nat /\ Cardinality(FreshUpTo(t, p + 1)') \in Nat
  BY <1>4, <1>8, SizeOfSlaves
<1>10. /\ Cardinality(WrittenUpTo(p)) <= Cardinality(WrittenUpTo(p + 1))
       /\ Cardinality(WrittenUpTo(p)) \in Nat /\ Cardinality(WrittenUpTo(p + 1)) \in Nat
  BY <1>4, <1>7, SizeOfSlaves
<1>11. wkc[t] \in Int /\ wkc[t] <= Cardinality(FreshUpTo(t, p)) + 2 * Cardinality(WrittenUpTo(p))
  BY <1>4 DEF Counted, TypeInv, TypeOK
<1>12. wkc[t] <= Cardinality(FreshUpTo(t, p + 1)') + 2 * Cardinality(WrittenUpTo(p + 1))
  BY <1>9, <1>10, <1>11
<1>13. wkc'[t] <= Cardinality(FreshUpTo(t, Low(t))') + 2 * Cardinality(WrittenUpTo(Low(t))')
  BY <1>1, <1>4, <1>6, <1>12 DEF FreshUpTo
<1>14. \A f \in back' : \A c \in InCells : c.slave \in f.heard => f.holds[c] = call'[t].no
  BY <1>1 DEF Counted
<1> QED
  BY <1>1, <1>5, <1>6, <1>13, <1>14 DEF Counted

LEMMA PulledFew ==
  ASSUME NEW t, Threads = {t}, TypeInv
  PROVE  pushed \in Nat /\ pulled \in Nat /\ pulled <= pushed
BY DEF TypeInv, TypeOK, Places

LEMMA CountedStep ==
  ASSUME NEW t, Threads = {t}, TypeInv, TypeInv', Indexed, IndexInv(t), IndexInv(t)', Fits,
         DatagramsTile, SmNotBroken, Counted(t), [Next]_vars
  PROVE  Counted(t)'
<1>1. UNCHANGED fixed /\ LayoutTyped /\ LayoutTyped'
  BY FixedStays DEF TypeInv, TypeOK
<1>2. \A c \in InCells : c \in DOMAIN image /\ c.dir = "in" /\ c.slave \in Slaves
  <2> SUFFICES ASSUME NEW c \in InCells PROVE c \in DOMAIN image /\ c.dir = "in" /\ c.slave \in Slaves
    OBVIOUS
  <2>1. PICK s \in Slaves : \E b \in InBytes(s) : c = [dir |-> "in", slave |-> s, log |-> b]
    BY DEF InCells
  <2>2. DOMAIN image = OutCells \cup InCells
    BY DEF TypeInv, TypeOK
  <2> QED
    BY <2>1, <2>2
<1>3. CASE StartSend(t) \/ Clear(t)
  <2>1. UnderWay(t) = {} /\ UNCHANGED <<back, upsets>> /\ Low(t)' = 0 /\ Low(t) \in Nat
        /\ (StartSend(t) => Low(t) = 0)
    <3>1. PICK p \in Nat, q \in Nat : p = pushed /\ q = pulled /\ q <= p
      BY PulledFew
    <3>2. CASE StartSend(t)
      <4>1. pc[t] = "idle" /\ pc'[t] \in {"send", "sent"} /\ UNCHANGED <<back, upsets, pulled>>
        BY <3>2 DEF StartSend, Goto, shared, TypeInv, TypeOK
      <4>2. p = 0 /\ q = 0
        BY <3>1, <4>1 DEF IndexInv, Control
      <4> QED
        BY <3>1, <4>1, <4>2 DEF UnderWay, Low, Top
    <3>3. CASE Clear(t)
      <4>1. pc[t] = "clear" /\ pc'[t] = "idle" /\ pulled' = 0 /\ UNCHANGED <<back, upsets>>
        BY <3>3 DEF Clear, Goto, TypeInv, TypeOK
      <4>2. p = q
        BY <3>1, <4>1 DEF IndexInv, Control
      <4>3. ~StartSend(t)
        BY <4>1 DEF StartSend
      <4> QED
        BY <3>1, <4>1, <4>2, <4>3 DEF UnderWay, Low, Top
    <3> QED
      BY <1>3, <3>2, <3>3
  <2>2. back' = {}
    BY <2>1 DEF IndexInv, OnTheirWay
  <2>3. CASE Clear(t)
    <3>1. wkc'[t] = EC_NOFRAME
      BY <2>3 DEF Clear, TypeInv, TypeOK
    <3>2. Counted(t)'
      BY <1>1, <2>1, <2>2, <3>1, NothingCountedNext DEF EC_NOFRAME
    <3> QED
      BY <3>2
  <2>4. CASE StartSend(t)
    <3>1. wkc'[t] = wkc[t] /\ wkc[t] \in Int
      BY <2>4 DEF StartSend, TypeInv, TypeOK
    <3>2. wkc[t] <= 0 /\ (upsets = 0 => wkc[t] = EC_NOFRAME)
      BY <1>1, <2>1, <2>4, <3>1, NothingYet DEF Counted
    <3> QED
      BY <1>1, <2>1, <2>2, <3>1, <3>2, NothingCountedNext
  <2> QED
    BY <1>3, <2>3, <2>4
<1>4. CASE SendDatagram(t)
  <2>1. /\ pc[t] = "send" /\ pc'[t] = "push" /\ UNCHANGED <<image, pulled, call, wkc, upsets>>
        /\ answering \subseteq Slaves
    BY <1>4 DEF SendDatagram, Goto, TypeInv, TypeOK
  <2>2. \A f \in back' : f \in back \/ \A c \in InCells : c.slave \in f.heard => f.holds[c] = call[t].no
    <3> SUFFICES ASSUME NEW f \in back', f \notin back, NEW c \in InCells, c.slave \in f.heard
                 PROVE  f.holds[c] = call[t].no
      OBVIOUS
    <3>1. f = [idx |-> NextIndex, d |-> call[t].d, heard |-> answering,
               holds |-> [x \in DOMAIN image |-> Answer(datagrams[call[t].d], answering, call[t].no, x)]]
      BY <1>4 DEF SendDatagram
    <3>2. c.slave \in answering /\ f.holds[c] = Answer(datagrams[call[t].d], answering, call[t].no, c)
      BY <1>2, <3>1
    <3> QED
      BY <1>2, <3>2 DEF Answer
  <2>3. Low(t)' = Low(t)
    BY <2>1 DEF Low
  <2> QED
    BY <1>1, <2>1, <2>2, <2>3, CountedStays
<1>5. CASE PushEntry(t) \/ PushCount(t) \/ PushFull(t)
  <2>1. /\ UNCHANGED <<image, pulled, wkc, upsets, back>>
        /\ pc[t] \in {"push", "count"} /\ pc'[t] \in {"count", "send", "sent"}
        /\ call'[t].no = call[t].no
    <3>1. NextDatagram(t) => pc'[t] \in {"send", "sent"} /\ call'[t].no = call[t].no
      BY DEF NextDatagram, Goto, TypeInv, TypeOK
    <3>2. PushEntry(t) => pc'[t] = "count" /\ call'[t].no = call[t].no
      BY DEF PushEntry, Goto, TypeInv, TypeOK
    <3> QED
      BY <1>5, <3>1, <3>2 DEF PushEntry, PushCount, PushFull, shared
  <2>2. Low(t)' = Low(t)
    BY <2>1 DEF Low
  <2> QED
    BY <1>1, <2>1, <2>2, CountedStays
<1>6. CASE StartReceive(t) \/ PullPlace(t) \/ PullCount(t) \/ PullNone(t)
  <2>1. UNCHANGED <<image, call, wkc, upsets, back>>
    BY <1>6 DEF StartReceive, PullPlace, PullCount, PullNone, shared
  <2>2. Low(t)' = Low(t)
    BY <1>6 DEF StartReceive, PullPlace, PullCount, PullNone, Goto, shared, IndexInv, Control,
                TypeInv, TypeOK, Low
  <2> QED
    BY <1>1, <2>1, <2>2, CountedStays
<1>7. CASE WriteOutputs \/ LoseFrame \/ (\E s \in Slaves : FallSilent(s)) \/ UNCHANGED vars
  <2>1. UNCHANGED <<local, pulled>> /\ back' \subseteq back /\ (upsets' = 0 => upsets = 0)
    <3>1. CASE WriteOutputs \/ UNCHANGED vars
      BY <3>1 DEF WriteOutputs, vars, shared
    <3>2. CASE LoseFrame \/ \E s \in Slaves : FallSilent(s)
      <4>1. UNCHANGED <<local, pulled>> /\ back' \subseteq back /\ upsets' = upsets + 1
        BY <3>2 DEF LoseFrame, FallSilent, Upset, shared
      <4>2. upsets \in Nat
        BY DEF TypeInv, TypeOK
      <4> QED
        BY <4>1, <4>2
    <3> QED
      BY <1>7, <3>1, <3>2
  <2>2. \A c \in InCells : image'[c] = image[c]
    BY <1>2, <1>7 DEF WriteOutputs, LoseFrame, FallSilent, vars
  <2>3. Low(t)' = Low(t) /\ wkc'[t] = wkc[t] /\ call'[t].no = call[t].no
    BY <2>1 DEF Low, local
  <2> QED
    BY <1>1, <2>1, <2>2, <2>3, CountedStays
<1> QED
  BY <1>3, <1>4, <1>5, <1>6, <1>7, AnsweredCounted, NoAnswerCounted DEF Next, SendStep, ReceiveStep

CounterInv == Indexed /\ Fits /\ WholeBytes => \A t \in Threads : Counted(t)

(***************************************************************************)
(* Exchanged by one thread, with every slave at a byte of its own, the     *)
(* working counter tells whether the inputs are new: the expected one      *)
(* comes back only if every input in the image is of this exchange, and it *)
(* does come back if nothing is lost.                                      *)
(***************************************************************************)
THEOREM CounterTells ==
  ASSUME NEW t, Threads = {t}, LRWWhereOverlapping
  PROVE  Spec => []CounterTellsFresh
<1>1. Init => CounterInv /\ DatagramsTile /\ AlignedNotBroken
  <2> SUFFICES ASSUME Init PROVE Counted(t)
    BY TilesInit, NotBrokenInit DEF CounterInv
  <2>0. LayoutTyped
    BY LayoutInit
  <2>1. Low(t) = 0 /\ wkc[t] = EC_NOFRAME /\ back = {}
    BY DEF Init, Low
  <2> QED
    BY <2>0, <2>1, NothingYet DEF Counted, EC_NOFRAME
<1>2. IndexedInv /\ IndexedInv' /\ DatagramsTile /\ AlignedNotBroken /\ CounterInv /\ [Next]_vars
        => CounterInv' /\ DatagramsTile' /\ AlignedNotBroken'
  <2> SUFFICES ASSUME IndexedInv, IndexedInv', DatagramsTile, AlignedNotBroken, CounterInv, [Next]_vars
               PROVE  CounterInv' /\ DatagramsTile' /\ AlignedNotBroken'
    OBVIOUS
  <2>1. /\ (Indexed' <=> Indexed) /\ (Fits' <=> Fits) /\ (WholeBytes' <=> WholeBytes)
        /\ DatagramsTile' /\ AlignedNotBroken'
    BY FixedStays, LayoutStays
  <2>2. Indexed /\ Fits /\ WholeBytes => Counted(t)'
    BY <2>1, CountedStep DEF IndexedInv, CounterInv, AlignedNotBroken
  <2> QED
    BY <2>1, <2>2 DEF CounterInv
<1>3. IndexedInv /\ DatagramsTile /\ CounterInv => CounterTellsFresh
  <2> SUFFICES ASSUME IndexedInv, DatagramsTile, CounterInv, Fits, WholeBytes, Indexed, pc[t] = "clear"
               PROVE  /\ wkc[t] >= expectedWKC => \A c \in InCells : image[c] = call[t].no
                      /\ call[t].no # 0 /\ upsets = 0 /\ datagrams # <<>> => wkc[t] = expectedWKC
    BY DEF CounterTellsFresh, CounterMeansFresh, CounterReached, Returning
  <2>1. LayoutTyped /\ Counted(t) /\ wkc[t] \in Int
    BY DEF IndexedInv, CounterInv, TypeInv, TypeOK
  <2>2. PICK n \in Nat : n = Len(datagrams)
    BY <2>1 DEF LayoutTyped
  <2>3. Low(t) = IF call[t].no = 0 THEN 0 ELSE n
    BY <2>2 DEF IndexedInv, IndexInv, Control, Receiving, Low
  <2>4. PICK in \in Nat, out \in Nat :
          /\ in = inputsWKC(net.slaves) /\ out = outputsWKC(net.slaves)
          /\ in = Cardinality(ReadUpTo(n)) /\ out = Cardinality(WrittenUpTo(n))
    <3>1. ReadUpTo(n) \subseteq Slaves /\ WrittenUpTo(n) \subseteq Slaves
      BY DEF ReadUpTo, WrittenUpTo
    <3> QED
      BY <2>1, <2>2, <3>1, AllSlaves, SizeOfSlaves
  <2>5. expectedWKC = 2 * out + in
    BY <2>4 DEF expectedWKC
  <2>6. FreshUpTo(t, n) \subseteq ReadUpTo(n) /\ \A c \in InCells : c.slave \in ReadUpTo(n)
    BY <2>1, <2>2, AllSlaves DEF FreshUpTo
  <2>7. ASSUME wkc[t] >= expectedWKC, NEW c \in InCells PROVE image[c] = call[t].no
    <3>1. CASE call[t].no # 0
      <4>1. wkc[t] <= Cardinality(FreshUpTo(t, n)) + 2 * out
        BY <2>1, <2>3, <2>4, <3>1 DEF Counted
      <4>2. Cardinality(FreshUpTo(t, n)) \in Nat /\ Cardinality(FreshUpTo(t, n)) <= in
        BY <2>1, <2>4, <2>6, SizeOfSlaves DEF ReadUpTo
      <4>3. Cardinality(FreshUpTo(t, n)) = in
        BY <2>1, <2>4, <2>5, <2>7, <4>1, <4>2
      <4>4. FreshUpTo(t, n) = ReadUpTo(n)
        BY <2>1, <2>4, <2>6, <4>3, SizeOfSlaves DEF ReadUpTo
      <4> QED
        BY <2>6, <4>4 DEF FreshUpTo
    <3>2. CASE call[t].no = 0
      <4>1. wkc[t] <= 0
        BY <2>1, <2>3, <3>2, NothingYet DEF Counted
      <4>2. in = 0
        BY <2>1, <2>4, <2>5, <2>7, <4>1
      <4>3. ReadUpTo(n) = {}
        BY <2>1, <2>4, <4>2, SizeOfSlaves, FS_EmptySet DEF ReadUpTo
      <4> QED
        BY <2>6, <4>3
    <3> QED
      BY <3>1, <3>2
  <2>8. ASSUME call[t].no # 0, upsets = 0, datagrams # <<>> PROVE wkc[t] = expectedWKC
    <3>1. n # 0
      BY <2>1, <2>2, <2>8 DEF LayoutTyped
    <3>2. wkc[t] = in + 2 * out
      BY <2>1, <2>3, <2>4, <2>8, <3>1 DEF Counted
    <3> QED
      BY <2>4, <2>5, <3>2
  <2> QED
    BY <2>7, <2>8
<1> QED
  BY <1>1, <1>2, <1>3, IndexedInductive, PTL DEF Spec
=============================================================================
