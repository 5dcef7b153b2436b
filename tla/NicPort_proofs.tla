--------------------------- MODULE NicPort_proofs ---------------------------
(***************************************************************************)
(* Proofs about NicPort for any set of threads, any number of buffers that *)
(* is not smaller, and any number of transactions and retransmissions.     *)
(***************************************************************************)
EXTENDS NicPort, FiniteSetTheorems, TLAPS

(***************************************************************************)
(* When every thread that owns an index owns another one than t, who owns  *)
(* none, there is a buffer nobody owns: the pigeonhole principle.          *)
(***************************************************************************)
LEMMA FreeSlot ==
  ASSUME TypeOK, NEW t \in Threads, ~Owning(t)
  PROVE  \E i \in Slots : ~Owned(i)
<1> SUFFICES ASSUME \A i \in Slots : Owned(i)
             PROVE  FALSE
  OBVIOUS
<1> DEFINE Others == Threads \ {t}
           f == [i \in Slots |-> CHOOSE u \in Threads : Owning(u) /\ idx[u] = i]
<1>1. IsFiniteSet(Others) /\ Cardinality(Others) < EC_MAXBUF
  <2>1. Cardinality(Others) = Cardinality(Threads) - 1 /\ IsFiniteSet(Others)
    BY FS_RemoveElement, NicAssumption
  <2>2. Cardinality(Threads) \in Nat
    BY FS_CardinalityType, NicAssumption
  <2> QED
    BY <2>1, <2>2, NicAssumption
<1>2. IsFiniteSet(Slots) /\ Cardinality(Slots) = EC_MAXBUF
  BY FS_Interval, NicAssumption DEF Slots
<1>3. \A i \in Slots : f[i] \in Threads /\ Owning(f[i]) /\ idx[f[i]] = i
  BY DEF Owned
<1>4. f \in [Slots -> Others]
  BY <1>3
<1>5. PICK i, j \in Slots : i # j /\ f[i] = f[j]
  <2> HIDE DEF f, Others
  <2>1. Cardinality(Others) < Cardinality(Slots)
    BY <1>1, <1>2
  <2> QED
    BY <1>1, <1>2, <1>4, <2>1, FS_PigeonHole
<1> QED
  BY <1>3, <1>5

-----------------------------------------------------------------------------
LEMMA InitNicInv == Init => NicInv
  BY NicAssumption DEF Init, NicInv, TypeOK, MutexInv, LocalInv, TableInv, TableIntact,
     Owned, Owning, Labels, Status, Slots

(***************************************************************************)
(* No step leaves the types: in particular a frame is always numbered by a *)
(* transmission of a transaction that has begun.                           *)
(***************************************************************************)
LEMMA NextTypeOK == TypeOK /\ LocalInv /\ [Next]_vars => TypeOK'
<1> SUFFICES ASSUME TypeOK, LocalInv, [Next]_vars
             PROVE  TypeOK'
  OBVIOUS
<1> USE NicAssumption DEF TypeOK, Goto, Mishaps
<1>1. ASSUME NEW t \in Threads, StartGetIndex(t) PROVE TypeOK'
  BY <1>1 DEF StartGetIndex, InUse, Labels
<1>2. ASSUME NEW t \in Threads, FindIndex(t) \/ ClaimIndex(t) PROVE TypeOK'
  <2>1. CASE FindIndex(t)
    BY <2>1 DEF FindIndex, Labels
  <2>2. CASE ClaimIndex(t)
    BY <2>2 DEF ClaimIndex, Labels, Status
  <2> QED
    BY <1>2, <2>1, <2>2
<1>3. ASSUME NEW t \in Threads, MarkTx(t) PROVE TypeOK'
  BY <1>3 DEF MarkTx, Labels, Status
<1>4. ASSUME NEW t \in Threads, Transmit(t) \/ TransmitFails(t) PROVE TypeOK'
  <2>1. sends[t] + 1 \in 1 .. MaxResends + 1
    BY <1>4 DEF Transmit, TransmitFails, LocalInv
  <2>2. txn[t] \in 1 .. MaxTxn
    BY <1>4 DEF Transmit, TransmitFails, LocalInv
  <2>3. [idx |-> idx[t], txn |-> txn[t], nth |-> sends[t] + 1] \in Frames
    BY <2>1, <2>2 DEF Frames
  <2>4. sends' \in [Threads -> 0 .. MaxResends + 1]
    BY <1>4, <2>1 DEF Transmit, TransmitFails
  <2>5. net' \subseteq Frames
    BY <1>4, <2>3 DEF Transmit, TransmitFails
  <2>6. pc' \in [Threads -> Labels] /\ mishap' \subseteq {"sendfail", "late", "straddle"}
    BY <1>4 DEF Transmit, TransmitFails, Labels
  <2> QED
    BY <1>4, <2>4, <2>5, <2>6 DEF Transmit, TransmitFails
<1>5. ASSUME NEW t \in Threads, MarkEmpty(t) PROVE TypeOK'
  BY <1>5 DEF MarkEmpty, Labels, Status
<1>6. ASSUME NEW t \in Threads, TakeStored(t) PROVE TypeOK'
  BY <1>6 DEF TakeStored, Labels, Status
<1>7. ASSUME NEW t \in Threads, NotStored(t) \/ RecvNothing(t) PROVE TypeOK'
  BY <1>7 DEF NotStored, RecvNothing, Labels
<1>8. ASSUME NEW t \in Threads, RecvOwn(t) PROVE TypeOK'
  BY <1>8 DEF RecvOwn, Labels, Status
<1>9. ASSUME NEW t \in Threads, RecvOther(t) PROVE TypeOK'
  BY <1>9 DEF RecvOther, Labels
<1>10. ASSUME NEW t \in Threads, RecvStrange(t) PROVE TypeOK'
  BY <1>10 DEF RecvStrange, Labels
<1>11. ASSUME NEW t \in Threads, Store(t) PROVE TypeOK'
  <2>1. held[t] \in Frames /\ held[t].idx \in Slots
    BY <1>11 DEF Store, LocalInv, Frames
  <2> QED
    BY <1>11, <2>1 DEF Store, Labels, Status
<1>12. ASSUME NEW t \in Threads, LookAgain(t) \/ Resend(t) \/ GiveUp(t) PROVE TypeOK'
  <2>1. CASE LookAgain(t)
    BY <2>1 DEF LookAgain, Labels
  <2>2. CASE Resend(t)
    BY <2>2 DEF Resend, Labels
  <2>3. CASE GiveUp(t)
    BY <2>3 DEF GiveUp, Labels
  <2> QED
    BY <1>12, <2>1, <2>2, <2>3
<1>13. ASSUME NEW t \in Threads, Release(t) PROVE TypeOK'
  <2>1. 0 \in Slots
    BY DEF Slots
  <2> QED
    BY <1>13, <2>1 DEF Release, Labels, Status
<1>14. CASE LoseFrame
  BY <1>14 DEF LoseFrame
<1>15. CASE UNCHANGED vars
  BY <1>15 DEF vars
<1> QED
  BY <1>1, <1>2, <1>3, <1>4, <1>5, <1>6, <1>7, <1>8, <1>9, <1>10, <1>11, <1>12, <1>13,
     <1>14, <1>15 DEF Next, ThreadStep, InFrame

(***************************************************************************)
(* The two mutexes are held exactly between their lock and unlock.         *)
(***************************************************************************)
LEMMA NextMutexInv == TypeOK /\ MutexInv /\ [Next]_vars => MutexInv'
<1> SUFFICES ASSUME TypeOK, MutexInv, [Next]_vars
             PROVE  MutexInv'
  OBVIOUS
<1> USE NicAssumption DEF TypeOK, MutexInv, Goto
<1>1. ASSUME NEW t \in Threads, StartGetIndex(t) \/ FindIndex(t) \/ ClaimIndex(t)
      PROVE  MutexInv'
  BY <1>1 DEF StartGetIndex, FindIndex, ClaimIndex
<1>2. ASSUME NEW t \in Threads,
             MarkTx(t) \/ Transmit(t) \/ TransmitFails(t) \/ MarkEmpty(t)
      PROVE  MutexInv'
  BY <1>2 DEF MarkTx, Transmit, TransmitFails, MarkEmpty
<1>3. ASSUME NEW t \in Threads,
             TakeStored(t) \/ NotStored(t) \/ RecvNothing(t) \/ RecvOwn(t) \/ RecvStrange(t)
      PROVE  MutexInv'
  BY <1>3 DEF TakeStored, NotStored, RecvNothing, RecvOwn, RecvStrange
<1>4. ASSUME NEW t \in Threads, RecvOther(t) \/ Store(t) PROVE MutexInv'
  BY <1>4 DEF RecvOther, Store
<1>5. ASSUME NEW t \in Threads, LookAgain(t) \/ Resend(t) \/ GiveUp(t) \/ Release(t)
      PROVE  MutexInv'
  BY <1>5 DEF LookAgain, Resend, GiveUp, Release
<1>6. CASE LoseFrame \/ UNCHANGED vars
  BY <1>6 DEF LoseFrame, vars
<1> QED
  BY <1>1, <1>2, <1>3, <1>4, <1>5, <1>6 DEF Next, ThreadStep, InFrame

(***************************************************************************)
(* What each thread knows of its own transaction.                          *)
(***************************************************************************)
LEMMA NextLocalInv == TypeOK /\ LocalInv /\ [Next]_vars => LocalInv'
<1> SUFFICES ASSUME TypeOK, LocalInv, [Next]_vars
             PROVE  LocalInv'
  OBVIOUS
<1> USE NicAssumption DEF TypeOK, LocalInv, Goto
<1>1. ASSUME NEW t \in Threads, StartGetIndex(t) PROVE LocalInv'
  BY <1>1 DEF StartGetIndex
<1>2. ASSUME NEW t \in Threads, FindIndex(t) \/ ClaimIndex(t) PROVE LocalInv'
  BY <1>2 DEF FindIndex, ClaimIndex
<1>3. ASSUME NEW t \in Threads, MarkTx(t) \/ MarkEmpty(t) PROVE LocalInv'
  BY <1>3 DEF MarkTx, MarkEmpty
<1>4. ASSUME NEW t \in Threads, Transmit(t) \/ TransmitFails(t) PROVE LocalInv'
  BY <1>4 DEF Transmit, TransmitFails
<1>5. ASSUME NEW t \in Threads,
             TakeStored(t) \/ NotStored(t) \/ RecvNothing(t) \/ RecvOwn(t) \/ RecvStrange(t)
      PROVE  LocalInv'
  BY <1>5 DEF TakeStored, NotStored, RecvNothing, RecvOwn, RecvStrange
<1>6. ASSUME NEW t \in Threads, RecvOther(t) PROVE LocalInv'
  BY <1>6 DEF RecvOther
<1>7. ASSUME NEW t \in Threads, Store(t) PROVE LocalInv'
  BY <1>7 DEF Store
<1>8. ASSUME NEW t \in Threads, LookAgain(t) \/ GiveUp(t) PROVE LocalInv'
  BY <1>8 DEF LookAgain, GiveUp
<1>9. ASSUME NEW t \in Threads, Resend(t) PROVE LocalInv'
  BY <1>9 DEF Resend
<1>10. ASSUME NEW t \in Threads, Release(t) PROVE LocalInv'
  BY <1>10 DEF Release
<1>11. CASE LoseFrame \/ UNCHANGED vars
  BY <1>11 DEF LoseFrame, vars
<1> QED
  BY <1>1, <1>2, <1>3, <1>4, <1>5, <1>6, <1>7, <1>8, <1>9, <1>10, <1>11
  DEF Next, ThreadStep, InFrame

\* What has gone wrong stays on record.
LEMMA MishapsStay ==
  ASSUME [Next]_vars
  PROVE  mishap \subseteq mishap'
  BY DEF Next, vars, ThreadStep, InFrame, StartGetIndex, FindIndex, ClaimIndex, MarkTx, Transmit,
     TransmitFails, MarkEmpty, TakeStored, NotStored, RecvNothing, RecvOwn, RecvOther, RecvStrange,
     Store, LookAgain, Resend, GiveUp, Release, LoseFrame

-----------------------------------------------------------------------------
(***************************************************************************)
(* The status table and the owners agree as long as it is intact.  Only    *)
(* Release gives an index back, and not while its answer is being stored;  *)
(* only ecx_getindex hands one out, having found a buffer nobody owns.     *)
(***************************************************************************)
LEMMA NextTableInv ==
  NicInv /\ [Next]_vars /\ TableIntact' => TableInv'
<1> SUFFICES ASSUME NicInv, [Next]_vars, TableIntact'
             PROVE  TableInv'
  OBVIOUS
<1>1. /\ TypeOK /\ MutexInv /\ LocalInv /\ TableIntact /\ TableInv
      /\ \A u \in Threads : idx[u] \in Slots
  <2>1. mishap \subseteq mishap'
    BY MishapsStay
  <2> QED
    BY <2>1 DEF NicInv, TableIntact, TypeOK
<1>2. ASSUME NEW t \in Threads, StartGetIndex(t) PROVE TableInv'
  <2>1. PICK i \in Slots : ~Owned(i)
    BY <1>1, <1>2, FreeSlot DEF StartGetIndex, Owning
  <2>2. rxbufstat[i] = "EMPTY" /\ i \notin InUse
    BY <1>1, <2>1 DEF TableInv, InUse
  <2>3. \A u \in Threads : Owning(u)' <=> Owning(u)
    BY <1>1, <1>2 DEF StartGetIndex, Goto, Owning, TypeOK
  <2>4. \A j : Owned(j)' <=> Owned(j)
    BY <1>2, <2>3 DEF StartGetIndex, Owned
  <2>5. \A u \in Threads : pc'[u] = "search" =>
           \E j \in Slots : j \notin seen'[u] /\ rxbufstat'[j] = "EMPTY"
    BY <1>1, <1>2, <2>2 DEF StartGetIndex, Goto, TypeOK, TableInv
  <2>6. \A u \in Threads :
         /\ pc'[u] = "store" => pc[u] = "store"
         /\ pc'[u] = "found" => pc[u] = "found"
    BY <1>1, <1>2 DEF StartGetIndex, Goto, TypeOK
  <2>7. rxbufstat' = rxbufstat /\ idx' = idx /\ held' = held
    BY <1>2 DEF StartGetIndex
  <2>8. \A u \in Threads : pc'[u] = "store" => Owned(held[u].idx)'
    BY <1>1, <2>4, <2>6, <2>7 DEF TableInv
  <2> QED
    BY <1>1, <2>3, <2>4, <2>5, <2>6, <2>7, <2>8 DEF TableInv
<1>3. ASSUME NEW t \in Threads, FindIndex(t) PROVE TableInv'
  <2>1. PICK i \in Slots : SearchEndsAt(t, i) /\ idx' = [idx EXCEPT ![t] = i]
    BY <1>3 DEF FindIndex
  <2>2. rxbufstat[i] = "EMPTY"
    BY <1>1, <1>3, <2>1 DEF FindIndex, SearchEndsAt, TableInv, InUse
  <2>3. /\ pc[t] = "search" /\ pc'[t] = "found" /\ idx'[t] = i
        /\ rxbufstat' = rxbufstat /\ held' = held
        /\ \A u \in Threads : u # t => pc'[u] = pc[u] /\ idx'[u] = idx[u]
    BY <1>1, <1>3, <2>1 DEF FindIndex, Goto, TypeOK
  <2>4. \A u \in Threads : pc'[u] # "search"
    BY <1>1, <2>3 DEF MutexInv
  <2>5. \A u \in Threads : (Owning(u)' <=> Owning(u)) /\ (Owning(u) => idx'[u] = idx[u])
    BY <2>3 DEF Owning
  <2>6. \A j : Owned(j)' <=> Owned(j)
    BY <2>5 DEF Owned
  <2>7. \A u \in Threads : pc'[u] = "found" => rxbufstat'[idx'[u]] = "EMPTY"
    BY <1>1, <2>2, <2>3 DEF TableInv
  <2>8. \A u \in Threads : pc'[u] = "store" => Owned(held[u].idx)'
    BY <1>1, <2>3, <2>6 DEF TableInv
  <2> QED
    BY <1>1, <2>3, <2>4, <2>5, <2>6, <2>7, <2>8 DEF TableInv
<1>3a. ASSUME NEW t \in Threads, ClaimIndex(t) PROVE TableInv'
  <2> DEFINE i == idx[t]
  <2>1. /\ i \in Slots /\ pc[t] = "found" /\ idx' = idx /\ seen' = seen /\ held' = held
        /\ rxbufstat' = [rxbufstat EXCEPT ![i] = "ALLOC"]
    BY <1>1, <1>3a DEF ClaimIndex, TypeOK
  <2>2. rxbufstat[i] = "EMPTY" /\ ~Owned(i)
    BY <1>1, <2>1 DEF TableInv
  <2>3. pc'[t] = "send" /\ \A u \in Threads : u # t => pc'[u] = pc[u]
    BY <1>1, <1>3a DEF ClaimIndex, Goto, TypeOK
  <2>4. \A u \in Threads : pc'[u] \notin {"search", "found"}
    BY <1>1, <2>1, <2>3 DEF MutexInv
  <2>5. \A j \in Slots : Owned(j)' <=> Owned(j) \/ j = i
    BY <2>1, <2>3 DEF Owned, Owning
  <2>6. \A j \in Slots : rxbufstat'[j] # "EMPTY" <=> rxbufstat[j] # "EMPTY" \/ j = i
    BY <1>1, <2>1 DEF TypeOK
  <2>7. \A u \in Threads : pc[u] = "store" => held[u].idx \in Slots
    BY <1>1 DEF LocalInv, Frames
  <2>8. \A u \in Threads : pc'[u] = "store" => Owned(held[u].idx)'
    BY <1>1, <2>1, <2>3, <2>5, <2>7 DEF TableInv
  <2> QED
    BY <1>1, <2>1, <2>2, <2>3, <2>4, <2>5, <2>6, <2>8 DEF TableInv, Owned, Owning
\* a step that keeps the owners, the searches and which buffers are EMPTY
<1>4. ASSUME \A u \in Threads : Owning(u)' <=> Owning(u),
             \A u \in Threads :
               /\ pc'[u] = "search" => pc[u] = "search"
               /\ pc'[u] = "found" => pc[u] = "found",
             \A u \in Threads : pc'[u] = "store" => Owned(held'[u].idx),
             \A j \in Slots : rxbufstat'[j] = "EMPTY" <=> rxbufstat[j] = "EMPTY",
             idx' = idx, seen' = seen
      PROVE  TableInv'
  <2>1. \A j : Owned(j)' <=> Owned(j)
    BY <1>4 DEF Owned
  <2> QED
    BY <1>1, <1>4, <2>1 DEF TableInv
\* the same when the step is one thread's and moves no frame into its hands
<1>5. ASSUME NEW t \in Threads, NEW label, Goto(t, label),
             label \notin {"search", "found", "store", "idle"}, Owning(t),
             \A j \in Slots : rxbufstat'[j] = "EMPTY" <=> rxbufstat[j] = "EMPTY",
             \A u \in Threads : u # t => held'[u] = held[u],
             idx' = idx, seen' = seen,
             label \in Labels
      PROVE  TableInv'
  <2>1. pc'[t] = label /\ \A u \in Threads : u # t => pc'[u] = pc[u]
    BY <1>1, <1>5 DEF Goto, TypeOK
  <2>2. \A u \in Threads : Owning(u)' <=> Owning(u)
    BY <1>5, <2>1 DEF Owning, Labels
  <2>3. \A u \in Threads :
         /\ pc'[u] = "search" => pc[u] = "search"
         /\ pc'[u] = "found" => pc[u] = "found"
    BY <1>5, <2>1
  <2>4. \A u \in Threads : pc'[u] = "store" => Owned(held'[u].idx)
    BY <1>1, <1>5, <2>1 DEF TableInv
  <2> QED
    BY <1>4, <1>5, <2>2, <2>3, <2>4
<1>6. ASSUME NEW t \in Threads, MarkTx(t) PROVE TableInv'
  <2>1. Owning(t) /\ rxbufstat[idx[t]] # "EMPTY"
    BY <1>1, <1>6 DEF MarkTx, Owning, TableInv, Owned, TypeOK
  <2>2. \A j \in Slots : rxbufstat'[j] = "EMPTY" <=> rxbufstat[j] = "EMPTY"
    BY <1>1, <1>6, <2>1 DEF MarkTx, TypeOK
  <2> QED
    BY <1>5, <1>6, <2>1, <2>2 DEF MarkTx, Labels
<1>7. ASSUME NEW t \in Threads, Transmit(t) PROVE TableInv'
  BY <1>5, <1>7 DEF Transmit, Labels, Owning
<1>8. ASSUME NEW t \in Threads, TransmitFails(t) \/ MarkEmpty(t) PROVE TableInv'
  BY <1>1, <1>8 DEF TransmitFails, MarkEmpty, LocalInv, TableIntact
<1>9. ASSUME NEW t \in Threads, TakeStored(t) \/ RecvOwn(t) PROVE TableInv'
  <2>1. Owning(t) /\ rxbufstat[idx[t]] # "EMPTY"
    BY <1>1, <1>9 DEF TakeStored, RecvOwn, Owning, TableInv, Owned, TypeOK
  <2>2. \A j \in Slots : rxbufstat'[j] = "EMPTY" <=> rxbufstat[j] = "EMPTY"
    BY <1>1, <1>9, <2>1 DEF TakeStored, RecvOwn, TypeOK
  <2> QED
    BY <1>5, <1>9, <2>1, <2>2 DEF TakeStored, RecvOwn, Labels
<1>10. ASSUME NEW t \in Threads,
              NotStored(t) \/ RecvNothing(t) \/ RecvStrange(t) \/ LookAgain(t) \/ Resend(t)
              \/ GiveUp(t)
       PROVE  TableInv'
  BY <1>5, <1>10 DEF NotStored, RecvNothing, RecvStrange, LookAgain, Resend, GiveUp, Labels,
     Owning
<1>11. ASSUME NEW t \in Threads, RecvOther(t) PROVE TableInv'
  <2>1. PICK f \in net : rxbufstat[f.idx] = "TX" /\ held' = [held EXCEPT ![t] = f]
    BY <1>11 DEF RecvOther
  <2>2. f.idx \in Slots
    BY <1>1 DEF TypeOK, Frames
  <2>3. Owned(f.idx)
    BY <1>1, <2>1, <2>2 DEF TableInv
  <2>4. /\ pc'[t] = "store" /\ held'[t] = f /\ pc[t] = "recv"
        /\ \A u \in Threads : u # t => pc'[u] = pc[u] /\ held'[u] = held[u]
    BY <1>1, <1>11, <2>1 DEF RecvOther, Goto, TypeOK
  <2>5. \A u \in Threads : pc'[u] = "store" => Owned(held'[u].idx)
    BY <1>1, <2>3, <2>4 DEF TableInv
  <2> QED
    BY <1>4, <1>11, <2>4, <2>5 DEF RecvOther, Owning
<1>12. ASSUME NEW t \in Threads, Store(t) PROVE TableInv'
  <2>1. held[t].idx \in Slots /\ rxbufstat[held[t].idx] # "EMPTY"
    BY <1>1, <1>12 DEF Store, LocalInv, Frames, TableInv
  <2>2. \A j \in Slots : rxbufstat'[j] = "EMPTY" <=> rxbufstat[j] = "EMPTY"
    BY <1>1, <1>12, <2>1 DEF Store, TypeOK
  <2>3. \A u \in Threads : u # t => held'[u] = held[u]
    BY <1>1, <1>12 DEF Store, TypeOK
  <2> QED
    BY <1>5, <1>12, <2>2, <2>3 DEF Store, Labels, Owning
<1>13. ASSUME NEW t \in Threads, Release(t) PROVE TableInv'
  <2>1. \A u \in Threads : pc[u] = "store" => held[u].idx # idx[t]
    BY <1>13 DEF Release, TableIntact
  <2>2. /\ pc[t] = "done" /\ pc'[t] = "idle"
        /\ \A u \in Threads : u # t => pc'[u] = pc[u] /\ idx'[u] = idx[u]
        /\ seen' = seen /\ held' = held
    BY <1>1, <1>13 DEF Release, Goto, TypeOK
  <2>3. \A j \in Slots : rxbufstat'[j] # "EMPTY" <=> rxbufstat[j] # "EMPTY" /\ j # idx[t]
    BY <1>1, <1>13 DEF Release, TypeOK
  <2>4. \A j : Owned(j)' <=> Owned(j) /\ j # idx[t]
    <3>1. ~Owning(t)' /\ \A u \in Threads : u # t => (Owning(u)' <=> Owning(u))
      BY <2>2 DEF Owning
    <3>2. \A u \in Threads : u # t /\ Owning(u) => idx[u] # idx[t]
      BY <1>1, <2>2 DEF TableInv, Owning
    <3> QED
      BY <2>2, <3>1, <3>2 DEF Owned
  <2>5. \A u \in Threads : pc'[u] = "store" => Owned(held[u].idx)'
    <3> SUFFICES ASSUME NEW u \in Threads, pc'[u] = "store"
                 PROVE  Owned(held[u].idx)'
      OBVIOUS
    <3>1. pc[u] = "store"
      BY <2>2
    <3>2. Owned(held[u].idx) /\ held[u].idx # idx[t]
      BY <1>1, <2>1, <3>1 DEF TableInv
    <3> QED
      BY <2>2, <2>4, <3>2
  <2> QED
    BY <1>1, <2>2, <2>3, <2>4, <2>5 DEF TableInv, Owning
<1>14. CASE LoseFrame \/ UNCHANGED vars
  BY <1>1, <1>4, <1>14 DEF LoseFrame, vars, Owning, TableInv
<1> QED
  BY <1>2, <1>3, <1>6, <1>7, <1>8, <1>9, <1>10, <1>11, <1>12, <1>13, <1>14, <1>3a
  DEF Next, ThreadStep, InFrame

-----------------------------------------------------------------------------
LEMMA NicInductive == Spec => []NicInv
<1>1. NicInv /\ [Next]_vars => NicInv'
  BY NextTypeOK, NextMutexInv, NextLocalInv, NextTableInv DEF NicInv
<1> QED
  BY InitNicInv, <1>1, PTL DEF Spec

(***************************************************************************)
(* Every variable of the port keeps its type: no status outside EC_BUF_*,  *)
(* no index outside the buffer arrays.                                     *)
(***************************************************************************)
THEOREM TypeCorrect == Spec => []TypeOK
<1>1. NicInv => TypeOK
  BY DEF NicInv
<1> QED
  BY NicInductive, <1>1, PTL

(***************************************************************************)
(* ecx_getindex never gives two threads the same index, for any number of  *)
(* threads up to EC_MAXBUF, however their steps interleave and whatever    *)
(* frames are lost, late or answered twice, unless a send() failed or an   *)
(* index was released while its answer was being stored.                   *)
(***************************************************************************)
THEOREM IndexExclusion == Spec => []IndexExclusive
<1>1. NicInv => IndexExclusive
  BY DEF NicInv, TableInv, IndexExclusive
<1> QED
  BY NicInductive, <1>1, PTL

(***************************************************************************)
(* Under the same condition no receive buffer stays in use for ever: each  *)
(* one that is not EMPTY has an owner, who ends with setbufstat(EMPTY).    *)
(***************************************************************************)
THEOREM IndexConservation == Spec => []NoIndexLost
<1>1. NicInv => NoIndexLost
  BY DEF NicInv, TableInv, NoIndexLost, Owned
<1> QED
  BY NicInductive, <1>1, PTL

-----------------------------------------------------------------------------
(***************************************************************************)
(* The refinement.                                                         *)
(***************************************************************************)

\* Only ClaimIndex and Release change who owns which index.
LEMMA OwnersStay ==
  ASSUME TypeOK, [Next]_vars, NEW u \in Threads, ~ClaimIndex(u), ~Release(u)
  PROVE  (Owning(u)' <=> Owning(u)) /\ (Owning(u) => idx'[u] = idx[u])
<1> USE DEF TypeOK, Goto, Owning
<1>1. ASSUME NEW t \in Threads, StartGetIndex(t) \/ FindIndex(t)
      PROVE  (Owning(u)' <=> Owning(u)) /\ (Owning(u) => idx'[u] = idx[u])
  BY <1>1 DEF StartGetIndex, FindIndex
<1>2. ASSUME NEW t \in Threads, t # u, ClaimIndex(t) \/ Release(t)
      PROVE  (Owning(u)' <=> Owning(u)) /\ (Owning(u) => idx'[u] = idx[u])
  BY <1>2 DEF ClaimIndex, Release
<1>3. ASSUME NEW t \in Threads, MarkTx(t) \/ Transmit(t) \/ TransmitFails(t) \/ MarkEmpty(t)
      PROVE  (Owning(u)' <=> Owning(u)) /\ (Owning(u) => idx'[u] = idx[u])
  BY <1>3 DEF MarkTx, Transmit, TransmitFails, MarkEmpty
<1>4. ASSUME NEW t \in Threads, InFrame(t)
      PROVE  (Owning(u)' <=> Owning(u)) /\ (Owning(u) => idx'[u] = idx[u])
  BY <1>4 DEF InFrame, TakeStored, NotStored, RecvNothing, RecvOwn, RecvOther, RecvStrange, Store
<1>5. ASSUME NEW t \in Threads, LookAgain(t) \/ Resend(t) \/ GiveUp(t)
      PROVE  (Owning(u)' <=> Owning(u)) /\ (Owning(u) => idx'[u] = idx[u])
  BY <1>5 DEF LookAgain, Resend, GiveUp
<1>6. CASE LoseFrame \/ UNCHANGED vars
  BY <1>6 DEF LoseFrame, vars
<1> QED
  BY <1>1, <1>2, <1>3, <1>4, <1>5, <1>6 DEF Next, ThreadStep

\* Every step of the port is a step of the pool, or the pool does not see it.
LEMMA PoolStep == NicInv /\ [Next]_vars => [Pool!Next]_<<Holders, ~TableIntact>>
<1> SUFFICES ASSUME NicInv, [Next]_vars
             PROVE  Pool!Next \/ UNCHANGED <<Holders, ~TableIntact>>
  OBVIOUS
<1>1. CASE ~TableIntact'
  BY <1>1 DEF Pool!Next, Pool!Broken
<1>2. CASE TableIntact'
  <2>1. TypeOK /\ TableIntact /\ TableInv
    BY <1>2, MishapsStay DEF NicInv, TableIntact
  <2>2. ASSUME NEW t \in Threads, ClaimIndex(t) PROVE Pool!Take(t, idx[t])
    <3>1. idx[t] \in Slots /\ idx' = idx /\ pc[t] = "found"
          /\ pc' = [pc EXCEPT ![t] = "send"]
      BY <2>1, <2>2 DEF ClaimIndex, TypeOK, Goto
    <3>2. \A u \in Threads : Owning(u)' <=> Owning(u) \/ u = t
      BY <2>1, <3>1 DEF Owning, TypeOK
    <3>3. ~Owning(t) /\ ~Owned(idx[t])
      BY <2>1, <3>1 DEF Owning, TableInv
    <3>4. (\A j \in Slots : t \notin Holders[j]) /\ Holders[idx[t]] = {}
      BY <3>1, <3>3 DEF Holders, Owned
    <3>5. Holders' = [Holders EXCEPT ![idx[t]] = {t}]
      <4>1. ASSUME NEW j \in Slots, j # idx[t] PROVE Holders'[j] = Holders[j]
        BY <3>1, <3>2, <4>1 DEF Holders
      <4>2. Holders'[idx[t]] = {t}
        BY <3>1, <3>2, <3>3 DEF Holders, Owned
      <4> QED
        BY <3>1, <4>1, <4>2 DEF Holders
    <3> QED
      BY <1>2, <2>1, <3>4, <3>5 DEF Pool!Take
  <2>3. ASSUME NEW t \in Threads, Release(t) PROVE Pool!Give(t, idx[t])
    <3>1. /\ idx[t] \in Slots /\ pc[t] = "done" /\ pc' = [pc EXCEPT ![t] = "idle"]
          /\ \A u \in Threads : u # t => idx'[u] = idx[u]
      BY <2>1, <2>3 DEF Release, TypeOK, Goto
    <3>2. Owning(t) /\ \A u \in Threads : Owning(u)' <=> Owning(u) /\ u # t
      BY <2>1, <3>1 DEF Owning, TypeOK
    <3>3. \A u \in Threads : Owning(u) /\ u # t => idx[u] # idx[t]
      BY <2>1, <3>2 DEF TableInv
    <3>4. Holders[idx[t]] = {t}
      BY <3>1, <3>2, <3>3 DEF Holders
    <3>5. Holders' = [Holders EXCEPT ![idx[t]] = {}]
      <4>1. ASSUME NEW j \in Slots, j # idx[t] PROVE Holders'[j] = Holders[j]
        BY <3>1, <3>2, <4>1 DEF Holders
      <4>2. Holders'[idx[t]] = {}
        BY <3>1, <3>2, <3>3 DEF Holders
      <4> QED
        BY <3>1, <4>1, <4>2 DEF Holders
    <3> QED
      BY <1>2, <2>1, <3>4, <3>5 DEF Pool!Give
  <2>4. CASE \A t \in Threads : ~ClaimIndex(t) /\ ~Release(t)
    <3>1. \A u \in Threads : (Owning(u)' <=> Owning(u)) /\ (Owning(u) => idx'[u] = idx[u])
      BY <2>1, <2>4, OwnersStay
    <3>2. Holders' = Holders
      BY <3>1 DEF Holders
    <3> QED
      BY <1>2, <2>1, <3>2
  <2>5. \A t \in Threads : ClaimIndex(t) \/ Release(t) => idx[t] \in Slots
    BY <2>1 DEF TypeOK
  <2> QED
    BY <2>2, <2>3, <2>4, <2>5 DEF Pool!Next
<1> QED
  BY <1>1, <1>2

(***************************************************************************)
(* The port implements the pool of indices, for any number of threads up   *)
(* to EC_MAXBUF: in particular a search that may take any buffer it sees   *)
(* EMPTY never takes one that is handed over or released twice.            *)
(***************************************************************************)
THEOREM PoolImplementation == Spec => ImplementsPool
<1>1. Init => Pool!Init
  <2>1. ASSUME Init PROVE Holders = [i \in Slots |-> {}] /\ TableIntact
    BY <2>1 DEF Init, Holders, Owning, TableIntact
  <2> QED
    BY <2>1 DEF Pool!Init
<1>2. NicInv /\ [Next]_vars => [Pool!Next]_<<Holders, ~TableIntact>>
  BY PoolStep
<1> QED
  BY NicInductive, <1>1, <1>2, PTL DEF Spec, ImplementsPool, Pool!Spec

-----------------------------------------------------------------------------
\* Initially nothing is in flight and no index has an owner.
LEMMA InitAnswerInv == Init => AnswerInv
BY NicAssumption DEF Init, AnswerInv, TxnInv, BufferInv, LoneInv, Owning

(***************************************************************************)
(* Numbers of transactions are those of one owner each, and so are the     *)
(* frames that carry them: no frame is sent before its number is given     *)
(* out, and an owner keeps its index.                                      *)
(***************************************************************************)
LEMMA NextTxnInv == TypeOK /\ LocalInv /\ TxnInv /\ [Next]_vars => TxnInv'
<1> SUFFICES ASSUME TypeOK, LocalInv, TxnInv, [Next]_vars PROVE TxnInv'
  OBVIOUS
<1>0. /\ pc \in [Threads -> Labels] /\ idx \in [Threads -> Slots] /\ serial \in Nat
      /\ \A t \in Threads : txn[t] \in Nat /\ sends[t] \in Nat
      /\ DOMAIN txn = Threads /\ DOMAIN sends = Threads /\ DOMAIN held = Threads /\ DOMAIN result = Threads
      /\ \A f \in net : f.txn \in Nat \ {0}
      /\ \A u \in Threads : pc[u] = "store" => held[u].txn \in Nat \ {0}
  BY NicAssumption DEF TypeOK, LocalInv, Frames
<1> USE DEF Goto
<1>1. ASSUME NEW t \in Threads, StartGetIndex(t) PROVE TxnInv'
  <2>1. /\ pc[t] = "idle" /\ pc' = [pc EXCEPT ![t] = "search"] /\ serial' = serial + 1
        /\ txn' = [txn EXCEPT ![t] = serial + 1] /\ UNCHANGED <<net, held, idx, sends, result>>
    BY <1>1 DEF StartGetIndex
  <2>2. \A u \in Threads : /\ Owning(u)' <=> Owning(u)
                           /\ pc'[u] = "store" <=> pc[u] = "store"
                           /\ pc[u] = "done" <=> pc'[u] = "done"
    BY <1>0, <2>1 DEF Owning
  <2>3. txn'[t] = serial + 1 /\ \A u \in Threads : u # t => txn'[u] = txn[u]
    BY <1>0, <2>1
  <2>4. \A f : f.txn \in Nat /\ f.txn <= serial /\ (\A u \in Threads : Flight(f, u))
               => f.txn <= serial' /\ \A u \in Threads : Flight(f, u)'
    BY <1>0, <2>1, <2>2, <2>3 DEF Flight
  <2> QED
    BY <1>0, <2>1, <2>2, <2>3, <2>4 DEF TxnInv
<1>2. ASSUME NEW t \in Threads, FindIndex(t) \/ ClaimIndex(t) PROVE TxnInv'
  <2>1. /\ pc[t] \in {"search", "found"} /\ UNCHANGED <<net, held, txn, serial, sends, result>>
        /\ \A u \in Threads : u # t => idx'[u] = idx[u] /\ pc'[u] = pc[u]
        /\ pc'[t] \in {"found", "send"}
    BY <1>0, <1>2 DEF FindIndex, ClaimIndex
  <2>2. ~Owning(t) /\ \A u \in Threads : u # t => (Owning(u)' <=> Owning(u))
    BY <2>1 DEF Owning
  <2>3. \A f : (\A u \in Threads : Flight(f, u)) => \A u \in Threads : Flight(f, u)'
    BY <2>1, <2>2 DEF Flight
  <2> QED
    BY <1>0, <2>1, <2>3 DEF TxnInv
<1>3. ASSUME NEW t \in Threads,
             \/ MarkTx(t) \/ TransmitFails(t) \/ MarkEmpty(t) \/ TakeStored(t) \/ NotStored(t)
             \/ RecvNothing(t) \/ RecvOwn(t) \/ RecvStrange(t) \/ Store(t)
             \/ LookAgain(t) \/ Resend(t) \/ GiveUp(t)
      PROVE TxnInv'
  <2>1. /\ Owning(t) /\ Owning(t)' /\ UNCHANGED <<idx, txn, serial>> /\ net' \subseteq net
        /\ \A u \in Threads : /\ u # t => pc'[u] = pc[u] /\ held'[u] = held[u] /\ result'[u] = result[u]
                              /\ sends[u] # 0 => sends'[u] # 0
        /\ pc'[t] # "store" /\ (pc'[t] # "done" => result'[t] = result[t]) /\ pc[t] # "done"
    BY <1>0, <1>3
    DEF MarkTx, TransmitFails, MarkEmpty, TakeStored, NotStored, RecvNothing, RecvOwn, RecvStrange,
        Store, LookAgain, Resend, GiveUp, Owning
  <2>2. \A u \in Threads : Owning(u)' <=> Owning(u)
    BY <2>1 DEF Owning
  <2>3. \A f : (\A u \in Threads : Flight(f, u)) => \A u \in Threads : Flight(f, u)'
    BY <2>1, <2>2 DEF Flight
  <2> QED
    BY <1>0, <2>1, <2>3 DEF TxnInv
<1>4. ASSUME NEW t \in Threads, Transmit(t) PROVE TxnInv'
  <2> DEFINE new == [idx |-> idx[t], txn |-> txn[t], nth |-> sends[t] + 1]
  <2>1. /\ pc[t] = "wire" /\ pc' = [pc EXCEPT ![t] = "poll"] /\ sends' = [sends EXCEPT ![t] = @ + 1]
        /\ UNCHANGED <<idx, txn, serial, held, result>> /\ net' = net \cup {new}
    BY <1>4 DEF Transmit
  <2>2. Owning(t)' /\ \A u \in Threads : (Owning(u)' <=> Owning(u)) /\ (pc'[u] = "store" => pc[u] = "store")
    BY <1>0, <2>1 DEF Owning
  <2>3. \A f : (\A u \in Threads : Flight(f, u)) => \A u \in Threads : Flight(f, u)'
    BY <1>0, <2>1, <2>2 DEF Flight
  <2>4. txn[t] # 0 /\ \A u \in Threads : u # t => txn[u] # txn[t]
    BY <2>1 DEF LocalInv, TxnInv
  <2>5. new.txn <= serial' /\ \A u \in Threads : (new.txn = txn'[u] => Owning(u)' /\ new.idx = idx'[u] /\ sends'[u] # 0)
    BY <1>0, <2>1, <2>2, <2>4 DEF TxnInv
  <2> HIDE DEF new
  <2>6. \A f \in net' : f.txn <= serial' /\ \A u \in Threads : Flight(f, u)'
    <3>1. ASSUME NEW f, f = new PROVE \A u \in Threads : Flight(f, u)'
      BY <2>5, <3>1 DEF Flight
    <3> QED
      BY <2>1, <2>3, <2>5, <3>1 DEF TxnInv
  <2> QED
    BY <1>0, <2>1, <2>2, <2>3, <2>6 DEF TxnInv
<1>5. ASSUME NEW t \in Threads, RecvOther(t) PROVE TxnInv'
  <2>1. PICK f \in net : net' = net \ {f} /\ held' = [held EXCEPT ![t] = f]
    BY <1>5 DEF RecvOther
  <2>2. /\ Owning(t) /\ Owning(t)' /\ UNCHANGED <<idx, txn, serial, sends, result>>
        /\ \A u \in Threads : u # t => pc'[u] = pc[u] /\ held'[u] = held[u]
        /\ held'[t] = f /\ pc[t] = "recv" /\ pc'[t] = "store"
    BY <1>0, <1>5, <2>1 DEF RecvOther, Owning
  <2>3. \A g : (\A u \in Threads : Flight(g, u)) => \A u \in Threads : Flight(g, u)'
    BY <2>2 DEF Flight, Owning
  <2> QED
    BY <1>0, <2>1, <2>2, <2>3 DEF TxnInv
<1>6. ASSUME NEW t \in Threads, Release(t) PROVE TxnInv'
  <2>1. /\ pc[t] = "done" /\ pc' = [pc EXCEPT ![t] = "idle"] /\ UNCHANGED <<serial, held, net>>
        /\ txn'[t] = 0 /\ result'[t] = NoFrame
        /\ \A u \in Threads : u # t => /\ txn'[u] = txn[u] /\ idx'[u] = idx[u] /\ sends'[u] = sends[u]
                                       /\ result'[u] = result[u] /\ pc'[u] = pc[u]
    BY <1>0, <1>6 DEF Release
  <2>2. \A f : f.txn # 0 /\ (\A u \in Threads : Flight(f, u)) => \A u \in Threads : Flight(f, u)'
    BY <1>0, <2>1 DEF Flight, Owning
  <2>3. \A u \in Threads : (pc'[u] = "store" => pc[u] = "store") /\ (pc'[u] # "done" => u = t \/ pc[u] # "done")
    BY <1>0, <2>1
  <2> QED
    BY <1>0, <2>1, <2>2, <2>3 DEF TxnInv
<1>7. CASE LoseFrame \/ UNCHANGED vars
  <2>1. /\ UNCHANGED <<pc, idx, txn, serial, sends, held, result>> /\ net' \subseteq net
    BY <1>7 DEF LoseFrame, vars
  <2>2. \A f : (\A u \in Threads : Flight(f, u)) => \A u \in Threads : Flight(f, u)'
    BY <2>1 DEF Flight, Owning
  <2> QED
    BY <2>1, <2>2 DEF TxnInv
<1> QED
  BY <1>1, <1>2, <1>3, <1>4, <1>5, <1>6, <1>7 DEF Next, ThreadStep, InFrame

(***************************************************************************)
(* A buffer into which an answer is being stored still waits for it, and   *)
(* one whose answer was accepted waits no more: so nobody stores there     *)
(* until its owner has returned the index.                                 *)
(***************************************************************************)
LEMMA NextBufferInv ==
  NicInv /\ TxnInv /\ (TableIntact => BufferInv) /\ [Next]_vars /\ TableIntact' => BufferInv'
<1> SUFFICES ASSUME NicInv, TxnInv, TableIntact => BufferInv, [Next]_vars, TableIntact'
             PROVE  BufferInv'
  OBVIOUS
<1>1. /\ TypeOK /\ MutexInv /\ LocalInv /\ TableIntact /\ TableInv /\ BufferInv
  BY MishapsStay DEF NicInv, TableIntact
<1>0. /\ DOMAIN rxbufstat = Slots /\ DOMAIN rxbuf = Slots /\ DOMAIN pc = Threads /\ DOMAIN idx = Threads
      /\ DOMAIN sends = Threads /\ DOMAIN held = Threads /\ DOMAIN result = Threads
      /\ \A u \in Threads : idx[u] \in Slots /\ sends[u] \in Nat
      /\ \A u \in Threads : pc[u] = "store" => held[u].idx \in Slots /\ held[u] # NoFrame
      /\ \A f \in net : f.idx \in Slots
  BY <1>1, NicAssumption DEF TypeOK, LocalInv, Frames
<1>u. \A u, v \in Threads : u # v /\ Owning(u) /\ Owning(v) => idx[u] # idx[v]
  BY <1>1 DEF TableInv
<1> USE DEF Goto
<1>2. ASSUME NEW t \in Threads, StartGetIndex(t) \/ FindIndex(t) PROVE BufferInv'
  <2>1. /\ ~Owning(t) /\ ~Owning(t)' /\ UNCHANGED <<rxbufstat, rxbuf, held, result, sends>>
        /\ \A u \in Threads : u # t => pc'[u] = pc[u] /\ idx'[u] = idx[u]
    BY <1>0, <1>2 DEF StartGetIndex, FindIndex, Owning
  <2> QED
    BY <1>1, <2>1 DEF BufferInv, Owning
<1>3. ASSUME NEW t \in Threads, ClaimIndex(t) PROVE BufferInv'
  <2>1. /\ pc[t] = "found" /\ pc'[t] = "send" /\ sends'[t] = 0 /\ rxbufstat[idx[t]] = "EMPTY"
        /\ UNCHANGED <<rxbuf, held, result, sends, idx>>
        /\ \A u \in Threads : u # t => pc'[u] = pc[u]
        /\ \A i \in Slots : i # idx[t] => rxbufstat'[i] = rxbufstat[i]
    BY <1>0, <1>1, <1>3 DEF ClaimIndex, TableInv, LocalInv
  <2>2. \A u \in Threads : u # t => (Owning(u)' <=> Owning(u))
    BY <2>1 DEF Owning
  <2> QED
    BY <1>0, <1>1, <2>1, <2>2 DEF BufferInv
<1>4. ASSUME NEW t \in Threads, MarkTx(t) PROVE BufferInv'
  <2>1. /\ pc[t] = "send" /\ pc'[t] = "wire" /\ rxbufstat'[idx[t]] = "TX"
        /\ UNCHANGED <<rxbuf, held, result, sends, idx>>
        /\ \A u \in Threads : u # t => pc'[u] = pc[u]
        /\ \A i \in Slots : i # idx[t] => rxbufstat'[i] = rxbufstat[i]
    BY <1>0, <1>4 DEF MarkTx
  <2>2. Owning(t) /\ \A u \in Threads : Owning(u)' <=> Owning(u)
    BY <2>1 DEF Owning
  <2>3. \A u \in Threads : pc'[u] = "done" => Owning(u)
    BY <2>2 DEF Owning
  <2> QED
    BY <1>0, <1>1, <1>u, <2>1, <2>2, <2>3 DEF BufferInv
<1>5. ASSUME NEW t \in Threads, \/ Transmit(t) \/ NotStored(t) \/ RecvNothing(t) \/ RecvStrange(t)
                               \/ LookAgain(t) \/ GiveUp(t) \/ Resend(t)
      PROVE  BufferInv'
  <2>1. /\ Owning(t) /\ pc[t] # "send" /\ pc'[t] # "store" /\ pc[t] # "done"
        /\ UNCHANGED <<rxbufstat, rxbuf, held, result, idx>>
        /\ \A u \in Threads : u # t => pc'[u] = pc[u] /\ sends'[u] = sends[u]
    BY <1>0, <1>5 DEF Transmit, NotStored, RecvNothing, RecvStrange, LookAgain, GiveUp, Resend, Owning
  <2>2. result[t] = NoFrame
    BY <2>1 DEF TxnInv
  <2>3. \A u \in Threads : u # t => (Owning(u)' <=> Owning(u))
    BY <2>1 DEF Owning
  <2> QED
    BY <1>1, <2>1, <2>2, <2>3 DEF BufferInv
<1>6. ASSUME NEW t \in Threads, TransmitFails(t) \/ MarkEmpty(t) PROVE BufferInv'
  BY <1>1, <1>6 DEF TransmitFails, MarkEmpty, LocalInv, TableIntact
<1>7. ASSUME NEW t \in Threads, TakeStored(t) PROVE BufferInv'
  <2>1. /\ pc[t] = "poll" /\ pc'[t] = "done" /\ rxbufstat[idx[t]] = "RCVD" /\ rxbufstat'[idx[t]] = "COMPLETE"
        /\ result'[t] = rxbuf[idx[t]]
        /\ UNCHANGED <<rxbuf, held, sends, idx>>
        /\ \A u \in Threads : u # t => pc'[u] = pc[u] /\ result'[u] = result[u]
        /\ \A i \in Slots : i # idx[t] => rxbufstat'[i] = rxbufstat[i]
    BY <1>0, <1>7 DEF TakeStored
  <2>2. Owning(t) /\ \A u \in Threads : Owning(u)' <=> Owning(u)
    BY <2>1 DEF Owning
  <2>3. \A u \in Threads : pc'[u] = "done" => Owning(u)
    BY <2>2 DEF Owning
  <2> QED
    BY <1>0, <1>1, <1>u, <2>1, <2>2, <2>3 DEF BufferInv
<1>8. ASSUME NEW t \in Threads, RecvOwn(t) PROVE BufferInv'
  <2>1. PICK f \in net : /\ f.idx = idx[t] /\ rxbuf' = [rxbuf EXCEPT ![f.idx] = f]
                         /\ result' = [result EXCEPT ![t] = f]
    BY <1>8 DEF RecvOwn
  <2>2. /\ pc[t] = "recv" /\ pc'[t] = "done" /\ rxbufstat'[idx[t]] = "COMPLETE"
        /\ result'[t] = f /\ rxbuf'[idx[t]] = f
        /\ UNCHANGED <<held, sends, idx>>
        /\ \A u \in Threads : u # t => pc'[u] = pc[u] /\ result'[u] = result[u]
        /\ \A i \in Slots : i # idx[t] => rxbufstat'[i] = rxbufstat[i] /\ rxbuf'[i] = rxbuf[i]
    BY <1>0, <1>8, <2>1 DEF RecvOwn
  <2>3. Owning(t) /\ \A u \in Threads : Owning(u)' <=> Owning(u)
    BY <2>2 DEF Owning
  <2>4. \A u \in Threads : (pc'[u] = "done" => Owning(u)) /\ pc'[u] # "store"
    BY <1>1, <1>8, <2>2, <2>3, NicAssumption DEF Owning, MutexInv, RecvOwn
  <2> QED
    BY <1>0, <1>1, <1>u, <2>2, <2>3, <2>4 DEF BufferInv
<1>9. ASSUME NEW t \in Threads, RecvOther(t) PROVE BufferInv'
  <2>1. PICK f \in net : rxbufstat[f.idx] = "TX" /\ held' = [held EXCEPT ![t] = f]
    BY <1>9 DEF RecvOther
  <2>2. /\ pc[t] = "recv" /\ pc'[t] = "store" /\ held'[t] = f
        /\ UNCHANGED <<rxbufstat, rxbuf, result, sends, idx>>
        /\ \A u \in Threads : u # t => pc'[u] = pc[u] /\ held'[u] = held[u]
    BY <1>0, <1>9, <2>1 DEF RecvOther
  <2>3. Owning(t) /\ \A u \in Threads : Owning(u)' <=> Owning(u)
    BY <2>2 DEF Owning
  <2> QED
    BY <1>1, <2>1, <2>2, <2>3 DEF BufferInv
<1>10. ASSUME NEW t \in Threads, Store(t) PROVE BufferInv'
  <2> DEFINE i == held[t].idx
  <2>1. /\ pc[t] = "store" /\ pc'[t] = "timers" /\ rxbufstat[i] = "TX" /\ rxbufstat'[i] = "RCVD"
        /\ UNCHANGED <<result, sends, idx>> /\ i \in Slots
        /\ \A u \in Threads : u # t => pc'[u] = pc[u]
        /\ \A j \in Slots : j # i => rxbufstat'[j] = rxbufstat[j] /\ rxbuf'[j] = rxbuf[j]
    BY <1>0, <1>1, <1>10 DEF Store, BufferInv
  <2>2. Owning(t) /\ \A u \in Threads : Owning(u)' <=> Owning(u)
    BY <2>1 DEF Owning
  <2>3. \A u \in Threads : pc'[u] # "store"
    BY <1>1, <2>1, NicAssumption DEF MutexInv
  <2> HIDE DEF i
  <2> QED
    BY <1>0, <1>1, <2>1, <2>2, <2>3 DEF BufferInv
<1>11. ASSUME NEW t \in Threads, Release(t) PROVE BufferInv'
  <2>1. /\ pc[t] = "done" /\ pc'[t] = "idle" /\ UNCHANGED <<rxbuf, held>>
        /\ \A u \in Threads : u # t => /\ pc'[u] = pc[u] /\ result'[u] = result[u] /\ sends'[u] = sends[u]
                                       /\ idx'[u] = idx[u]
        /\ \A i \in Slots : i # idx[t] => rxbufstat'[i] = rxbufstat[i]
    BY <1>0, <1>11 DEF Release
  <2>2. Owning(t) /\ ~Owning(t)' /\ \A u \in Threads : u # t => (Owning(u)' <=> Owning(u))
    BY <2>1 DEF Owning
  <2>3. \A u \in Threads : pc'[u] = "store" => held[u].idx # idx[t]
    BY <1>11, <2>1 DEF Release, TableIntact
  <2>4. \A u \in Threads : pc'[u] = "done" => Owning(u) /\ u # t
    BY <2>1 DEF Owning
  <2>5. \A u \in Threads : pc'[u] = "store" => u # t
    BY <2>1
  <2> QED
    BY <1>0, <1>1, <1>u, <2>1, <2>2, <2>3, <2>4, <2>5 DEF BufferInv
<1>12. CASE LoseFrame \/ UNCHANGED vars
  BY <1>1, <1>12 DEF LoseFrame, vars, BufferInv, Owning
<1> QED
  BY <1>2, <1>3, <1>4, <1>5, <1>6, <1>7, <1>8, <1>9, <1>10, <1>11, <1>12 DEF Next, ThreadStep, InFrame

(***************************************************************************)
(* While nothing is late a transaction has one frame at a time on its way  *)
(* or in another thread's hands, and none once its answer is there: no     *)
(* frame outlives its transaction and is found under an index used again.  *)
(***************************************************************************)
LEMMA NextLoneInv ==
  NicInv /\ AnswerInv /\ [Next]_vars /\ mishap' = {} => LoneInv'
<1> SUFFICES ASSUME NicInv, AnswerInv, [Next]_vars, mishap' = {}
             PROVE  LoneInv'
  OBVIOUS
<1>1. /\ TypeOK /\ MutexInv /\ LocalInv /\ mishap = {} /\ TableInv /\ TxnInv /\ BufferInv /\ LoneInv
  BY MishapsStay DEF NicInv, AnswerInv, TableIntact
<1>0. /\ DOMAIN rxbufstat = Slots /\ DOMAIN rxbuf = Slots /\ DOMAIN pc = Threads /\ DOMAIN idx = Threads
      /\ DOMAIN sends = Threads /\ DOMAIN held = Threads /\ DOMAIN result = Threads /\ DOMAIN txn = Threads
      /\ \A u \in Threads : idx[u] \in Slots
      /\ \A f \in net : f.idx \in Slots /\ f.txn \in Nat \ {0}
      /\ \A u \in Threads : pc[u] = "store" => held[u].idx \in Slots /\ held[u].txn \in Nat \ {0}
  BY <1>1, NicAssumption DEF TypeOK, LocalInv, Frames
<1>u. \A u, v \in Threads : u # v /\ Owning(u) /\ Owning(v) => idx[u] # idx[v] /\ txn[u] # txn[v]
  BY <1>1 DEF TableInv, TxnInv, LocalInv, Owning
\* a frame in flight is that of the thread that owns its index
<1>o. /\ \A f \in net : \E t \in Threads : f.txn = txn[t] /\ Owning(t) /\ f.idx = idx[t]
      /\ \A u \in Threads : pc[u] = "store" =>
           \E t \in Threads : held[u].txn = txn[t] /\ Owning(t) /\ held[u].idx = idx[t]
  BY <1>1 DEF TxnInv, LoneInv, Flight
\* at most one thread stores
<1>m. \A u, v \in Threads : pc[u] = "store" /\ pc[v] = "store" => u = v
  BY <1>1 DEF MutexInv
<1>d. \A u \in Threads : pc[u] # "done" => result[u] = NoFrame
  BY <1>1 DEF TxnInv
<1> USE DEF Goto
<1>2. ASSUME NEW t \in Threads, StartGetIndex(t) \/ FindIndex(t) PROVE LoneInv'
  <2>1. /\ ~Owning(t) /\ ~Owning(t)' /\ UNCHANGED <<rxbufstat, rxbuf, held, result, net>>
        /\ pc[t] # "store" /\ pc'[t] # "store"
        /\ \A u \in Threads : u # t => pc'[u] = pc[u] /\ idx'[u] = idx[u] /\ txn'[u] = txn[u]
    BY <1>0, <1>2 DEF StartGetIndex, FindIndex, Owning
  <2>2. \A u \in Threads : u # t => (StillTravelling(u)' <=> StillTravelling(u)) /\ (Owning(u)' <=> Owning(u))
    BY <2>1 DEF StillTravelling, Owning
  <2>3. /\ \A f \in net : \E u \in Threads : f.txn = txn'[u]
        /\ \A u \in Threads : pc'[u] = "store" => pc[u] = "store" /\ \E v \in Threads : held[u].txn = txn'[v]
    BY <1>o, <2>1
  <2> QED
    BY <1>1, <2>1, <2>2, <2>3 DEF LoneInv
<1>3. ASSUME NEW t \in Threads, ClaimIndex(t) PROVE LoneInv'
  <2>1. /\ pc[t] = "found" /\ pc'[t] = "send" /\ rxbufstat'[idx[t]] = "ALLOC"
        /\ UNCHANGED <<rxbuf, held, result, idx, txn, net>>
        /\ \A u \in Threads : u # t => pc'[u] = pc[u]
        /\ \A i \in Slots : i # idx[t] => rxbufstat'[i] = rxbufstat[i]
    BY <1>0, <1>3 DEF ClaimIndex
  <2>2. /\ \A u \in Threads : pc'[u] = "store" <=> pc[u] = "store"
        /\ \A u \in Threads : u # t => (Owning(u)' <=> Owning(u))
    BY <2>1 DEF Owning
  <2>3. \A u \in Threads : StillTravelling(u)' <=> StillTravelling(u)
    BY <2>1, <2>2 DEF StillTravelling
  <2>4. ~StillTravelling(t) /\ ~Owning(t)
    BY <1>1, <2>1 DEF StillTravelling, TxnInv, Flight, Owning
  <2>5. \A u \in Threads : Owning(u) => idx[u] # idx[t]
    <3>1. ~Owned(idx[t]) /\ idx[t] \in Slots
      BY <1>0, <1>1, <2>1 DEF TableInv
    <3> QED
      BY <3>1 DEF Owned
  <2> QED
    BY <1>0, <1>1, <1>d, <2>1, <2>2, <2>3, <2>4, <2>5 DEF LoneInv
<1>4. ASSUME NEW t \in Threads, MarkTx(t) \/ TakeStored(t) PROVE LoneInv'
  <2>1. /\ UNCHANGED <<rxbuf, held, idx, txn, net>> /\ Owning(t) /\ pc[t] # "store" /\ pc'[t] # "store"
        /\ \A u \in Threads : u # t => pc'[u] = pc[u] /\ result'[u] = result[u]
        /\ \A i \in Slots : i # idx[t] => rxbufstat'[i] = rxbufstat[i]
        /\ \/ pc[t] = "send" /\ pc'[t] = "wire" /\ rxbufstat'[idx[t]] = "TX" /\ result' = result
           \/ /\ pc'[t] = "done" /\ rxbufstat[idx[t]] = "RCVD" /\ rxbufstat'[idx[t]] = "COMPLETE"
              /\ result'[t] = rxbuf[idx[t]]
    BY <1>0, <1>4 DEF MarkTx, TakeStored, Owning
  <2>2. \A u \in Threads : /\ pc'[u] = "store" <=> pc[u] = "store"
                           /\ Owning(u)' <=> Owning(u)
    BY <2>1 DEF Owning
  <2>3. \A u \in Threads : StillTravelling(u)' <=> StillTravelling(u)
    BY <2>1, <2>2 DEF StillTravelling
  <2>4. /\ ~StillTravelling(t)
        /\ rxbufstat[idx[t]] = "RCVD" => rxbuf[idx[t]].txn = txn[t]
    BY <1>1, <2>1 DEF LoneInv
  <2>5. /\ \A f \in net : \E u \in Threads : f.txn = txn[u]
        /\ \A u \in Threads : pc[u] = "store" => \E v \in Threads : held[u].txn = txn[v]
        /\ \A f, g \in net : f.txn = g.txn => f = g
        /\ \A f \in net, u \in Threads : pc[u] = "store" => f.txn # held[u].txn
    BY <1>1 DEF LoneInv
  <2>6. ASSUME NEW u \in Threads, Owning(u)
        PROVE  /\ pc'[u] \in {"send", "wire", "done"} \/ rxbufstat'[idx[u]] \in {"RCVD", "COMPLETE"}
                     => ~StillTravelling(u)
               /\ pc'[u] = "wire" => rxbufstat'[idx[u]] = "TX"
               /\ rxbufstat'[idx[u]] = "RCVD" => rxbuf[idx[u]].txn = txn[u]
               /\ result'[u] # NoFrame => result'[u].txn = txn[u]
    <3>1. CASE u = t
      BY <1>d, <2>1, <2>4, <3>1
    <3>2. CASE u # t
      BY <1>0, <1>1, <1>u, <2>1, <2>6, <3>2 DEF LoneInv
    <3> QED
      BY <3>1, <3>2
  <2> QED
    BY <2>1, <2>2, <2>3, <2>5, <2>6 DEF LoneInv
<1>5. ASSUME NEW t \in Threads, Transmit(t) PROVE LoneInv'
  <2>0. PICK new : new = [idx |-> idx[t], txn |-> txn[t], nth |-> sends[t] + 1]
    OBVIOUS
  <2>1. /\ pc[t] = "wire" /\ pc'[t] = "poll" /\ net' = net \cup {new} /\ new.txn = txn[t]
        /\ UNCHANGED <<rxbufstat, rxbuf, held, result, idx, txn>>
        /\ \A u \in Threads : u # t => pc'[u] = pc[u]
    BY <1>0, <1>5, <2>0 DEF Transmit
  <2>2. /\ Owning(t)
        /\ \A u \in Threads : (pc'[u] = "store" <=> pc[u] = "store") /\ (Owning(u)' <=> Owning(u))
    BY <2>1 DEF Owning
  <2>3. \A u \in Threads : u # t /\ Owning(u) => (StillTravelling(u)' <=> StillTravelling(u))
    BY <1>u, <2>1, <2>2 DEF StillTravelling
  <2>4. ~StillTravelling(t) /\ rxbufstat[idx[t]] = "TX"
    BY <1>1, <2>1, <2>2 DEF LoneInv
  <2>5. \A f \in net : f.txn # txn[t]
    BY <2>4 DEF StillTravelling
  <2>6. \A u \in Threads : pc[u] = "store" => held[u].txn # txn[t]
    BY <2>4 DEF StillTravelling
  <2>7. /\ \A f \in net' : \E u \in Threads : f.txn = txn[u]
        /\ \A u \in Threads : pc[u] = "store" => \E v \in Threads : held[u].txn = txn[v]
        /\ \A f, g \in net' : f.txn = g.txn => f = g
        /\ \A f \in net', u \in Threads : pc[u] = "store" => f.txn # held[u].txn
    BY <1>1, <2>1, <2>5, <2>6 DEF LoneInv
  <2>8. ASSUME NEW u \in Threads, Owning(u)
        PROVE  /\ pc'[u] \in {"send", "wire", "done"} \/ rxbufstat[idx[u]] \in {"RCVD", "COMPLETE"}
                     => ~StillTravelling(u)'
               /\ pc'[u] = "wire" => rxbufstat[idx[u]] = "TX"
               /\ rxbufstat[idx[u]] = "RCVD" => rxbuf[idx[u]].txn = txn[u]
               /\ result[u] # NoFrame => result[u].txn = txn[u]
    <3>1. CASE u = t
      BY <1>d, <2>1, <2>4, <3>1
    <3>2. CASE u # t
      BY <1>1, <2>1, <2>3, <2>8, <3>2 DEF LoneInv
    <3> QED
      BY <3>1, <3>2
  <2> QED
    BY <2>1, <2>2, <2>7, <2>8 DEF LoneInv
<1>6. ASSUME NEW t \in Threads, TransmitFails(t) \/ MarkEmpty(t) PROVE LoneInv'
  BY <1>1, <1>6 DEF TransmitFails, MarkEmpty, LocalInv
\* frames may go, and the thread looks once more or ends without an answer
<1>7. ASSUME NEW t \in Threads, UNCHANGED <<rxbufstat, rxbuf, held, result, idx, txn>>, net' \subseteq net,
             \A u \in Threads : pc[u] # pc'[u] =>
               /\ Owning(u) /\ pc[u] \notin {"store", "done"} /\ pc'[u] \in {"recv", "timers", "poll", "send", "done"}
               /\ pc'[u] \in {"send", "done"} => ~StillTravelling(u)
      PROVE  LoneInv'
  <2>1. \A u \in Threads : /\ pc'[u] = "store" <=> pc[u] = "store"
                           /\ Owning(u)' <=> Owning(u)
    BY <1>7 DEF Owning
  <2>2. \A u \in Threads : StillTravelling(u)' => StillTravelling(u)
    BY <1>7, <2>1 DEF StillTravelling
  <2>3. \A u \in Threads : Owning(u) =>
          /\ pc'[u] \in {"send", "wire", "done"} \/ rxbufstat[idx[u]] \in {"RCVD", "COMPLETE"}
               => ~StillTravelling(u)
          /\ pc'[u] = "wire" => rxbufstat[idx[u]] = "TX"
    BY <1>1, <1>7 DEF LoneInv
  <2> QED
    BY <1>1, <1>7, <2>1, <2>2, <2>3 DEF LoneInv
<1>8. ASSUME NEW t \in Threads,
             \/ NotStored(t) \/ RecvNothing(t) \/ RecvStrange(t) \/ LookAgain(t) \/ Resend(t) \/ GiveUp(t)
      PROVE LoneInv'
  <2>1. /\ UNCHANGED <<rxbufstat, rxbuf, held, result, idx, txn>> /\ net' \subseteq net /\ Owning(t)
        /\ \A u \in Threads : u # t => pc[u] = pc'[u]
        /\ pc[t] \notin {"store", "done"} /\ pc'[t] \in {"recv", "timers", "poll", "send", "done"}
        /\ pc'[t] \in {"send", "done"} => ~StillTravelling(t)
    BY <1>0, <1>8 DEF NotStored, RecvNothing, RecvStrange, LookAgain, Resend, GiveUp, Owning
  <2> QED
    BY <1>7, <2>1
<1>9. ASSUME NEW t \in Threads, RecvOwn(t) PROVE LoneInv'
  <2>1. PICK f \in net : /\ f.idx = idx[t] /\ net' = net \ {f}
                         /\ rxbuf' = [rxbuf EXCEPT ![f.idx] = f] /\ result' = [result EXCEPT ![t] = f]
    BY <1>9 DEF RecvOwn
  <2>2. /\ pc[t] = "recv" /\ pc'[t] = "done" /\ rxbufstat'[idx[t]] = "COMPLETE" /\ result'[t] = f
        /\ UNCHANGED <<held, idx, txn>>
        /\ \A u \in Threads : u # t => pc'[u] = pc[u] /\ result'[u] = result[u]
        /\ \A i \in Slots : i # idx[t] => rxbufstat'[i] = rxbufstat[i] /\ rxbuf'[i] = rxbuf[i]
    BY <1>0, <1>9, <2>1 DEF RecvOwn
  <2>3. Owning(t) /\ \A u \in Threads : Owning(u)' <=> Owning(u)
    BY <2>2 DEF Owning
  <2>4. \A u \in Threads : pc[u] # "store" /\ pc'[u] # "store"
    BY <1>1, <1>9, <2>2, NicAssumption DEF MutexInv, RecvOwn
  <2>5. f.txn = txn[t]
    BY <1>o, <1>u, <2>1, <2>3
  <2>6. \A g \in net' : g.txn # txn[t]
    BY <1>1, <2>1, <2>5 DEF LoneInv
  <2>7. ~StillTravelling(t)' /\ \A u \in Threads : StillTravelling(u)' => StillTravelling(u)
    BY <2>1, <2>2, <2>4, <2>6 DEF StillTravelling
  <2>8. ASSUME NEW u \in Threads, Owning(u)
        PROVE  /\ pc'[u] \in {"send", "wire", "done"} \/ rxbufstat'[idx[u]] \in {"RCVD", "COMPLETE"}
                     => ~StillTravelling(u)'
               /\ pc'[u] = "wire" => rxbufstat'[idx[u]] = "TX"
               /\ rxbufstat'[idx[u]] = "RCVD" => rxbuf'[idx[u]].txn = txn[u]
               /\ result'[u] # NoFrame => result'[u].txn = txn[u]
    <3>1. CASE u = t
      BY <2>2, <2>5, <2>7, <3>1
    <3>2. CASE u # t
      BY <1>0, <1>1, <1>u, <2>2, <2>3, <2>7, <2>8, <3>2 DEF LoneInv
    <3> QED
      BY <3>1, <3>2
  <2> QED
    BY <1>1, <2>1, <2>2, <2>3, <2>4, <2>8 DEF LoneInv
<1>10. ASSUME NEW t \in Threads, RecvOther(t) PROVE LoneInv'
  <2>1. PICK f \in net : net' = net \ {f} /\ held' = [held EXCEPT ![t] = f]
    BY <1>10 DEF RecvOther
  <2>2. /\ pc[t] = "recv" /\ pc'[t] = "store" /\ held'[t] = f
        /\ UNCHANGED <<rxbufstat, rxbuf, result, idx, txn>>
        /\ \A u \in Threads : u # t => pc'[u] = pc[u] /\ held'[u] = held[u]
    BY <1>0, <1>10, <2>1 DEF RecvOther
  <2>3. Owning(t) /\ \A u \in Threads : Owning(u)' <=> Owning(u)
    BY <2>2 DEF Owning
  <2>4. \A u \in Threads : pc[u] # "store" /\ (pc'[u] = "store" <=> u = t)
    BY <1>1, <1>10, <2>2, NicAssumption DEF MutexInv, RecvOther
  <2>5. \A u \in Threads : StillTravelling(u)' => StillTravelling(u)
    BY <2>1, <2>2, <2>4 DEF StillTravelling
  <2>6. \A u \in Threads : Owning(u) =>
          (pc'[u] \in {"send", "wire", "done"} \/ rxbufstat[idx[u]] \in {"RCVD", "COMPLETE"}
             => ~StillTravelling(u))
    BY <1>1, <2>2 DEF LoneInv
  <2>7. \A g \in net' : g.txn # f.txn
    BY <1>1, <2>1 DEF LoneInv
  <2>8. \A u \in Threads : pc'[u] = "wire" => pc[u] = "wire"
    BY <2>2
  <2> QED
    BY <1>1, <2>1, <2>2, <2>3, <2>4, <2>5, <2>6, <2>7, <2>8 DEF LoneInv
<1>11. ASSUME NEW t \in Threads, Store(t) PROVE LoneInv'
  <2>0. PICK f : f = held[t]
    OBVIOUS
  <2>1. /\ pc[t] = "store" /\ pc'[t] = "timers" /\ rxbufstat'[f.idx] = "RCVD" /\ rxbuf'[f.idx] = f
        /\ UNCHANGED <<result, idx, txn, net>>
        /\ \A u \in Threads : u # t => pc'[u] = pc[u]
        /\ \A j \in Slots : j # f.idx => rxbufstat'[j] = rxbufstat[j] /\ rxbuf'[j] = rxbuf[j]
    BY <1>0, <1>11, <2>0 DEF Store
  <2>2. Owning(t) /\ \A u \in Threads : Owning(u)' <=> Owning(u)
    BY <2>1 DEF Owning
  <2>3. \A u \in Threads : pc'[u] # "store" /\ (pc[u] = "store" => u = t)
    BY <1>m, <2>1
  <2>4. PICK v \in Threads : f.txn = txn[v] /\ Owning(v) /\ f.idx = idx[v]
    BY <1>o, <2>0, <2>1
  <2>5. (\A g \in net : g.txn # txn[v]) /\ StillTravelling(v)
    BY <1>1, <2>0, <2>1, <2>4 DEF LoneInv, StillTravelling
  <2>6. ~StillTravelling(v)' /\ \A u \in Threads : StillTravelling(u)' => StillTravelling(u)
    BY <2>1, <2>3, <2>5 DEF StillTravelling
  <2>7. ASSUME NEW u \in Threads, Owning(u)
        PROVE  /\ pc'[u] \in {"send", "wire", "done"} \/ rxbufstat'[idx[u]] \in {"RCVD", "COMPLETE"}
                     => ~StillTravelling(u)'
               /\ pc'[u] = "wire" => rxbufstat'[idx[u]] = "TX"
               /\ rxbufstat'[idx[u]] = "RCVD" => rxbuf'[idx[u]].txn = txn[u]
               /\ result[u] # NoFrame => result[u].txn = txn[u]
    <3>1. CASE u = v
      <4>1. pc[v] # "wire" /\ pc'[v] # "wire"
        BY <1>1, <2>1, <2>4, <2>5 DEF LoneInv
      <4> QED
        BY <1>1, <2>1, <2>4, <2>6, <3>1, <4>1 DEF LoneInv
    <3>2. CASE u # v
      BY <1>0, <1>1, <1>u, <2>1, <2>4, <2>6, <2>7, <3>2 DEF LoneInv
    <3> QED
      BY <3>1, <3>2
  <2> QED
    BY <1>1, <2>1, <2>2, <2>3, <2>7 DEF LoneInv
<1>12. ASSUME NEW t \in Threads, Release(t) PROVE LoneInv'
  <2>1. /\ pc[t] = "done" /\ pc'[t] = "idle" /\ UNCHANGED <<rxbuf, held, net>>
        /\ \A u \in Threads : u # t => /\ pc'[u] = pc[u] /\ result'[u] = result[u] /\ txn'[u] = txn[u]
                                       /\ idx'[u] = idx[u]
        /\ \A i \in Slots : i # idx[t] => rxbufstat'[i] = rxbufstat[i]
    BY <1>0, <1>12 DEF Release
  <2>2. /\ Owning(t) /\ ~Owning(t)' /\ \A u \in Threads : u # t => (Owning(u)' <=> Owning(u))
        /\ \A u \in Threads : pc'[u] = "store" <=> pc[u] = "store"
    BY <2>1 DEF Owning
  <2>3. \A u \in Threads : u # t => (StillTravelling(u)' <=> StillTravelling(u))
    BY <2>1, <2>2 DEF StillTravelling
  <2>4. ~StillTravelling(t)
    BY <1>1, <2>1, <2>2 DEF LoneInv
  <2>5. /\ \A f \in net : \E u \in Threads : f.txn = txn'[u]
        /\ \A u \in Threads : pc[u] = "store" => \E v \in Threads : held[u].txn = txn'[v]
    BY <1>o, <2>1, <2>4 DEF StillTravelling
  <2>6. ASSUME NEW u \in Threads, Owning(u)'
        PROVE  /\ u # t /\ Owning(u) /\ idx[u] # idx[t] /\ idx'[u] = idx[u]
               /\ rxbufstat'[idx[u]] = rxbufstat[idx[u]]
    BY <1>0, <1>u, <2>1, <2>2, <2>6
  <2> QED
    BY <1>1, <2>1, <2>2, <2>3, <2>5, <2>6 DEF LoneInv
<1>13. CASE LoseFrame \/ UNCHANGED vars
  <2>1. /\ UNCHANGED <<rxbufstat, rxbuf, held, result, idx, txn, pc>> /\ net' \subseteq net
    BY <1>13 DEF LoseFrame, vars
  <2>2. \A u \in Threads : /\ StillTravelling(u)' => StillTravelling(u)
                           /\ Owning(u)' <=> Owning(u)
    BY <2>1 DEF StillTravelling, Owning
  <2> QED
    BY <1>1, <2>1, <2>2 DEF LoneInv
<1> QED
  BY <1>2, <1>3, <1>4, <1>5, <1>6, <1>8, <1>9, <1>10, <1>11, <1>12, <1>13 DEF Next, ThreadStep, InFrame

\* The invariants of NicPort hold in its behaviours together.
LEMMA NextNicAnswer == NicInv /\ AnswerInv /\ [Next]_vars => (NicInv /\ AnswerInv)'
<1>1. NicInv /\ [Next]_vars => NicInv'
  BY NextTypeOK, NextMutexInv, NextLocalInv, NextTableInv DEF NicInv
<1> QED
  BY <1>1, NextTxnInv, NextBufferInv, NextLoneInv DEF NicInv, AnswerInv

\* What the invariants say of the answers.
LEMMA AnswersFollow == NicInv /\ AnswerInv => AnswerIsOwn /\ AnswerIntact /\ AnswerExpected
<1> SUFFICES ASSUME NicInv, AnswerInv PROVE AnswerIsOwn /\ AnswerIntact /\ AnswerExpected
  OBVIOUS
<1>1. AnswerIsOwn
  BY DEF AnswerInv, LoneInv, AnswerIsOwn
<1>2. AnswerIntact
  BY DEF AnswerInv, BufferInv, AnswerIntact
<1>3. AnswerExpected
  BY DEF AnswerInv, BufferInv, TxnInv, Flight, AnswerExpected
<1> QED
  BY <1>1, <1>2, <1>3

\* Both invariants hold in every state of every behaviour.
LEMMA AnswerInductive == Spec => [](NicInv /\ AnswerInv)
BY InitNicInv, InitAnswerInv, NextNicAnswer, PTL DEF Spec

(***************************************************************************)
(* The one-byte index is enough: as long as no frame outlives its timeout, *)
(* the answer a transaction takes is its own, though indices are reused    *)
(* and any thread may read and store it.                                   *)
(***************************************************************************)
THEOREM AnswersAreOwn == Spec => []AnswerIsOwn
BY AnswerInductive, AnswersFollow, PTL

(***************************************************************************)
(* No late copy of a frame overwrites an answer that its caller still      *)
(* reads from rxbuf, without a lock, after ecx_srconfirm.                  *)
(***************************************************************************)
THEOREM AnswersStayIntact == Spec => []AnswerIntact
BY AnswerInductive, AnswersFollow, PTL

(***************************************************************************)
(* No thread drops the answer to another's datagram as one nobody waits    *)
(* for.                                                                    *)
(***************************************************************************)
THEOREM AnswersAreExpected == Spec => []AnswerExpected
BY AnswerInductive, AnswersFollow, PTL
=============================================================================
