------------------------------ MODULE NicPort ------------------------------
(***************************************************************************)
(* The master's network port in its non-redundant mode (oshw/linux/        *)
(* nicdrv.c): one raw socket, EC_MAXBUF receive buffers and any number of  *)
(* threads, each of which performs datagram transactions one at a time.    *)
(* A transaction of soem/ethercatbase.c is                                 *)
(*                                                                         *)
(*    idx = ecx_getindex(); ecx_setupdatagram(idx);                        *)
(*    wkc = ecx_srconfirm(idx, timeout); ecx_setbufstat(idx, EMPTY)        *)
(*                                                                         *)
(* The threads share rxbufstat and rxbuf without a lock, except that       *)
(* getindex_mutex is held while an index is looked for and rx_mutex while  *)
(* a frame is taken from the socket and stored.  A frame taken from the    *)
(* socket may belong to another thread, for which it is then stored.       *)
(*                                                                         *)
(* An action is one access to the shared state, or a few accesses that no  *)
(* other thread can tell apart.  The contents of a datagram is the         *)
(* number of its transaction and of the transmission: two answers of one   *)
(* read may differ.  A thread's locals are reset when it is idle.          *)
(***************************************************************************)
EXTENDS Integers, FiniteSets

CONSTANTS
  Threads,      \* the threads that use the port (RT loop, ecatcheck, main)
  EC_MAXBUF,    \* number of receive buffers, 16 in ethercattype.h
  MaxTxn,       \* bound: transactions performed by all threads together
  MaxResends,   \* bound: retransmissions by all threads together
  NoThread,     \* nobody holds the mutex
  NoFrame       \* no frame

Slots  == 0 .. EC_MAXBUF - 1
Frames == [idx : Slots, txn : 1 .. MaxTxn, nth : 1 .. MaxResends + 1]

\* A thread holds one index at a time: three threads share sixteen buffers.
ASSUME NicAssumption ==
  /\ EC_MAXBUF \in Nat \ {0}
  /\ IsFiniteSet(Threads) /\ Cardinality(Threads) <= EC_MAXBUF
  /\ MaxTxn \in Nat
  /\ MaxResends \in Nat
  /\ NoThread \notin Threads
  /\ NoFrame \notin Frames

\* EC_BUF_* of ethercattype.h
Status == {"EMPTY", "ALLOC", "TX", "RCVD", "COMPLETE"}

VARIABLES
  rxbufstat,      \* status of each receive buffer
  rxbuf,          \* frame each buffer holds
  lastidx,        \* index given out last
  getindex_mutex, \* thread inside ecx_getindex, or NoThread
  rx_mutex,       \* thread inside the socket part of ecx_inframe, or NoThread
  pc,             \* where each thread is
  idx,            \* the index each thread works with
  seen,           \* buffers found in use when a thread started its search
  serial,         \* transactions begun so far
  txn,            \* number of the transaction each thread performs
  sends,          \* transmissions of each thread's transaction so far
  resends,        \* retransmissions so far
  held,           \* frame a thread is about to store for another index
  result,         \* frame the thread accepted as its answer, or NoFrame
  net,            \* frames that left the port and have not been read back
  mishap          \* history: which of Mishaps have happened so far

vars == <<rxbufstat, rxbuf, lastidx, getindex_mutex, rx_mutex, pc, idx, seen,
          serial, txn, sends, resends, held, result, net, mishap>>

(***************************************************************************)
(* What can go wrong around the port.  "sendfail": send() returned -1.     *)
(* "late": a frame was still travelling when its transaction resent it or  *)
(* gave up.  "straddle": a thread gave up and released its index while     *)
(* another thread stood between testing that buffer's status and storing   *)
(* an answer in it.                                                        *)
(***************************************************************************)
Mishaps == {"sendfail", "late", "straddle"}

Labels == {"idle", "search", "found", "send", "wire", "failed", "poll", "recv", "store",
           "timers", "done"}

\* the thread owns idx[t]: from the return of getindex to setbufstat(EMPTY)
Owning(t) == pc[t] \in {"send", "wire", "failed", "poll", "recv", "store", "timers", "done"}

Goto(t, label) == pc' = [pc EXCEPT ![t] = label]

Init ==
  /\ rxbufstat = [i \in Slots |-> "EMPTY"]
  /\ rxbuf = [i \in Slots |-> NoFrame]
  /\ lastidx = 0
  /\ getindex_mutex = NoThread
  /\ rx_mutex = NoThread
  /\ pc = [t \in Threads |-> "idle"]
  /\ idx = [t \in Threads |-> 0]
  /\ seen = [t \in Threads |-> {}]
  /\ serial = 0
  /\ txn = [t \in Threads |-> 0]
  /\ sends = [t \in Threads |-> 0]
  /\ resends = 0
  /\ held = [t \in Threads |-> NoFrame]
  /\ result = [t \in Threads |-> NoFrame]
  /\ net = {}
  /\ mishap = {}

-----------------------------------------------------------------------------
(***************************************************************************)
(* ecx_getindex.  The search reads one status after the other while other  *)
(* threads release and fill buffers.  A buffer may be seen in use if it    *)
(* was when the search began or is now.                                    *)
(***************************************************************************)
InUse == {i \in Slots : rxbufstat[i] # "EMPTY"}

\* buffers between the start of the search and i, in the order of the search
Before(i) == LET start == (lastidx + 1) % EC_MAXBUF
                 rank(j) == IF j >= start THEN j - start ELSE j + EC_MAXBUF - start
             IN  {j \in Slots : rank(j) < rank(i)}

\* the search ends at i: the first buffer seen EMPTY, or, after EC_MAXBUF
\* buffers were seen in use, the one where it started
SearchEndsAt(t, i) ==
  \/ rxbufstat[i] = "EMPTY" /\ Before(i) \subseteq seen[t] \cup InUse
  \/ Slots = seen[t] \cup InUse /\ Before(i) = {}

\* variant: getindex_mutex is not taken
StartGetIndexUnlocked(t) ==
  /\ pc[t] = "idle"
  /\ seen' = [seen EXCEPT ![t] = InUse]
  /\ serial < MaxTxn
  /\ serial' = serial + 1
  /\ txn' = [txn EXCEPT ![t] = serial + 1]
  /\ Goto(t, "search")
  /\ UNCHANGED <<getindex_mutex, rxbufstat, rxbuf, lastidx, rx_mutex, idx, sends, resends,
                 held, result, net, mishap>>

StartGetIndex(t) ==
  /\ pc[t] = "idle"
  /\ getindex_mutex = NoThread
  /\ getindex_mutex' = t
  /\ seen' = [seen EXCEPT ![t] = InUse]
  /\ serial < MaxTxn
  /\ serial' = serial + 1
  /\ txn' = [txn EXCEPT ![t] = serial + 1]
  /\ Goto(t, "search")
  /\ UNCHANGED <<rxbufstat, rxbuf, lastidx, rx_mutex, idx, sends, resends,
                 held, result, net, mishap>>

FindIndex(t) ==
  /\ pc[t] = "search"
  /\ \E i \in Slots : SearchEndsAt(t, i) /\ idx' = [idx EXCEPT ![t] = i]
  /\ seen' = [seen EXCEPT ![t] = {}]
  /\ Goto(t, "found")
  /\ UNCHANGED <<rxbufstat, rxbuf, lastidx, getindex_mutex, rx_mutex, serial, txn, sends, resends,
                 held, result, net, mishap>>

\* variant: the index remembered is the one to start at, which does not wrap
ClaimIndexAhead(t) ==
  /\ pc[t] = "found"
  /\ rxbufstat' = [rxbufstat EXCEPT ![idx[t]] = "ALLOC"]
  /\ lastidx' = idx[t] + 1
  /\ getindex_mutex' = NoThread
  /\ Goto(t, "send")
  /\ UNCHANGED <<rxbuf, rx_mutex, idx, seen, serial, txn, sends, resends, held, result, net, mishap>>

\* mark the buffer, unlock, and build the datagram in the owner's txbuf
ClaimIndex(t) ==
  /\ pc[t] = "found"
  /\ rxbufstat' = [rxbufstat EXCEPT ![idx[t]] = "ALLOC"]
  /\ lastidx' = idx[t]
  /\ getindex_mutex' = NoThread
  /\ Goto(t, "send")
  /\ UNCHANGED <<rxbuf, rx_mutex, idx, seen, serial, txn, sends, resends, held, result, net, mishap>>

-----------------------------------------------------------------------------
(***************************************************************************)
(* ecx_outframe.  The status is set before the frame leaves, since another *)
(* thread may read the answer at once.                                     *)
(***************************************************************************)
\* variant: the status is left as it was
MarkTxForgotten(t) ==
  /\ pc[t] = "send"
  /\ Goto(t, "wire")
  /\ UNCHANGED <<rxbufstat, rxbuf, lastidx, getindex_mutex, rx_mutex, idx, seen, serial, txn, sends,
                 resends, held, result, net, mishap>>

MarkTx(t) ==
  /\ pc[t] = "send"
  /\ rxbufstat' = [rxbufstat EXCEPT ![idx[t]] = "TX"]
  /\ Goto(t, "wire")
  /\ UNCHANGED <<rxbuf, lastidx, getindex_mutex, rx_mutex, idx, seen, serial, txn, sends, resends,
                 held, result, net, mishap>>

Transmit(t) ==
  /\ pc[t] = "wire"
  /\ sends' = [sends EXCEPT ![t] = @ + 1]
  /\ net' = net \cup {[idx |-> idx[t], txn |-> txn[t], nth |-> sends[t] + 1]}
  /\ Goto(t, "poll")
  /\ UNCHANGED <<rxbufstat, rxbuf, lastidx, getindex_mutex, rx_mutex, idx, seen,
                 serial, txn, resends, held, result, mishap>>

TransmitFails(t) ==
  /\ pc[t] = "wire"
  /\ sends' = [sends EXCEPT ![t] = @ + 1]
  /\ mishap' = mishap \cup {"sendfail"}
  /\ Goto(t, "failed")
  /\ UNCHANGED <<rxbufstat, rxbuf, lastidx, getindex_mutex, rx_mutex, idx, seen,
                 serial, txn, resends, held, result, net>>

\* rval == -1: the buffer is marked EMPTY, yet the caller goes on with its index
MarkEmpty(t) ==
  /\ pc[t] = "failed"
  /\ rxbufstat' = [rxbufstat EXCEPT ![idx[t]] = "EMPTY"]
  /\ Goto(t, "poll")
  /\ UNCHANGED <<rxbuf, lastidx, getindex_mutex, rx_mutex, idx, seen, serial, txn, sends, resends,
                 held, result, net, mishap>>

-----------------------------------------------------------------------------
(***************************************************************************)
(* ecx_inframe                                                             *)
(***************************************************************************)

\* the answer is in the buffer already: take it without a lock
TakeStored(t) ==
  /\ pc[t] = "poll" /\ rxbufstat[idx[t]] = "RCVD"
  /\ result' = [result EXCEPT ![t] = rxbuf[idx[t]]]
  /\ rxbufstat' = [rxbufstat EXCEPT ![idx[t]] = "COMPLETE"]
  /\ Goto(t, "done")
  /\ UNCHANGED <<rxbuf, lastidx, getindex_mutex, rx_mutex, idx, seen, serial, txn, sends, resends,
                 held, net, mishap>>

NotStored(t) ==
  /\ pc[t] = "poll" /\ rxbufstat[idx[t]] # "RCVD"
  /\ Goto(t, "recv")
  /\ UNCHANGED <<rxbufstat, rxbuf, lastidx, getindex_mutex, rx_mutex, idx, seen, serial, txn,
                 sends, resends, held, result, net, mishap>>

\* recv() has nothing to read
RecvNothing(t) ==
  /\ pc[t] = "recv" /\ rx_mutex = NoThread
  /\ Goto(t, "timers")
  /\ UNCHANGED <<rxbufstat, rxbuf, lastidx, getindex_mutex, rx_mutex, idx, seen, serial, txn,
                 sends, resends, held, result, net, mishap>>

\* variant: any frame is accepted
RecvAnything(t) ==
  /\ pc[t] = "recv" /\ rx_mutex = NoThread
  /\ \E f \in net :
       /\ net' = net \ {f}
       /\ rxbuf' = [rxbuf EXCEPT ![idx[t]] = f]
       /\ result' = [result EXCEPT ![t] = f]
  /\ rxbufstat' = [rxbufstat EXCEPT ![idx[t]] = "COMPLETE"]
  /\ Goto(t, "done")
  /\ UNCHANGED <<lastidx, getindex_mutex, rx_mutex, idx, seen, serial, txn, sends, resends, held,
                 mishap>>

\* a frame with the requested index is accepted, whatever the status
RecvOwn(t) ==
  /\ pc[t] = "recv" /\ rx_mutex = NoThread
  /\ \E f \in net :
       /\ f.idx = idx[t]
       /\ net' = net \ {f}
       /\ rxbuf' = [rxbuf EXCEPT ![f.idx] = f]
       /\ result' = [result EXCEPT ![t] = f]
  /\ rxbufstat' = [rxbufstat EXCEPT ![idx[t]] = "COMPLETE"]
  /\ Goto(t, "done")
  /\ UNCHANGED <<lastidx, getindex_mutex, rx_mutex, idx, seen, serial, txn, sends, resends,
                 held, mishap>>

\* variant: a frame is stored in any buffer in use
RecvOtherInUse(t) ==
  /\ pc[t] = "recv" /\ rx_mutex = NoThread
  /\ \E f \in net :
       /\ f.idx # idx[t] /\ rxbufstat[f.idx] # "EMPTY"
       /\ net' = net \ {f}
       /\ held' = [held EXCEPT ![t] = f]
  /\ rx_mutex' = t
  /\ Goto(t, "store")
  /\ UNCHANGED <<rxbufstat, rxbuf, lastidx, getindex_mutex, idx, seen, serial, txn, sends, resends,
                 result, mishap>>

\* a frame with another index someone waits for: keep rx_mutex and store it
RecvOther(t) ==
  /\ pc[t] = "recv" /\ rx_mutex = NoThread
  /\ \E f \in net :
       /\ f.idx # idx[t] /\ rxbufstat[f.idx] = "TX"
       /\ net' = net \ {f}
       /\ held' = [held EXCEPT ![t] = f]
  /\ rx_mutex' = t
  /\ Goto(t, "store")
  /\ UNCHANGED <<rxbufstat, rxbuf, lastidx, getindex_mutex, idx, seen, serial, txn, sends, resends,
                 result, mishap>>

\* a frame with another index nobody waits for is dropped
RecvStrange(t) ==
  /\ pc[t] = "recv" /\ rx_mutex = NoThread
  /\ \E f \in net :
       /\ f.idx # idx[t] /\ rxbufstat[f.idx] # "TX"
       /\ net' = net \ {f}
  /\ Goto(t, "timers")
  /\ UNCHANGED <<rxbufstat, rxbuf, lastidx, getindex_mutex, rx_mutex, idx, seen, serial, txn,
                 sends, resends, held, result, mishap>>

\* variant: rx_mutex stays locked
StoreLocked(t) ==
  /\ pc[t] = "store"
  /\ rxbuf' = [rxbuf EXCEPT ![held[t].idx] = held[t]]
  /\ rxbufstat' = [rxbufstat EXCEPT ![held[t].idx] = "RCVD"]
  /\ held' = [held EXCEPT ![t] = NoFrame]
  /\ Goto(t, "timers")
  /\ UNCHANGED <<lastidx, getindex_mutex, rx_mutex, idx, seen, serial, txn, sends, resends, result,
                 net, mishap>>

Store(t) ==
  /\ pc[t] = "store"
  /\ rxbuf' = [rxbuf EXCEPT ![held[t].idx] = held[t]]
  /\ rxbufstat' = [rxbufstat EXCEPT ![held[t].idx] = "RCVD"]
  /\ held' = [held EXCEPT ![t] = NoFrame]
  /\ rx_mutex' = NoThread
  /\ Goto(t, "timers")
  /\ UNCHANGED <<lastidx, getindex_mutex, idx, seen, serial, txn, sends, resends, result, net,
                 mishap>>

-----------------------------------------------------------------------------
(***************************************************************************)
(* The loops of ecx_waitinframe_red and ecx_srconfirm around it.  Either   *)
(* timer may have expired whenever it is looked at.                        *)
(***************************************************************************)

\* is one of t's frames still on its way, or in another thread's hands?
StillTravelling(t) ==
  \/ \E f \in net : f.txn = txn[t]
  \/ \E u \in Threads : pc[u] = "store" /\ held[u].txn = txn[t]

\* timer2 is running: look again
LookAgain(t) ==
  /\ pc[t] = "timers"
  /\ Goto(t, "poll")
  /\ UNCHANGED <<rxbufstat, rxbuf, lastidx, getindex_mutex, rx_mutex, idx, seen, serial, txn,
                 sends, resends, held, result, net, mishap>>

\* timer2 expired, timer1 did not: send the frame again.  MaxResends
\* bounds how often; a thread past it waits for timer1.
Resend(t) ==
  /\ pc[t] = "timers"
  /\ resends < MaxResends
  /\ resends' = resends + 1
  /\ mishap' = IF StillTravelling(t) THEN mishap \cup {"late"} ELSE mishap
  /\ Goto(t, "send")
  /\ UNCHANGED <<rxbufstat, rxbuf, lastidx, getindex_mutex, rx_mutex, idx, seen, serial, txn,
                 sends, held, result, net>>

\* both expired: EC_NOFRAME
GiveUp(t) ==
  /\ pc[t] = "timers"
  /\ mishap' = IF StillTravelling(t) THEN mishap \cup {"late"} ELSE mishap
  /\ Goto(t, "done")
  /\ UNCHANGED <<rxbufstat, rxbuf, lastidx, getindex_mutex, rx_mutex, idx, seen, serial, txn,
                 sends, resends, held, result, net>>

\* variant: the buffer is released only when there was an answer
ReleaseAnswered(t) ==
  /\ pc[t] = "done"
  /\ rxbufstat' = [rxbufstat EXCEPT ![idx[t]] = IF result[t] = NoFrame THEN @ ELSE "EMPTY"]
  /\ mishap' = mishap
  /\ idx' = [idx EXCEPT ![t] = 0]
  /\ txn' = [txn EXCEPT ![t] = 0]
  /\ sends' = [sends EXCEPT ![t] = 0]
  /\ result' = [result EXCEPT ![t] = NoFrame]
  /\ Goto(t, "idle")
  /\ UNCHANGED <<rxbuf, lastidx, getindex_mutex, rx_mutex, seen, serial, resends, held, net>>

\* ecx_setbufstat(EC_BUF_EMPTY) at the end of the transaction, without a lock
Release(t) ==
  /\ pc[t] = "done"
  /\ rxbufstat' = [rxbufstat EXCEPT ![idx[t]] = "EMPTY"]
  /\ mishap' = IF \E u \in Threads : pc[u] = "store" /\ held[u].idx = idx[t]
               THEN mishap \cup {"straddle"} ELSE mishap
  /\ idx' = [idx EXCEPT ![t] = 0]
  /\ txn' = [txn EXCEPT ![t] = 0]
  /\ sends' = [sends EXCEPT ![t] = 0]
  /\ result' = [result EXCEPT ![t] = NoFrame]
  /\ Goto(t, "idle")
  /\ UNCHANGED <<rxbuf, lastidx, getindex_mutex, rx_mutex, seen, serial, resends, held,
                 net>>

-----------------------------------------------------------------------------
(***************************************************************************)
(* The wire.  Frames are read back in any order; any of them may be lost.  *)
(***************************************************************************)
LoseFrame ==
  /\ \E f \in net : net' = net \ {f}
  /\ UNCHANGED <<rxbufstat, rxbuf, lastidx, getindex_mutex, rx_mutex, pc, idx, seen, serial, txn,
                 sends, resends, held, result, mishap>>

InFrame(t) == TakeStored(t) \/ NotStored(t) \/ RecvNothing(t) \/ RecvOwn(t)
              \/ RecvOther(t) \/ RecvStrange(t) \/ Store(t)

ThreadStep(t) ==
  \/ StartGetIndex(t) \/ FindIndex(t) \/ ClaimIndex(t)
  \/ MarkTx(t) \/ Transmit(t) \/ TransmitFails(t) \/ MarkEmpty(t)
  \/ InFrame(t)
  \/ LookAgain(t) \/ Resend(t) \/ GiveUp(t) \/ Release(t)

Next ==
  \/ \E t \in Threads : ThreadStep(t)
  \/ LoseFrame

(***************************************************************************)
(* Every thread keeps running, and a thread that looks at its timers again *)
(* and again finds timer1 expired in the end.  Nothing is assumed of the   *)
(* wire, nor of the order in which a mutex is granted.                     *)
(***************************************************************************)
Fairness == \A t \in Threads : WF_vars(ThreadStep(t)) /\ SF_vars(GiveUp(t))

Spec == Init /\ [][Next]_vars /\ Fairness
-----------------------------------------------------------------------------
TypeOK ==
  /\ rxbufstat \in [Slots -> Status]
  /\ rxbuf \in [Slots -> Frames \cup {NoFrame}]
  /\ lastidx \in Slots
  /\ getindex_mutex \in Threads \cup {NoThread}
  /\ rx_mutex \in Threads \cup {NoThread}
  /\ pc \in [Threads -> Labels]
  /\ idx \in [Threads -> Slots]
  /\ seen \in [Threads -> SUBSET Slots]
  /\ serial \in 0 .. MaxTxn
  /\ txn \in [Threads -> 0 .. MaxTxn]
  /\ sends \in [Threads -> 0 .. MaxResends + 1]
  /\ resends \in 0 .. MaxResends
  /\ held \in [Threads -> Frames \cup {NoFrame}]
  /\ result \in [Threads -> Frames \cup {NoFrame}]
  /\ net \subseteq Frames
  /\ mishap \subseteq Mishaps

\* neither of the two events that corrupt the status table has happened
TableIntact == mishap \cap {"sendfail", "straddle"} = {}

(***************************************************************************)
(* Two threads never work with the same index, so neither overwrites the   *)
(* other's transmit and receive buffer, as long as no send() failed and no *)
(* transaction was given up under the hands of a thread storing an answer. *)
(***************************************************************************)
IndexExclusive ==
  TableIntact => \A t, u \in Threads :
                   t # u /\ Owning(t) /\ Owning(u) => idx[t] # idx[u]

\* The same without the condition, as ecx_getindex's comment promises it.
IndexAlwaysExclusive ==
  \A t, u \in Threads : t # u /\ Owning(t) /\ Owning(u) => idx[t] # idx[u]

(***************************************************************************)
(* A buffer in use has an owner who will release it: no index is lost for  *)
(* good, whatever frames are lost and however many transactions time out.  *)
(***************************************************************************)
NoIndexLost ==
  TableIntact => \A i \in Slots :
                   rxbufstat[i] # "EMPTY" => \E t \in Threads : Owning(t) /\ idx[t] = i

(***************************************************************************)
(* The answer a transaction accepts is an answer to its own datagram,      *)
(* although the port compares nothing but the one-byte index, frames are   *)
(* read back in any order and by any thread, and indices are reused.  It   *)
(* needs frames to come back, or be lost, before their rx timeout.         *)
(***************************************************************************)
AnswerIsOwn ==
  mishap = {} => \A t \in Threads :
                   Owning(t) /\ result[t] # NoFrame => result[t].txn = txn[t]

(***************************************************************************)
(* From the moment ecx_srconfirm returns until the index is released, the  *)
(* caller reads the answer from rxbuf without a lock.  No late copy of the *)
(* frame, read by another thread, replaces it meanwhile.                   *)
(***************************************************************************)
AnswerIntact ==
  TableIntact => \A t \in Threads :
                   pc[t] = "done" /\ result[t] # NoFrame => rxbuf[idx[t]] = result[t]

(***************************************************************************)
(* The answer to a live transaction is never dropped as one nobody waits   *)
(* for: while a frame of it travels, the status lets other threads store   *)
(* it, or an answer is there already.                                      *)
(***************************************************************************)
AnswerExpected ==
  TableIntact => \A t \in Threads : \A f \in net :
                   Owning(t) /\ f.txn = txn[t] => rxbufstat[f.idx] \in {"TX", "RCVD", "COMPLETE"}

(***************************************************************************)
(* Every transaction ends, with an answer or with EC_NOFRAME: no thread    *)
(* waits for ever for a frame or for one of the two mutexes.               *)
(***************************************************************************)
EveryTransactionEnds == \A t \in Threads : pc[t] = "search" ~> pc[t] = "idle"

(***************************************************************************)
(* The port is a pool of indices: a search that takes several steps and    *)
(* looks at statuses others change, a release without a lock and answers   *)
(* stored by strangers look to the callers like taking an index nobody has *)
(* and giving it back, until a mishap breaks the status table.             *)
(***************************************************************************)
Holders == [i \in Slots |-> {t \in Threads : Owning(t) /\ idx[t] = i}]

Pool == INSTANCE IndexPool WITH Indices <- Slots, Users <- Threads,
                                holders <- Holders, broken <- ~TableIntact

ImplementsPool == Pool!Spec

-----------------------------------------------------------------------------
(***************************************************************************)
(* The inductive invariant behind IndexExclusive and NoIndexLost.          *)
(***************************************************************************)
MutexInv == \A t \in Threads :
  /\ (pc[t] \in {"search", "found"}) <=> (getindex_mutex = t)
  /\ (pc[t] = "store") <=> (rx_mutex = t)

LocalInv == \A t \in Threads :
  /\ pc[t] = "store" => held[t] \in Frames
  /\ pc[t] # "idle" => txn[t] # 0
  /\ pc[t] = "failed" => "sendfail" \in mishap
  /\ pc[t] \in {"idle", "search", "found"} => sends[t] = 0
  /\ sends[t] <= resends + (IF pc[t] \in {"send", "wire"} THEN 0 ELSE 1)

\* an index in use is one an owner works with, and every owner has its own
Owned(i) == \E t \in Threads : Owning(t) /\ idx[t] = i

TableInv ==
  /\ \A i \in Slots : rxbufstat[i] # "EMPTY" <=> Owned(i)
  /\ \A t, u \in Threads : t # u /\ Owning(t) /\ Owning(u) => idx[t] # idx[u]
  \* a search has a buffer left to find that nobody can take away
  /\ \A t \in Threads : pc[t] = "search" =>
        \E i \in Slots : i \notin seen[t] /\ rxbufstat[i] = "EMPTY"
  /\ \A t \in Threads : pc[t] = "found" => rxbufstat[idx[t]] = "EMPTY"
  \* the transaction whose answer is being stored is still there
  /\ \A t \in Threads : pc[t] = "store" => Owned(held[t].idx)

NicInv == TypeOK /\ MutexInv /\ LocalInv /\ (TableIntact => TableInv)

(***************************************************************************)
(* The inductive invariants behind the three properties of answers.        *)
(***************************************************************************)
\* t's frame in flight has t's number and index, and t is still there
Flight(f, t) == f.txn = txn[t] => Owning(t) /\ f.idx = idx[t] /\ sends[t] # 0

TxnInv ==
  /\ \A t \in Threads : txn[t] <= serial /\ (pc[t] # "done" => result[t] = NoFrame)
  /\ \A t, u \in Threads : t # u /\ txn[t] # 0 => txn[t] # txn[u]
  /\ \A f \in net : f.txn <= serial /\ \A t \in Threads : Flight(f, t)
  /\ \A u \in Threads : pc[u] = "store" =>
        held[u].txn <= serial /\ \A t \in Threads : Flight(held[u], t)

\* what the status says of the buffer
BufferInv ==
  /\ \A u \in Threads : pc[u] = "store" => rxbufstat[held[u].idx] = "TX"
  /\ \A t \in Threads : pc[t] = "done" /\ result[t] # NoFrame =>
        rxbufstat[idx[t]] = "COMPLETE" /\ rxbuf[idx[t]] = result[t]
  /\ \A t \in Threads : Owning(t) /\ (pc[t] # "send" \/ sends[t] # 0) =>
        rxbufstat[idx[t]] \in {"TX", "RCVD", "COMPLETE"}

\* nothing is late: a transaction has one frame at a time, and none once it is answered
LoneInv ==
  /\ \A f \in net : \E t \in Threads : f.txn = txn[t]
  /\ \A u \in Threads : pc[u] = "store" => \E t \in Threads : held[u].txn = txn[t]
  /\ \A f, g \in net : f.txn = g.txn => f = g
  /\ \A f \in net, u \in Threads : pc[u] = "store" => f.txn # held[u].txn
  /\ \A t \in Threads : Owning(t) =>
        /\ pc[t] \in {"send", "wire", "done"} \/ rxbufstat[idx[t]] \in {"RCVD", "COMPLETE"}
             => ~StillTravelling(t)
        /\ pc[t] = "wire" => rxbufstat[idx[t]] = "TX"
        /\ rxbufstat[idx[t]] = "RCVD" => rxbuf[idx[t]].txn = txn[t]
        /\ result[t] # NoFrame => result[t].txn = txn[t]

AnswerInv == TxnInv /\ (TableIntact => BufferInv) /\ (mishap = {} => LoneInv)
=============================================================================
