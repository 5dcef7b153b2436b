-------------------------- MODULE MailboxTransfers --------------------------
(***************************************************************************)
(* The mailbox procedures of soem, one call after the other, against the   *)
(* servers of one slave.  A behaviour is a plan: the calls an application  *)
(* makes, whether it set the EoE hook, and the EoE fragments the slave has *)
(* for it.  Between its answers the slave sends emergencies and fragments. *)
(*                                                                         *)
(* A procedure steps when its mailbox function has returned.               *)
(***************************************************************************)
EXTENDS Mailbox, MailboxServer

CONSTANT
  Plans      \* environment: a set of [jobs, hook, traffic, cnt, rl]

Procs == {"none", "SDOread", "SDOwrite", "RxPDO", "TxPDO", "ODlist", "ODdescription", "OEsingle",
          "FOEread", "FOEwrite", "SoEread", "SoEwrite", "EOEsend", "EOErecv", "EOEsetIp", "EOEgetIp"}

Jobs == [proc : Procs \ {"none"}, obj : DOMAIN ObjSize, sub : Nat, ca : BOOLEAN, size : Nat]

ASSUME ObjectAssumption == \A obj \in DOMAIN ObjSize : ObjSize[obj] \in Nat

ASSUME PlanAssumption ==
  \A p \in Plans : p.cnt \in 0 .. 7 /\ p.rl \in 42 .. 1486 /\ p.jobs \in Seq(Jobs)

\* a fragment of a frame of the slave: its place is told by its offset
Fragments ==
  {f \in [type : {"eoe"}, kind : {"frag"}, cmd : {"none"}, service : {"none"}, op : {"none"}, port : Nat,
          frag : Nat, frame : 0 .. 15, offset : Nat, last : BOOLEAN, stamp : BOOLEAN, len : Nat, off : Nat,
          of : (DOMAIN ObjSize) \X Nat] :
     f.off = IF f.frag = 0 THEN 0 ELSE 32 * f.offset}

\* g bears the number of the frame of f, and goes on where f ends
Follows(f, g) == g.frame = f.frame /\ g.frag = f.frag + 1 /\ g.off = f.off + f.len

\* Numbers of frames come again, but not for a frame that is cut in the same way.
ASSUME TrafficAssumption ==
  \A p \in Plans :
    /\ p.traffic \in Seq(Fragments)
    /\ \A i, j \in DOMAIN p.traffic : Follows(p.traffic[i], p.traffic[j]) => p.traffic[i].of = p.traffic[j].of

VARIABLES
  op,        \* the procedure that is under way, a call of Transfer
  jobs,      \* the calls still to make
  traffic,   \* the fragments the slave has still to send
  sent,      \* history: the mailboxes sent
  srv        \* the transfer the slave is in

transfers == <<op, jobs, traffic, sent, srv, emergencies, busies>>

vars == <<layer, transfers>>

\* ------------------------------------------------------------ the master
Same(o, mail) == [op |-> o, mail |-> mail]

\* what a procedure sends next
NextRequest(o) ==
  CASE o.proc = "SDOread"  -> Same(o, SDOreadRequest(o))
    [] o.proc = "SDOwrite" -> SDOwriteRequest(o)
    [] o.proc = "RxPDO"    -> RxPDORequest(o)
    [] o.proc = "TxPDO"    -> Same(o, TxPDORequest(o))
    [] o.proc = "ODlist"   -> Same(o, ODlistRequest(o))
    [] o.proc = "ODdescription" -> Same(o, ODdescriptionRequest(o))
    [] o.proc = "OEsingle" -> Same(o, OEsingleRequest(o))
    [] o.proc = "FOEread"  -> Same(o, FOEreadRequest(o))
    [] o.proc = "FOEwrite" -> Same(o, FOEwriteRequest(o))
    [] o.proc = "SoEread"  -> Same(o, SoEreadRequest(o))
    [] o.proc = "SoEwrite" -> SoEwriteRequest(o)
    [] o.proc = "EOEsend"  -> EOEsendRequest(o, 1)
    [] o.proc = "EOEsetIp" -> Same(o, EOEsetIpRequest(o))
    [] OTHER               -> Same(o, EOEgetIpRequest(o))

\* what it does once that is sent, or is not
OnSent(o, wkc) ==
  CASE o.proc = "SDOread"  -> SDOreadSent(o, wkc)
    [] o.proc = "SDOwrite" -> SDOwriteSent(o, wkc)
    [] o.proc = "FOEread"  -> FOEreadSent(o, wkc)
    [] o.proc = "FOEwrite" -> FOEwriteSent(o, wkc)
    [] o.proc = "SoEread"  -> SoEreadSent(o, wkc)
    [] o.proc = "SoEwrite" -> SoEwriteSent(o, wkc)
    [] o.proc = "EOEsend"  -> EOEsendSent(o, wkc)
    [] o.proc = "RxPDO"    -> Finished(o, wkc)
    [] OTHER               -> IF wkc > 0 THEN Receiving(o) ELSE Finished(GaveUp(o), wkc)

\* and what it makes of the answer
OnAnswer(o, wkc, m) ==
  CASE o.proc = "SDOread"  -> SDOreadAnswer(o, wkc, m)
    [] o.proc = "SDOwrite" -> SDOwriteAnswer(o, wkc, m)
    [] o.proc = "TxPDO"    -> TxPDOAnswer(o, wkc, m)
    [] o.proc = "ODlist"   -> ODlistAnswer(o, wkc, m)
    [] o.proc = "ODdescription" -> ODdescriptionAnswer(o, wkc, m)
    [] o.proc = "OEsingle" -> OEsingleAnswer(o, wkc, m)
    [] o.proc = "FOEread"  -> Quiet(FOEreadAnswer(o, wkc, m))
    [] o.proc = "FOEwrite" -> Quiet(FOEwriteAnswer(o, wkc, m))
    [] o.proc = "SoEread"  -> SoEreadAnswer(o, wkc, m)
    [] o.proc = "SoEwrite" -> SoEwriteAnswer(o, wkc, m)
    [] o.proc = "EOErecv"  -> Quiet(EOErecvAnswer(o, wkc, m))
    [] o.proc = "EOEsetIp" -> Quiet(EOEsetIpAnswer(o, wkc, m))
    [] OTHER               -> Quiet(EOEgetIpAnswer(o, wkc, m))

\* EOEsend and EOErecv do not empty SM1 first
StartsAt(proc) ==
  CASE proc = "EOEsend" -> "send" [] proc = "EOErecv" -> "receiving" [] OTHER -> "drain"

Start ==
  /\ op.pc = "done" /\ jobs # <<>>
  /\ LET at == StartsAt(Head(jobs).proc)
     IN  /\ op' = [Call(Head(jobs)) EXCEPT !.pc = at, !.gaveup = op.gaveup, !.stray = op.stray]
         /\ call' = IF at = "send" THEN Idle ELSE Receive(at = "drain")
  /\ jobs' = Tail(jobs)
  /\ UNCHANGED <<mbx_cnt, elist, box, rx, hook, faults, traffic, sent, srv, emergencies, busies>>

\* a mailbox with its header: the counter, and (history) its number
Numbered(mail, c, n) ==
  [field \in DOMAIN mail \cup {"cnt", "id"} |->
     IF field = "cnt" THEN c ELSE IF field = "id" THEN n ELSE mail[field]]

\* the next mailbox goes out, with the next counter
SendRequest ==
  /\ op.pc = "send"
  /\ LET r == NextRequest(op)
         c == ec_nextmbxcnt(mbx_cnt)
     IN  /\ op' = [r.op EXCEPT !.pc = "sending"]
         /\ call' = Send(Numbered(r.mail, c, sent + 1))
         /\ mbx_cnt' = c /\ sent' = sent + 1
  /\ UNCHANGED <<elist, box, rx, hook, faults, jobs, traffic, srv, emergencies, busies>>

\* a fragment nobody has a hook for is handed to the call, which waits for something else
TakenAstray ==
  op.pc = "receiving" /\ op.proc # "EOErecv" /\ call.mail.type = "eoe" /\ call.mail.kind = "frag"

\* the procedure goes on where its mailbox function has left it
Proceed ==
  /\ call.at = "done"
  /\ LET s == CASE op.pc = "drain"    -> Quiet(Sending(op))
                [] op.pc = "sending"  -> Quiet(OnSent(op, call.wkc))
                [] op.pc = "emptying" -> Quiet(SoEwriteEmpty(op, call.wkc))
                [] OTHER              -> OnAnswer(op, call.wkc, call.mail)
     IN  /\ op' = [s.op EXCEPT !.stray = @ \/ TakenAstray]
         /\ elist' = IF s.err = NoError THEN elist ELSE ecx_pusherror(elist, s.err)
         /\ call' = CASE s.op.pc = "receiving" -> Receive(FALSE)
                      [] s.op.pc = "emptying"  -> AwaitEmpty
                      [] OTHER                 -> Idle
  /\ UNCHANGED <<mbx_cnt, box, rx, hook, faults, jobs, traffic, sent, srv, emergencies, busies>>
-----------------------------------------------------------------------------
\* ------------------------------------------------------------- the slave
\* SM0 is emptied: a copy is dropped, anything else is served
TakeMail(busy) ==
  LET m == box.in
      s == Serve(srv, m, busy, box.rl)
  IN  /\ m # NoMail
      /\ busy => Trouble < MaxTrouble /\ m.type = "foe" /\ m.op = "data" /\ ~SameMail(m)
      /\ busies' = busies + (IF busy THEN 1 ELSE 0)
      /\ box' = [box EXCEPT !.in = NoMail, !.seen = m.cnt, !.seenid = m.id,
                            !.todo = IF SameMail(m) THEN @ ELSE @ \o s.answers]
      /\ srv' = IF SameMail(m) THEN srv ELSE s.srv
      /\ UNCHANGED <<mbx_cnt, elist, call, rx, hook, faults, op, jobs, traffic, sent, emergencies>>

Unasked(mail) ==
  /\ box' = [box EXCEPT !.todo = Append(@, mail)]
  /\ UNCHANGED <<mbx_cnt, elist, call, rx, hook, faults, op, jobs, sent, srv, busies>>

\* it has trouble of its own to report
Emergency ==
  /\ op.pc # "done" /\ Trouble < MaxTrouble
  /\ emergencies' = emergencies + 1
  /\ Unasked([type |-> "emergency", cmd |-> "none"])
  /\ UNCHANGED traffic

SendTraffic ==
  /\ traffic # <<>> /\ op.pc # "done"
  /\ Unasked(Head(traffic))
  /\ traffic' = Tail(traffic)
  /\ UNCHANGED emergencies

-----------------------------------------------------------------------------
MailStep == FoundEmpty \/ NotEmpty \/ (\E fate \in Fates : WriteMail(fate))

ReceiveStep ==
  \/ FoundAvailable \/ (\E lost \in BOOLEAN : NotAvailable(lost))
  \/ ReadMail \/ (\E fate \in Fates : ReadMiss(fate) \/ ToggleRepeat(fate))
  \/ AwaitAck \/ AwaitAgain

Layer == MailStep \/ ReceiveStep \/ Expire \/ PopError \/ PutMail \/ RepeatMail

LayerStep == Layer /\ UNCHANGED transfers

Next ==
  \/ Start \/ SendRequest \/ Proceed \/ LayerStep
  \/ \E busy \in BOOLEAN : TakeMail(busy)
  \/ Emergency \/ SendTraffic

Init ==
  /\ \E p \in Plans : /\ jobs = p.jobs /\ hook = p.hook /\ traffic = p.traffic /\ mbx_cnt = p.cnt
                     /\ box = EmptyBox(p.cnt, p.rl)
  /\ elist = EmptyRing("none")
  /\ call = Idle
  /\ rx = NoFragments
  /\ faults = 0 /\ sent = 0 /\ emergencies = 0 /\ busies = 0
  /\ op = [Call([proc |-> "none", obj |-> "none", sub |-> 0, ca |-> FALSE, size |-> 0]) EXCEPT !.pc = "done"]
  /\ srv = NoTransfer

\* The master goes on, the slave does its work, and time passes.  A poll that
\* is repeated finds a mailbox that stays, and a frame comes through at last:
\* the losses are bounded.
Fairness ==
  /\ WF_vars(Start \/ SendRequest \/ Proceed)
  /\ WF_vars((MailStep \/ ReceiveStep) /\ faults' = faults /\ UNCHANGED transfers)
  /\ SF_vars(Expire /\ faults' = faults /\ UNCHANGED transfers)
  /\ WF_vars(TakeMail(FALSE))
  /\ SF_vars(PutMail /\ UNCHANGED transfers)
  /\ WF_vars(RepeatMail /\ UNCHANGED transfers)

Spec == Init /\ [][Next]_vars /\ Fairness
-----------------------------------------------------------------------------
Problems == {"emergency", "error", "sdo", "sdoinfo", "soe", "packet"}

\* The mailbox counter is one of three bits, a mailbox function and its
\* procedure agree about what goes on, and the ring stays a ring.
TypeOK ==
  /\ mbx_cnt \in 0 .. 7
  /\ elist \in Ring(Problems \cup {"none"})
  /\ op.proc \in Procs /\ op.pc \in {"drain", "send", "sending", "emptying", "receiving", "done"}
  /\ call.at \in {"idle", "empty", "write", "avail", "read", "toggle", "ack", "again", "done"}
  /\ call.at = "idle" <=> op.pc \in {"send", "done"}
  /\ call.at \in {"avail", "read", "toggle", "ack", "again"} => op.pc \in {"drain", "receiving"}

\* A slave tells a copy of a mailbox, sent again by ecx_FPWR because its answer
\* was lost, from the next mailbox by nothing but its counter: it drops the
\* copy and never a mailbox that is new (ec_nextmbxcnt).
CounterTells == box.in # NoMail => (SameMail(box.in) <=> box.in.id = box.seenid)

Done(procs) == op.pc = "done" /\ op.proc \in procs

\* What there is to read: a list and a name are cut to the room there is for them.
Readable(o) ==
  CASE o.proc = "ODlist" -> Lesser(ObjSize[o.obj], EC_MAXODLIST)
    [] o.proc \in {"ODdescription", "OEsingle"} -> Lesser(ObjSize[o.obj], EC_MAXNAME)
    [] o.proc = "SoEread" -> Lesser(ObjSize[o.obj], o.size)
    [] OTHER -> ObjSize[o.obj]

\* A procedure that reads an object and reports success has every byte of it,
\* once and at its place, whatever was lost and repeated on the way, as long as
\* no send and no receive of the application's calls ran out of time.  A name that is
\* longer than EC_MAXNAME is cut without a word; and a file is whole only where the two
\* mailboxes of the slave are of one length, for FOEread tells the last packet by the
\* length of the other one.
ReadWhole ==
  Done({"SDOread", "TxPDO", "ODlist", "ODdescription", "OEsingle", "FOEread", "SoEread", "EOErecv"})
  /\ op.ret > 0 /\ ~op.gaveup /\ (op.proc = "FOEread" => box.rl = MbxL)
  => op.whole /\ op.got = Readable(op)

\* One that writes an object and reports success has brought every byte of it
\* to the slave, once and in order, and the slave knows that it was the last,
\* unless the slave was busy.
WroteWhole ==
  Done({"SDOwrite", "FOEwrite", "SoEwrite", "EOEsend"})
  /\ op.ret > 0 /\ ~op.gaveup /\ ~op.busy /\ box.in = NoMail
  => srv.whole /\ srv.ended /\ srv.got = op.size /\ srv.of[1] = op.obj

\* A procedure takes over no more than the caller has room for, and sends no more
\* than the caller has, unless a call ran out of time.
WithinRoom == ~op.gaveup => op.got \in 0 .. op.size

\* A transfer that reports success is whole, in either direction.
TransferredWhole == ReadWhole /\ WroteWhole /\ WithinRoom

\* A frame the EoE hook reports complete is made of adjacent pieces of a single
\* frame of the slave (ecx_EOEreadfragment).
FrameIntact == \A p, q \in rx.complete : p[1] = q[1] /\ p[2]

\* The slave has what a call asks for, and the caller has room for it; a file is read
\* through mailboxes of one length, and parameters of a network are as long as told.
Answerable(o) ==
  /\ ObjSize[o.obj] > 0
  /\ o.proc \notin {"SoEread", "ODlist"} => ObjSize[o.obj] <= o.size
  /\ o.proc = "FOEread" => box.rl = MbxL
  /\ o.proc = "EOEgetIp" => ObjSize[o.obj] >= IpNeed(o.sub)

\* Where no frame is lost and no call runs out of time, emergencies never make a call
\* fail, and no more do EoE fragments that arrive in between, as long as none is taken
\* for an answer.  With the hook set none can be; without it one that comes while a call
\* waits is handed to that call, which fails (ecx_mbxreceive).
Undisturbed ==
  /\ hook => ~op.stray
  /\ Done(Procs \ {"none", "EOErecv"}) /\ faults = 0 /\ ~op.busy /\ ~op.stray /\ Answerable(op)
     => op.ret > 0

\* A mailbox whose read was lost is asked for again: the slave hears the repeat
\* request, unless that is lost as well (ecx_mbxreceive).  Where the slave had not
\* answered a request of an earlier call yet, the toggled bit takes that request
\* back instead, and the mailbox is lost: unheard leaves this out.
LossRepaired ==
  box.unheard => call.at = "toggle" \/ box.req # box.ack \/ faults >= 2

\* The error ring is a bounded queue: ErrorLog.
Log == INSTANCE ErrorLog WITH log <- Contents(elist), Errors <- Problems, Capacity <- EC_MAXELIST

LogSpec == Log!Spec

\* Every call ends, and with it the plan.
TransferEnds == <>[](jobs = <<>> /\ op.pc = "done")
=============================================================================
