------------------------------ MODULE Mailbox ------------------------------
(***************************************************************************)
(* The mailbox of a slave: ecx_mbxsend, ecx_mbxempty and ecx_mbxreceive of *)
(* soem/ethercatmain.c against sync managers 0 and 1 of the slave, over a  *)
(* line that loses frames.                                                 *)
(*                                                                         *)
(* A frame that is lost (fate "lost") never reached the slave; of one that *)
(* is "unheard" only the answer is lost.  The answer of a poll may also be *)
(* lost: the poll then goes on, which is no step, unless its time is up.   *)
(***************************************************************************)
EXTENDS ErrorRing, Eoe, TLC

CONSTANTS
  MaxTrouble,  \* bound: lost frames, premature timeouts, emergencies and refusals together
  Room         \* bytes of the buffer the hook of the application fills

ASSUME TroubleAssumption == MaxTrouble \in Nat

VARIABLES
  mbx_cnt,     \* slavelist[].mbx_cnt
  elist,       \* the error ring
  call,        \* the mailbox function that is under way
  box,         \* the mailboxes of the slave
  rx,          \* what the EoE hook keeps
  hook,        \* is EOEhook set?
  faults,      \* lost frames and premature timeouts
  emergencies, \* emergencies of the slave
  busies       \* packets of a file the slave was not ready for

layer == <<mbx_cnt, elist, call, box, rx, hook, faults>>

Fates == {"arrives", "lost", "unheard"}

Trouble == faults + emergencies + busies

Faulty(fault) == (fault => Trouble < MaxTrouble) /\ faults' = faults + (IF fault THEN 1 ELSE 0)

\* The mailboxes: SM0, SM1 and what the firmware keeps beside them.  todo are
\* the answers it has not put into SM1 yet, last the one put there last; rl is
\* slavelist[].mbx_rl, the bytes of SM1.
EmptyBox(cnt, rl) ==
  [rl |-> rl, in |-> NoMail, out |-> NoMail, last |-> NoMail, todo |-> <<>>, seen |-> cnt,
   req |-> FALSE, ack |-> FALSE,      \* bits of SM1: repeat request and its answer
   seenid |-> 0,                      \* history: the mailbox seen was written for
   unheard |-> FALSE]                 \* history: the answer of the last read is lost,
                                      \* and no repeat request was open then

\* variant: the counter wraps around to zero
ec_nextmbxcntZero(cnt) == IF cnt + 1 > 7 THEN 0 ELSE cnt + 1

\* the counter of the next mailbox: it wraps around to one, not to zero
ec_nextmbxcnt(cnt) == IF cnt + 1 > 7 THEN 1 ELSE cnt + 1

Idle == [at |-> "idle", mail |-> NoMail, expired |-> FALSE, wkc |-> 0, repeat |-> FALSE]

Send(mail)       == [Idle EXCEPT !.at = "empty", !.mail = mail]
AwaitEmpty       == [Idle EXCEPT !.at = "empty"]
Receive(expired) == [Idle EXCEPT !.at = "avail", !.expired = expired]

Return(wkc) == call' = [call EXCEPT !.at = "done", !.wkc = wkc]

-----------------------------------------------------------------------------
\* ecx_mbxempty, and with it the first half of ecx_mbxsend: SM0 is seen empty
FoundEmpty ==
  /\ call.at = "empty" /\ box.in = NoMail
  /\ IF call.mail = NoMail THEN Return(1) ELSE call' = [call EXCEPT !.at = "write"]
  /\ UNCHANGED <<mbx_cnt, elist, box, rx, hook, faults>>

\* the time is up, and the last poll found SM0 full or was lost
NotEmpty ==
  /\ call.at = "empty" /\ call.expired
  /\ Faulty(box.in = NoMail)
  /\ Return(0)
  /\ UNCHANGED <<mbx_cnt, elist, box, rx, hook>>

\* ecx_mbxsend writes SM0.  The frame is sent again while no answer comes, up
\* to EC_TIMEOUTRET3; the slave may have emptied SM0 in between, and a full SM0
\* refuses the write.
WriteMail(fate) ==
  LET full  == box.in # NoMail
      taken == fate # "lost" /\ ~full
  IN  /\ call.at = "write"
      /\ Faulty(fate # "arrives")
      /\ box' = IF taken THEN [box EXCEPT !.in = call.mail] ELSE box
      /\ IF fate = "arrives" THEN Return(IF full THEN 0 ELSE 1)
         ELSE call' = call \/ Return(-1)
      /\ UNCHANGED <<mbx_cnt, elist, rx, hook>>

-----------------------------------------------------------------------------
\* ecx_mbxreceive: SM1 is seen full
FoundAvailable ==
  /\ call.at = "avail" /\ box.out # NoMail
  /\ call' = [call EXCEPT !.at = "read", !.repeat = box.req]
  /\ UNCHANGED <<mbx_cnt, elist, box, rx, hook, faults>>

\* the time is up, and the last poll found SM1 empty or was lost
NotAvailable(lost) ==
  /\ call.at = "avail" /\ call.expired /\ (lost \/ box.out = NoMail)
  /\ Faulty(lost)
  /\ Return(IF lost THEN -1 ELSE -5)
  /\ UNCHANGED <<mbx_cnt, elist, box, rx, hook>>

\* the entries for the error and the emergency of a slave
ecx_mbxerror          == "error"
ecx_mbxemergencyerror == "emergency"

\* what is dealt with at once and never reaches the caller
IsError(m)    == m.type \in {"error", "emergency"}
IsFragment(m) == m.type = "eoe" /\ m.kind = "frag" /\ hook

\* variant: an emergency reaches the caller
HandledHere(m) == m.type = "error" \/ IsFragment(m)

Handled(m) == IsError(m) \/ IsFragment(m)

\* the mailbox is read; one that is dealt with here leaves the loop to read on,
\* without a look whether SM1 is full
ReadMail ==
  LET m == box.out
  IN  /\ call.at = "read" /\ m # NoMail
      /\ box' = [box EXCEPT !.out = NoMail, !.unheard = FALSE]
      /\ elist' = CASE m.type = "error"     -> ecx_pusherror(elist, ecx_mbxerror)
                    [] m.type = "emergency" -> ecx_pusherror(elist, ecx_mbxemergencyerror)
                    [] OTHER                -> elist
      /\ rx' = IF IsFragment(m) THEN ecx_EOEreadfragment(rx, m, Room) ELSE rx
      /\ IF ~Handled(m) THEN call' = [call EXCEPT !.at = "done", !.wkc = 1, !.mail = m]
         ELSE IF call.expired THEN Return(0) ELSE call' = [call EXCEPT !.wkc = 0]
      /\ UNCHANGED <<mbx_cnt, hook, faults>>

\* the read is lost, or SM1 is empty and the slave does not count it
ReadMiss(fate) ==
  /\ call.at = "read"
  /\ Faulty(fate # "arrives")
  /\ fate = "arrives" => box.out = NoMail
  /\ box' = IF fate = "unheard" /\ box.out # NoMail
            THEN [box EXCEPT !.out = NoMail, !.unheard = (box.req = box.ack)] ELSE box
  /\ call' = [call EXCEPT !.at = "toggle", !.wkc = IF fate = "arrives" THEN 0 ELSE -1]
  /\ UNCHANGED <<mbx_cnt, elist, rx, hook>>

\* variant: the repeat bit is written as it was read
RepeatSame(bit) == bit

\* the repeat bit to write
RepeatBit(bit) == ~bit

\* the slave is asked to repeat; nobody looks whether the frame came through
ToggleRepeat(fate) ==
  /\ call.at = "toggle"
  /\ Faulty(fate # "arrives")
  /\ box' = IF fate = "lost" THEN box ELSE [box EXCEPT !.req = RepeatBit(call.repeat)]
  /\ call' = [call EXCEPT !.at = "ack", !.repeat = RepeatBit(call.repeat)]
  /\ UNCHANGED <<mbx_cnt, elist, rx, hook>>

\* variant: the wait for the answer of the slave has no end
AwaitAckForever ==
  /\ call.at = "ack" /\ box.ack = call.repeat
  /\ call' = [call EXCEPT !.at = "again"]
  /\ UNCHANGED <<mbx_cnt, elist, box, rx, hook, faults>>

\* the slave has answered the request, or the time is up
AwaitAck ==
  /\ call.at = "ack" /\ (box.ack = call.repeat \/ call.expired)
  /\ call' = [call EXCEPT !.at = "again"]
  /\ UNCHANGED <<mbx_cnt, elist, box, rx, hook, faults>>

\* SM1 is full again, or the time is up: the loop is left with the last wkc
AwaitAgain ==
  /\ call.at = "again" /\ (box.out # NoMail \/ call.expired)
  /\ call' = IF call.expired THEN [call EXCEPT !.at = "done"]
             ELSE [call EXCEPT !.at = "read", !.repeat = box.req]
  /\ UNCHANGED <<mbx_cnt, elist, box, rx, hook, faults>>

\* The time of a call is up.  It is long: unless a fault is spent on it, it
\* ends only when the slave has nothing more to say to the call.
Due ==
  \/ box.todo = <<>> /\ box.in = NoMail /\ box.out = NoMail /\ box.ack = box.req
  \/ call.at = "ack" /\ box.ack # call.repeat /\ box.ack = box.req

Expire ==
  /\ call.at \in {"empty", "avail", "read", "ack", "again"} /\ ~call.expired
  /\ Faulty(~Due)
  /\ call' = [call EXCEPT !.expired = TRUE]
  /\ UNCHANGED <<mbx_cnt, elist, box, rx, hook>>

\* ecx_poperror, called by the application at any time
PopError ==
  /\ elist' = ecx_poperror(elist) /\ elist' # elist
  /\ UNCHANGED <<mbx_cnt, call, box, rx, hook, faults>>

-----------------------------------------------------------------------------
\* The slave, as the mailbox protocol has it: a mailbox with the counter of the
\* one before is a copy of it, unless the counter is zero.
SameMail(m) == m.cnt # 0 /\ m.cnt = box.seen

\* SM1 is filled when it is empty, but not before the master had the time to ask
\* for what was in it once more
PutMail ==
  /\ box.out = NoMail /\ box.todo # <<>>
  /\ box.req = box.ack /\ ~(box.unheard /\ call.at = "toggle")
  /\ box' = [box EXCEPT !.out = Head(box.todo), !.last = Head(box.todo), !.todo = Tail(@),
                        !.unheard = FALSE]
  /\ UNCHANGED <<mbx_cnt, elist, call, rx, hook, faults>>

\* a repeat request: the mailbox put last is put again if it was read
RepeatMail ==
  /\ box.req # box.ack
  /\ box' = [box EXCEPT !.ack = box.req, !.unheard = FALSE,
                        !.out = IF @ = NoMail THEN box.last ELSE @]
  /\ UNCHANGED <<mbx_cnt, elist, call, rx, hook, faults>>
=============================================================================
