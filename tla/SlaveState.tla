----------------------------- MODULE SlaveState -----------------------------
(***************************************************************************)
(* ecx_readstate, ecx_writestate and ecx_statecheck of                     *)
(* soem/ethercatmain.c as the thread ecatcheck uses them, while slaves     *)
(* lose their power and frames are lost.  A state that was not read is     *)
(* EC_STATE_NONE.                                                          *)
(***************************************************************************)
EXTENDS Mapping

VARIABLES
  inOP,         \* the bring-up is over, all slaves have been in OP
  short,        \* was the counter of the last cycle below expectedWKC?
  docheckstate, \* ec_group[].docheckstate
  slips         \* history: the slaves for which a write nobody checks was lost

checkvars == <<inOP, short, docheckstate, slips>>

vars == <<mapvars, checkvars>>

\* what does not change while the network runs
Settled == UNCHANGED <<plan, cuts, esi, hold, clocked, inOP, short>>

\* the state all of them are in, without error flags, or none
CommonState(who) ==
  IF \E d \in who : \A e \in who : bus[e].al = bus[d].al /\ ~bus[e].err
  THEN bus[CHOOSE d \in who : TRUE].al ELSE EC_STATE_NONE

\* allslavespresent
AllAnswered(wkc) == wkc >= Len(list)

\* The broadcast of ecx_readstate: it is enough when all slaves answer with the
\* same state and no error.
ReadAll(fate) ==
  /\ at.proc = "readall"
  /\ Costs(fate)
  /\ LET common == IF fate = "arrives" THEN CommonState(All) ELSE EC_STATE_NONE
     IN  IF AllAnswered(Wkc(All, fate)) /\ common # EC_STATE_NONE
         THEN /\ list' = [s \in Slaves |-> [list[s] EXCEPT !.state = common]]
              /\ Go("look")
         ELSE /\ Go("readeach") /\ UNCHANGED list
  /\ UNCHANGED <<bus, docheckstate, slips>> /\ Settled

\* variant: what was read before stays when the frame is lost
StateReadOld(s, fate) == ReadOr(Reached(s), fate, LAMBDA k : AlStatus(bus[k]), list[s].state)

\* what ecx_readstate, ecx_FPRD_multi and ecx_statecheck take over of a slave
StateRead(s, fate) == ReadOr(Reached(s), fate, LAMBDA k : AlStatus(bus[k]), EC_STATE_NONE)

\* ecx_FPRD_multi: a datagram for each slave, all in one frame
ReadEach(fate) ==
  /\ at.proc = "readeach"
  /\ Costs(fate)
  /\ list' = [s \in Slaves |-> [list[s] EXCEPT !.state = StateRead(s, fate)]]
  /\ Go("look")
  /\ UNCHANGED <<bus, docheckstate, slips>> /\ Settled

ecx_readstate == \E fate \in {"arrives", "lost"} : ReadAll(fate) \/ ReadEach(fate)

\* ecx_writestate of one slave
Requested(s, state, ack, fate) == Wrote(bus, Reached(s), LAMBDA d : AlRequest(d, state, ack), fate)

\* The state ecx_statecheck finds on bus b.  It asks again until its time is up:
\* one lost frame makes no difference.
StateOn(b, s) == IF Reached(s) = {} THEN EC_STATE_NONE ELSE AlStatus(b[Max(Reached(s))])
=============================================================================
