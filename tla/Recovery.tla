------------------------------ MODULE Recovery ------------------------------
(***************************************************************************)
(* The thread ecatcheck of test/linux/red_test (simple_test and eoe_test   *)
(* have the same one): it acknowledges errors, asks for OP again,          *)
(* reconfigures slaves (ecx_reconfig_slave) and gives those that have lost *)
(* their address a new one (ecx_recover_slave).                            *)
(*                                                                         *)
(* The frames of both procedures have EC_TIMEOUTMON: each is sent once and *)
(* may be lost on its way out ("lost") or back ("unheard").                *)
(***************************************************************************)
EXTENDS SlaveState

\* the next step of the treatment of slave at.s
Then(proc) == GoOn(proc, at.s)

\* the branches for the state of the slave end here
Treated == Then("lost")

NextSlave == IF at.s < Len(list) THEN GoOn("look", at.s + 1) ELSE Go("idle")

State == list[at.s].state

\* a write nobody checks: what is missed with it is remembered
Slip(missed) == slips' = IF missed THEN slips \cup {at.s} ELSE slips

Missed(fate) == fate = "lost" \/ Reached(at.s) = {}

\* one frame that changes the slaves in who
Write(who, Change(_), fate) == Costs(fate) /\ bus' = Wrote(bus, who, Change, fate)

-----------------------------------------------------------------------------
\* something is wrong, or was the last time
StartCheck ==
  /\ at.proc = "idle" /\ inOP /\ (short \/ docheckstate)
  /\ docheckstate' = FALSE
  /\ Go("readall")
  /\ UNCHANGED <<bus, list, trouble, slips>> /\ Settled

LookOperational ==
  /\ at.proc = "look" /\ State = EC_STATE_OPERATIONAL
  /\ Treated
  /\ UNCHANGED <<bus, list, trouble, docheckstate, slips>> /\ Settled

\* the acknowledge bit goes with the request
AckBit == TRUE

LookError(fate) ==
  /\ at.proc = "look" /\ State = EC_STATE_SAFE_OP + EC_STATE_ERROR
  /\ Costs(fate)
  /\ bus' = Requested(at.s, EC_STATE_SAFE_OP, AckBit, fate)
  /\ docheckstate' = TRUE
  /\ Treated
  /\ UNCHANGED <<list, slips>> /\ Settled

LookSafeOp(fate) ==
  /\ at.proc = "look" /\ State = EC_STATE_SAFE_OP
  /\ Costs(fate)
  /\ bus' = Requested(at.s, EC_STATE_OPERATIONAL, FALSE, fate)
  /\ list' = [list EXCEPT ![at.s].state = EC_STATE_OPERATIONAL]
  /\ docheckstate' = TRUE
  /\ Treated
  /\ UNCHANGED slips /\ Settled

LookElse ==
  /\ at.proc = "look"
  /\ State \notin {EC_STATE_OPERATIONAL, EC_STATE_SAFE_OP, EC_STATE_SAFE_OP + EC_STATE_ERROR}
  /\ docheckstate' = TRUE
  /\ Then(IF State # EC_STATE_NONE THEN "rc_init" ELSE IF list[at.s].islost THEN "lost" ELSE "recheck")
  /\ UNCHANGED <<bus, list, trouble, slips>> /\ Settled

\* the state of a slave that did not answer is read once more
Recheck(fate) ==
  /\ at.proc = "recheck"
  /\ Costs(fate)
  /\ list' = [list EXCEPT ![at.s].state = StateRead(at.s, fate),
                          ![at.s].islost = @ \/ StateRead(at.s, fate) = EC_STATE_NONE]
  /\ Treated
  /\ UNCHANGED <<bus, docheckstate, slips>> /\ Settled

\* a slave marked lost is recovered if it still has no state, else it is found
LookLost ==
  /\ at.proc = "lost"
  /\ list' = [list EXCEPT ![at.s].islost = @ /\ State = EC_STATE_NONE]
  /\ IF list[at.s].islost /\ State = EC_STATE_NONE THEN Then("probe") ELSE NextSlave
  /\ UNCHANGED <<bus, trouble, docheckstate, slips>> /\ Settled

-----------------------------------------------------------------------------
\* the slave list with the state ecx_statecheck finds on bus b
Seen(b) == [list EXCEPT ![at.s].state = StateOn(b, at.s)]

\* ecx_reconfig_slave returns the state; any but none takes the slave off the lost
Reconfigured(l) ==
  /\ list' = [l EXCEPT ![at.s].islost = @ /\ l[at.s].state = EC_STATE_NONE]
  /\ Treated

\* a write of INIT without an answer is the end
ReconfigInit(fate) ==
  /\ at.proc = "rc_init"
  /\ Write(Reached(at.s), LAMBDA d : AlRequest(d, EC_STATE_INIT, FALSE), fate)
  /\ IF Wkc(Reached(at.s), fate) <= 0 THEN Treated ELSE Then("rc_pdi")
  /\ UNCHANGED <<list, docheckstate, slips>> /\ Settled

\* the EEPROM to the application of the slave, then the check for INIT
ReconfigPdi(fate) ==
  LET l == ecx_eeprom2pdi(Seen(bus), at.s)
  IN  /\ at.proc = "rc_pdi"
      /\ list[at.s].eep_pdi => fate = "arrives"
      /\ Costs(fate) /\ Slip(~list[at.s].eep_pdi /\ Missed(fate))
      /\ bus' = ToPdi(bus, at.s, fate)
      /\ IF l[at.s].state = EC_STATE_INIT THEN list' = l /\ Then("rc_sm") ELSE Reconfigured(l)
      /\ UNCHANGED docheckstate /\ Settled

\* all sync managers that have a start, one frame each; one of them may be lost
ReconfigSm(fate, n) ==
  LET written == {m \in 0 .. 3 : list[at.s].SM[m] # 0 /\ (fate = "lost" => m # n)}
  IN  /\ at.proc = "rc_sm"
      /\ fate = "lost" => list[at.s].SM[n] # 0
      /\ Costs(fate)
      /\ bus' = Wrote(bus, Reached(at.s),
                      LAMBDA d : [d EXCEPT !.sm = [m \in 0 .. 3 |-> IF m \in written THEN list[at.s].SM[m]
                                                                    ELSE @[m]]], "arrives")
      /\ Then("rc_preop")
      /\ UNCHANGED <<list, docheckstate, slips>> /\ Settled

\* PRE_OP is asked for and awaited
ReconfigPreOp(fate) ==
  LET b == Requested(at.s, EC_STATE_PRE_OP, FALSE, fate)
  IN  /\ at.proc = "rc_preop"
      /\ Costs(fate)
      /\ bus' = b
      /\ IF StateOn(b, at.s) = EC_STATE_PRE_OP THEN list' = Seen(b) /\ Then("rc_safeop")
         ELSE Reconfigured(Seen(b))
      /\ UNCHANGED <<docheckstate, slips>> /\ Settled

\* SAFE_OP is asked for and awaited; whether it came makes no difference
ReconfigSafeOp(fate) ==
  LET b == Requested(at.s, EC_STATE_SAFE_OP, FALSE, fate)
  IN  /\ at.proc = "rc_safeop"
      /\ Costs(fate)
      /\ bus' = b
      /\ list' = Seen(b)
      /\ Then("rc_fmmu")
      /\ UNCHANGED <<docheckstate, slips>> /\ Settled

\* variant: the FMMUs are left as they are
FmmuOf(d, me) == d

\* what a slave holds after the writes of its FMMUs
FmmuWritten(d, me) == [d EXCEPT !.fmmu = me.FMMUunused]

\* the FMMUs; a lost one is found missing by nobody
ReconfigFmmu(fate) ==
  /\ at.proc = "rc_fmmu"
  /\ Costs(fate) /\ Slip(Missed(fate))
  /\ bus' = Wrote(bus, Reached(at.s), LAMBDA d : FmmuWritten(d, list[at.s]), fate)
  /\ Reconfigured(list)
  /\ UNCHANGED docheckstate /\ Settled

ecx_reconfig_slave ==
  \/ \E fate \in Fates : ReconfigInit(fate)
  \/ \E fate \in {"arrives", "lost"} :
       \/ ReconfigPdi(fate) \/ ReconfigPreOp(fate) \/ ReconfigSafeOp(fate) \/ ReconfigFmmu(fate)
       \/ \E n \in (IF fate = "lost" THEN 0 .. 3 ELSE {0}) : ReconfigSm(fate, n)

-----------------------------------------------------------------------------
\* ecx_recover_slave returns; any value but 0, also EC_NOFRAME, counts as recovered
Recovered(rval, l) ==
  /\ list' = [l EXCEPT ![at.s].islost = @ /\ rval = 0]
  /\ NextSlave

\* the address of the slave at the place: its own, none, or that of another
Probe(fate) ==
  LET who == AP(at.s)
      adr == ReadOr(who, fate, LAMBDA k : bus[k].adr, -2)
  IN  /\ at.proc = "probe"
      /\ Costs(fate)
      /\ IF adr = list[at.s].configadr THEN Recovered(1, list)
         ELSE IF adr = 0 THEN Then("clear") /\ UNCHANGED list
         ELSE Recovered(0, list)
      /\ UNCHANGED <<bus, docheckstate, slips>> /\ Settled

\* Whoever has the temporary address loses it.  The answer is not looked at, and one
\* that is cut off keeps it.
ClearTemp(fate) ==
  /\ at.proc \in {"clear", "giveup"}
  /\ Write(FP(Temp), LAMBDA d : [d EXCEPT !.adr = 0], fate)
  /\ Slip(fate = "lost" \/ \E k \in Devices \ Connected : bus[k].adr = Temp)
  /\ IF at.proc = "clear" THEN Then("temp") /\ UNCHANGED list ELSE Recovered(0, list)
  /\ UNCHANGED docheckstate /\ Settled

\* The temporary address, and the EEPROM to the master.  The slave at the place may no
\* longer be the one that was probed; if it has answered to the address of another,
\* what it holds is that one's.
GiveTemp(fate) ==
  LET b1 == Wrote(bus, AP(at.s), LAMBDA d : [d EXCEPT !.adr = Temp], fate)
      ok == Wkc(AP(at.s), fate) > 0
  IN  /\ at.proc = "temp"
      /\ Costs(fate)
      /\ IF ok
         THEN /\ list' = ecx_eeprom2master([list EXCEPT ![at.s].configadr = Temp], at.s)
              /\ bus' = [k \in Devices |-> IF b1[k].adr = Temp /\ list[at.s].eep_pdi
                                           THEN [b1[k] EXCEPT !.ctl = "master"] ELSE b1[k]]
              /\ Then("alias")
         ELSE bus' = b1 /\ Then("giveup") /\ UNCHANGED list
      /\ slips' = slips \cup {k \in Devices : b1[k].adr = Temp /\ bus[k].adr \in Slaves \ {k}}
      /\ UNCHANGED docheckstate /\ Settled

\* a lost answer reads as alias 0
CheckAlias(fate) ==
  /\ at.proc = "alias"
  /\ Costs(fate)
  /\ Then(IF ReadOr(FP(Temp), fate, LAMBDA k : Kind(k).alias, 0) = list[at.s].aliasadr
          THEN "is_id" ELSE "refuse")
  /\ Slip(fate = "lost")
  /\ UNCHANGED <<bus, list, docheckstate>> /\ Settled

\* variant: only the alias is compared
SameAlways(read, entry) == TRUE

Same(read, entry) == read = entry

\* one word of the identity
CheckWord(proc, word, entry, next, how) ==
  /\ at.proc = proc
  /\ Costs(IF how = "right" THEN "arrives" ELSE "lost")
  /\ bus' = Wrote(bus, FP(Temp), LAMBDA d : EepCommand(d, word), IF how = "stale" THEN "lost" ELSE "arrives")
  /\ Then(IF Same(WordRead(FP(Temp), word, how), entry) THEN next ELSE "refuse")
  /\ UNCHANGED <<list, docheckstate, slips>> /\ Settled

CheckIdentity(how) ==
  \/ CheckWord("is_id", ECT_SII_ID, list[at.s].eep_id, "is_man", how)
  \/ CheckWord("is_man", ECT_SII_MANUF, list[at.s].eep_man, "is_rev", how)
  \/ CheckWord("is_rev", ECT_SII_REV, list[at.s].eep_rev, "restore", how)

\* The slave gets its address back, or loses the temporary one: the last frame.
\* If it is lost the list has the old address, and the slave still the other.
LastAddress(fate) ==
  LET new == IF at.proc = "restore" THEN at.s ELSE 0
  IN  /\ at.proc \in {"restore", "refuse"}
      /\ Costs(fate)
      /\ Slip(fate = "lost")
      /\ bus' = Wrote(bus, FP(Temp), LAMBDA d : [d EXCEPT !.adr = new], fate)
      /\ Recovered(IF at.proc = "restore" THEN Wkc(FP(Temp), fate) ELSE 0,
                   [list EXCEPT ![at.s].configadr = at.s])
      /\ UNCHANGED docheckstate /\ Settled

ecx_recover_slave ==
  \/ \E fate \in {"arrives", "lost"} : Probe(fate) \/ ClearTemp(fate) \/ CheckAlias(fate)
  \/ \E fate \in Fates : GiveTemp(fate) \/ LastAddress(fate)
  \/ \E how \in Reads : CheckIdentity(how)

ecatcheck ==
  \/ StartCheck
  \/ ecx_readstate
  \/ LookOperational \/ LookElse \/ LookLost
  \/ \E fate \in {"arrives", "lost"} : LookError(fate) \/ LookSafeOp(fate) \/ Recheck(fate)
  \/ ecx_reconfig_slave
  \/ ecx_recover_slave
=============================================================================
