------------------------------ MODULE BringUp ------------------------------
(***************************************************************************)
(* A program of module Programs, one instruction after the other, up to    *)
(* the cyclic exchange of process data: the calls it makes to the library  *)
(* and where it gives up.  ec_writestate(0) and ec_statecheck(0, ...) are a *)
(* broadcast to all slaves.                                                *)
(***************************************************************************)
EXTENDS Recovery

Does(instruction) == at.proc = Return /\ at.pc <= Len(Script) /\ Script[at.pc] = instruction

GoTo(proc) == at' = [proc |-> proc, s |-> 1, pc |-> at.pc + 1]
Continue   == GoTo(Return)
Stop       == Go("stopped")

ContinueIf(good) == IF good THEN Continue ELSE Stop

Broadcast(state) == Calmly(bus, All, LAMBDA d : AlRequest(d, state, FALSE))

\* ec_statecheck(0, state, ...): the states of all slaves, ored
AllIn(b, state) == \A k \in All : b[k].al = state

\* ec_readstate
ReadStates(b) == [s \in Slaves |-> [list[s] EXCEPT !.state = StateOn(b, s)]]

Kept == UNCHANGED <<esi, hold, docheckstate, slips, short>> /\ Untroubled

-----------------------------------------------------------------------------
CallConfigInit ==
  /\ Does("config_init") /\ GoTo("detect")
  /\ UNCHANGED <<bus, list, clocked, inOP>> /\ Kept

CallConfigMap ==
  /\ Does("config_map") /\ GoTo("coe")
  /\ UNCHANGED <<bus, list, clocked, inOP>> /\ Kept

CallConfigDc ==
  /\ Does("configdc") /\ GoTo("dc")
  /\ UNCHANGED <<bus, list, clocked, inOP>> /\ Kept

\* Step 2 of a demo: for each slave in PRE_OP all are asked for PRE_OP; the entry of
\* one that is not there is set to INIT, and nothing is done about it.
PreOpEach ==
  LET seen == ReadStates(bus)
      some == \E s \in Slaves : seen[s].state = EC_STATE_PRE_OP
  IN  /\ Does("preop_each")
      /\ bus' = IF some THEN Broadcast(EC_STATE_PRE_OP) ELSE bus
      /\ list' = [s \in Slaves |-> IF seen[s].state = EC_STATE_PRE_OP THEN seen[s]
                                   ELSE [seen[s] EXCEPT !.state = EC_STATE_INIT]]
      /\ ContinueIf(some => AllIn(bus', EC_STATE_PRE_OP))
      /\ UNCHANGED <<clocked, inOP>> /\ Kept

\* simple_test goes on when not all get there
PreOpAll ==
  /\ Does("preop_all") /\ Continue
  /\ bus' = Broadcast(EC_STATE_PRE_OP)
  /\ UNCHANGED <<list, clocked, inOP>> /\ Kept

\* who answers a mailbox
Talks(k) == bus[k].al # EC_STATE_INIT /\ Has(Kind(k).proto, ECT_MBXPROT_COE)

\* Step 3: the sum of the working counters of all writes is never negative, so
\* that a slave that takes none of them is found by nobody.
MapPdos ==
  /\ Does("pdos") /\ Continue
  /\ bus' = [k \in Devices |-> IF Talks(k) THEN [bus[k] EXCEPT !.map = Programs[plan.program].maps]
                               ELSE bus[k]]
  /\ UNCHANGED <<list, clocked, inOP>> /\ Kept

\* Step 3 of eRob_test: PDOs of the device are assigned.  Of the outputs the last
\* slave counts, of the inputs any.
Assign ==
  /\ Does("assign")
  /\ bus' = [k \in Devices |-> IF Talks(k) THEN [bus[k] EXCEPT !.map = Kind(k).fixed] ELSE bus[k]]
  /\ ContinueIf(Talks(Max(All)) /\ \E k \in All : Talks(k))
  /\ UNCHANGED <<list, clocked, inOP>> /\ Kept

SetManual ==
  /\ Does("manual") /\ Continue
  /\ UNCHANGED <<bus, list, clocked, inOP>> /\ Kept

\* ecx_dcsync0 for every slave there is with a clock: the start time is taken from
\* the system time of the slave, which is the common one only after ecx_configdc
Sync0 ==
  LET started(k) == k \in Slaves /\ list[k].hasdc
  IN  /\ Does("dcsync0") /\ Continue
      /\ bus' = [k \in Devices |-> IF started(k) THEN [bus[k] EXCEPT !.sync = IF clocked THEN "common" ELSE "early"]
                                   ELSE bus[k]]
      /\ UNCHANGED <<list, clocked, inOP>> /\ Kept

InPreOp ==
  /\ Does("in_preop")
  /\ ContinueIf(\A s \in Slaves : list[s].state = EC_STATE_PRE_OP)
  /\ UNCHANGED <<bus, list, clocked, inOP>> /\ Kept

Request(instruction, state) ==
  /\ Does(instruction)
  /\ bus' = Broadcast(state)
  /\ list' = ReadStates(bus')
  /\ ContinueIf(AllIn(bus', state))
  /\ UNCHANGED <<clocked, inOP>> /\ Kept

RequestSafeOp == Request("safeop", EC_STATE_SAFE_OP)
RequestOp     == Request("op", EC_STATE_OPERATIONAL)

\* the cyclic loop, with ecatcheck looking after the slaves
Watch ==
  /\ Does("watch") /\ GoTo("idle")
  /\ inOP' = TRUE
  /\ UNCHANGED <<bus, list, clocked>> /\ Kept

\* The loop of a demo.  No demo sets inOP: ecatcheck has nothing to do.
Control ==
  /\ Does("control") /\ GoTo("loop")
  /\ UNCHANGED <<bus, list, clocked, inOP>> /\ Kept

erob_test ==
  \/ CallConfigInit \/ CallConfigMap \/ CallConfigDc
  \/ PreOpEach \/ PreOpAll \/ MapPdos \/ Assign \/ SetManual \/ Sync0 \/ InPreOp
  \/ RequestSafeOp \/ RequestOp \/ Watch \/ Control
=============================================================================
