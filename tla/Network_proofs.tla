--------------------------- MODULE Network_proofs ---------------------------
(***************************************************************************)
(* Proofs about a network and its program, for every set of plans that     *)
(* agree with the assumptions of module Network.                           *)
(***************************************************************************)
EXTENDS Network, SequenceTheorems, FiniteSetTheorems, TLAPS

-----------------------------------------------------------------------------
(***************************************************************************)
(* The devices: what they are, whatever is written to them.                *)
(***************************************************************************)
Fields   == {"kind", "power", "adr", "al", "err", "sm", "fmmu", "ctl", "data", "map", "sync"}
AlStates == {EC_STATE_INIT, EC_STATE_PRE_OP, EC_STATE_SAFE_OP, EC_STATE_OPERATIONAL}

IsDevice(d) ==
  /\ DOMAIN d = Fields
  /\ d.kind \in DOMAIN Kinds /\ d.power \in BOOLEAN /\ d.err \in BOOLEAN
  /\ d.adr \in 0 .. EC_MAXSLAVE \cup {Temp}
  /\ d.al \in AlStates
  /\ d.ctl \in {"master", "pdi"} /\ d.data \in EepWords \cup {NoWord} /\ d.sync \in {"off", "early", "common"}

\* nothing loses its power and nothing is replaced
Whole == ~inOP \/ plan.cuts = 0

Devs ==
  /\ plan \in Plans
  /\ DOMAIN bus = DOMAIN plan.kinds
  /\ \A k \in Devices : /\ IsDevice(bus[k]) /\ bus[k].kind \in {plan.kinds[k]} \cup plan.spare
                        /\ Whole => bus[k].power /\ bus[k].kind = plan.kinds[k]

\* d is still the device e
Still(d, e) == IsDevice(d) /\ d.kind = e.kind /\ d.power = e.power

Tame(b) == DOMAIN b = Devices /\ \A k \in Devices : Still(b[k], bus[k])

LEMMA Requests ==
  ASSUME NEW d, IsDevice(d), NEW state \in AlStates, NEW ack
  PROVE  /\ Still(AlRequest(d, state, ack), d)
         /\ LET r == AlRequest(d, state, ack)
            IN  /\ r.adr = d.adr /\ r.fmmu = d.fmmu /\ r.ctl = d.ctl /\ r.data = d.data
                /\ r.map = d.map /\ r.sync = d.sync /\ r.al \in {d.al, state}
<1>1. \/ AlRequest(d, state, ack) = d
      \/ AlRequest(d, state, ack) = [d EXCEPT !.err = TRUE]
      \/ AlRequest(d, state, ack) = [d EXCEPT !.al = state, !.err = FALSE]
  BY DEF AlRequest
<1> DEFINE r == AlRequest(d, state, ack)
<1> HIDE DEF r
<1>2. DOMAIN r = Fields /\ r.kind = d.kind /\ r.power = d.power /\ r.adr = d.adr /\ r.fmmu = d.fmmu
      /\ r.ctl = d.ctl /\ r.data = d.data /\ r.map = d.map /\ r.sync = d.sync /\ r.al \in {d.al, state}
  BY <1>1 DEF r, IsDevice, Fields
<1>3. r.err \in BOOLEAN
  BY <1>1 DEF r, IsDevice, Fields
<1>4. Still(r, d)
  BY <1>2, <1>3 DEF Still, IsDevice, Fields
<1> QED
  BY <1>2, <1>4 DEF r

LEMMA Commands ==
  ASSUME NEW d, IsDevice(d), NEW word \in EepWords
  PROVE  /\ Still(EepCommand(d, word), d)
         /\ LET r == EepCommand(d, word)
            IN  /\ r.adr = d.adr /\ r.fmmu = d.fmmu /\ r.ctl = d.ctl /\ r.al = d.al
                /\ r.map = d.map /\ r.sync = d.sync
                /\ r.data = IF d.ctl = "master" THEN word ELSE d.data
  BY DEF EepCommand, Still, IsDevice, Fields

LEMMA Defaults ==
  ASSUME NEW d, IsDevice(d)
  PROVE  /\ Still(SetDefault(d), d) /\ SetDefault(d).ctl = "master" /\ SetDefault(d).fmmu = 0
         /\ SetDefault(d).adr = d.adr /\ SetDefault(d).data = d.data
<1> DEFINE e == [d EXCEPT !.fmmu = 0, !.sm = NoSM]
           r == AlRequest(e, EC_STATE_INIT, TRUE)
<1>1. Still(e, d) /\ e.fmmu = 0 /\ e.adr = d.adr /\ e.data = d.data
  BY DEF Still, IsDevice, Fields
<1> HIDE DEF e
<1>2. Still(r, e) /\ r.fmmu = e.fmmu /\ r.adr = e.adr /\ r.data = e.data
  <2>1. IsDevice(e) /\ EC_STATE_INIT \in AlStates
    BY <1>1 DEF Still, AlStates
  <2> QED
    BY <2>1, Requests
<1>3. SetDefault(d) = [r EXCEPT !.ctl = "master"]
  BY DEF SetDefault, e
<1> HIDE DEF r
<1> QED
  BY <1>1, <1>2, <1>3 DEF Still, IsDevice, Fields

LEMMA StillSame ==
  ASSUME Devs
  PROVE  \A k \in Devices : IsDevice(bus[k]) /\ Still(bus[k], bus[k])
  BY DEF Devs, Still

\* Every device is kept by a write that keeps the ones it reaches.
LEMMA Keeps ==
  ASSUME Devs, NEW b, NEW who, DOMAIN b = Devices,
         \A k \in Devices : (k \in who => Still(b[k], bus[k])) /\ (k \notin who => b[k] = bus[k])
  PROVE  Tame(b)
  BY StillSame DEF Tame

LEMMA TameKeeps ==
  ASSUME Devs, Tame(bus'), UNCHANGED plan, inOP \in BOOLEAN, inOP' \in BOOLEAN, inOP => inOP'
  PROVE  Devs'
<1>1. Whole' => Whole
  BY DEF Whole
<1>2. DOMAIN bus' = DOMAIN bus /\ Devices' = Devices
  BY DEF Tame, Devices
<1>3. ASSUME NEW k \in Devices
      PROVE  /\ IsDevice(bus'[k])
             /\ bus'[k].kind \in {plan.kinds[k]} \cup plan.spare
             /\ Whole' => bus'[k].power /\ bus'[k].kind = plan.kinds[k]
  BY <1>1 DEF Devs, Tame, Still
<1> QED
  BY <1>2, <1>3 DEF Devs, IsDevice

-----------------------------------------------------------------------------
(***************************************************************************)
(* The course of a program: where it is, and that the list has its slaves. *)
(***************************************************************************)
ConfigProcs == {"detect", "defaults", "address", "manuf", "id", "rev", "rxmbx", "links", "mailbox", "sii", "sm01"}
MapProcs    == {"coe", "map", "fmmu", "dc"}
CheckProcs  == {"idle", "readall", "readeach", "look", "recheck", "lost",
                "rc_init", "rc_pdi", "rc_sm", "rc_preop", "rc_safeop", "rc_fmmu",
                "probe", "clear", "giveup", "temp", "alias", "is_id", "is_man", "is_rev", "restore", "refuse"}
Ends        == {"stopped", "loop", "tool"}
Procs       == ConfigProcs \cup MapProcs \cup CheckProcs \cup Ends \cup {Return}

Places == [proc : Procs, s : 1 .. EC_MAXSLAVE, pc : 1 .. Len(Script) + 1]

\* the slaves have been counted
Counted == at.proc \notin {"detect", "stopped", "tool"} /\ at.pc > 1

Flow ==
  /\ at \in Places /\ (at.proc = Return \/ at.pc > 1)
  /\ Len(list) \in 0 .. EC_MAXSLAVE - 1 /\ DOMAIN list = 1 .. Len(list)
  /\ at.s = 1 \/ at.s <= Len(list)
  /\ Counted => Len(list) > 0 /\ Len(list) = Len(plan.kinds)
  /\ inOP \in BOOLEAN /\ (inOP <=> at.proc \in CheckProcs)
  /\ slips \subseteq 1 .. Len(list) /\ (~inOP => slips = {})

\* A function on 1 .. n is a list of n entries.
LEMMA LenIs ==
  ASSUME NEW f, NEW n \in Nat, DOMAIN f = 1 .. n
  PROVE  Len(f) = n
  OBVIOUS

\* Every program starts with ec_config_init, or is the tool for the EEPROM.
LEMMA Scripts ==
  ASSUME NEW p \in DOMAIN Programs
  PROVE  /\ Len(Programs[p].script) \in Nat
         /\ Programs[p].script[1] \in {"config_init", "tool"}
<1>1. Len(Programs[p].script) \in Nat
  BY DEF Programs, Demo, Test, CSP_find, CSP_run, SUB_find, SUB_run, TC_find, TC_run, PP_find, PP_run, CST_find,
         CST_run, PT_find, PT_run, PV_find, PV_run, CSV_find, CSV_run, Sync0First, erob_find, erob_run, redtest,
         simpletest, eoetest, slaveinfo, eepromtool_calls
<1>2. Programs[p].script[1] \in {"config_init", "tool"}
  BY DEF Programs, Demo, Test, CSP_find, CSP_run, SUB_find, SUB_run, TC_find, TC_run, PP_find, PP_run, CST_find,
         CST_run, PT_find, PT_run, PV_find, PV_run, CSV_find, CSV_run, Sync0First, erob_find, erob_run, redtest,
         simpletest, eoetest, slaveinfo, eepromtool_calls
<1> QED
  BY <1>1, <1>2

\* A step to a place of procs, which neither adds nor removes slaves.
Goes(procs) ==
  /\ \E proc \in procs : \E s \in 1 .. EC_MAXSLAVE : GoOn(proc, s) /\ (s = 1 \/ s <= Len(list))
  /\ DOMAIN list' = DOMAIN list

LEMMA Sizes == EC_MAXSLAVE \in Nat /\ EC_MAXSLAVE >= 2 /\ EC_MAXSLAVE < Temp /\ EC_DEFAULTRETRIES \in Nat
<1>1. Temp \in Nat
  BY DEF Temp
<1> QED
  BY <1>1, SizeAssumption

LEMMA GoesTo ==
  ASSUME Flow, NEW procs, NEW proc \in procs, NEW s \in Int, GoOn(proc, s), s = 1 \/ s \in 1 .. Len(list),
         DOMAIN list' = DOMAIN list
  PROVE  Goes(procs)
<1>1. s \in 1 .. EC_MAXSLAVE /\ (s = 1 \/ s <= Len(list))
  BY Sizes DEF Flow
<1> QED
  BY <1>1 DEF Goes

\* Onward goes to the next slave or, after the last one, to the next stage.
LEMMA OnwardGoes ==
  ASSUME Flow, NEW procs, NEW next \in procs, at.proc \in procs, Onward(next), DOMAIN list' = DOMAIN list
  PROVE  Goes(procs)
<1>1. at.s \in 1 .. EC_MAXSLAVE /\ Len(list) \in Nat
  BY Sizes DEF Flow, Places
<1>2. CASE at.s < Len(list)
  <2>1. GoOn(at.proc, at.s + 1) /\ at.s + 1 \in 1 .. Len(list)
    BY <1>1, <1>2 DEF Onward
  <2> QED
    BY <2>1, GoesTo
<1>3. CASE ~(at.s < Len(list))
  <2>1. GoOn(next, 1)
    BY <1>3 DEF Onward, Go
  <2> QED
    BY <2>1, GoesTo
<1> QED
  BY <1>2, <1>3

LEMMA GoesOn ==
  ASSUME Flow, NEW procs \in SUBSET Procs, Goes(procs), Counted, UNCHANGED <<plan, inOP>>,
         slips' \in SUBSET (1 .. Len(list)), ~inOP => slips' = {}, inOP => procs \subseteq CheckProcs, ~inOP => procs \cap CheckProcs = {}
  PROVE  Flow' /\ Len(list') = Len(list)
<1>1. PICK proc \in procs, s \in 1 .. EC_MAXSLAVE : GoOn(proc, s) /\ (s = 1 \/ s <= Len(list))
  BY DEF Goes
<1>2. at' = [proc |-> proc, s |-> s, pc |-> at.pc]
  BY <1>1 DEF GoOn, Flow, Places
<1>3. Script' = Script
  BY DEF Script
<1>4. at' \in Places'
  BY <1>2, <1>3 DEF Flow, Places
<1>5. Len(list') = Len(list) /\ DOMAIN list' = 1 .. Len(list)
  BY LenIs, Sizes DEF Flow, Goes
<1>6. Len(list) > 0 /\ at.pc > 1 /\ Len(list) = Len(plan.kinds)
  BY DEF Flow, Counted
<1>7. at'.proc \in procs /\ at'.pc > 1 /\ (at'.s = 1 \/ at'.s <= Len(list))
  BY <1>1, <1>2, <1>6
<1>8. (inOP' <=> at'.proc \in CheckProcs) /\ inOP' \in BOOLEAN
  BY <1>7 DEF Flow
<1> QED
  BY <1>4, <1>5, <1>6, <1>7, <1>8 DEF Flow

LEMMA AllFinite ==
  ASSUME Devs
  PROVE  IsFiniteSet(Devices) /\ IsFiniteSet(All)
<1>1. DOMAIN bus = 1 .. Len(plan.kinds) /\ Len(plan.kinds) \in Nat
  BY PlanAssumption DEF Devs
<1>2. IsFiniteSet(Devices)
  BY <1>1, FS_Interval DEF Devices
<1>3. All \subseteq Devices
  BY DEF All, Connected
<1> QED
  BY <1>2, <1>3, FS_Subset

\* where a stage of ec_config_init after the first one goes
InitProcs == (ConfigProcs \ {"detect"}) \cup {Return}

LEMMA InitProcsAre ==
  /\ InitProcs \in SUBSET Procs /\ InitProcs \cap CheckProcs = {} /\ Return \in InitProcs
  /\ {"defaults", "address", "manuf", "id", "rev", "rxmbx", "links", "mailbox", "sii", "sm01"} \subseteq InitProcs \ {Return}
  /\ \A proc \in InitProcs \ {Return} : proc \notin {"detect", "stopped", "tool"}
  BY DEF InitProcs, ConfigProcs, CheckProcs, Procs, Return

\* The stages after the first one neither add nor remove slaves.
LEMMA StagesGo ==
  ASSUME Flow, ecx_config_init, ~ecx_detect_slaves
  PROVE  Goes(InitProcs) /\ at.proc \in InitProcs \ {Return} /\ UNCHANGED plan
<1> DEFINE Working == Goes(InitProcs) /\ at.proc \in InitProcs \ {Return} /\ UNCHANGED plan
<1>0. /\ \A s \in Slaves : s \in 1 .. Len(list) /\ s \in Int
      /\ at.s \in Int /\ (at.s = 1 \/ at.s \in 1 .. Len(list))
  BY Sizes DEF Flow, Slaves, Places
<1>2. ASSUME ecx_set_slaves_to_default PROVE Working
  <2>1. at.proc = "defaults" /\ GoOn("address", 1) /\ UNCHANGED <<list, plan>>
    BY <1>2 DEF ecx_set_slaves_to_default, Go, Untroubled
  <2> QED
    BY <2>1, InitProcsAre, GoesTo
<1>3. ASSUME NEW s \in Slaves, Address(s) PROVE Working
  <2>1. at.proc = "address" /\ Onward("manuf") /\ UNCHANGED plan
    BY <1>3 DEF Address, Untroubled
  <2>2. DOMAIN list' = DOMAIN list
    BY <1>3 DEF Address
  <2> QED
    BY <2>1, <2>2, InitProcsAre, OnwardGoes
<1>4. ASSUME NEW s \in Slaves, CopySii(s) PROVE Working
  <2>1. at.proc = "sii" /\ GoOn("sm01", s) /\ UNCHANGED plan /\ DOMAIN list' = DOMAIN list
    BY <1>4 DEF CopySii, Untroubled
  <2> QED
    BY <2>1, <1>0, InitProcsAre, GoesTo
<1>5. ASSUME NEW s \in Slaves, ReadSii(s) PROVE Working
  <2>1. at.proc = "sii" /\ GoOn("sm01", s) /\ UNCHANGED plan /\ DOMAIN list' = DOMAIN list
    BY <1>5 DEF ReadSii, Untroubled
  <2> QED
    BY <2>1, <1>0, InitProcsAre, GoesTo
<1>6. ASSUME NEW s \in Slaves, Program(s) PROVE Working
  <2>1. at.proc = "sm01" /\ UNCHANGED plan
        /\ (IF s < Len(list) THEN GoOn("links", s + 1) ELSE GoOn(Return, 1))
    BY <1>6 DEF Program, Untroubled, Go
  <2>2. DOMAIN list' = DOMAIN list
    BY <1>6 DEF Program, ecx_eeprom2pdi
  <2>3. s < Len(list) => s + 1 \in 1 .. Len(list)
    BY <1>0 DEF Flow
  <2> QED
    BY <2>1, <2>2, <2>3, InitProcsAre, GoesTo
<1>7. ASSUME TakeManuf PROVE Working
  <2>1. at.proc = "manuf" /\ Onward("id") /\ UNCHANGED plan /\ DOMAIN list' = DOMAIN list
    BY <1>7 DEF TakeManuf, Took, Untroubled
  <2> QED
    BY <2>1, OnwardGoes, InitProcsAre
<1>8. ASSUME TakeId PROVE Working
  <2>1. at.proc = "id" /\ Onward("rev") /\ UNCHANGED plan /\ DOMAIN list' = DOMAIN list
    BY <1>8 DEF TakeId, Took, Untroubled
  <2> QED
    BY <2>1, OnwardGoes, InitProcsAre
<1>9. ASSUME TakeRev PROVE Working
  <2>1. at.proc = "rev" /\ Onward("rxmbx") /\ UNCHANGED plan /\ DOMAIN list' = DOMAIN list
    BY <1>9 DEF TakeRev, Took, Untroubled
  <2> QED
    BY <2>1, OnwardGoes, InitProcsAre
<1>10. ASSUME TakeRxMailbox PROVE Working
  <2>1. at.proc = "rxmbx" /\ Onward("links") /\ UNCHANGED plan /\ DOMAIN list' = DOMAIN list
    BY <1>10 DEF TakeRxMailbox, Took, Untroubled
  <2> QED
    BY <2>1, OnwardGoes, InitProcsAre
<1>11. ASSUME TakeLinks PROVE Working
  <2>1. at.proc = "links" /\ GoOn("mailbox", at.s) /\ UNCHANGED plan /\ DOMAIN list' = DOMAIN list
    BY <1>11 DEF TakeLinks, Untroubled
  <2> QED
    BY <2>1, <1>0, InitProcsAre, GoesTo
<1>12. ASSUME TakeMailbox PROVE Working
  <2>1. at.proc = "mailbox" /\ GoOn("sii", at.s) /\ UNCHANGED plan /\ DOMAIN list' = DOMAIN list
    BY <1>12 DEF TakeMailbox, Untroubled
  <2> QED
    BY <2>1, <1>0, InitProcsAre, GoesTo
<1> QED
  BY <1>2, <1>3, <1>4, <1>5, <1>6, <1>7, <1>8, <1>9, <1>10, <1>11, <1>12 DEF ecx_config_init

\* Discovery (ecx_config_init) fills the list once; from then on nobody changes its length.
LEMMA ConfigInitFlow ==
  ASSUME Flow, Devs, ecx_config_init, UNCHANGED <<hold, clocked, checkvars>>
  PROVE  Flow'
<1>1. CASE ecx_detect_slaves
  <2> DEFINE n == Cardinality(All)
             next == IF n > 0 /\ Fits(n) THEN "defaults" ELSE "stopped"
  <2>1. at.proc = "detect" /\ UNCHANGED plan /\ GoOn(next, 1)
    BY <1>1 DEF ecx_detect_slaves, Untroubled, Go
  <2>2. list' = IF Fits(n) THEN [s \in 1 .. n |-> EmptySlave] ELSE <<>>
    BY <1>1 DEF ecx_detect_slaves
  <2> HIDE DEF n
  <2>3. at' = [proc |-> next, s |-> 1, pc |-> at.pc] /\ at.pc > 1 /\ ~inOP
    BY <2>1 DEF GoOn, Flow, Places, Return, CheckProcs
  <2>4. at' \in Places'
    <3>1. Script' = Script
      BY <2>1 DEF Script
    <3> QED
      BY <2>3, <3>1, Sizes DEF Flow, Places, Procs, ConfigProcs, Ends
  <2>5. /\ Len(list') \in 0 .. EC_MAXSLAVE - 1 /\ DOMAIN list' = 1 .. Len(list')
        /\ next = "defaults" => Len(list') > 0 /\ Len(list') = Len(plan.kinds)
    <3>1. n \in Nat /\ n > 0 /\ n = Len(plan.kinds)
      <4>1. DOMAIN bus = 1 .. Len(plan.kinds) /\ Len(plan.kinds) \in Nat \ {0}
        BY PlanAssumption DEF Devs
      <4>2. All = Devices
        BY <2>3 DEF Devs, Whole, All, Connected
      <4> QED
        BY <4>1, <4>2, FS_Interval DEF n, Devices
    <3>2. CASE Fits(n)
      <4>1. n \in 0 .. EC_MAXSLAVE - 1
        BY <3>1, <3>2, Sizes DEF Fits
      <4>2. DOMAIN list' = 1 .. n
        BY <2>2, <3>2
      <4>3. Len(list') = n
        BY <3>1, <4>2, LenIs
      <4> QED
        BY <3>1, <4>1, <4>2, <4>3
    <3>3. CASE ~Fits(n)
      BY <2>2, <3>3, Sizes
    <3> QED
      BY <3>2, <3>3
  <2> QED
    BY <2>1, <2>3, <2>4, <2>5 DEF Flow, Counted, checkvars, CheckProcs
<1>2. CASE ~ecx_detect_slaves
  <2>1. Goes(InitProcs) /\ at.proc \in InitProcs \ {Return} /\ UNCHANGED plan
    BY <1>2, StagesGo
  <2>2. Counted /\ ~inOP /\ UNCHANGED <<inOP, slips>>
    BY <2>1, InitProcsAre DEF Flow, Counted, checkvars
  <2>3. slips' \in SUBSET (1 .. Len(list)) /\ slips' = {}
    BY <2>2 DEF Flow
  <2> QED
    BY <2>1, <2>2, <2>3, InitProcsAre, GoesOn
<1> QED
  BY <1>1, <1>2

-----------------------------------------------------------------------------
\* What discovery writes keeps the devices.
LEMMA ConfigTame ==
  ASSUME Flow, Devs, ecx_config_init
  PROVE  Tame(bus') /\ Untroubled
<1> USE StillSame
<1>W. ECT_SII_MANUF \in EepWords /\ ECT_SII_ID \in EepWords /\ ECT_SII_REV \in EepWords
      /\ ECT_SII_RXMBXADR \in EepWords /\ ECT_SII_TXMBXADR \in EepWords /\ ECT_SII_MBXPROTO \in EepWords
  BY DEF EepWords, IdWords
<1>A. {EC_STATE_INIT, EC_STATE_PRE_OP} \subseteq AlStates
  BY DEF AlStates
<1>S. ASSUME NEW word \in EepWords, NEW s PROVE Tame(StartWord(bus, s, word))
  <2>1. StartWord(bus, s, word) = [k \in Devices |-> IF k \in Reached(s) THEN EepCommand(bus[k], word) ELSE bus[k]]
    BY DEF StartWord, Wrote, Devices
  <2> QED
    BY <2>1, Commands, Keeps
<1>0. Tame(bus)
  BY DEF Tame, Devices
<1>1. CASE ecx_detect_slaves
  <2>1. bus' = [k \in Devices |-> IF k \in All THEN AlRequest(bus[k], EC_STATE_INIT, TRUE) ELSE bus[k]]
        /\ Untroubled
    BY <1>1 DEF ecx_detect_slaves, Untroubled, Calmly, Wrote, Devices
  <2> QED
    BY <2>1, <1>A, Requests, Keeps
<1>2. CASE ecx_set_slaves_to_default
  <2>1. bus' = [k \in Devices |-> IF k \in All THEN SetDefault(bus[k]) ELSE bus[k]] /\ Untroubled
    BY <1>2 DEF ecx_set_slaves_to_default, Untroubled, Calmly, Wrote, Devices
  <2> QED
    BY <2>1, Defaults, Keeps
<1>3. ASSUME NEW s \in Slaves, Address(s) PROVE Tame(bus') /\ Untroubled
  <2> DEFINE b1 == [k \in Devices |-> IF k \in AP(s) THEN [bus[k] EXCEPT !.adr = s] ELSE bus[k]]
             who == {k \in Connected : b1[k].adr = s}
  <2>1. bus' = [k \in Devices |-> IF k \in who THEN EepCommand(b1[k], ECT_SII_MANUF) ELSE b1[k]]
        /\ Untroubled
    BY <1>3 DEF Address, Untroubled, Calmly, Wrote, Devices
  <2>2. s \in 0 .. EC_MAXSLAVE
    BY Sizes DEF Flow, Slaves
  <2>3. ASSUME NEW k \in Devices PROVE Still(b1[k], bus[k])
    BY <2>2 DEF Still, IsDevice, Fields
  <2> HIDE DEF who, b1
  <2>4. ASSUME NEW k \in Devices PROVE Still(bus'[k], bus[k])
    <3>1. IsDevice(b1[k]) /\ bus'[k] \in {EepCommand(b1[k], ECT_SII_MANUF), b1[k]}
      BY <2>1, <2>3 DEF Still
    <3>2. Still(EepCommand(b1[k], ECT_SII_MANUF), b1[k])
      BY <3>1, <1>W, Commands
    <3> QED
      BY <3>1, <3>2, <2>3 DEF Still
  <2> QED
    BY <2>1, <2>4 DEF Tame
<1>4. ASSUME NEW s \in Slaves, CopySii(s) \/ ReadSii(s) PROVE Tame(bus') /\ Untroubled
  BY <1>4, <1>0 DEF CopySii, ReadSii, Untroubled
<1>5. ASSUME NEW s \in Slaves, Program(s) PROVE Tame(bus') /\ Untroubled
  <2> DEFINE me == list[s]
             sm == IF me.mbx_l = 0 THEN me.SM
                   ELSE [me.SM EXCEPT ![0] = IF @ = 0 THEN 4096 ELSE @, ![1] = IF @ = 0 THEN 4224 ELSE @]
             b1 == IF me.mbx_l = 0 THEN bus
                   ELSE Calmly(bus, Reached(s), LAMBDA d : [d EXCEPT !.sm = [@ EXCEPT ![0] = sm[0], ![1] = sm[1]]])
             b2 == ToPdi(b1, s, "arrives")
  <2>1. bus' = Calmly(b2, Reached(s), LAMBDA d : AlRequest(d, EC_STATE_PRE_OP, TRUE)) /\ Untroubled
    BY <1>5 DEF Program, Untroubled
  <2> HIDE DEF sm
  <2>2. DOMAIN b1 = Devices /\ \A k \in Devices : Still(b1[k], bus[k])
    BY DEF Calmly, Wrote, Devices, Still, IsDevice, Fields
  <2> HIDE DEF b1
  <2>3. DOMAIN b2 = Devices /\ \A k \in Devices : Still(b2[k], bus[k])
    BY <2>2 DEF ToPdi, Wrote, Devices, Still, IsDevice, Fields
  <2> HIDE DEF b2
  <2>4. DOMAIN bus' = Devices
        /\ \A k \in Devices : bus'[k] \in {b2[k], AlRequest(b2[k], EC_STATE_PRE_OP, TRUE)}
    BY <2>1, <2>3 DEF Calmly, Wrote
  <2>5. ASSUME NEW k \in Devices PROVE Still(bus'[k], bus[k])
    <3>1. IsDevice(b2[k]) /\ EC_STATE_PRE_OP \in AlStates
      BY <2>3, <1>A DEF Still
    <3>2. Still(AlRequest(b2[k], EC_STATE_PRE_OP, TRUE), b2[k])
      BY <3>1, Requests
    <3> QED
      BY <2>4, <2>3, <3>2 DEF Still
  <2> QED
    BY <2>1, <2>4, <2>5 DEF Tame
<1>6. CASE TakeManuf \/ TakeId \/ TakeRev \/ TakeRxMailbox
  <2>1. Untroubled /\ \E word \in EepWords : bus' \in {bus, StartWord(bus, at.s, word)}
    BY <1>6, <1>W DEF TakeManuf, TakeId, TakeRev, TakeRxMailbox, Took, Untroubled
  <2> QED
    BY <2>1, <1>0, <1>S
<1>7. CASE TakeLinks
  <2>1. Untroubled /\ bus' \in {bus, StartWord(bus, at.s, ECT_SII_MBXPROTO)}
    BY <1>7 DEF TakeLinks, Untroubled
  <2> QED
    BY <2>1, <1>0, <1>S, <1>W
<1>8. CASE TakeMailbox
  BY <1>8, <1>0 DEF TakeMailbox, Untroubled
<1> QED
  BY <1>1, <1>2, <1>3, <1>4, <1>5, <1>6, <1>7, <1>8 DEF ecx_config_init

\* So does what the survey writes; no step of the two is troubled.
LEMMA MapTame ==
  ASSUME Flow, Devs, ecx_config_map
  PROVE  Tame(bus') /\ Untroubled
<1> USE StillSame
<1>0. Tame(bus)
  BY DEF Tame, Devices
<1> SUFFICES ASSUME NEW s \in Slaves, MapCoe(s) \/ MapSii(s) \/ MapFmmus(s) \/ ConfigDc(s)
             PROVE  Tame(bus') /\ Untroubled
  BY DEF ecx_config_map
<1>1. CASE MapCoe(s) \/ ConfigDc(s)
  BY <1>1, <1>0 DEF MapCoe, ConfigDc
<1>2. CASE MapSii(s)
  <2> DEFINE me   == Copied(s)
             v    == Bytes(s)
             done == IF NeedsMapping(me) THEN FromPdos(me, v) ELSE me
  <2>1. bus' = Calmly(bus, Reached(s),
                      LAMBDA d : [d EXCEPT !.sm = [n \in 0 .. 3 |-> IF Programmed(done)[n] # 0
                                                                    THEN Programmed(done)[n] ELSE @[n]]])
        /\ Untroubled
    BY <1>2 DEF MapSii
  <2> HIDE DEF done
  <2>2. DOMAIN bus' = Devices /\ \A k \in Devices : Still(bus'[k], bus[k])
    BY <2>1 DEF Calmly, Wrote, Devices, Still, IsDevice, Fields
  <2> QED
    BY <2>1, <2>2 DEF Tame
<1>3. CASE MapFmmus(s)
  <2> DEFINE b1 == Calmly(bus, Reached(s), LAMBDA d : [d EXCEPT !.fmmu = Fmmus(list[s])])
             b2 == ToPdi(b1, s, "arrives")
  <2>1. bus' = Calmly(b2, Reached(s), LAMBDA d : IF Manual THEN d ELSE AlRequest(d, EC_STATE_SAFE_OP, FALSE))
        /\ Untroubled
    BY <1>3 DEF MapFmmus
  <2>2. DOMAIN b1 = Devices /\ \A k \in Devices : Still(b1[k], bus[k])
    BY DEF Calmly, Wrote, Devices, Still, IsDevice, Fields
  <2> HIDE DEF b1
  <2>3. DOMAIN b2 = Devices /\ \A k \in Devices : Still(b2[k], bus[k])
    BY <2>2 DEF ToPdi, Wrote, Devices, Still, IsDevice, Fields
  <2> HIDE DEF b2
  <2>4. DOMAIN bus' = Devices
        /\ \A k \in Devices : bus'[k] \in {b2[k], AlRequest(b2[k], EC_STATE_SAFE_OP, FALSE)}
    BY <2>1, <2>3 DEF Calmly, Wrote
  <2>5. ASSUME NEW k \in Devices PROVE Still(bus'[k], bus[k])
    <3>1. IsDevice(b2[k]) /\ EC_STATE_SAFE_OP \in AlStates
      BY <2>3 DEF Still, AlStates
    <3>2. Still(AlRequest(b2[k], EC_STATE_SAFE_OP, FALSE), b2[k])
      BY <3>1, Requests
    <3> QED
      BY <2>4, <2>3, <3>2 DEF Still
  <2> QED
    BY <2>1, <2>4, <2>5 DEF Tame
<1> QED
  BY <1>1, <1>2, <1>3

\* And what the program asks of all of them.
LEMMA TestTame ==
  ASSUME Flow, Devs, erob_test
  PROVE  Tame(bus') /\ Untroubled
<1> USE StillSame
<1>0. Tame(bus)
  BY DEF Tame, Devices
<1>B. ASSUME NEW state \in AlStates PROVE Tame(Broadcast(state))
  <2>1. Broadcast(state) = [k \in Devices |-> IF k \in All THEN AlRequest(bus[k], state, FALSE) ELSE bus[k]]
    BY DEF Broadcast, Calmly, Wrote, Devices
  <2>2. ASSUME NEW k \in Devices PROVE Still(AlRequest(bus[k], state, FALSE), bus[k])
    BY Requests
  <2> QED
    BY <2>1, <2>2, Keeps
<1>A. {EC_STATE_PRE_OP, EC_STATE_SAFE_OP, EC_STATE_OPERATIONAL} \subseteq AlStates
  BY DEF AlStates
<1>1. CASE CallConfigInit \/ CallConfigMap \/ CallConfigDc \/ SetManual \/ InPreOp \/ Watch \/ Control
  BY <1>1, <1>0 DEF CallConfigInit, CallConfigMap, CallConfigDc, SetManual, InPreOp, Watch, Control, Kept
<1>2. CASE PreOpEach
  <2>1. bus' \in {bus, Broadcast(EC_STATE_PRE_OP)} /\ Untroubled
    BY <1>2 DEF PreOpEach, Kept
  <2> QED
    BY <2>1, <1>0, <1>A, <1>B
<1>3. CASE PreOpAll
  BY <1>3, <1>A, <1>B DEF PreOpAll, Kept
<1>4. CASE MapPdos
  <2>1. bus' = [k \in Devices |-> IF Talks(k) THEN [bus[k] EXCEPT !.map = Programs[plan.program].maps] ELSE bus[k]]
        /\ Untroubled
    BY <1>4 DEF MapPdos, Kept
  <2>2. ASSUME NEW k \in Devices, NEW m PROVE Still([bus[k] EXCEPT !.map = m], bus[k])
    BY DEF Still, IsDevice, Fields
  <2> QED
    BY <2>1, <2>2 DEF Tame
<1>5. CASE Assign
  <2>1. bus' = [k \in Devices |-> IF Talks(k) THEN [bus[k] EXCEPT !.map = Kind(k).fixed] ELSE bus[k]]
        /\ Untroubled
    BY <1>5 DEF Assign, Kept
  <2>2. ASSUME NEW k \in Devices, NEW m PROVE Still([bus[k] EXCEPT !.map = m], bus[k])
    BY DEF Still, IsDevice, Fields
  <2> QED
    BY <2>1, <2>2 DEF Tame
<1>6. CASE Sync0
  <2>1. \E S : bus' = [k \in Devices |-> IF k \in S THEN [bus[k] EXCEPT !.sync = IF clocked THEN "common" ELSE "early"]
                                         ELSE bus[k]]
    <3>1. bus' = [k \in Devices |-> IF k \in {j \in Slaves : list[j].hasdc}
                                    THEN [bus[k] EXCEPT !.sync = IF clocked THEN "common" ELSE "early"]
                                    ELSE bus[k]]
      BY <1>6 DEF Sync0
    <3> QED
      BY <3>1
  <2>2. ASSUME NEW k \in Devices, NEW m \in {"common", "early"} PROVE Still([bus[k] EXCEPT !.sync = m], bus[k])
    BY DEF Still, IsDevice, Fields
  <2>3. Untroubled
    BY <1>6 DEF Sync0, Kept
  <2> QED
    BY <2>1, <2>2, <2>3 DEF Tame
<1>7. CASE RequestSafeOp \/ RequestOp
  <2>1. bus' \in {Broadcast(EC_STATE_SAFE_OP), Broadcast(EC_STATE_OPERATIONAL)} /\ Untroubled
    BY <1>7 DEF RequestSafeOp, RequestOp, Request, Kept
  <2> QED
    BY <2>1, <1>A, <1>B
<1> QED
  BY <1>1, <1>2, <1>3, <1>4, <1>5, <1>6, <1>7 DEF erob_test

-----------------------------------------------------------------------------
\* The bounds of a plan on lost frames and power losses.
Budget == trouble \in 0 .. plan.trouble /\ cuts \in 0 .. plan.cuts

Spends ==
  /\ UNCHANGED <<plan, cuts>>
  /\ trouble' = trouble \/ (trouble < plan.trouble /\ trouble' = trouble + 1)

LEMMA CostsSpends ==
  ASSUME Budget, UNCHANGED <<plan, cuts>>, \/ UNCHANGED trouble \/ \E fate : Costs(fate)
  PROVE  Spends
  BY DEF Budget, Spends, Costs

LEMMA SpendsBudget ==
  ASSUME Budget, Devs, Spends
  PROVE  Budget'
<1>1. plan.trouble \in Nat
  BY PlanAssumption DEF Devs
<1> QED
  BY <1>1 DEF Budget, Spends

\* What ecatcheck writes keeps the devices.
LEMMA CheckTame ==
  ASSUME Flow, Devs, Budget, ecatcheck
  PROVE  Tame(bus') /\ Spends
<1> USE StillSame
<1>0. Tame(bus)
  BY DEF Tame, Devices
<1>A. AlStates = {EC_STATE_INIT, EC_STATE_PRE_OP, EC_STATE_SAFE_OP, EC_STATE_OPERATIONAL}
  BY DEF AlStates
<1>R. ASSUME NEW s, NEW state \in AlStates, NEW ack, NEW fate PROVE Tame(Requested(s, state, ack, fate))
  <2>1. Requested(s, state, ack, fate) =
          [k \in Devices |-> IF k \in (IF fate = "lost" THEN {} ELSE Reached(s)) THEN AlRequest(bus[k], state, ack)
                             ELSE bus[k]]
        \/ Requested(s, state, ack, fate) = bus
    BY DEF Requested, Wrote, Devices
  <2>2. ASSUME NEW k \in Devices PROVE Still(AlRequest(bus[k], state, ack), bus[k])
    BY Requests
  <2> QED
    BY <2>1, <2>2, <1>0 DEF Tame
<1>1. CASE StartCheck \/ LookOperational \/ LookElse \/ LookLost
  BY <1>1, <1>0, CostsSpends DEF StartCheck, LookOperational, LookElse, LookLost, Settled
<1>2. CASE ecx_readstate
  BY <1>2, <1>0, CostsSpends DEF ecx_readstate, ReadAll, ReadEach, Settled
<1>3. ASSUME NEW fate, LookError(fate) \/ LookSafeOp(fate) \/ Recheck(fate) PROVE Tame(bus') /\ Spends
  <2>1. /\ bus' \in {bus, Requested(at.s, EC_STATE_SAFE_OP, AckBit, fate),
                     Requested(at.s, EC_STATE_OPERATIONAL, FALSE, fate)}
        /\ Costs(fate) /\ UNCHANGED <<plan, cuts>>
    BY <1>3 DEF LookError, LookSafeOp, Recheck, Settled
  <2> QED
    BY <2>1, <1>0, <1>A, <1>R, CostsSpends
<1>4. CASE ecx_reconfig_slave
  <2>1. ASSUME NEW fate, ReconfigInit(fate) PROVE Tame(bus') /\ Spends
    <3>1. bus' = Requested(at.s, EC_STATE_INIT, FALSE, fate) /\ Costs(fate) /\ UNCHANGED <<plan, cuts>>
      BY <2>1 DEF ReconfigInit, Write, Requested, Settled
    <3> QED
      BY <3>1, <1>A, <1>R, CostsSpends
  <2>2. ASSUME NEW fate, ReconfigPdi(fate) PROVE Tame(bus') /\ Spends
    <3>1. bus' = ToPdi(bus, at.s, fate) /\ Costs(fate) /\ UNCHANGED <<plan, cuts>>
      BY <2>2 DEF ReconfigPdi, Settled
    <3>2. DOMAIN bus' = Devices /\ \A k \in Devices : Still(bus'[k], bus[k])
      BY <3>1 DEF ToPdi, Wrote, Devices, Still, IsDevice, Fields
    <3> QED
      BY <3>1, <3>2, CostsSpends DEF Tame
  <2>3. ASSUME NEW fate, ReconfigPreOp(fate) \/ ReconfigSafeOp(fate) PROVE Tame(bus') /\ Spends
    <3>1. /\ bus' \in {Requested(at.s, EC_STATE_PRE_OP, FALSE, fate), Requested(at.s, EC_STATE_SAFE_OP, FALSE, fate)}
          /\ Costs(fate) /\ UNCHANGED <<plan, cuts>>
      BY <2>3 DEF ReconfigPreOp, ReconfigSafeOp, Settled
    <3> QED
      BY <3>1, <1>A, <1>R, CostsSpends
  <2>4. ASSUME NEW fate, ReconfigFmmu(fate) PROVE Tame(bus') /\ Spends
    <3>1. bus' = Wrote(bus, Reached(at.s), LAMBDA d : [d EXCEPT !.fmmu = list[at.s].FMMUunused], fate)
          /\ Costs(fate) /\ UNCHANGED <<plan, cuts>>
      BY <2>4 DEF ReconfigFmmu, FmmuWritten, Settled
    <3>2. DOMAIN bus' = Devices /\ \A k \in Devices : Still(bus'[k], bus[k])
      BY <3>1 DEF Wrote, Devices, Still, IsDevice, Fields
    <3> QED
      BY <3>1, <3>2, CostsSpends DEF Tame
  <2>5. ASSUME NEW fate, NEW n, ReconfigSm(fate, n) PROVE Tame(bus') /\ Spends
    <3> DEFINE sm(d) == [m \in 0 .. 3 |-> IF m \in {i \in 0 .. 3 : list[at.s].SM[i] # 0 /\ (fate = "lost" => i # n)}
                                          THEN list[at.s].SM[m] ELSE d.sm[m]]
    <3>1. bus' = Wrote(bus, Reached(at.s), LAMBDA d : [d EXCEPT !.sm = sm(d)], "arrives")
          /\ Costs(fate) /\ UNCHANGED <<plan, cuts>>
      BY <2>5 DEF ReconfigSm, Settled
    <3> HIDE DEF sm
    <3>2. DOMAIN bus' = Devices /\ \A k \in Devices : Still(bus'[k], bus[k])
      BY <3>1 DEF Wrote, Devices, Still, IsDevice, Fields
    <3> QED
      BY <3>1, <3>2, CostsSpends DEF Tame
  <2> QED
    BY <1>4, <2>1, <2>2, <2>3, <2>4, <2>5 DEF ecx_reconfig_slave
<1>5. CASE ecx_recover_slave
  <2>1. ASSUME NEW fate, Probe(fate) \/ CheckAlias(fate) PROVE Tame(bus') /\ Spends
    BY <2>1, <1>0, CostsSpends DEF Probe, CheckAlias, Settled
  <2>A. ASSUME NEW who, NEW a \in 0 .. EC_MAXSLAVE \cup {Temp}, NEW fate, NEW b,
               b = Wrote(bus, who, LAMBDA d : [d EXCEPT !.adr = a], fate)
        PROVE  DOMAIN b = Devices /\ \A k \in Devices : Still(b[k], bus[k])
    BY <2>A DEF Wrote, Devices, Still, IsDevice, Fields
  <2>2. ASSUME NEW fate, ClearTemp(fate) PROVE Tame(bus') /\ Spends
    <3>1. bus' = Wrote(bus, FP(Temp), LAMBDA d : [d EXCEPT !.adr = 0], fate) /\ Costs(fate) /\ UNCHANGED <<plan, cuts>>
      BY <2>2 DEF ClearTemp, Write, Settled
    <3>2. 0 \in 0 .. EC_MAXSLAVE \cup {Temp}
      BY Sizes
    <3> QED
      BY <3>1, <3>2, <2>A, CostsSpends DEF Tame
  <2>3. ASSUME NEW fate, GiveTemp(fate) PROVE Tame(bus') /\ Spends
    <3> DEFINE b1 == Wrote(bus, AP(at.s), LAMBDA d : [d EXCEPT !.adr = Temp], fate)
    <3>1. DOMAIN b1 = Devices /\ \A k \in Devices : Still(b1[k], bus[k])
      BY <2>A
    <3>2. /\ \/ bus' = b1
             \/ bus' = [k \in Devices |-> IF b1[k].adr = Temp /\ list[at.s].eep_pdi
                                          THEN [b1[k] EXCEPT !.ctl = "master"] ELSE b1[k]]
          /\ Costs(fate) /\ UNCHANGED <<plan, cuts>>
      BY <2>3 DEF GiveTemp, Settled
    <3> HIDE DEF b1
    <3>3. DOMAIN bus' = Devices /\ \A k \in Devices : Still(bus'[k], bus[k])
      BY <3>1, <3>2 DEF Still, IsDevice, Fields
    <3> QED
      BY <3>2, <3>3, CostsSpends DEF Tame
  <2>4. ASSUME NEW fate, LastAddress(fate) PROVE Tame(bus') /\ Spends
    <3> DEFINE new == IF at.proc = "restore" THEN at.s ELSE 0
    <3>1. bus' = Wrote(bus, FP(Temp), LAMBDA d : [d EXCEPT !.adr = new], fate) /\ Costs(fate) /\ UNCHANGED <<plan, cuts>>
      BY <2>4 DEF LastAddress, Settled
    <3>2. new \in 0 .. EC_MAXSLAVE \cup {Temp}
      BY Sizes DEF Flow, Places
    <3> HIDE DEF new
    <3> QED
      BY <3>1, <3>2, <2>A, CostsSpends DEF Tame
  <2>5. ASSUME NEW how, CheckIdentity(how) PROVE Tame(bus') /\ Spends
    <3>1. \E word \in EepWords, fate \in {"lost", "arrives"} :
             /\ bus' = Wrote(bus, FP(Temp), LAMBDA d : EepCommand(d, word), fate)
             /\ (\E f : Costs(f)) /\ UNCHANGED <<plan, cuts>>
      <4>1. ASSUME NEW proc, NEW word \in EepWords, NEW entry, NEW next, CheckWord(proc, word, entry, next, how)
            PROVE  \E fate \in {"lost", "arrives"} :
                     /\ bus' = Wrote(bus, FP(Temp), LAMBDA d : EepCommand(d, word), fate)
                     /\ (\E f : Costs(f)) /\ UNCHANGED <<plan, cuts>>
        BY <4>1 DEF CheckWord, Settled
      <4>2. ECT_SII_ID \in EepWords /\ ECT_SII_MANUF \in EepWords /\ ECT_SII_REV \in EepWords
        BY DEF EepWords, IdWords
      <4> QED
        BY <2>5, <4>1, <4>2 DEF CheckIdentity
    <3>2. PICK word \in EepWords, fate \in {"lost", "arrives"} :
             /\ bus' = Wrote(bus, FP(Temp), LAMBDA d : EepCommand(d, word), fate)
             /\ (\E f : Costs(f)) /\ UNCHANGED <<plan, cuts>>
      BY <3>1
    <3>3. ASSUME NEW k \in Devices PROVE Still(EepCommand(bus[k], word), bus[k])
      BY Commands
    <3>4. DOMAIN bus' = Devices /\ \A k \in Devices : bus'[k] \in {bus[k], EepCommand(bus[k], word)}
      BY <3>2 DEF Wrote, Devices
    <3>5. Tame(bus')
      BY <3>3, <3>4 DEF Tame
    <3> QED
      BY <3>2, <3>5, CostsSpends
  <2> QED
    BY <1>5, <2>1, <2>2, <2>3, <2>4, <2>5 DEF ecx_recover_slave
<1> QED
  BY <1>1, <1>2, <1>3, <1>4, <1>5 DEF ecatcheck

\* Neither do the loops and the tool touch the devices.
LEMMA OthersTame ==
  ASSUME Flow, Devs, Budget, \/ \E fate : Cycle(fate)
                             \/ ecatthread \/ eepromtool \/ RomDone \/ RomNack
  PROVE  (UNCHANGED bus /\ Spends /\ UNCHANGED <<at, list, slips, inOP>>) \/ StartTool
<1>1. ASSUME NEW fate, Cycle(fate) PROVE UNCHANGED bus /\ Spends /\ UNCHANGED <<at, list, slips, inOP>>
  BY <1>1, CostsSpends DEF Cycle
<1>2. CASE ecatthread
  <2>1. ASSUME NEW fate, Pass(fate) PROVE UNCHANGED bus /\ Spends /\ UNCHANGED <<at, list, slips, inOP>>
    BY <2>1, CostsSpends DEF Pass, checkvars
  <2>2. CASE Command
    BY <2>2, CostsSpends DEF Command, vars, mapvars, netvars, checkvars
  <2>3. ASSUME NEW k, DriveFault(k) PROVE UNCHANGED bus /\ Spends /\ UNCHANGED <<at, list, slips, inOP>>
    BY <2>3 DEF DriveFault, checkvars, Spends
  <2> QED
    BY <1>2, <2>1, <2>2, <2>3 DEF ecatthread
<1>3. CASE eepromtool
  <2>1. CASE WaitNotBusy
    BY <2>1, CostsSpends DEF WaitNotBusy, Elsewhere, checkvars
  <2>2. ASSUME NEW fate, ForceToMaster(fate) \/ ClearError(fate) \/ SendData(fate) \/ SendCommand(fate) \/ Fetch(fate)
        PROVE  UNCHANGED bus /\ Spends /\ UNCHANGED <<at, list, slips, inOP>>
    BY <2>2, CostsSpends DEF ForceToMaster, ClearError, SendData, SendCommand, Fetch, Elsewhere, checkvars
  <2> QED
    BY <1>3, <2>1, <2>2 DEF eepromtool
<1>4. CASE RomDone \/ RomNack
  BY <1>4, CostsSpends DEF RomDone, RomNack, Elsewhere, checkvars
<1> QED
  BY <1>1, <1>2, <1>3, <1>4

\* The environment acts once process data is exchanged and while there are power losses
\* left, or on a device that has lost its power.
LEMMA EnvironmentDevs ==
  ASSUME Flow, Devs, Budget, inOP, Environment, UnseenBy
  PROVE  Devs' /\ Budget'
<1>0. UNCHANGED <<plan, inOP>>
  BY DEF Environment, UnseenBy, checkvars, PowerOff, PowerOn, Watchdog
<1>D. ASSUME NEW kind \in DOMAIN Kinds
      PROVE  IsDevice(Started(kind)) /\ IsDevice(Dark(kind)) /\ Started(kind).kind = kind /\ Dark(kind).kind = kind
  <2>1. IsDevice(Started(kind)) /\ Started(kind).kind = kind
    BY Sizes DEF IsDevice, Started, Fields, AlStates
  <2> QED
    BY <2>1 DEF IsDevice, Dark, Fields
<1>P. /\ plan.spare \subseteq DOMAIN Kinds /\ plan.cuts \in Nat /\ plan.trouble \in Nat
      /\ \A k \in Devices : plan.kinds[k] \in DOMAIN Kinds
  BY PlanAssumption DEF Devs, Devices
<1>1. ASSUME NEW k \in Devices, PowerOff(k) PROVE Devs' /\ Budget'
  <2>1. bus' = [bus EXCEPT ![k] = Dark(bus[k].kind)] /\ cuts < plan.cuts /\ cuts' = cuts + 1 /\ UNCHANGED trouble
    BY <1>1 DEF PowerOff
  <2>2. ~Whole' /\ Budget'
    BY <2>1, <1>0, <1>P DEF Whole, Budget
  <2>3. ASSUME NEW j \in Devices PROVE IsDevice(bus'[j]) /\ bus'[j].kind \in {plan.kinds[j]} \cup plan.spare
    BY <2>1, <1>P, <1>D DEF Devs
  <2> QED
    BY <1>0, <2>1, <2>2, <2>3 DEF Devs, Devices, IsDevice
<1>2. ASSUME NEW k \in Devices, NEW kind \in {plan.kinds[k]} \cup plan.spare, PowerOn(k, kind) PROVE Devs' /\ Budget'
  <2>1. bus' = [bus EXCEPT ![k] = Started(kind)] /\ ~bus[k].power /\ UNCHANGED <<trouble, cuts>>
    BY <1>2 DEF PowerOn
  <2>2. ~Whole /\ ~Whole' /\ Budget'
    BY <2>1, <1>0, <1>P DEF Whole, Budget, Devs
  <2>3. ASSUME NEW j \in Devices PROVE IsDevice(bus'[j]) /\ bus'[j].kind \in {plan.kinds[j]} \cup plan.spare
    BY <2>1, <1>P, <1>D DEF Devs
  <2> QED
    BY <1>0, <2>1, <2>2, <2>3 DEF Devs, Devices, IsDevice
<1>3. ASSUME NEW k \in Devices, Watchdog(k) PROVE Devs' /\ Budget'
  <2>1. bus' = [bus EXCEPT ![k] = [[bus[k] EXCEPT !.al = EC_STATE_SAFE_OP] EXCEPT !.err = TRUE]]
        /\ UNCHANGED <<trouble, cuts>>
    BY <1>3 DEF Watchdog
  <2>2. Still([[bus[k] EXCEPT !.al = EC_STATE_SAFE_OP] EXCEPT !.err = TRUE], bus[k])
    BY StillSame DEF Still, IsDevice, Fields, AlStates
  <2>3. Tame(bus')
    BY <2>1, <2>2, StillSame DEF Tame, Devices
  <2>4. Budget'
    BY <2>1, <1>0 DEF Budget
  <2> QED
    BY <2>3, <2>4, <1>0, TameKeeps DEF Flow
<1> QED
  BY <1>1, <1>2, <1>3 DEF Environment

LEMMA DevsKept ==
  ASSUME Flow, Devs, Budget, Next
  PROVE  Devs' /\ Budget'
<1>U. ASSUME Untroubled PROVE Spends
  BY <1>U DEF Untroubled, Spends
<1>T. Tame(bus)
  BY StillSame DEF Tame, Devices
<1>S. ASSUME Tame(bus'), Spends, inOP' \in BOOLEAN, inOP => inOP' PROVE Devs' /\ Budget'
  BY <1>S, TameKeeps, SpendsBudget DEF Spends, Flow
<1>0. inOP \in BOOLEAN
  BY DEF Flow
<1>1. CASE ecx_config_init /\ UNCHANGED <<hold, clocked, checkvars>>
  <2>1. UNCHANGED inOP
    BY <1>1 DEF checkvars
  <2> QED
    BY <1>1, <2>1, <1>0, <1>S, <1>U, ConfigTame
<1>2. CASE ecx_config_map /\ UNCHANGED checkvars
  <2>1. UNCHANGED inOP
    BY <1>2 DEF checkvars
  <2> QED
    BY <1>2, <2>1, <1>0, <1>S, <1>U, MapTame
<1>3. CASE erob_test
  <2>1. UNCHANGED inOP \/ inOP' = TRUE
    BY <1>3 DEF erob_test, CallConfigInit, CallConfigMap, CallConfigDc, SetManual, InPreOp, Watch, Control,
                PreOpEach, PreOpAll, MapPdos, Assign, Sync0, RequestSafeOp, RequestOp, Request
  <2>2. Tame(bus') /\ Spends
    BY <1>3, <1>U, TestTame
  <2>3. inOP' \in BOOLEAN /\ (inOP => inOP')
    <3>1. CASE inOP' = inOP
      BY <3>1, <1>0
    <3>2. CASE inOP' = TRUE
      BY <3>2
    <3> QED
      BY <2>1, <3>1, <3>2
  <2> QED
    BY <2>2, <2>3, <1>S
<1>4. CASE ecatcheck
  <2>1. UNCHANGED inOP
    BY <1>4 DEF ecatcheck, StartCheck, ecx_readstate, ReadAll, ReadEach, LookOperational, LookElse, LookLost, LookError,
                LookSafeOp, Recheck, ecx_reconfig_slave, ReconfigInit, ReconfigPdi, ReconfigSm, ReconfigPreOp,
                ReconfigSafeOp, ReconfigFmmu, ecx_recover_slave, Probe, ClearTemp, CheckAlias, GiveTemp, LastAddress,
                CheckIdentity, CheckWord, Settled
  <2> QED
    BY <1>4, <2>1, <1>0, <1>S, CheckTame
<1>5. CASE inOP /\ Environment /\ UnseenBy
  BY <1>5, EnvironmentDevs
<1>6. CASE (\E fate : Cycle(fate)) \/ ecatthread \/ eepromtool \/ RomDone \/ RomNack
  <2>1. CASE UNCHANGED bus /\ Spends /\ UNCHANGED <<at, list, slips, inOP>>
    BY <2>1, <1>T, <1>0, <1>S
  <2>2. CASE StartTool
    <3>1. UNCHANGED <<bus, inOP>> /\ Spends
      BY <2>2 DEF StartTool, Spends, checkvars
    <3> QED
      BY <3>1, <1>T, <1>0, <1>S
  <2> QED
    BY <1>6, <2>1, <2>2, OthersTame
<1> QED
  BY <1>1, <1>2, <1>3, <1>4, <1>5, <1>6 DEF Next

-----------------------------------------------------------------------------
\* The survey goes from slave to slave.
LEMMA SurveyGoes ==
  ASSUME Flow, ecx_config_map
  PROVE  Goes(MapProcs \cup {Return}) /\ at.proc \in MapProcs /\ UNCHANGED plan
<1> DEFINE Found == MapProcs \cup {Return}
<1>1. PICK s \in Slaves : MapCoe(s) \/ MapSii(s) \/ MapFmmus(s) \/ ConfigDc(s)
  BY DEF ecx_config_map
<1>2. UNCHANGED plan
  BY <1>1 DEF MapCoe, MapSii, MapFmmus, ConfigDc, Untroubled
<1>3. DOMAIN list' = DOMAIN list
  <2>1. CASE MapCoe(s) \/ MapSii(s)
    BY <2>1 DEF MapCoe, MapSii
  <2>2. CASE MapFmmus(s)
    BY <2>2 DEF MapFmmus, ecx_eeprom2pdi
  <2>3. CASE ConfigDc(s)
    <3>1. ASSUME NEW times PROVE DOMAIN DcSlave(list, s, times) = DOMAIN list
      BY DEF DcSlave
    <3>2. DOMAIN PlainSlave(list, s, hold).list = DOMAIN list
      BY DEF PlainSlave
    <3> QED
      BY <2>3, <3>1, <3>2 DEF ConfigDc
  <2> QED
    BY <1>1, <2>1, <2>2, <2>3
<1>4. at.proc \in MapProcs /\ \E next \in {"map", "fmmu", Return} : Onward(next)
  BY <1>1 DEF MapCoe, MapSii, MapFmmus, ConfigDc, MapProcs
<1>5. at.proc \in Found /\ {"map", "fmmu", Return} \subseteq Found
  BY <1>4 DEF MapProcs
<1> HIDE DEF Found
<1>6. Goes(Found)
  BY <1>3, <1>4, <1>5, OnwardGoes
<1> QED
  BY <1>2, <1>4, <1>6 DEF Found

LEMMA MapFlow ==
  ASSUME Flow, ecx_config_map, UNCHANGED checkvars
  PROVE  Flow'
<1>1. /\ MapProcs \cup {Return} \in SUBSET Procs /\ (MapProcs \cup {Return}) \cap CheckProcs = {}
      /\ \A proc \in MapProcs : proc \notin {"detect", "stopped", "tool", Return}
  BY DEF MapProcs, CheckProcs, Procs, Return
<1>2. Goes(MapProcs \cup {Return}) /\ at.proc \in MapProcs /\ UNCHANGED plan
  BY SurveyGoes
<1>3. Counted /\ ~inOP /\ UNCHANGED <<inOP, slips>>
  BY <1>1, <1>2 DEF Flow, Counted, checkvars
<1>4. slips' \in SUBSET (1 .. Len(list)) /\ slips' = {}
  BY <1>3 DEF Flow
<1> QED
  BY <1>1, <1>2, <1>3, <1>4, GoesOn

\* A call of the program: the script goes on, at the beginning of a procedure.
LEMMA CallFlow ==
  ASSUME Flow, NEW proc \in Procs, at.proc = Return, at.pc \in 1 .. Len(Script), GoTo(proc),
         proc \notin {"detect", "stopped", "tool"} => at.pc > 1,
         DOMAIN list' = DOMAIN list, UNCHANGED <<plan, slips>>,
         inOP' \in BOOLEAN, inOP' <=> proc \in CheckProcs
  PROVE  Flow'
<1>1. at' = [proc |-> proc, s |-> 1, pc |-> at.pc + 1]
  BY DEF GoTo
<1>2. ~inOP /\ slips = {}
  BY DEF Flow, Return, CheckProcs
<1>3. Script' = Script
  BY DEF Script
<1>4. at' \in Places' /\ at'.pc > 1
  BY <1>1, <1>3, Sizes DEF Flow, Places
<1>5. Len(list') = Len(list) /\ DOMAIN list' = 1 .. Len(list)
  BY LenIs, Sizes DEF Flow
<1>6. Counted' => Len(list') > 0 /\ Len(list') = Len(plan'.kinds)
  <2>1. Counted' => proc \notin {"detect", "stopped", "tool"}
    BY <1>1 DEF Counted
  <2>2. at.pc > 1 => Counted
    BY DEF Counted, Return
  <2> QED
    BY <2>1, <2>2, <1>5 DEF Flow
<1>7. at'.proc = proc /\ at'.s = 1
  BY <1>1
<1>8. slips' = {}
  BY <1>2
<1>9. Len(list') \in 0 .. EC_MAXSLAVE - 1 /\ DOMAIN list' = 1 .. Len(list')
  BY <1>5 DEF Flow
<1>10. inOP' \in BOOLEAN /\ (inOP' <=> at'.proc \in CheckProcs)
  BY <1>7
<1> QED
  BY <1>4, <1>6, <1>7, <1>8, <1>9, <1>10 DEF Flow

LEMMA StopFlow ==
  ASSUME Flow, at.proc = Return, at.pc > 1, Stop, DOMAIN list' = DOMAIN list, UNCHANGED <<plan, slips, inOP>>
  PROVE  Flow'
<1>1. at' = [proc |-> "stopped", s |-> 1, pc |-> at.pc]
  BY DEF Stop, Go, GoOn, Flow, Places
<1>2. ~inOP /\ slips = {}
  BY DEF Flow, Return, CheckProcs
<1>3. Script' = Script
  BY DEF Script
<1>4. at' \in Places'
  BY <1>1, <1>3, Sizes DEF Flow, Places, Procs, Ends
<1>5. Len(list') = Len(list) /\ DOMAIN list' = 1 .. Len(list)
  BY LenIs, Sizes DEF Flow
<1>6. at'.proc = "stopped" /\ at'.pc > 1 /\ at'.s = 1 /\ at'.proc \notin CheckProcs
  BY <1>1 DEF CheckProcs
<1>9. ~Counted'
  BY <1>6 DEF Counted
<1>7. ~inOP' /\ inOP' \in BOOLEAN /\ slips' = {}
  <2>1. inOP' = inOP /\ slips' = slips /\ inOP \in BOOLEAN
    BY DEF Flow
  <2> QED
    BY <2>1, <1>2
<1>8. Len(list') \in 0 .. EC_MAXSLAVE - 1 /\ DOMAIN list' = 1 .. Len(list')
  BY <1>5 DEF Flow
<1> QED
  BY <1>4, <1>6, <1>7, <1>8, <1>9 DEF Flow

LEMMA TestFlow ==
  ASSUME Flow, Devs, erob_test
  PROVE  Flow'
<1>S. Len(Script) \in Nat /\ Script[1] \in {"config_init", "tool"}
  BY PlanAssumption, Scripts DEF Devs, Script
<1>D. ASSUME NEW instruction, Does(instruction)
      PROVE  /\ at.proc = Return /\ at.pc \in 1 .. Len(Script)
             /\ instruction \notin {"config_init", "tool"} => at.pc > 1
  BY <1>D, <1>S DEF Does, Flow, Places
<1>P. {Return, "detect", "coe", "dc", "idle", "loop"} \subseteq Procs
      /\ "idle" \in CheckProcs /\ {Return, "detect", "coe", "dc", "loop"} \cap CheckProcs = {}
  BY DEF Procs, ConfigProcs, MapProcs, CheckProcs, Ends, Return
<1>R. ASSUME at.proc = Return PROVE ~inOP
  BY <1>R, <1>P DEF Flow
<1>C. ASSUME at.proc = Return, at.pc \in 1 .. Len(Script), at.pc > 1, NEW good, ContinueIf(good),
             DOMAIN list' = DOMAIN list, UNCHANGED <<plan, slips, inOP>>
      PROVE  Flow'
  <2>1. CASE GoTo(Return)
    <3>1. inOP' \in BOOLEAN /\ (inOP' <=> Return \in CheckProcs)
      BY <1>C, <1>R, <1>P DEF Flow
    <3> QED
      BY <2>1, <3>1, <1>C, <1>P, CallFlow
  <2>2. CASE Stop
    BY <2>2, <1>C, StopFlow
  <2> QED
    BY <2>1, <2>2, <1>C DEF ContinueIf, Continue
<1>K. ASSUME NEW proc \in {"detect", "coe", "dc", "loop"}, at.proc = Return, at.pc \in 1 .. Len(Script),
             proc # "detect" => at.pc > 1, GoTo(proc), UNCHANGED <<list, plan, slips, inOP>>
      PROVE  Flow'
  <2>1. inOP' \in BOOLEAN /\ (inOP' <=> proc \in CheckProcs)
    BY <1>K, <1>R, <1>P DEF Flow
  <2> QED
    BY <2>1, <1>K, <1>P, CallFlow
<1>1. CASE CallConfigInit
  BY <1>1, <1>D, <1>K DEF CallConfigInit, Kept, Untroubled
<1>2. CASE CallConfigMap
  BY <1>2, <1>D, <1>K DEF CallConfigMap, Kept, Untroubled
<1>3. CASE CallConfigDc
  BY <1>3, <1>D, <1>K DEF CallConfigDc, Kept, Untroubled
<1>4. CASE Control
  BY <1>4, <1>D, <1>K DEF Control, Kept, Untroubled
<1>5. CASE Watch
  <2>1. /\ Does("watch") /\ GoTo("idle") /\ inOP' = TRUE
        /\ UNCHANGED <<list, plan, slips>>
    BY <1>5 DEF Watch, Kept, Untroubled
  <2> QED
    BY <2>1, <1>D, <1>P, CallFlow
<1>6. CASE PreOpAll \/ MapPdos \/ SetManual \/ Sync0
  <2>1. PICK instruction : Does(instruction) /\ instruction \notin {"config_init", "tool"} /\ GoTo(Return)
                           /\ UNCHANGED <<list, plan, slips, inOP>>
    BY <1>6 DEF PreOpAll, MapPdos, SetManual, Sync0, Continue, Kept, Untroubled
  <2>2. ContinueIf(TRUE)
    BY <2>1 DEF ContinueIf, Continue
  <2> QED
    BY <2>1, <2>2, <1>D, <1>C
<1>7. CASE PreOpEach
  <2>1. /\ Does("preop_each") /\ UNCHANGED <<plan, slips, inOP>> /\ DOMAIN list' = Slaves
        /\ \E good : ContinueIf(good)
    BY <1>7 DEF PreOpEach, Kept, Untroubled
  <2> QED
    BY <2>1, <1>D, <1>C DEF Slaves
<1>8. CASE Assign
  <2>1. Does("assign") /\ UNCHANGED <<list, plan, slips, inOP>> /\ \E good : ContinueIf(good)
    BY <1>8 DEF Assign, Kept, Untroubled
  <2> QED
    BY <2>1, <1>D, <1>C
<1>9. CASE InPreOp
  <2>1. Does("in_preop") /\ UNCHANGED <<list, plan, slips, inOP>> /\ \E good : ContinueIf(good)
    BY <1>9 DEF InPreOp, Kept, Untroubled
  <2> QED
    BY <2>1, <1>D, <1>C
<1>10. ASSUME NEW instruction \in {"safeop", "op"}, NEW state, Request(instruction, state) PROVE Flow'
  <2>1. /\ Does(instruction) /\ UNCHANGED <<plan, slips, inOP>> /\ DOMAIN list' = Slaves
        /\ \E good : ContinueIf(good)
    BY <1>10 DEF Request, ReadStates, Kept, Untroubled
  <2>2. instruction \notin {"config_init", "tool"}
    OBVIOUS
  <2> QED
    BY <2>1, <2>2, <1>D, <1>C DEF Slaves
<1> QED
  BY <1>1, <1>2, <1>3, <1>4, <1>5, <1>6, <1>7, <1>8, <1>9, <1>10 DEF erob_test, RequestSafeOp, RequestOp

\* ecatcheck treats one slave after the other; what has slipped it are slaves.
LEMMA CheckFlow ==
  ASSUME Flow, Devs, ecatcheck
  PROVE  Flow'
<1>1. at.proc \in CheckProcs /\ UNCHANGED <<plan, inOP>> /\ DOMAIN list' = Slaves /\ DOMAIN list = Slaves
  BY DEF ecatcheck, StartCheck, ecx_readstate, ReadAll, ReadEach, LookOperational, LookElse, LookLost, LookError,
         LookSafeOp, Recheck, ecx_reconfig_slave, ReconfigInit, ReconfigPdi, ReconfigSm, ReconfigPreOp,
         ReconfigSafeOp, ReconfigFmmu, ecx_recover_slave, Probe, ClearTemp, CheckAlias, GiveTemp, LastAddress,
         CheckIdentity, CheckWord, Settled, CheckProcs, Slaves, Seen, Reconfigured, Recovered, ecx_eeprom2pdi,
         ecx_eeprom2master
<1>2. (\E proc \in CheckProcs : Then(proc) \/ Go(proc)) \/ NextSlave
  <2>1. CASE StartCheck \/ LookOperational \/ LookElse \/ LookLost
    BY <2>1 DEF StartCheck, LookOperational, LookElse, LookLost, Treated, CheckProcs
  <2>2. CASE ecx_readstate
    BY <2>2 DEF ecx_readstate, ReadAll, ReadEach, CheckProcs
  <2>3. ASSUME NEW fate, LookError(fate) \/ LookSafeOp(fate) \/ Recheck(fate)
        PROVE  (\E proc \in CheckProcs : Then(proc) \/ Go(proc)) \/ NextSlave
    BY <2>3 DEF LookError, LookSafeOp, Recheck, Treated, CheckProcs
  <2>4. CASE ecx_reconfig_slave
    BY <2>4 DEF ecx_reconfig_slave, ReconfigInit, ReconfigPdi, ReconfigSm, ReconfigPreOp, ReconfigSafeOp,
                ReconfigFmmu, Reconfigured, Treated, CheckProcs
  <2>5. CASE ecx_recover_slave
    <3>1. ASSUME NEW fate, Probe(fate) \/ ClearTemp(fate) \/ CheckAlias(fate) \/ GiveTemp(fate) \/ LastAddress(fate)
          PROVE  (\E proc \in CheckProcs : Then(proc) \/ Go(proc)) \/ NextSlave
      BY <3>1 DEF Probe, ClearTemp, CheckAlias, GiveTemp, LastAddress, Recovered, CheckProcs
    <3>2. ASSUME NEW how, CheckIdentity(how)
          PROVE  (\E proc \in CheckProcs : Then(proc) \/ Go(proc)) \/ NextSlave
      BY <3>2 DEF CheckIdentity, CheckWord, CheckProcs
    <3> QED
      BY <2>5, <3>1, <3>2 DEF ecx_recover_slave
  <2> QED
    BY <2>1, <2>2, <2>3, <2>4, <2>5 DEF ecatcheck
<1>3. Counted /\ inOP /\ at.s \in 1 .. Len(list) /\ Devices = 1 .. Len(list) /\ Len(list) \in Nat
  <2>1. at.proc # Return /\ at.proc \notin {"detect", "stopped", "tool"}
    BY <1>1 DEF CheckProcs, Return
  <2>2. Counted /\ inOP
    BY <1>1, <2>1 DEF Flow, Counted
  <2>3. Devices = 1 .. Len(plan.kinds)
    BY PlanAssumption DEF Devs, Devices
  <2> QED
    BY <2>2, <2>3 DEF Flow, Places
<1>4. Goes(CheckProcs)
  <2>1. ASSUME NEW proc \in CheckProcs, Then(proc) \/ Go(proc) PROVE Goes(CheckProcs)
    <3>1. GoOn(proc, at.s) \/ GoOn(proc, 1)
      BY <2>1 DEF Then, Go
    <3> QED
      BY <3>1, <1>1, <1>3, GoesTo
  <2>2. CASE NextSlave
    <3>1. "look" \in CheckProcs /\ "idle" \in CheckProcs
      BY DEF CheckProcs
    <3>2. CASE at.s < Len(list)
      <4>1. GoOn("look", at.s + 1) /\ at.s + 1 \in 1 .. Len(list)
        BY <2>2, <3>2, <1>3 DEF NextSlave
      <4> QED
        BY <4>1, <3>1, <1>1, GoesTo
    <3>3. CASE ~(at.s < Len(list))
      <4>1. GoOn("idle", 1)
        BY <2>2, <3>3 DEF NextSlave, Go
      <4> QED
        BY <4>1, <3>1, <1>1, GoesTo
    <3> QED
      BY <3>2, <3>3
  <2> QED
    BY <1>2, <2>1, <2>2
<1>5. slips' \in SUBSET (1 .. Len(list))
  <2>1. slips' \subseteq slips \cup {at.s} \cup Devices
    BY DEF ecatcheck, StartCheck, ecx_readstate, ReadAll, ReadEach, LookOperational, LookElse, LookLost, LookError,
           LookSafeOp, Recheck, ecx_reconfig_slave, ReconfigInit, ReconfigPdi, ReconfigSm, ReconfigPreOp,
           ReconfigSafeOp, ReconfigFmmu, ecx_recover_slave, Probe, ClearTemp, CheckAlias, GiveTemp, LastAddress,
           CheckIdentity, CheckWord, Slip
  <2> QED
    BY <2>1, <1>3 DEF Flow
<1>6. CheckProcs \in SUBSET Procs
  BY DEF Procs
<1> QED
  BY <1>1, <1>3, <1>4, <1>5, <1>6, GoesOn

\* The others leave the course of the program and the list alone; the tool starts.
LEMMA UnseenFlow ==
  ASSUME Flow, UNCHANGED <<at, list, slips, inOP, plan>>
  PROVE  Flow'
  BY DEF Flow, Places, Script, Counted

LEMMA FlowKept ==
  ASSUME Flow, Devs, Budget, Next
  PROVE  Flow'
<1>1. CASE ecx_config_init /\ UNCHANGED <<hold, clocked, checkvars>>
  BY <1>1, ConfigInitFlow
<1>2. CASE ecx_config_map /\ UNCHANGED checkvars
  BY <1>2, MapFlow
<1>3. CASE erob_test
  BY <1>3, TestFlow
<1>4. CASE ecatcheck
  BY <1>4, CheckFlow
<1>5. CASE inOP /\ Environment /\ UnseenBy
  <2>1. UNCHANGED <<at, list, slips, inOP, plan>>
    BY <1>5 DEF Environment, UnseenBy, checkvars, PowerOff, PowerOn, Watchdog
  <2> QED
    BY <2>1, UnseenFlow
<1>6. CASE (\E fate : Cycle(fate)) \/ ecatthread \/ eepromtool \/ RomDone \/ RomNack
  <2>1. CASE UNCHANGED bus /\ Spends /\ UNCHANGED <<at, list, slips, inOP>>
    BY <2>1, UnseenFlow DEF Spends
  <2>2. CASE StartTool
    <3>1. Does("tool") /\ GoTo("tool") /\ UNCHANGED <<list, plan, slips, inOP>>
      BY <2>2 DEF StartTool, checkvars
    <3>2. Len(Script) \in Nat
      BY PlanAssumption, Scripts DEF Devs, Script
    <3>3. at.proc = Return /\ at.pc \in 1 .. Len(Script)
      BY <3>1, <3>2 DEF Does, Flow, Places
    <3>4. "tool" \in Procs /\ "tool" \notin CheckProcs
      BY DEF Procs, Ends, CheckProcs
    <3>5. inOP' \in BOOLEAN /\ (inOP' <=> "tool" \in CheckProcs)
      BY <3>1, <3>3, <3>4 DEF Flow, Return, CheckProcs
    <3> QED
      BY <3>1, <3>3, <3>4, <3>5, CallFlow
  <2> QED
    BY <1>6, <2>1, <2>2, OthersTame
<1> QED
  BY <1>1, <1>2, <1>3, <1>4, <1>5, <1>6 DEF Next

LEMMA InitFlow ==
  ASSUME Init
  PROVE  Flow /\ Devs /\ Budget
<1>1. plan \in Plans /\ bus = [k \in DOMAIN plan.kinds |-> [Started(plan.kinds[k]) EXCEPT !.adr = plan.adrs[k]]]
  BY DEF Init
<1>2. /\ \A k \in DOMAIN plan.kinds : plan.adrs[k] \in 0 .. EC_MAXSLAVE /\ plan.kinds[k] \in DOMAIN Kinds
      /\ plan.trouble \in Nat /\ plan.cuts \in Nat
  BY <1>1, PlanAssumption
<1>3. ASSUME NEW k \in DOMAIN plan.kinds PROVE IsDevice(bus[k]) /\ bus[k].kind = plan.kinds[k] /\ bus[k].power
  BY <1>1, <1>2 DEF Started, IsDevice, Fields, AlStates
<1>4. Devs
  BY <1>1, <1>3 DEF Devs, Devices
<1>5. Budget
  BY <1>2 DEF Init, Budget
<1>6. Len(Script) \in Nat
  BY <1>1, PlanAssumption, Scripts DEF Script
<1>7. at \in Places /\ at.proc = Return /\ at.s = 1 /\ at.pc = 1
  BY <1>6, Sizes DEF Init, Places, Procs
<1>8. list = <<>> /\ inOP = FALSE /\ slips = {}
  BY DEF Init
<1>9. Len(list) \in 0 .. EC_MAXSLAVE - 1 /\ DOMAIN list = 1 .. Len(list)
  BY <1>8, Sizes
<1>10. ~Counted /\ at.proc \notin CheckProcs
  BY <1>7 DEF Counted, CheckProcs, Return
<1> QED
  BY <1>4, <1>5, <1>7, <1>8, <1>9, <1>10 DEF Flow

\* The course of a program, the devices and the bounds, in every state.
LEMMA Course == Spec => [](Flow /\ Devs /\ Budget)
<1>1. Init => Flow /\ Devs /\ Budget
  BY InitFlow
<1>2. Flow /\ Devs /\ Budget /\ [Next]_netall => (Flow /\ Devs /\ Budget)'
  <2> SUFFICES ASSUME Flow, Devs, Budget, [Next]_netall PROVE (Flow /\ Devs /\ Budget)'
    OBVIOUS
  <2>1. CASE Next
    BY <2>1, FlowKept, DevsKept
  <2>2. CASE UNCHANGED netall
    <3>1. UNCHANGED <<at, list, slips, inOP, plan, bus, trouble, cuts>>
      BY <2>2 DEF netall, vars, mapvars, netvars, checkvars
    <3>2. Devs' /\ Budget'
      BY <3>1 DEF Devs, Budget, Devices, IsDevice, Whole
    <3> QED
      BY <3>1, <3>2, UnseenFlow
  <2> QED
    BY <2>1, <2>2
<1> QED
  BY <1>1, <1>2, PTL DEF Spec

-----------------------------------------------------------------------------
(***************************************************************************)
(* The tool for the EEPROM.  What it still has to do is the end of its     *)
(* list of accesses, here from the last one; where it stands says what the *)
(* EEPROM holds, and that the command in its register is the one at hand.  *)
(***************************************************************************)
RomWords == {0, 4, 7}
Accesses == [op : {"force", "read", "write"}, word : RomWords]

Backward(mode) ==
  CASE mode = "info"  -> <<Reading(4), Reading(0), Forcing>>
    [] mode = "write" -> <<Writing(7), Writing(4), Writing(0), Forcing>>
    [] mode = "alias" -> <<Writing(7), Writing(4), Forcing, Reading(4), Reading(0), Forcing>>

IsTool(t) ==
  /\ DOMAIN t = {"todo", "at", "tries", "nacks", "buf", "said", "unnoticed"}
  /\ t.todo \in Seq(Accesses)
  /\ t.at \in {"wait", "clear", "data", "command", "poll", "fetch", "done"}
  /\ t.tries \in 0 .. EC_DEFAULTRETRIES /\ t.nacks \in 0 .. 3
  /\ DOMAIN t.buf = {0, 4} /\ t.said \in SUBSET RomWords /\ t.unnoticed \in BOOLEAN

IsRom(r) ==
  /\ DOMAIN r = {"cells", "data", "command", "word", "nack", "master"}
  /\ DOMAIN r.cells = RomWords
  /\ r.command \in {"none", "read", "write"} /\ r.word \in RomWords
  /\ r.nack \in BOOLEAN /\ r.master \in BOOLEAN

left == Len(tool.todo)

\* todo is what remains of the accesses of the mode
Remains(todo) ==
  /\ todo \in Seq(Accesses) /\ Len(todo) <= Len(Backward(plan.mode))
  /\ \A i \in 1 .. Len(todo) : todo[i] = Backward(plan.mode)[Len(todo) + 1 - i]

\* the access at hand
Standing ==
  /\ tool.at # "wait" => tool.todo # <<>> /\ Access.op # "force"
  /\ tool.at = "data" => Access.op = "write"
  /\ tool.at = "fetch" => Access.op = "read"

\* the command in the register
Commanding ==
  /\ left # Len(Backward(plan.mode)) => rom.master
  /\ rom.command = "write" =>
       /\ plan.mode # "info" /\ rom.data = Asked(rom.word)
       /\ plan.mode = "alias" => rom.word # 0 /\ left < 5
  /\ tool.at \in {"data", "command", "poll"} /\ rom.command # "none" =>
       rom.command = Access.op /\ rom.word = Access.word
  /\ tool.at \in {"clear", "fetch"} => rom.command = "none"
  /\ tool.at = "wait" => rom.command # "read"
  /\ tool.at = "command" /\ Access.op = "write" => rom.data = Asked(Access.word)

\* what has been done is in the cells, or in the register
Obtained ==
  /\ tool.at = "poll" /\ rom.command = "none" /\ ~rom.nack =>
       IF Access.op = "write" THEN rom.cells[Access.word] = Asked(Access.word)
       ELSE rom.data = rom.cells[Access.word]
  /\ tool.at = "fetch" => rom.data = rom.cells[Access.word]

\* the cells, and what is said of them
CellsTrue ==
  /\ \A w \in RomWords : rom.cells[w] \in {OldCells[w], Asked(w)}
  /\ \A w \in tool.said : rom.cells[w] = Asked(w)

\* the alias is written with a checksum from what was read before
AliasTrue ==
  plan.mode = "alias" =>
    /\ left >= 5 => rom.cells = OldCells /\ tool.said = {}
    /\ left < 5 => tool.buf[0] = OldCells[0]
    /\ rom.cells[0] = OldCells[0]
    /\ left = 1 \/ 7 \in tool.said => 4 \in tool.said

Sound == Commanding /\ Obtained /\ CellsTrue /\ AliasTrue

ToolInv ==
  /\ IsTool(tool) /\ tool.at # "done" /\ tool.nacks <= 2 /\ IsRom(rom)
  /\ at.proc = "tool" => Remains(tool.todo) /\ Standing /\ (~tool.unnoticed => Sound)
  /\ at.proc # "tool" => rom = NewRom

LEMMA Modes == ASSUME Devs PROVE plan.mode \in {"info", "write", "alias"}
  BY PlanAssumption DEF Devs

LEMMA CellsAre ==
  /\ OldCells \in [RomWords -> Int] /\ File \in [RomWords -> Int]
  /\ OldCells[0] = 5 /\ OldCells[4] = 1 /\ OldCells[7] = 51 /\ File[0] = 6 /\ File[4] = 2 /\ File[7] = 62
  BY DEF OldCells, File, Cells3, SIIcrc, RomWords

\* What is at hand, by what is left.
LEMMA AccessIs ==
  ASSUME Devs, Remains(tool.todo), tool.todo # <<>>
  PROVE  /\ left \in 1 .. Len(Backward(plan.mode)) /\ Access = Backward(plan.mode)[left] /\ Access \in Accesses
         /\ plan.mode = "info" => /\ left <= 3 /\ (left = 3 => Access = Forcing)
                                  /\ (left = 2 => Access = Reading(0)) /\ (left = 1 => Access = Reading(4))
         /\ plan.mode = "write" => /\ left <= 4 /\ (left = 4 => Access = Forcing) /\ (left = 3 => Access = Writing(0))
                                   /\ (left = 2 => Access = Writing(4)) /\ (left = 1 => Access = Writing(7))
         /\ plan.mode = "alias" => /\ left <= 6 /\ (left \in {3, 6} => Access = Forcing)
                                   /\ (left = 5 => Access = Reading(0)) /\ (left = 4 => Access = Reading(4))
                                   /\ (left = 2 => Access = Writing(4)) /\ (left = 1 => Access = Writing(7))
<1>1. tool.todo \in Seq(Accesses) /\ left \in Nat /\ left > 0
  BY EmptySeq, LenProperties DEF Remains, left
<1>2. Access = tool.todo[1] /\ Access \in Accesses
  BY <1>1 DEF Access, left
<1>3. left \in 1 .. Len(Backward(plan.mode))
  <2>1. Len(Backward(plan.mode)) \in Nat
    BY Modes DEF Backward
  <2> QED
    BY <1>1, <2>1 DEF Remains, left
<1>4. Access = Backward(plan.mode)[left]
  <2>1. tool.todo[1] = Backward(plan.mode)[left + 1 - 1]
    BY <1>1 DEF Remains, left
  <2> QED
    BY <1>1, <1>2, <2>1
<1>5. CASE plan.mode = "info"
  BY <1>2, <1>3, <1>4, <1>5 DEF Backward
<1>6. CASE plan.mode = "write"
  BY <1>2, <1>3, <1>4, <1>6 DEF Backward
<1>7. CASE plan.mode = "alias"
  BY <1>2, <1>3, <1>4, <1>7 DEF Backward
<1> QED
  BY <1>2, <1>3, <1>4, <1>5, <1>6, <1>7, Modes

\* An access that is over is taken from the list.
LEMMA RemainsLess ==
  ASSUME Devs, NEW todo, Remains(todo), todo # <<>>
  PROVE  Remains(Tail(todo)) /\ Remains(<<>>) /\ Len(Tail(todo)) = Len(todo) - 1 /\ Len(todo) \in Nat \ {0}
<1>0. todo \in Seq(Accesses) /\ \A j \in 1 .. Len(todo) : todo[j] = Backward(plan.mode)[Len(todo) + 1 - j]
  BY DEF Remains
<1>1. todo \in Seq(Accesses) /\ Len(todo) \in Nat \ {0}
  BY EmptySeq, LenProperties DEF Remains
<1>2. /\ Tail(todo) \in Seq(Accesses) /\ Len(Tail(todo)) = Len(todo) - 1
      /\ \A i \in 1 .. Len(todo) - 1 : Tail(todo)[i] = todo[i + 1]
  BY <1>1, HeadTailProperties
<1>3. Len(Backward(plan.mode)) \in Nat
  BY Modes DEF Backward
<1>4. ASSUME NEW i \in 1 .. Len(todo) - 1 PROVE Tail(todo)[i] = Backward(plan.mode)[Len(Tail(todo)) + 1 - i]
  <2>1. PICK j \in 1 .. Len(todo) : j = i + 1
    BY <1>1
  <2>2. todo[j] = Backward(plan.mode)[Len(todo) + 1 - j]
    BY <1>0
  <2>3. Len(todo) + 1 - j = Len(Tail(todo)) + 1 - i
    BY <1>1, <2>1
  <2>4. Tail(todo)[i] = todo[j]
    BY <1>2, <2>1
  <2> QED
    BY <2>2, <2>3, <2>4
<1>5. Remains(Tail(todo))
  BY <1>1, <1>2, <1>3, <1>4 DEF Remains
<1>6. Remains(<<>>)
  BY <1>3 DEF Remains
<1> QED
  BY <1>1, <1>2, <1>5, <1>6

\* What the procedures make of the tool.
EndsAs(t, e, ok) ==
  LET lost == ~ok /\ plan.mode = "alias" /\ Access.op = "write"
  IN  /\ IsTool(e) /\ e.at = "wait" /\ e.nacks = 0 /\ e.buf = t.buf
      /\ lost => e.todo = <<>>
      /\ ~lost => e.todo = Tail(t.todo)
      /\ e.said = IF ok /\ Access.op = "write" THEN t.said \cup {Access.word} ELSE t.said
      /\ e.unnoticed <=> (t.unnoticed \/ (~ok /\ Access.op = "read"))

LEMMA Endings ==
  ASSUME NEW t, IsTool(t), NEW ok \in BOOLEAN, t.todo # <<>>, Access \in Accesses
  PROVE  EndsAs(t, Ended(t, ok), ok)
<1> DEFINE e == Ended(t, ok)
<1>1. Tail(t.todo) \in Seq(Accesses) /\ <<>> \in Seq(Accesses)
  BY HeadTailProperties, EmptySeq DEF IsTool
<1>2. Access.word \in RomWords
  BY DEF Accesses
<1>3. DOMAIN e = DOMAIN t /\ e.at = "wait" /\ e.tries = 0 /\ e.nacks = 0 /\ e.buf = t.buf
  BY DEF Ended, IsTool
<1>4. e.todo = IF ~ok /\ plan.mode = "alias" /\ Access.op = "write" THEN <<>> ELSE Tail(t.todo)
  BY DEF Ended, IsTool
<1>5. e.said = IF ok /\ Access.op = "write" THEN t.said \cup {Access.word} ELSE t.said
  BY DEF Ended, IsTool
<1>6. e.unnoticed = (t.unnoticed \/ (~ok /\ Access.op = "read"))
  BY DEF Ended, IsTool
<1> HIDE DEF e
<1>7. e.unnoticed \in BOOLEAN /\ e.said \in SUBSET RomWords /\ e.todo \in Seq(Accesses)
  BY <1>1, <1>2, <1>4, <1>5, <1>6 DEF IsTool
<1>8. e.tries \in 0 .. EC_DEFAULTRETRIES /\ e.nacks \in 0 .. 3 /\ DOMAIN e.buf = {0, 4}
  BY <1>3, Sizes DEF IsTool
<1>9. IsTool(e)
  BY <1>3, <1>7, <1>8 DEF IsTool
<1>10. EndsAs(t, e, ok)
  BY <1>3, <1>4, <1>5, <1>6, <1>9 DEF EndsAs
<1> QED
  BY <1>10 DEF e

LEMMA AskedSame ==
  ASSUME UNCHANGED plan, plan.mode = "alias" => tool'.buf[0] = tool.buf[0]
  PROVE  \A w \in RomWords : Asked(w)' = Asked(w)
  BY DEF Asked

\* An access is over: what is said to be written is there, and what was read is right, or
\* something went unnoticed.
LEMMA Over ==
  ASSUME Devs, ToolInv, at.proc = "tool", tool.todo # <<>>, Access.op # "force",
         NEW t, IsTool(t), t.todo = tool.todo, t.said = tool.said, tool.unnoticed => t.unnoticed,
         NEW ok \in BOOLEAN, tool' = Ended(t, ok), UNCHANGED <<rom, plan, at>>,
         t.unnoticed => tool.unnoticed \/ (~ok /\ Access.op = "read"),
         ok /\ Access.op = "write" =>
           t.buf = tool.buf /\ (~tool.unnoticed => rom.command = "none" /\ rom.cells[Access.word] = Asked(Access.word)),
         ok /\ Access.op = "read" /\ ~tool.unnoticed =>
           rom.command = "none" /\ t.buf = [tool.buf EXCEPT ![Access.word] = rom.cells[Access.word]],
         ~ok /\ Access.op = "write" => t.buf = tool.buf /\ (~tool.unnoticed => rom.command # "read")
  PROVE  ToolInv'
<1> DEFINE lost == ~ok /\ plan.mode = "alias" /\ Access.op = "write"
           over == ok \/ Access.op = "write"
<1>1. Remains(tool.todo) /\ (~tool.unnoticed => Sound) /\ IsTool(tool) /\ IsRom(rom)
  BY DEF ToolInv
<1>2. Access \in Accesses /\ left \in 1 .. Len(Backward(plan.mode)) /\ Len(Backward(plan.mode)) \in Nat
  <2>1. Len(Backward(plan.mode)) \in Nat
    BY Modes DEF Backward
  <2> QED
    BY <1>1, <2>1, AccessIs
<1>3. /\ IsTool(tool') /\ tool'.at = "wait" /\ tool'.nacks = 0 /\ tool'.buf = t.buf
      /\ lost => tool'.todo = <<>>
      /\ ~lost => tool'.todo = Tail(tool.todo)
      /\ tool'.said = IF ok /\ Access.op = "write" THEN tool.said \cup {Access.word} ELSE tool.said
      /\ tool'.unnoticed <=> (tool.unnoticed \/ (~ok /\ Access.op = "read"))
  <2> DEFINE e == Ended(t, ok)
  <2>0. t.todo # <<>> /\ Access \in Accesses
    BY <1>2
  <2>1. EndsAs(t, e, ok)
    BY <2>0, Endings
  <2> HIDE DEF e
  <2>2. tool' = e
    BY DEF e
  <2> QED
    BY <2>1, <2>2 DEF EndsAs
<1>4. /\ Remains(tool.todo)'
      /\ left' = IF lost THEN 0 ELSE left - 1
  <2>1. Remains(Tail(tool.todo)) /\ Remains(<<>>) /\ Len(Tail(tool.todo)) = left - 1
    BY <1>1, RemainsLess DEF left
  <2>2. Remains(tool'.todo) /\ left' = IF lost THEN 0 ELSE left - 1
    <3>1. left' = Len(tool'.todo)
      BY DEF left
    <3>2. CASE lost
      BY <3>1, <3>2, <1>3, <2>1
    <3>3. CASE ~lost
      BY <3>1, <3>3, <1>3, <2>1
    <3> QED
      BY <3>2, <3>3
  <2> QED
    BY <2>2 DEF Remains
<1>5. Standing'
  BY <1>3 DEF Standing
<1>6. ASSUME ~tool'.unnoticed PROVE Sound'
  <2>1. ~tool.unnoticed /\ Sound /\ (ok \/ Access.op = "write") /\ Access.op \in {"read", "write"}
    BY <1>1, <1>2, <1>3, <1>6 DEF Accesses
  <2>A. /\ plan.mode = "info" => /\ left <= 2 /\ Access.op = "read" /\ Access.word \in {0, 4}
        /\ plan.mode = "write" => left <= 3 /\ Access.op = "write"
        /\ plan.mode = "alias" => /\ left \in {1, 2, 4, 5} /\ (left = 5 => Access.op = "read" /\ Access.word = 0)
                                  /\ (left = 4 => Access.op = "read" /\ Access.word = 4)
                                  /\ (left = 2 => Access.op = "write" /\ Access.word = 4)
                                  /\ (left = 1 => Access.op = "write" /\ Access.word = 7)
    <3>1. Forcing.op = "force" /\ \A w : Reading(w).op = "read" /\ Reading(w).word = w
                                       /\ Writing(w).op = "write" /\ Writing(w).word = w
      BY DEF Forcing, Reading, Writing
    <3>2. CASE plan.mode = "info"
      BY <3>1, <3>2, <1>1, <1>2, AccessIs
    <3>3. CASE plan.mode = "write"
      BY <3>1, <3>3, <1>1, <1>2, AccessIs
    <3>4. CASE plan.mode = "alias"
      BY <3>1, <3>4, <1>1, <1>2, AccessIs
    <3> QED
      BY <3>2, <3>3, <3>4
  <2>B. plan.mode = "alias" /\ left # 5 => tool'.buf[0] = tool.buf[0]
    BY <1>1, <1>3, <2>1, <2>A DEF IsTool
  <2>C. (plan.mode = "alias" /\ left # 5) \/ plan.mode # "alias" => \A w \in RomWords : Asked(w)' = Asked(w)
    BY <2>B, AskedSame
  <2>D. rom'.command # "read" /\ (rom.command = "none" \/ Access.op = "write")
    BY <1>1, <2>1 DEF IsRom
  <2>2. Commanding'
    <3>1. left' # Len(Backward(plan'.mode)) => rom'.master
      <4>1. left # Len(Backward(plan.mode))
        BY <2>A, Modes DEF Backward
      <4> QED
        BY <4>1, <2>1 DEF Sound, Commanding
    <3>2. rom'.command = "write" =>
            /\ plan'.mode # "info" /\ rom'.data = Asked(rom.word)'
            /\ plan'.mode = "alias" => rom'.word # 0 /\ left' < 5
      <4> SUFFICES ASSUME rom.command = "write"
                   PROVE  /\ plan.mode # "info" /\ rom.data = Asked(rom.word)'
                          /\ plan.mode = "alias" => rom.word # 0 /\ left' < 5
        OBVIOUS
      <4>1. /\ plan.mode # "info" /\ rom.data = Asked(rom.word) /\ rom.word \in RomWords
            /\ plan.mode = "alias" => rom.word # 0 /\ left < 5
        BY <2>1, <1>1 DEF Sound, Commanding, IsRom
      <4>2. plan.mode = "alias" => left' < 5
        BY <4>1, <1>4, <1>2
      <4> QED
        BY <4>1, <4>2, <2>C, <1>2
    <3> QED
      BY <3>1, <3>2, <2>D, <1>3 DEF Commanding
  <2>3. Obtained'
    BY <1>3 DEF Obtained
  <2>4. CellsTrue'
    <3>1. CASE plan.mode = "alias" /\ left = 5
      <4>1. rom.cells = OldCells /\ tool.said = {} /\ Access.op = "read"
        BY <3>1, <2>1, <2>A DEF Sound, AliasTrue
      <4> QED
        BY <4>1, <1>3 DEF CellsTrue
    <3>2. CASE ~(plan.mode = "alias" /\ left = 5)
      <4>1. \A w \in RomWords : Asked(w)' = Asked(w)
        BY <3>2, <2>C
      <4>2. /\ \A w \in RomWords : rom.cells[w] \in {OldCells[w], Asked(w)}
            /\ \A w \in tool.said : rom.cells[w] = Asked(w)
        BY <2>1 DEF Sound, CellsTrue
      <4>3. \A w \in tool'.said : w \in RomWords /\ rom.cells[w] = Asked(w)
        <5>1. Access.word \in RomWords /\ tool.said \subseteq RomWords
          BY <1>1, <1>2 DEF Accesses, IsTool
        <5> QED
          BY <4>2, <5>1, <1>3, <2>1
      <4> QED
        BY <4>1, <4>2, <4>3 DEF CellsTrue
    <3> QED
      BY <3>1, <3>2
  <2>5. AliasTrue'
    <3> SUFFICES ASSUME plan.mode = "alias"
                 PROVE  /\ left' < 5
                        /\ tool'.buf[0] = OldCells[0]
                        /\ rom.cells[0] = OldCells[0]
                        /\ left' = 1 \/ 7 \in tool'.said => 4 \in tool'.said
      BY <1>2, <1>4 DEF AliasTrue
    <3>1. left' < 5
      BY <1>2, <1>4, <2>A
    <3>2. /\ left >= 5 => rom.cells = OldCells /\ tool.said = {}
          /\ left < 5 => tool.buf[0] = OldCells[0]
          /\ rom.cells[0] = OldCells[0]
          /\ left = 1 \/ 7 \in tool.said => 4 \in tool.said
      BY <2>1 DEF Sound, AliasTrue
    <3>3. tool'.buf[0] = OldCells[0]
      <4>1. CASE left = 5
        <5>1. t.buf = [tool.buf EXCEPT ![0] = rom.cells[0]] /\ 0 \in DOMAIN tool.buf
          BY <4>1, <2>1, <2>A, <1>1 DEF IsTool
        <5> QED
          BY <5>1, <3>2, <1>3
      <4>2. CASE left # 5
        BY <4>2, <2>A, <2>B, <3>2
      <4> QED
        BY <4>1, <4>2
    <3>4. left' = 1 \/ 7 \in tool'.said => 4 \in tool'.said
      <4>1. CASE left = 5 \/ left = 4
        BY <4>1, <1>3, <1>4, <2>A, <3>2
      <4>2. CASE left = 2 \/ left = 1
        BY <4>2, <1>3, <1>4, <2>A, <3>2
      <4> QED
        BY <4>1, <4>2, <2>A
    <3> QED
      BY <3>1, <3>2, <3>3, <3>4
  <2> QED
    BY <2>2, <2>3, <2>4, <2>5 DEF Sound
<1>7. IsTool(tool)' /\ IsRom(rom)' /\ tool'.at # "done" /\ tool'.nacks <= 2
  <2>1. IsTool(tool)' /\ tool'.at # "done" /\ tool'.nacks <= 2
    BY <1>3 DEF IsTool
  <2>2. IsRom(rom)'
    BY <1>1 DEF IsRom
  <2> QED
    BY <2>1, <2>2
<1>8. Remains(tool.todo)' /\ at'.proc = "tool"
  BY <1>4 DEF Remains
<1>9. (~tool.unnoticed => Sound)'
  BY <1>6
<1> QED
  BY <1>5, <1>7, <1>8, <1>9 DEF ToolInv

\* The access stays at hand, and the cells are left alone.
LEMMA Stays ==
  ASSUME Devs, ToolInv, at.proc = "tool", UNCHANGED <<plan, at>>,
         IsTool(tool'), tool'.at # "done", tool'.nacks <= 2, IsRom(rom'), Standing',
         tool'.todo = tool.todo, tool'.buf = tool.buf, tool'.said = tool.said,
         tool'.unnoticed \/ (~tool.unnoticed /\ Commanding' /\ Obtained' /\ rom'.cells = rom.cells)
  PROVE  ToolInv'
<1>1. IsTool(tool)' /\ IsRom(rom)' /\ Remains(tool.todo)'
  BY DEF IsTool, IsRom, ToolInv, Remains
<1>2. ASSUME ~tool'.unnoticed PROVE Sound'
  <2>1. ~tool.unnoticed /\ Commanding' /\ Obtained' /\ rom'.cells = rom.cells /\ CellsTrue /\ AliasTrue
    BY <1>2 DEF ToolInv, Sound
  <2>2. /\ \A w \in RomWords : Asked(w)' = Asked(w)
        /\ left' = left /\ tool.said \subseteq RomWords
    BY AskedSame DEF left, ToolInv, IsTool
  <2>3. CellsTrue'
    BY <2>1, <2>2 DEF CellsTrue
  <2>4. AliasTrue'
    BY <2>1, <2>2 DEF AliasTrue
  <2> QED
    BY <2>1, <2>3, <2>4 DEF Sound
<1> QED
  BY <1>1, <1>2 DEF ToolInv

LEMMA Firsts ==
  ASSUME Devs, ToolInv, at.proc = "tool", tool.todo # <<>>, Access.op # "force"
  PROVE  /\ First \in {"data", "command"} /\ (First = "data" <=> Access.op = "write")
         /\ Access.op \in {"read", "write"} /\ Access.word \in RomWords
         /\ left # Len(Backward(plan.mode))
         /\ Access.op = "write" => plan.mode # "info" /\ (plan.mode = "alias" => Access.word # 0 /\ left < 5)
<1>1. Remains(tool.todo)
  BY DEF ToolInv
<1>2. Access \in Accesses /\ left \in 1 .. Len(Backward(plan.mode))
  BY <1>1, AccessIs
<1>3. Forcing.op = "force" /\ \A w : Reading(w).op = "read" /\ Writing(w).op = "write" /\ Writing(w).word = w
  BY DEF Forcing, Reading, Writing
<1>4. left # Len(Backward(plan.mode)) /\ (Access.op = "write" => plan.mode # "info" /\ (plan.mode = "alias" => Access.word # 0 /\ left < 5))
  <2>1. CASE plan.mode = "info"
    BY <2>1, <1>1, <1>3, <1>2, AccessIs DEF Backward
  <2>2. CASE plan.mode = "write"
    BY <2>2, <1>1, <1>3, <1>2, AccessIs DEF Backward
  <2>3. CASE plan.mode = "alias"
    BY <2>3, <1>1, <1>3, <1>2, AccessIs DEF Backward
  <2> QED
    BY <2>1, <2>2, <2>3, Modes
<1> QED
  BY <1>2, <1>4 DEF First, Accesses

LEMMA ForceKept ==
  ASSUME Devs, ToolInv, NEW fate, ForceToMaster(fate)
  PROVE  ToolInv'
<1>0. at.proc = "tool" /\ tool.todo # <<>> /\ Access.op = "force" /\ tool.at = "wait" /\ UNCHANGED <<plan, at>>
  BY DEF ForceToMaster, Accessing, Elsewhere
<1>1. Remains(tool.todo) /\ (~tool.unnoticed => Sound) /\ IsTool(tool) /\ IsRom(rom) /\ tool.nacks <= 2
  BY <1>0 DEF ToolInv
<1>2. rom' = [rom EXCEPT !.master = rom.master \/ fate # "lost"]
      /\ tool' = [tool EXCEPT !.todo = Tail(tool.todo), !.unnoticed = tool.unnoticed \/ ~rom'.master]
  BY DEF ForceToMaster
<1>3. /\ IsRom(rom') /\ rom'.cells = rom.cells /\ rom'.data = rom.data /\ rom'.command = rom.command
      /\ rom'.word = rom.word
  <2>1. rom'.master \in BOOLEAN
    BY <1>1, <1>2 DEF IsRom
  <2> QED
    BY <1>1, <1>2, <2>1 DEF IsRom
<1>4. Tail(tool.todo) \in Seq(Accesses) /\ Remains(Tail(tool.todo)) /\ Len(Tail(tool.todo)) = left - 1
      /\ left \in 1 .. Len(Backward(plan.mode)) /\ Len(Backward(plan.mode)) \in Nat
  <2>1. Len(Backward(plan.mode)) \in Nat
    BY Modes DEF Backward
  <2> QED
    BY <1>0, <1>1, <2>1, RemainsLess, AccessIs DEF left, Remains
<1>5. /\ tool'.todo = Tail(tool.todo) /\ tool'.at = "wait" /\ tool'.nacks = tool.nacks /\ tool'.buf = tool.buf
      /\ tool'.said = tool.said
  BY <1>0, <1>1, <1>2 DEF IsTool
<1>6. tool'.unnoticed = (tool.unnoticed \/ ~rom'.master)
  BY <1>1, <1>2 DEF IsTool
<1>7. IsTool(tool')
  <2>1. DOMAIN tool' = DOMAIN tool /\ tool'.tries = tool.tries /\ tool'.unnoticed \in BOOLEAN
    BY <1>1, <1>2, <1>6 DEF IsTool
  <2> QED
    BY <1>1, <1>4, <1>5, <2>1 DEF IsTool
<1>8. left' = left - 1
  BY <1>4, <1>5 DEF left
<1>9. ASSUME ~tool'.unnoticed PROVE Sound'
  <2>1. ~tool.unnoticed /\ rom'.master /\ Sound
    BY <1>1, <1>6, <1>9
  <2>2. \A w \in RomWords : Asked(w)' = Asked(w)
    BY <1>0, <1>5, AskedSame
  <2>3. Commanding'
    <3>1. /\ rom.command = "write" => /\ plan.mode # "info" /\ rom.data = Asked(rom.word) /\ rom.word \in RomWords
                                      /\ plan.mode = "alias" => rom.word # 0 /\ left < 5
          /\ rom.command # "read"
      BY <1>0, <1>1, <2>1 DEF Sound, Commanding, IsRom
    <3>2. rom'.command = "write" => /\ plan'.mode # "info" /\ rom'.data = Asked(rom.word)'
                                    /\ plan'.mode = "alias" => rom'.word # 0 /\ left' < 5
      BY <1>0, <1>3, <1>4, <1>8, <2>2, <3>1
    <3> QED
      BY <1>3, <1>5, <2>1, <3>1, <3>2 DEF Commanding
  <2>4. Obtained'
    BY <1>5 DEF Obtained
  <2>5. CellsTrue'
    BY <1>1, <1>3, <1>5, <2>1, <2>2 DEF Sound, CellsTrue, IsTool
  <2>6. AliasTrue'
    <3> SUFFICES ASSUME plan.mode = "alias"
                 PROVE  /\ left' >= 5 => rom'.cells = OldCells /\ tool'.said = {}
                        /\ left' < 5 => tool'.buf[0] = OldCells[0]
                        /\ rom'.cells[0] = OldCells[0]
                        /\ left' = 1 \/ 7 \in tool'.said => 4 \in tool'.said
      BY <1>0 DEF AliasTrue
    <3>1. /\ left >= 5 => rom.cells = OldCells /\ tool.said = {}
          /\ left < 5 => tool.buf[0] = OldCells[0]
          /\ rom.cells[0] = OldCells[0]
          /\ left = 1 \/ 7 \in tool.said => 4 \in tool.said
      BY <2>1 DEF Sound, AliasTrue
    <3>2. left \in {3, 6}
      <4>1. Forcing.op = "force" /\ \A w : Reading(w).op = "read" /\ Writing(w).op = "write"
        BY DEF Forcing, Reading, Writing
      <4>2. left \in 1 .. 6
        BY <1>4, <1>0, <1>1, AccessIs
      <4> QED
        BY <4>1, <4>2, <1>0, <1>1, AccessIs
    <3> QED
      BY <1>3, <1>5, <1>8, <3>1, <3>2
  <2> QED
    BY <2>3, <2>4, <2>5, <2>6 DEF Sound
<1>10. IsTool(tool)' /\ IsRom(rom)'
  BY <1>3, <1>7 DEF IsTool, IsRom
<1>11. Remains(tool.todo)' /\ Standing'
  BY <1>0, <1>4, <1>5 DEF Remains, Standing
<1> QED
  BY <1>0, <1>1, <1>5, <1>9, <1>10, <1>11 DEF ToolInv

LEMMA ClearKept ==
  ASSUME Devs, ToolInv, NEW fate, ClearError(fate)
  PROVE  ToolInv'
<1>0. at.proc = "tool" /\ tool.todo # <<>> /\ Access.op \in {"read", "write"} /\ tool.at = "clear" /\ UNCHANGED <<plan, at>>
  BY DEF ClearError, Accessing, Elsewhere
<1>1. Remains(tool.todo) /\ Standing /\ (~tool.unnoticed => Sound) /\ IsTool(tool) /\ IsRom(rom) /\ tool.nacks <= 2
  BY <1>0 DEF ToolInv
<1>2. First \in {"data", "command"} /\ (First = "data" <=> Access.op = "write")
  BY <1>0, Firsts
<1>3. tool' = [tool EXCEPT !.at = First] /\ (rom' = rom \/ rom' = [rom EXCEPT !.nack = FALSE])
  BY DEF ClearError
<1>4. /\ IsTool(tool') /\ tool'.at = First /\ tool'.todo = tool.todo /\ tool'.buf = tool.buf /\ tool'.said = tool.said
      /\ tool'.unnoticed = tool.unnoticed /\ tool'.nacks = tool.nacks
  BY <1>1, <1>2, <1>3 DEF IsTool
<1>5. IsRom(rom') /\ rom'.cells = rom.cells /\ rom'.command = rom.command /\ rom'.data = rom.data /\ rom'.word = rom.word
      /\ rom'.master = rom.master
  BY <1>1, <1>3 DEF IsRom
<1>6. Access' = Access /\ left' = left
  BY <1>4 DEF Access, left
<1>7. Standing'
  BY <1>0, <1>2, <1>4, <1>6 DEF Standing
<1>8. ASSUME ~tool.unnoticed PROVE Commanding' /\ Obtained'
  <2>1. rom.command = "none" /\ (left # Len(Backward(plan.mode)) => rom.master)
    BY <1>0, <1>1, <1>8 DEF Sound, Commanding
  <2>2. Commanding'
    BY <1>0, <1>2, <1>4, <1>5, <1>6, <2>1 DEF Commanding
  <2>3. Obtained'
    BY <1>2, <1>4 DEF Obtained
  <2> QED
    BY <2>2, <2>3
<1>9. tool'.unnoticed \/ (~tool.unnoticed /\ Commanding' /\ Obtained' /\ rom'.cells = rom.cells)
  BY <1>1, <1>4, <1>5, <1>8 DEF IsTool
<1>10. tool'.at # "done" /\ tool'.nacks <= 2
  BY <1>1, <1>2, <1>4
<1> QED
  BY <1>0, <1>4, <1>5, <1>7, <1>9, <1>10, Stays

\* A try of a frame that has not arrived, or the next place.
LEMMA Tries ==
  ASSUME IsTool(tool), NEW fate, NEW place \in {"command", "poll", "done"}
  PROVE  LET t == Tried(tool, fate, place)
         IN  /\ IsTool(t) /\ t.todo = tool.todo /\ t.buf = tool.buf /\ t.said = tool.said /\ t.nacks = tool.nacks
             /\ \/ t.at = tool.at /\ fate # "arrives" /\ t.unnoticed = tool.unnoticed
                \/ t.at = place /\ t.unnoticed = (tool.unnoticed \/ fate # "arrives")
<1>1. CASE fate # "arrives" /\ tool.tries < EC_DEFAULTRETRIES
  <2>1. Tried(tool, fate, place) = [tool EXCEPT !.tries = tool.tries + 1] /\ tool.tries + 1 \in 0 .. EC_DEFAULTRETRIES
    BY <1>1, Sizes DEF Tried, IsTool
  <2> QED
    BY <1>1, <2>1 DEF IsTool
<1>2. CASE ~(fate # "arrives" /\ tool.tries < EC_DEFAULTRETRIES)
  <2>1. Tried(tool, fate, place) =
          [tool EXCEPT !.at = place, !.tries = 0, !.unnoticed = tool.unnoticed \/ fate # "arrives"]
    BY <1>2 DEF Tried
  <2> QED
    BY <2>1, Sizes DEF IsTool
<1> QED
  BY <1>1, <1>2

LEMMA DataKept ==
  ASSUME Devs, ToolInv, NEW fate, SendData(fate)
  PROVE  ToolInv'
<1>0. at.proc = "tool" /\ tool.todo # <<>> /\ Access.op = "write" /\ tool.at = "data" /\ UNCHANGED <<plan, at>>
  BY DEF SendData, Accessing, Elsewhere
<1>1. Remains(tool.todo) /\ (~tool.unnoticed => Sound) /\ IsTool(tool) /\ IsRom(rom) /\ tool.nacks <= 2
  BY <1>0 DEF ToolInv
<1>2. left # Len(Backward(plan.mode)) /\ Access.word \in RomWords
  BY <1>0, Firsts
<1>3. /\ IsTool(tool') /\ tool'.todo = tool.todo /\ tool'.buf = tool.buf /\ tool'.said = tool.said /\ tool'.nacks = tool.nacks
      /\ \/ tool'.at = tool.at /\ fate # "arrives" /\ tool'.unnoticed = tool.unnoticed
         \/ tool'.at = "command" /\ tool'.unnoticed = (tool.unnoticed \/ fate # "arrives")
  <2> DEFINE t == Tried(tool, fate, "command")
  <2>1. /\ IsTool(t) /\ t.todo = tool.todo /\ t.buf = tool.buf /\ t.said = tool.said /\ t.nacks = tool.nacks
        /\ \/ t.at = tool.at /\ fate # "arrives" /\ t.unnoticed = tool.unnoticed
           \/ t.at = "command" /\ t.unnoticed = (tool.unnoticed \/ fate # "arrives")
    BY <1>1, Tries
  <2>2. tool' = t
    BY DEF SendData
  <2> HIDE DEF t
  <2> QED
    BY <2>1, <2>2
<1>4. rom' = IF Taken(fate) THEN [rom EXCEPT !.data = Asked(Access.word)] ELSE rom
  BY DEF SendData
<1>5. /\ IsRom(rom') /\ rom'.cells = rom.cells /\ rom'.command = rom.command /\ rom'.word = rom.word
      /\ rom'.master = rom.master /\ rom'.nack = rom.nack
      /\ rom'.data = IF Taken(fate) THEN Asked(Access.word) ELSE rom.data
  BY <1>1, <1>4 DEF IsRom
<1>6. Access' = Access /\ left' = left
  BY <1>3 DEF Access, left
<1>A. \A w \in RomWords : Asked(w)' = Asked(w)
  BY <1>0, <1>3, AskedSame
<1>7. Standing'
  BY <1>0, <1>3, <1>6 DEF Standing
<1>8. ASSUME ~tool'.unnoticed PROVE ~tool.unnoticed /\ Commanding' /\ Obtained'
  <2>0. ~tool.unnoticed /\ (tool'.at = "data" \/ (tool'.at = "command" /\ fate = "arrives"))
    BY <1>0, <1>1, <1>3, <1>8
  <2>1. Commanding /\ rom.word \in RomWords
    BY <2>0, <1>1 DEF Sound, IsRom
  <2>2. rom.master /\ (Taken(fate) => rom.command = "none") /\ (fate = "arrives" /\ rom.command = "none" => Taken(fate))
    BY <2>1, <1>2 DEF Commanding, Taken
  <2>3. tool'.at = "command" => rom'.data = Asked(Access.word)
    <3>1. CASE rom.command = "none"
      BY <3>1, <2>0, <2>2, <1>5
    <3>2. CASE rom.command # "none"
      BY <3>2, <2>1, <2>2, <1>0, <1>5 DEF Commanding
    <3> QED
      BY <3>1, <3>2
  <2>4. rom'.command = "write" => /\ plan'.mode # "info" /\ rom'.data = Asked(rom.word)'
                                  /\ plan'.mode = "alias" => rom'.word # 0 /\ left' < 5
    BY <2>1, <2>2, <1>0, <1>5, <1>6, <1>A DEF Commanding
  <2>5. rom.command # "none" => rom.command = Access.op /\ rom.word = Access.word
    BY <2>1, <1>0 DEF Commanding
  <2>6. Commanding'
    BY <2>0, <2>2, <2>3, <2>4, <2>5, <1>0, <1>2, <1>5, <1>6, <1>A DEF Commanding
  <2>7. Obtained'
    BY <2>0 DEF Obtained
  <2> QED
    BY <2>0, <2>6, <2>7
<1>9. tool'.unnoticed \/ (~tool.unnoticed /\ Commanding' /\ Obtained' /\ rom'.cells = rom.cells)
  BY <1>5, <1>8
<1>10. tool'.at # "done" /\ tool'.nacks <= 2
  BY <1>0, <1>1, <1>3
<1> QED
  BY <1>0, <1>3, <1>5, <1>7, <1>9, <1>10, Stays

LEMMA CommandKept ==
  ASSUME Devs, ToolInv, NEW fate, SendCommand(fate)
  PROVE  ToolInv'
<1>0. at.proc = "tool" /\ tool.todo # <<>> /\ Access.op \in {"read", "write"} /\ tool.at = "command" /\ UNCHANGED <<plan, at>>
  BY DEF SendCommand, Accessing, Elsewhere
<1>1. Remains(tool.todo) /\ (~tool.unnoticed => Sound) /\ IsTool(tool) /\ IsRom(rom) /\ tool.nacks <= 2
  BY <1>0 DEF ToolInv
<1>2. /\ left # Len(Backward(plan.mode)) /\ Access.word \in RomWords
      /\ Access.op = "write" => plan.mode # "info" /\ (plan.mode = "alias" => Access.word # 0 /\ left < 5)
  BY <1>0, Firsts
<1>3. /\ IsTool(tool') /\ tool'.todo = tool.todo /\ tool'.buf = tool.buf /\ tool'.said = tool.said /\ tool'.nacks = tool.nacks
      /\ \/ tool'.at = tool.at /\ fate # "arrives" /\ tool'.unnoticed = tool.unnoticed
         \/ tool'.at = "poll" /\ tool'.unnoticed = (tool.unnoticed \/ fate # "arrives")
  <2> DEFINE t == Tried(tool, fate, "poll")
  <2>1. /\ IsTool(t) /\ t.todo = tool.todo /\ t.buf = tool.buf /\ t.said = tool.said /\ t.nacks = tool.nacks
        /\ \/ t.at = tool.at /\ fate # "arrives" /\ t.unnoticed = tool.unnoticed
           \/ t.at = "poll" /\ t.unnoticed = (tool.unnoticed \/ fate # "arrives")
    BY <1>1, Tries
  <2>2. tool' = t
    BY DEF SendCommand
  <2> HIDE DEF t
  <2> QED
    BY <2>1, <2>2
<1>4. rom' = IF Taken(fate) THEN [rom EXCEPT !.command = Access.op, !.word = Access.word, !.nack = FALSE] ELSE rom
  BY DEF SendCommand
<1>5. /\ IsRom(rom') /\ rom'.cells = rom.cells /\ rom'.data = rom.data /\ rom'.master = rom.master
      /\ Taken(fate) => rom'.command = Access.op /\ rom'.word = Access.word
      /\ ~Taken(fate) => rom'.command = rom.command /\ rom'.word = rom.word
  BY <1>0, <1>1, <1>2, <1>4 DEF IsRom
<1>6. Access' = Access /\ left' = left
  BY <1>3 DEF Access, left
<1>A. \A w \in RomWords : Asked(w)' = Asked(w)
  BY <1>0, <1>3, AskedSame
<1>7. Standing'
  BY <1>0, <1>3, <1>6 DEF Standing
<1>8. ASSUME ~tool'.unnoticed PROVE ~tool.unnoticed /\ Commanding' /\ Obtained'
  <2>0. ~tool.unnoticed /\ (tool'.at = "command" \/ (tool'.at = "poll" /\ fate = "arrives"))
    BY <1>0, <1>1, <1>3, <1>8
  <2>1. Commanding /\ rom.word \in RomWords /\ rom.command \in {"none", "read", "write"}
    BY <2>0, <1>1 DEF Sound, IsRom
  <2>2. rom.master /\ (Taken(fate) => rom.command = "none") /\ (fate = "arrives" /\ rom.command = "none" => Taken(fate))
    BY <2>1, <1>2 DEF Commanding, Taken
  <2>3. /\ rom.command # "none" => rom.command = Access.op /\ rom.word = Access.word
        /\ Access.op = "write" => rom.data = Asked(Access.word)
    BY <2>1, <1>0 DEF Commanding
  <2>4. rom'.command # "none" => rom'.command = Access.op /\ rom'.word = Access.word
    BY <2>1, <2>3, <1>5
  <2>5. rom'.command = "write" => /\ plan'.mode # "info" /\ rom'.data = Asked(Access.word)
                                  /\ plan'.mode = "alias" => rom'.word # 0 /\ left' < 5
    BY <2>3, <2>4, <1>0, <1>2, <1>5, <1>6
  <2>6. Commanding'
    <3>0. Asked(Access.word)' = Asked(Access.word)
      BY <1>0, <1>3, <1>6 DEF Asked
    <3>1. rom'.command = "write" => rom'.word = Access.word /\ rom'.data = Asked(Access.word)'
      BY <2>4, <2>5, <3>0
    <3>2. rom'.command = "write" => rom'.data = Asked(rom.word)'
      <4>1. ASSUME rom'.command = "write" PROVE Asked(rom.word)' = Asked(Access.word)'
        <5>1. rom'.word = Access'.word
          BY <4>1, <3>1, <1>6
        <5> QED
          BY <5>1 DEF Asked
      <4> QED
        BY <4>1, <3>1, <1>6
    <3>3. Access.op = "write" => rom'.data = Asked(Access.word)'
      BY <2>3, <1>2, <1>5, <1>6, <1>A
    <3> QED
      BY <2>0, <2>2, <2>4, <2>5, <3>2, <3>3, <1>5, <1>6 DEF Commanding
  <2>7. Obtained'
    <3>1. tool'.at = "poll" => rom'.command # "none"
      BY <2>0, <2>1, <2>2, <1>0, <1>5
    <3> QED
      BY <3>1, <2>0 DEF Obtained
  <2> QED
    BY <2>0, <2>6, <2>7
<1>9. tool'.unnoticed \/ (~tool.unnoticed /\ Commanding' /\ Obtained' /\ rom'.cells = rom.cells)
  BY <1>5, <1>8
<1>10. tool'.at # "done" /\ tool'.nacks <= 2
  BY <1>0, <1>1, <1>3
<1> QED
  BY <1>0, <1>3, <1>5, <1>7, <1>9, <1>10, Stays

LEMMA FetchKept ==
  ASSUME Devs, ToolInv, NEW fate, Fetch(fate)
  PROVE  ToolInv'
<1>0. at.proc = "tool" /\ tool.todo # <<>> /\ Access.op = "read" /\ tool.at = "fetch" /\ UNCHANGED <<rom, plan, at>>
  BY DEF Fetch, Accessing, Elsewhere
<1>1. Remains(tool.todo) /\ Standing /\ (~tool.unnoticed => Sound) /\ IsTool(tool) /\ IsRom(rom) /\ tool.nacks <= 2
  BY <1>0 DEF ToolInv
<1>2. Access.word \in RomWords
  BY <1>0, Firsts
<1> DEFINE t == Tried(tool, fate, "done")
           e == [t EXCEPT !.buf[Access.word] = IF fate = "arrives" THEN rom.data ELSE 0]
<1>3. tool' = IF t.at # "done" THEN t ELSE Ended(e, fate = "arrives")
  BY DEF Fetch
<1>4. /\ IsTool(t) /\ t.todo = tool.todo /\ t.buf = tool.buf /\ t.said = tool.said /\ t.nacks = tool.nacks
      /\ \/ t.at = tool.at /\ fate # "arrives" /\ t.unnoticed = tool.unnoticed
         \/ t.at = "done" /\ t.unnoticed = (tool.unnoticed \/ fate # "arrives")
  BY <1>1, Tries
<1> HIDE DEF t
<1>5. CASE t.at # "done"
  <2>1. tool' = t /\ t.at = "fetch" /\ t.unnoticed = tool.unnoticed
    BY <1>0, <1>3, <1>4, <1>5
  <2>2. Access' = Access /\ left' = left
    BY <1>4, <2>1 DEF Access, left
  <2>3. Standing'
    BY <1>0, <1>4, <2>1, <2>2 DEF Standing
  <2>4. ASSUME ~tool.unnoticed PROVE Commanding' /\ Obtained'
    <3>1. Commanding /\ Obtained /\ rom.command = "none"
      BY <1>0, <1>1, <2>4 DEF Sound, Commanding
    <3>2. Commanding'
      BY <3>1, <1>0, <2>1, <2>2 DEF Commanding
    <3>3. Obtained'
      BY <3>1, <1>0, <2>1, <2>2 DEF Obtained
    <3> QED
      BY <3>2, <3>3
  <2>5. tool'.unnoticed \/ (~tool.unnoticed /\ Commanding' /\ Obtained' /\ rom'.cells = rom.cells)
    BY <1>0, <1>1, <2>1, <2>4 DEF IsTool
  <2>6. IsTool(tool') /\ tool'.at # "done" /\ tool'.nacks <= 2 /\ tool'.todo = tool.todo /\ tool'.buf = tool.buf
        /\ tool'.said = tool.said /\ IsRom(rom')
    BY <1>0, <1>1, <1>4, <2>1
  <2> QED
    BY <1>0, <2>3, <2>5, <2>6, Stays
<1>6. CASE t.at = "done"
  <2> DEFINE ok == fate = "arrives"
  <2>1. t.unnoticed = (tool.unnoticed \/ ~ok)
    BY <1>0, <1>4, <1>6
  <2>2. e.todo = tool.todo /\ e.said = tool.said /\ e.unnoticed = t.unnoticed
        /\ e.buf = [tool.buf EXCEPT ![Access.word] = IF ok THEN rom.data ELSE 0]
    BY <1>4 DEF IsTool
  <2>3. IsTool(e)
    BY <1>4 DEF IsTool
  <2>4. tool' = Ended(e, ok) /\ ok \in BOOLEAN
    BY <1>3, <1>6
  <2> HIDE DEF e
  <2>5. ~tool.unnoticed => rom.command = "none" /\ rom.data = rom.cells[Access.word]
    BY <1>0, <1>1 DEF Sound, Commanding, Obtained
  <2>6. ok /\ ~tool.unnoticed => rom.command = "none" /\ e.buf = [tool.buf EXCEPT ![Access.word] = rom.cells[Access.word]]
    BY <2>2, <2>5
  <2>7. tool.unnoticed => e.unnoticed
    BY <2>1, <2>2
  <2>8. e.unnoticed => tool.unnoticed \/ (~ok /\ Access.op = "read")
    BY <2>1, <2>2, <1>0
  <2>9. Access.op # "force" /\ Access.op # "write"
    BY <1>0
  <2>10. e.todo = tool.todo /\ e.said = tool.said
    BY <2>2
  <2> HIDE DEF ok
  <2> QED
    BY <1>0, <2>3, <2>4, <2>6, <2>7, <2>8, <2>9, <2>10, Over
<1> QED
  BY <1>5, <1>6

\* The access at hand goes to another place while the EEPROM waits or works.
LEMMA Moved ==
  ASSUME Devs, ToolInv, at.proc = "tool", tool.todo # <<>>, Access.op # "force", UNCHANGED <<plan, at, rom>>,
         NEW place \in {"clear", First, "fetch"}, place = "fetch" => Access.op = "read",
         NEW nacks \in 0 .. 2, NEW tries \in {0, tool.tries},
         tool' = [tool EXCEPT !.at = place, !.nacks = nacks, !.tries = tries],
         ~tool.unnoticed => /\ place \in {"clear", "fetch"} => rom.command = "none"
                            /\ place = "fetch" => rom.data = rom.cells[Access.word]
                            /\ rom.command # "none" => rom.command = Access.op /\ rom.word = Access.word
  PROVE  ToolInv'
<1>1. Remains(tool.todo) /\ (~tool.unnoticed => Sound) /\ IsTool(tool) /\ IsRom(rom)
  BY DEF ToolInv
<1>2. First \in {"data", "command"} /\ (First = "data" <=> Access.op = "write") /\ Access.op \in {"read", "write"}
  BY Firsts
<1>3. place \in {"clear", "data", "command", "fetch"}
  BY <1>2
<1>4. /\ IsTool(tool') /\ tool'.at = place /\ tool'.todo = tool.todo /\ tool'.buf = tool.buf /\ tool'.said = tool.said
      /\ tool'.unnoticed = tool.unnoticed /\ tool'.nacks = nacks
  BY <1>1, <1>3, Sizes DEF IsTool
<1>5. Access' = Access /\ left' = left
  BY <1>4 DEF Access, left
<1>6. Standing'
  BY <1>2, <1>4, <1>5 DEF Standing
<1>7. ASSUME ~tool.unnoticed PROVE Commanding' /\ Obtained'
  <2>1. Commanding
    BY <1>1, <1>7 DEF Sound
  <2>2. \A w \in RomWords : Asked(w)' = Asked(w)
    BY <1>4, AskedSame
  <2>3. rom.word \in RomWords /\ (place = "command" => Access.op # "write")
    BY <1>1, <1>2 DEF IsRom
  <2>4. rom'.command = "write" => /\ plan'.mode # "info" /\ rom'.data = Asked(rom.word)'
                                  /\ plan'.mode = "alias" => rom'.word # 0 /\ left' < 5
    BY <2>1, <2>2, <2>3, <1>5 DEF Commanding
  <2>5. Commanding'
    BY <2>1, <2>3, <2>4, <1>3, <1>4, <1>5, <1>7 DEF Commanding
  <2>6. Obtained'
    BY <1>3, <1>4, <1>5, <1>7 DEF Obtained
  <2> QED
    BY <2>5, <2>6
<1>8. tool'.unnoticed \/ (~tool.unnoticed /\ Commanding' /\ Obtained' /\ rom'.cells = rom.cells)
  BY <1>1, <1>4, <1>7 DEF IsTool
<1>9. tool'.at # "done" /\ tool'.nacks <= 2 /\ IsRom(rom')
  BY <1>1, <1>3, <1>4
<1> QED
  BY <1>4, <1>6, <1>8, <1>9, Stays

\* The access is given up, or comes to its end, as it is.
LEMMA OverNow ==
  ASSUME Devs, ToolInv, at.proc = "tool", tool.todo # <<>>, Access.op # "force", UNCHANGED <<rom, plan, at>>,
         NEW ok \in BOOLEAN, NEW t \in {tool, [tool EXCEPT !.nacks = 3]}, tool' = Ended(t, ok),
         ok => Access.op = "write",
         ok /\ ~tool.unnoticed => rom.command = "none" /\ rom.cells[Access.word] = Asked(Access.word),
         ~ok /\ Access.op = "write" /\ ~tool.unnoticed => rom.command # "read"
  PROVE  ToolInv'
<1>1. IsTool(tool)
  BY DEF ToolInv
<1>2. IsTool(t) /\ t.todo = tool.todo /\ t.said = tool.said /\ t.buf = tool.buf /\ t.unnoticed = tool.unnoticed
  BY <1>1 DEF IsTool
<1>3. tool' = Ended(t, ok)
  OBVIOUS
<1>4. tool.unnoticed => t.unnoticed
  BY <1>2
<1>5. t.unnoticed => tool.unnoticed \/ (~ok /\ Access.op = "read")
  BY <1>2
<1>6. ok /\ Access.op = "write" =>
        t.buf = tool.buf /\ (~tool.unnoticed => rom.command = "none" /\ rom.cells[Access.word] = Asked(Access.word))
  BY <1>2
<1>7. ~ok /\ Access.op = "write" => t.buf = tool.buf /\ (~tool.unnoticed => rom.command # "read")
  BY <1>2
<1>8. ~(ok /\ Access.op = "read" /\ ~tool.unnoticed)
  OBVIOUS
<1>9. t.todo = tool.todo /\ t.said = tool.said
  BY <1>2
<1> QED
  BY <1>2, <1>3, <1>4, <1>5, <1>6, <1>7, <1>8, <1>9, Over

LEMMA WaitKept ==
  ASSUME Devs, ToolInv, WaitNotBusy
  PROVE  ToolInv'
<1>0. /\ at.proc = "tool" /\ tool.todo # <<>> /\ Access.op \in {"read", "write"} /\ tool.at \in {"wait", "poll"}
      /\ UNCHANGED <<plan, at, rom>>
  BY DEF WaitNotBusy, Accessing, Elsewhere
<1>1. Remains(tool.todo) /\ (~tool.unnoticed => Sound) /\ IsTool(tool) /\ IsRom(rom) /\ tool.nacks \in 0 .. 2
  BY <1>0 DEF ToolInv, IsTool
<1>2. Access.op # "force" /\ First \in {"data", "command"} /\ (First = "data" <=> Access.op = "write")
  BY <1>0, Firsts
<1>3. DOMAIN tool = {"todo", "at", "tries", "nacks", "buf", "said", "unnoticed"} /\ tool.tries \in {0, tool.tries}
  BY <1>1 DEF IsTool
<1>4. ~tool.unnoticed =>
        /\ tool.at = "wait" => rom.command # "read"
        /\ tool.at = "poll" /\ rom.command # "none" => rom.command = Access.op /\ rom.word = Access.word
        /\ tool.at = "poll" /\ rom.command = "none" /\ ~rom.nack =>
             IF Access.op = "write" THEN rom.cells[Access.word] = Asked(Access.word)
             ELSE rom.data = rom.cells[Access.word]
  BY <1>1 DEF Sound, Commanding, Obtained
<1>5. CASE rom.command = "none" /\ tool' = Ready(tool, rom.nack)
  <2>0. rom.command = "none"
    BY <1>5
  <2>1. CASE tool.at = "wait"
    <3>1. PICK place \in {"clear", First} : place = IF rom.nack THEN "clear" ELSE First
      OBVIOUS
    <3>2. tool' = [tool EXCEPT !.at = place]
      BY <1>5, <2>1, <3>1 DEF Ready
    <3>3. tool' = [tool EXCEPT !.at = place, !.nacks = tool.nacks, !.tries = tool.tries]
      BY <3>2, <1>3
    <3>4. place # "fetch"
      BY <3>1, <1>2
    <3> QED
      BY <3>1, <3>3, <3>4, <1>0, <1>1, <1>2, <1>3, <1>5, Moved
  <2>2. CASE tool.at = "poll" /\ rom.nack
    <3>1. PICK nacks \in 1 .. 3 : nacks = tool.nacks + 1
      BY <1>1
    <3> DEFINE t == [tool EXCEPT !.nacks = nacks]
    <3>2. tool' = Again(t) /\ t.nacks = nacks
      BY <1>3, <1>5, <2>2, <3>1 DEF Ready
    <3>3. CASE nacks \in 1 .. 2
      <4>1. tool' = [t EXCEPT !.at = First, !.tries = 0]
        BY <3>2, <3>3 DEF Again
      <4>2. tool' = [tool EXCEPT !.at = First, !.nacks = nacks, !.tries = 0]
        BY <4>1
      <4>3. nacks \in 0 .. 2 /\ First # "fetch" /\ First # "clear"
        BY <3>3, <1>2
      <4> QED
        BY <3>3, <4>2, <4>3, <1>0, <1>2, <2>0, Moved
    <3>4. CASE nacks = 3
      <4>1. tool' = Ended([tool EXCEPT !.nacks = 3], FALSE)
        BY <3>2, <3>4 DEF Again
      <4>2. FALSE \in BOOLEAN
        OBVIOUS
      <4> QED
        BY <4>1, <4>2, <1>0, <1>2, <2>0, OverNow
    <3> QED
      BY <3>3, <3>4
  <2>3. CASE tool.at = "poll" /\ ~rom.nack /\ Access.op = "write"
    <3>1. tool' = Ended(tool, TRUE)
      BY <1>5, <2>3 DEF Ready
    <3>2. TRUE \in BOOLEAN
      OBVIOUS
    <3> QED
      BY <3>1, <3>2, <1>0, <1>2, <1>4, <2>0, <2>3, OverNow
  <2>4. CASE tool.at = "poll" /\ ~rom.nack /\ Access.op = "read"
    <3>1. tool' = [tool EXCEPT !.nacks = 0, !.at = "fetch", !.tries = 0]
      BY <1>5, <2>4 DEF Ready
    <3>2. tool' = [tool EXCEPT !.at = "fetch", !.nacks = 0, !.tries = 0]
      BY <3>1
    <3>3. ~tool.unnoticed => rom.data = rom.cells[Access.word]
      BY <1>4, <1>5, <2>4
    <3> QED
      BY <3>2, <3>3, <1>0, <1>2, <1>5, <2>4, Moved
  <2> QED
    BY <1>0, <1>1, <2>1, <2>2, <2>3, <2>4 DEF IsRom
<1>6. CASE rom.command # "none" /\ tool' = IF tool.at = "wait" THEN Ended(tool, FALSE) ELSE Again(tool)
  <2>1. CASE tool.at = "poll" /\ tool.nacks \in 1 .. 2
    <3>1. tool' = [tool EXCEPT !.at = First, !.tries = 0]
      BY <1>6, <2>1 DEF Again
    <3>2. tool' = [tool EXCEPT !.at = First, !.nacks = tool.nacks, !.tries = 0]
      BY <3>1, <1>3
    <3>3. First # "fetch" /\ First # "clear"
      BY <1>2
    <3> QED
      BY <3>2, <3>3, <1>0, <1>1, <1>2, <1>4, <2>1, Moved
  <2>2. CASE ~(tool.at = "poll" /\ tool.nacks \in 1 .. 2)
    <3>1. tool' = Ended(tool, FALSE)
      BY <1>0, <1>6, <2>2 DEF Again
    <3>2. FALSE \in BOOLEAN
      OBVIOUS
    <3>3. Access.op = "write" /\ ~tool.unnoticed => rom.command # "read"
      BY <1>0, <1>4, <1>6
    <3> QED
      BY <3>1, <3>2, <3>3, <1>0, <1>2, OverNow
  <2> QED
    BY <2>1, <2>2
<1>7. CASE tool' = [Ready(tool, FALSE) EXCEPT !.unnoticed = TRUE]
  <2>1. ASSUME IsTool(tool'), tool'.unnoticed, Remains(tool'.todo), Standing', tool'.at # "done", tool'.nacks <= 2
        PROVE  ToolInv'
    <3>1. IsTool(tool)' /\ IsRom(rom)' /\ Remains(tool.todo)'
      BY <2>1, <1>0, <1>1 DEF IsTool, IsRom, Remains
    <3> QED
      BY <2>1, <3>1, <1>0 DEF ToolInv
  <2>2. CASE tool.at = "poll" /\ Access.op = "write"
    <3> DEFINE e == Ended(tool, TRUE)
    <3>1. Ready(tool, FALSE) = e
      BY <2>2 DEF Ready
    <3>2. EndsAs(tool, e, TRUE)
      BY <1>0, <1>1, Endings, AccessIs
    <3> HIDE DEF e
    <3>3. tool' = [e EXCEPT !.unnoticed = TRUE]
      BY <1>7, <3>1
    <3>4. IsTool(e) /\ e.at = "wait" /\ e.nacks = 0 /\ e.todo = Tail(tool.todo)
      BY <3>2 DEF EndsAs
    <3>5. IsTool(tool') /\ tool'.at = "wait" /\ tool'.nacks = 0 /\ tool'.todo = Tail(tool.todo) /\ tool'.unnoticed
      BY <3>3, <3>4 DEF IsTool
    <3>6. Remains(Tail(tool.todo))
      BY <1>0, <1>1, RemainsLess
    <3>7. Standing'
      BY <3>5 DEF Standing
    <3> QED
      BY <2>1, <3>5, <3>6, <3>7
  <2>3. CASE tool.at = "wait" \/ Access.op = "read"
    <3>1. PICK place \in {First, "fetch"}, nacks \in 0 .. 2, tries \in {0, tool.tries} :
            Ready(tool, FALSE) = [tool EXCEPT !.at = place, !.nacks = nacks, !.tries = tries]
            /\ (place = "fetch" => Access.op = "read")
      <4>1. CASE tool.at = "wait"
        <5>1. Ready(tool, FALSE) = [tool EXCEPT !.at = First]
          BY <4>1 DEF Ready
        <5>2. Ready(tool, FALSE) = [tool EXCEPT !.at = First, !.nacks = tool.nacks, !.tries = tool.tries]
          BY <5>1, <1>3
        <5> QED
          BY <5>2, <1>1, <1>2
      <4>2. CASE tool.at = "poll" /\ Access.op = "read"
        <5>1. Ready(tool, FALSE) = [tool EXCEPT !.nacks = 0, !.at = "fetch", !.tries = 0]
          BY <4>2 DEF Ready
        <5>2. Ready(tool, FALSE) = [tool EXCEPT !.at = "fetch", !.nacks = 0, !.tries = 0]
          BY <5>1
        <5>3. "fetch" \in {First, "fetch"} /\ 0 \in 0 .. 2 /\ 0 \in {0, tool.tries}
          OBVIOUS
        <5> QED
          BY <4>2, <5>2, <5>3
      <4> QED
        BY <4>1, <4>2, <2>3, <1>0
    <3>2. tool' = [tool EXCEPT !.at = place, !.nacks = nacks, !.tries = tries, !.unnoticed = TRUE]
      BY <1>7, <3>1
    <3>3. IsTool(tool') /\ tool'.at = place /\ tool'.nacks = nacks /\ tool'.todo = tool.todo /\ tool'.unnoticed
      BY <3>2, <1>1, <1>2, Sizes DEF IsTool
    <3>4. Access' = Access
      BY <3>3 DEF Access
    <3>5. Standing'
      BY <3>1, <3>3, <3>4, <1>0, <1>2 DEF Standing
    <3> QED
      BY <2>1, <3>1, <3>3, <3>5, <1>1, <1>2
  <2> QED
    BY <2>2, <2>3, <1>0
<1> QED
  BY <1>5, <1>6, <1>7 DEF WaitNotBusy

\* The EEPROM does what it was told, or does not.
LEMMA RomKept ==
  ASSUME Devs, ToolInv, RomDone \/ RomNack
  PROVE  ToolInv'
<1>0. rom.command # "none" /\ UNCHANGED <<tool, plan, at>>
  BY DEF RomDone, RomNack, Elsewhere
<1>1. at.proc = "tool"
  BY <1>0 DEF ToolInv, NewRom
<1>2. Remains(tool.todo) /\ Standing /\ (~tool.unnoticed => Sound) /\ IsTool(tool) /\ IsRom(rom)
  BY <1>1 DEF ToolInv
<1>3. Remains(tool.todo)' /\ Standing' /\ IsTool(tool)' /\ Access' = Access /\ left' = left
  BY <1>0, <1>2 DEF Remains, Standing, IsTool, Access, left
<1>A. /\ \A w \in RomWords : Asked(w)' = Asked(w)
      /\ Asked(Access.word)' = Asked(Access.word)
  BY <1>0, <1>3 DEF Asked
<1>4. /\ IsRom(rom') /\ rom'.command = "none" /\ rom'.word = rom.word /\ rom'.master = rom.master
      /\ \/ rom.command = "write" /\ rom'.cells = [rom.cells EXCEPT ![rom.word] = rom.data]
            /\ rom'.data = rom.data /\ rom'.nack = rom.nack
         \/ rom.command = "read" /\ rom'.cells = rom.cells /\ rom'.data = rom.cells[rom.word] /\ rom'.nack = rom.nack
         \/ rom'.cells = rom.cells /\ rom'.data = rom.data /\ rom'.nack
  <2>1. CASE rom' = [rom EXCEPT !.command = "none", !.cells[rom.word] = rom.data] /\ rom.command = "write"
    BY <2>1, <1>2 DEF IsRom
  <2>2. CASE rom' = [rom EXCEPT !.command = "none", !.data = rom.cells[rom.word]] /\ rom.command = "read"
    BY <2>2, <1>2 DEF IsRom
  <2>3. CASE rom' = [rom EXCEPT !.command = "none", !.nack = TRUE]
    BY <2>3, <1>2 DEF IsRom
  <2>4. rom.command \in {"read", "write"}
    BY <1>0, <1>2 DEF IsRom
  <2> QED
    BY <2>1, <2>2, <2>3, <2>4 DEF RomDone, RomNack
<1>5. ASSUME ~tool.unnoticed PROVE Sound'
  <2>1. Commanding /\ Obtained /\ CellsTrue /\ AliasTrue
    BY <1>2, <1>5 DEF Sound
  <2>2. /\ rom.command = "write" =>
             /\ plan.mode # "info" /\ rom.data = Asked(rom.word)
             /\ plan.mode = "alias" => rom.word # 0 /\ left < 5
        /\ tool.at \in {"data", "command", "poll"} => rom.command = Access.op /\ rom.word = Access.word
        /\ tool.at \notin {"clear", "fetch"}
        /\ left # Len(Backward(plan.mode)) => rom.master
        /\ tool.at = "command" /\ Access.op = "write" => rom.data = Asked(Access.word)
        /\ rom.word \in RomWords /\ DOMAIN rom.cells = RomWords
    BY <2>1, <1>0, <1>2 DEF Commanding, IsRom
  <2>3. Commanding'
    <3>1. tool.at = "command" /\ Access.op = "write" => rom'.data = Asked(Access.word)
      BY <2>2, <1>4
    <3> QED
      BY <2>2, <3>1, <1>0, <1>3, <1>4, <1>A DEF Commanding
  <2>4. Obtained'
    <3>1. ASSUME tool.at = "poll", ~rom'.nack
          PROVE  IF Access.op = "write" THEN rom'.cells[Access.word] = Asked(Access.word)
                 ELSE rom'.data = rom'.cells[Access.word]
      BY <3>1, <2>2, <1>4
    <3> QED
      BY <2>2, <3>1, <1>0, <1>3, <1>A DEF Obtained
  <2>5. CellsTrue'
    <3>1. \A w \in RomWords : rom'.cells[w] = rom.cells[w] \/ rom'.cells[w] = Asked(w)
      BY <2>2, <1>4
    <3>2. tool.said \subseteq RomWords
      BY <1>2 DEF IsTool
    <3> QED
      BY <2>1, <3>1, <3>2, <1>0, <1>A DEF CellsTrue
  <2>6. AliasTrue'
    <3> SUFFICES ASSUME plan.mode = "alias"
                 PROVE  /\ left >= 5 => rom'.cells = OldCells /\ tool.said = {}
                        /\ left < 5 => tool.buf[0] = OldCells[0]
                        /\ rom'.cells[0] = OldCells[0]
                        /\ left = 1 \/ 7 \in tool.said => 4 \in tool.said
      BY <1>0, <1>3 DEF AliasTrue
    <3>1. /\ left >= 5 => rom.cells = OldCells /\ tool.said = {}
          /\ left < 5 => tool.buf[0] = OldCells[0]
          /\ rom.cells[0] = OldCells[0]
          /\ left = 1 \/ 7 \in tool.said => 4 \in tool.said
      BY <2>1 DEF AliasTrue
    <3>2. left >= 5 => rom'.cells = rom.cells
      <4>1. left \in Nat
        BY <1>2 DEF Remains, left
      <4> QED
        BY <4>1, <2>2, <1>4
    <3>3. rom'.cells[0] = rom.cells[0]
      BY <2>2, <1>4 DEF RomWords
    <3> QED
      BY <3>1, <3>2, <3>3
  <2> QED
    BY <2>3, <2>4, <2>5, <2>6 DEF Sound
<1>6. (~tool.unnoticed => Sound)' /\ IsRom(rom)'
  BY <1>0, <1>4, <1>5 DEF IsRom
<1> QED
  BY <1>0, <1>1, <1>3, <1>6 DEF ToolInv

\* The accesses of a mode, from the first one.
LEMMA AllRemain ==
  ASSUME Devs
  PROVE  LET t == NewTool(plan.mode)
         IN  IsTool(t) /\ t.at = "wait" /\ t.nacks = 0 /\ t.said = {} /\ Remains(t.todo) /\ Len(t.todo) = Len(Backward(plan.mode))
<1> DEFINE t == NewTool(plan.mode)
<1>1. Forcing \in Accesses /\ \A w \in RomWords : Reading(w) \in Accesses /\ Writing(w) \in Accesses
  BY DEF Forcing, Reading, Writing, Accesses, RomWords
<1>2. t.todo \in Seq(Accesses) /\ Len(t.todo) = Len(Backward(plan.mode))
      /\ \A i \in 1 .. Len(t.todo) : t.todo[i] = Backward(plan.mode)[Len(t.todo) + 1 - i]
  <2>1. CASE plan.mode = "info"
    <3>1. t.todo = <<Forcing, Reading(0), Reading(4)>> /\ Backward(plan.mode) = <<Reading(4), Reading(0), Forcing>>
      BY <2>1 DEF NewTool, eeprom_read, Backward
    <3> QED
      BY <3>1, <1>1 DEF RomWords
  <2>2. CASE plan.mode = "write"
    <3>1. t.todo = <<Forcing, Writing(0), Writing(4), Writing(7)>>
          /\ Backward(plan.mode) = <<Writing(7), Writing(4), Writing(0), Forcing>>
      BY <2>2 DEF NewTool, eeprom_write, Backward
    <3> QED
      BY <3>1, <1>1 DEF RomWords
  <2>3. CASE plan.mode = "alias"
    <3>1. t.todo = <<Forcing, Reading(0), Reading(4)>> \o <<Forcing, Writing(4), Writing(7)>>
          /\ Backward(plan.mode) = <<Writing(7), Writing(4), Forcing, Reading(4), Reading(0), Forcing>>
      BY <2>3 DEF NewTool, eeprom_read, eeprom_writealias, Backward
    <3>2. <<Forcing, Reading(0), Reading(4)>> \in Seq(Accesses) /\ <<Forcing, Writing(4), Writing(7)>> \in Seq(Accesses)
      BY <1>1 DEF RomWords
    <3>3. t.todo \in Seq(Accesses) /\ Len(t.todo) = 6
          /\ t.todo[1] = Forcing /\ t.todo[2] = Reading(0) /\ t.todo[3] = Reading(4)
          /\ t.todo[4] = Forcing /\ t.todo[5] = Writing(4) /\ t.todo[6] = Writing(7)
      BY <3>1, <3>2
    <3> HIDE DEF t
    <3> QED
      BY <3>1, <3>3
  <2> QED
    BY <2>1, <2>2, <2>3, Modes
<1>3. /\ DOMAIN t = {"todo", "at", "tries", "nacks", "buf", "said", "unnoticed"}
      /\ t.at = "wait" /\ t.tries = 0 /\ t.nacks = 0 /\ DOMAIN t.buf = {0, 4} /\ t.said = {} /\ t.unnoticed \in BOOLEAN
  BY DEF NewTool
<1> HIDE DEF t
<1>4. IsTool(t)
  <2>1. t.tries \in 0 .. EC_DEFAULTRETRIES /\ t.nacks \in 0 .. 3 /\ t.said \in SUBSET RomWords
    BY <1>3, Sizes
  <2> QED
    BY <1>2, <1>3, <2>1 DEF IsTool
<1>5. Remains(t.todo)
  <2>1. Len(t.todo) \in Nat
    BY <1>2
  <2> QED
    BY <1>2, <2>1 DEF Remains
<1>6. IsTool(t) /\ t.at = "wait" /\ t.nacks = 0 /\ t.said = {} /\ Remains(t.todo)
      /\ Len(t.todo) = Len(Backward(plan.mode))
  BY <1>2, <1>3, <1>4, <1>5
<1> QED
  BY <1>6 DEF t

LEMMA StartKept ==
  ASSUME Devs, ToolInv, StartTool
  PROVE  ToolInv'
<1> DEFINE t == NewTool(plan.mode)
<1>1. at.proc # "tool" /\ at'.proc = "tool" /\ UNCHANGED <<plan, rom>> /\ tool' = t
  BY DEF StartTool, Does, GoTo, Return
<1>2. IsTool(t) /\ t.at = "wait" /\ t.nacks = 0 /\ t.said = {} /\ Remains(t.todo) /\ Len(t.todo) = Len(Backward(plan.mode))
  BY AllRemain
<1> HIDE DEF t
<1>3. rom = NewRom /\ IsRom(rom)
  BY <1>1 DEF ToolInv
<1>4. /\ rom.cells = OldCells /\ rom.command = "none"
  BY <1>3 DEF NewRom
<1>5. Standing' /\ left' = Len(Backward(plan.mode))
  BY <1>1, <1>2 DEF Standing, left
<1>6. Sound'
  <2>1. Commanding'
    BY <1>1, <1>2, <1>4, <1>5 DEF Commanding
  <2>2. Obtained'
    BY <1>1, <1>2 DEF Obtained
  <2>3. CellsTrue'
    BY <1>1, <1>2, <1>4 DEF CellsTrue
  <2>4. AliasTrue'
    <3>1. CASE plan.mode = "alias"
      <4>1. left' = 6
        BY <3>1, <1>5 DEF Backward
      <4> QED
        BY <4>1, <1>1, <1>2, <1>4 DEF AliasTrue
    <3>2. CASE plan.mode # "alias"
      BY <3>2, <1>1 DEF AliasTrue
    <3> QED
      BY <3>1, <3>2
  <2> QED
    BY <2>1, <2>2, <2>3, <2>4 DEF Sound
<1>7. IsTool(tool)' /\ IsRom(rom)' /\ Remains(tool.todo)'
  BY <1>1, <1>2, <1>3 DEF IsTool, IsRom, Remains
<1> QED
  BY <1>1, <1>2, <1>5, <1>6, <1>7 DEF ToolInv

\* Nothing else touches the tool or its EEPROM.
LEMMA OthersKeepTool ==
  ASSUME Devs, ToolInv, UNCHANGED <<tool, rom, plan>>, at'.proc = "tool" <=> at.proc = "tool"
  PROVE  ToolInv'
<1>1. IsTool(tool)' /\ IsRom(rom)' /\ Remains(tool.todo)' = Remains(tool.todo) /\ Standing' = Standing
  BY DEF ToolInv, IsTool, IsRom, Remains, Standing, Access
<1>2. Sound' = Sound
  BY DEF Sound, Commanding, Obtained, CellsTrue, AliasTrue, left, Access, Asked
<1> QED
  BY <1>1, <1>2 DEF ToolInv

LEMMA ToolKept ==
  ASSUME Flow, Devs, ToolInv, Next
  PROVE  ToolInv'
<1>1. CASE eepromtool
  BY <1>1, StartKept, WaitKept, ForceKept, ClearKept, DataKept, CommandKept, FetchKept DEF eepromtool
<1>2. CASE RomDone \/ RomNack
  BY <1>2, RomKept
<1>3. CASE ecatthread /\ UNCHANGED toolvars
  <2>1. UNCHANGED <<tool, rom, plan, at>>
    BY <1>3 DEF toolvars, ecatthread, Pass, Command, DriveFault, vars, mapvars, netvars
  <2> QED
    BY <2>1, OthersKeepTool
<1>4. ASSUME Rest, UNCHANGED plan, at.proc # "tool" /\ at'.proc # "tool" PROVE ToolInv'
  BY <1>4, OthersKeepTool DEF Rest, toolvars
<1>R. at = [proc |-> at.proc, s |-> at.s, pc |-> at.pc] /\ Return # "tool"
  BY DEF Flow, Places, Return
<1>G. \A proc, s : GoOn(proc, s) => at'.proc = proc
  BY <1>R DEF GoOn
<1>5. ASSUME ecx_config_init PROVE at.proc # "tool" /\ at'.proc # "tool"
  <2>1. ASSUME NEW s \in Slaves, Address(s) \/ CopySii(s) \/ ReadSii(s) \/ Program(s)
        PROVE  at.proc # "tool" /\ at'.proc # "tool"
    <3>1. CASE Address(s)
      BY <3>1, <1>G, <1>R DEF Address, Onward, Go
    <3>2. CASE CopySii(s)
      BY <3>2, <1>G, <1>R DEF CopySii
    <3>3. CASE ReadSii(s)
      BY <3>3, <1>G, <1>R DEF ReadSii
    <3>4. CASE Program(s)
      BY <3>4, <1>G, <1>R DEF Program, Go
    <3> QED
      BY <2>1, <3>1, <3>2, <3>3, <3>4
  <2>2. ASSUME ecx_detect_slaves \/ ecx_set_slaves_to_default \/ TakeManuf \/ TakeId
        PROVE  at.proc # "tool" /\ at'.proc # "tool"
    BY <2>2, <1>G DEF ecx_detect_slaves, ecx_set_slaves_to_default, TakeManuf, TakeId, Took, Onward, Go
  <2>3. ASSUME TakeRev \/ TakeRxMailbox \/ TakeLinks \/ TakeMailbox
        PROVE  at.proc # "tool" /\ at'.proc # "tool"
    BY <2>3, <1>G DEF TakeRev, TakeRxMailbox, TakeLinks, TakeMailbox, Took, Onward, Go
  <2> QED
    BY <1>5, <2>1, <2>2, <2>3 DEF ecx_config_init
<1>6. ASSUME ecx_config_map PROVE at.proc # "tool" /\ at'.proc # "tool"
  <2>1. ASSUME NEW s \in Slaves, MapCoe(s) \/ MapSii(s) \/ MapFmmus(s) \/ ConfigDc(s)
        PROVE  at.proc # "tool" /\ at'.proc # "tool"
    BY <2>1, <1>G, <1>R DEF MapCoe, MapSii, MapFmmus, ConfigDc, Onward, Go
  <2> QED
    BY <1>6, <2>1 DEF ecx_config_map
<1>7. ASSUME erob_test PROVE at.proc # "tool" /\ at'.proc # "tool"
  <2>1. at.proc = Return
    BY <1>7 DEF erob_test, CallConfigInit, CallConfigMap, CallConfigDc, PreOpEach, PreOpAll, MapPdos, Assign, SetManual,
                Sync0, InPreOp, RequestSafeOp, RequestOp, Request, Watch, Control, Does
  <2>2. \E proc \in {"detect", "coe", "dc", "idle", "loop", "stopped", Return} : GoTo(proc) \/ GoOn(proc, 1)
    BY <1>7 DEF erob_test, CallConfigInit, CallConfigMap, CallConfigDc, PreOpEach, PreOpAll, MapPdos, Assign, SetManual,
                Sync0, InPreOp, RequestSafeOp, RequestOp, Request, Watch, Control, Continue, ContinueIf, Stop, Go
  <2> QED
    BY <2>1, <2>2, <1>G, <1>R DEF GoTo
<1>8. ASSUME ecatcheck PROVE at.proc # "tool" /\ at'.proc # "tool" /\ UNCHANGED plan
  <2>1. at.proc \in CheckProcs /\ UNCHANGED <<plan, inOP>>
    BY <1>8 DEF ecatcheck, StartCheck, ecx_readstate, ReadAll, ReadEach, LookOperational, LookElse, LookLost, LookError,
         LookSafeOp, Recheck, ecx_reconfig_slave, ReconfigInit, ReconfigPdi, ReconfigSm, ReconfigPreOp,
         ReconfigSafeOp, ReconfigFmmu, ecx_recover_slave, Probe, ClearTemp, CheckAlias, GiveTemp, LastAddress,
         CheckIdentity, CheckWord, Settled, CheckProcs
  <2>2. Flow'
    BY <1>8, CheckFlow
  <2>3. at'.proc \in CheckProcs
    BY <2>1, <2>2 DEF Flow
  <2> QED
    BY <2>1, <2>3 DEF CheckProcs
<1>9. ASSUME NEW fate, Cycle(fate) PROVE at.proc # "tool" /\ at'.proc # "tool" /\ UNCHANGED plan
  <2>1. inOP /\ UNCHANGED <<at, plan>>
    BY <1>9 DEF Cycle
  <2> QED
    BY <2>1 DEF Flow, CheckProcs
<1>10. ASSUME inOP, Environment, UnseenBy PROVE at.proc # "tool" /\ at'.proc # "tool" /\ UNCHANGED plan
  <2>1. inOP /\ UNCHANGED <<at, plan>>
    BY <1>10 DEF Environment, UnseenBy, PowerOff, PowerOn, Watchdog
  <2> QED
    BY <2>1 DEF Flow, CheckProcs
<1>11. CASE Rest /\ \/ ecx_config_init \/ ecx_config_map \/ erob_test \/ ecatcheck
                    \/ (\E fate : Cycle(fate)) \/ (inOP /\ Environment /\ UnseenBy)
  <2>1. ecx_config_init \/ ecx_config_map \/ erob_test => UNCHANGED plan
    BY ConfigTame, MapTame, TestTame DEF Untroubled
  <2>2. at.proc # "tool" /\ at'.proc # "tool" /\ UNCHANGED plan
    <3>1. CASE ecx_config_init \/ ecx_config_map \/ erob_test
      BY <3>1, <2>1, <1>5, <1>6, <1>7
    <3>2. CASE ~(ecx_config_init \/ ecx_config_map \/ erob_test)
      BY <3>2, <1>8, <1>9, <1>10, <1>11
    <3> QED
      BY <3>1, <3>2
  <2>3. Rest
    BY <1>11
  <2> QED
    BY <2>2, <2>3, <1>4
<1> QED
  BY <1>1, <1>2, <1>3, <1>11 DEF Next

\* ToolInv holds of a network at the start.
LEMMA InitTool ==
  ASSUME Init
  PROVE  ToolInv
<1>1. at.proc # "tool" /\ rom = NewRom /\ tool = NewTool("info")
  BY DEF Init, Return
<1>2. Reading(0) \in Accesses /\ Reading(4) \in Accesses /\ Forcing \in Accesses
  BY DEF Forcing, Reading, Accesses, RomWords
<1>3. <<Forcing, Reading(0), Reading(4)>> \in Seq(Accesses)
  BY <1>2
<1>4. /\ DOMAIN tool = {"todo", "at", "tries", "nacks", "buf", "said", "unnoticed"}
      /\ tool.todo = <<Forcing, Reading(0), Reading(4)>>
      /\ tool.at = "wait" /\ tool.tries = 0 /\ tool.nacks = 0 /\ DOMAIN tool.buf = {0, 4} /\ tool.said = {}
      /\ tool.unnoticed \in BOOLEAN
  BY <1>1 DEF NewTool, eeprom_read
<1>5. IsTool(tool)
  <2>1. tool.tries \in 0 .. EC_DEFAULTRETRIES /\ tool.nacks \in 0 .. 3 /\ tool.said \in SUBSET RomWords
    BY <1>4, Sizes
  <2> QED
    BY <1>3, <1>4, <2>1 DEF IsTool
<1>6. IsRom(rom)
  BY <1>1 DEF IsRom, NewRom, OldCells, Cells3, RomWords
<1> QED
  BY <1>1, <1>4, <1>5, <1>6 DEF ToolInv

LEMMA ToolTrueHolds == ASSUME ToolInv, Devs PROVE ToolTrue
<1> SUFFICES ASSUME at.proc = "tool", ~tool.unnoticed
             PROVE  /\ \A w \in DOMAIN rom.cells : rom.cells[w] \in {OldCells[w], Asked(w)}
                    /\ \A w \in tool.said : rom.cells[w] = Asked(w)
                    /\ plan.mode = "alias" /\ 7 \in tool.said => rom.cells[7] = SIIcrc(rom.cells[0], rom.cells[4])
  BY DEF ToolTrue
<1>1. Sound /\ DOMAIN rom.cells = RomWords /\ Remains(tool.todo)
  BY DEF ToolInv, IsRom
<1>2. /\ \A w \in RomWords : rom.cells[w] \in {OldCells[w], Asked(w)}
      /\ \A w \in tool.said : rom.cells[w] = Asked(w)
  BY <1>1 DEF Sound, CellsTrue
<1>3. ASSUME plan.mode = "alias", 7 \in tool.said PROVE rom.cells[7] = SIIcrc(rom.cells[0], rom.cells[4])
  <2>1. 4 \in tool.said /\ tool.said # {} /\ (left < 5 => tool.buf[0] = OldCells[0]) /\ rom.cells[0] = OldCells[0]
        /\ (left >= 5 => tool.said = {})
    BY <1>1, <1>3 DEF Sound, AliasTrue
  <2>2. left < 5
    <3>1. left \in Nat
      BY <1>1 DEF Remains, left
    <3> QED
      BY <2>1, <3>1
  <2>3. rom.cells[4] = Asked(4) /\ rom.cells[7] = Asked(7)
    BY <1>2, <1>3, <2>1
  <2>4. Asked(4) = File[4] /\ Asked(7) = SIIcrc(tool.buf[0], File[4])
    BY <1>3 DEF Asked
  <2> QED
    BY <2>1, <2>2, <2>3, <2>4
<1> QED
  BY <1>1, <1>2, <1>3

\* The tool for the EEPROM in every state of every network.
LEMMA Tooling == Spec => []ToolInv
<1>1. ToolInv /\ Flow /\ Devs /\ [Next]_netall => ToolInv'
  <2> SUFFICES ASSUME ToolInv, Flow, Devs, [Next]_netall PROVE ToolInv'
    OBVIOUS
  <2>1. CASE Next
    BY <2>1, ToolKept
  <2>2. CASE UNCHANGED netall
    BY <2>2, OthersKeepTool DEF netall, vars, mapvars, netvars, toolvars
  <2> QED
    BY <2>1, <2>2
<1> QED
  BY <1>1, InitTool, Course, PTL DEF Spec

\* Whatever frame is lost and however the EEPROM behaves, what the tool of
\* test/linux/eepromtool says it has written is there, every word holds what it held or
\* what was asked for, and the checksum fits an alias it says it has written; but if
\* something went wrong that the tool does not look at.
THEOREM ToolTellsTheTruth == Spec => []ToolTrue
<1>1. ToolInv /\ Devs => ToolTrue
  BY ToolTrueHolds
<1> QED
  BY <1>1, Tooling, Course, PTL
-----------------------------------------------------------------------------
(***************************************************************************)
(* The control loops of the demos (ecatthread): in which order the drives  *)
(* get their control words, and where they are told to go.                 *)
(***************************************************************************)
\* the cycles at which each loop goes on to the next control word
Tables ==
  [csp |-> <<400, 600, 800, 1000>>, csp_subscriber |-> <<1000, 1600, 2000, 2400>>, tc |-> <<400, 600, 800, 1000>>,
   cst |-> <<4000, 5300, 6000, 7000>>, pt |-> <<2000, 2300, 2600, 3000>>, pv |-> <<1500, 1800, 2000, 2400>>]

Table == Tables[plan.program]

\* the demos that count a step in a cycle that went well only
Counting == DOMAIN Tables

\* what a drive may be in while it gets word q of the table: it has had those before
InTime ==
  <<{"SW_ON_DISABLED", "FAULT"}, {"SW_ON_DISABLED", "READY_TO_SWITCH_ON", "FAULT"},
    {"READY_TO_SWITCH_ON", "SWITCHED_ON", "FAULT"}, {"SWITCHED_ON", "OPERATION_ENABLED", "FAULT"},
    {"OPERATION_ENABLED", "FAULT"}>>

\* the image has word q of the table, and the next one has word q or the one after
Paced(q) ==
  /\ loop.out.cw = Words[q] /\ (loop.out.go => q = 5)
  /\ Phase(Table, loop.step) \in {q, q + 1}
  /\ \A k \in Devices : drives[k].state \in InTime[q]

\* the demos that send positions
Positioned == plan.program \in {"csp", "csp_subscriber", "tc"} /\ Len(plan.kinds) = 1

Position == Lowest .. Highest

IsPlanner(p) ==
  /\ DOMAIN p = {"initialized", "target", "pos", "vel"}
  /\ p.target \in Position /\ p.pos \in Count * Lowest .. Count * Highest
  /\ p.vel \in -MAX_VELOCITY .. MAX_VELOCITY

\* no further apart than the planner moves in a cycle
Close(x, y) == x - y \in -Reach .. Reach

\* how far word q may tell the one drive to go
Near(q) ==
  IF q = 5 /\ plan.program = "csp" /\ loop.planner.initialized
  THEN /\ sent > 0 /\ loop.out.pos = Rounded(loop.planner.pos)
       /\ drives[1].state # "FAULT" => Close(loop.out.pos, drives[1].pos)
  ELSE /\ ~loop.planner.initialized
       /\ q = 5 /\ plan.program = "tc" => loop.out.pos \in {drives[1].pos, Wrapped(drives[1].pos + Nudge)}
       /\ q > 1 /\ (q = 5 => plan.program # "tc") => loop.out.pos = drives[1].pos

Pacing ==
  /\ {"step", "out", "planner"} \subseteq DOMAIN loop /\ loop.step \in Nat
  /\ DOMAIN drives = Devices /\ \A k \in Devices : DOMAIN drives[k] = {"state", "cw", "pos", "go"}
  /\ sent \in 0 .. Len(plan.goals)
  /\ plan.program \notin Counting \cup {"pp"} => ~loop.out.go
  /\ Positioned => IsPlanner(loop.planner) /\ loop.out.pos \in Position /\ drives[1].pos \in Position
  /\ plan.program \in Counting => \E q \in 1 .. 5 : Paced(q) /\ (Positioned => Near(q))

\* Every word of a table lasts for a step at least.
Gapped(t) ==
  /\ DOMAIN t = 1 .. 4 /\ t[1] \in Nat /\ t[2] \in Nat /\ t[3] \in Nat /\ t[4] \in Nat
  /\ t[2] >= t[1] + 200 /\ t[3] >= t[2] + 200 /\ t[4] >= t[3] + 200

LEMMA Gaps == ASSUME plan.program \in Counting PROVE Gapped(Table)
<1>1. plan.program \in {"csp", "csp_subscriber", "tc", "cst", "pt", "pv"}
  BY DEF Counting, Tables
<1> QED
  BY <1>1 DEF Gapped, Table, Tables

\* where the clock stands among the words
LiesAfter(t, x, m) == (m > 0 => x > t[m]) /\ (m < 4 => x <= t[m + 1])

LEMMA PhaseAt ==
  ASSUME NEW t, Gapped(t), NEW step \in Nat
  PROVE  \E m \in 0 .. 4 : Phase(t, step) = m + 1 /\ LiesAfter(t, step * Unit, m)
<1> DEFINE x == step * Unit
<1>1. x \in Nat
  BY DemoAssumption
<1>2. Phase(t, step) = 1 + Cardinality({i \in 1 .. 4 : x > t[i]})
  BY DEF Phase, Gapped
<1> HIDE DEF x
<1>3. PICK m \in 0 .. 4 : LiesAfter(t, x, m) /\ {i \in 1 .. 4 : x > t[i]} = 1 .. m
  <2>1. CASE x <= t[1]
    <3>1. {i \in 1 .. 4 : x > t[i]} = 1 .. 0 /\ LiesAfter(t, x, 0)
      BY <2>1, <1>1 DEF Gapped, LiesAfter
    <3> QED
      BY <3>1
  <2>2. CASE x > t[1] /\ x <= t[2]
    <3>1. {i \in 1 .. 4 : x > t[i]} = 1 .. 1 /\ LiesAfter(t, x, 1)
      BY <2>2, <1>1 DEF Gapped, LiesAfter
    <3> QED
      BY <3>1
  <2>3. CASE x > t[2] /\ x <= t[3]
    <3>1. {i \in 1 .. 4 : x > t[i]} = 1 .. 2 /\ LiesAfter(t, x, 2)
      BY <2>3, <1>1 DEF Gapped, LiesAfter
    <3> QED
      BY <3>1
  <2>4. CASE x > t[3] /\ x <= t[4]
    <3>1. {i \in 1 .. 4 : x > t[i]} = 1 .. 3 /\ LiesAfter(t, x, 3)
      BY <2>4, <1>1 DEF Gapped, LiesAfter
    <3> QED
      BY <3>1
  <2>5. CASE x > t[4]
    <3>1. {i \in 1 .. 4 : x > t[i]} = 1 .. 4 /\ LiesAfter(t, x, 4)
      BY <2>5, <1>1 DEF Gapped, LiesAfter
    <3> QED
      BY <3>1
  <2> QED
    BY <2>1, <2>2, <2>3, <2>4, <2>5, <1>1 DEF Gapped
<1>4. Cardinality(1 .. m) = m
  <2>1. m = 0 \/ (m \in Int /\ 1 <= m)
    OBVIOUS
  <2> QED
    BY <2>1, FS_Interval
<1>5. Phase(t, step) = 1 + Cardinality(1 .. m)
  BY <1>2, <1>3, Zenon
<1>6. Phase(t, step) = m + 1
  BY <1>4, <1>5
<1> QED
  BY <1>3, <1>6 DEF x

\* A step goes on by one word at most.
LEMMA PhaseNext ==
  ASSUME NEW t, Gapped(t), NEW step \in Nat
  PROVE  /\ Phase(t, step) \in 1 .. 5
         /\ Phase(t, step + 1) \in 1 .. 5
         /\ Phase(t, step + 1) \in {Phase(t, step), Phase(t, step) + 1}
<1>1. PICK m \in 0 .. 4 : Phase(t, step) = m + 1 /\ LiesAfter(t, step * Unit, m)
  BY PhaseAt
<1>2. PICK n \in 0 .. 4 : Phase(t, step + 1) = n + 1 /\ LiesAfter(t, (step + 1) * Unit, n)
  BY PhaseAt
<1>3. (step + 1) * Unit = step * Unit + Unit /\ step * Unit \in Nat /\ Unit \in 1 .. 200
  BY DemoAssumption
<1>4. n \in {m, m + 1}
  <2> DEFINE x == step * Unit
  <2>1. LiesAfter(t, x, m) /\ LiesAfter(t, x + Unit, n) /\ x \in Nat
    BY <1>1, <1>2, <1>3
  <2> HIDE DEF x
  <2>2. ASSUME n < m PROVE FALSE
    <3>1. x + Unit <= t[n + 1] /\ x > t[m] /\ n \in 0 .. 3 /\ m \in 1 .. 4
      BY <2>1, <2>2 DEF LiesAfter
    <3>2. t[n + 1] <= t[m]
      BY <2>2, <3>1 DEF Gapped
    <3> QED
      BY <3>1, <3>2, <2>1, <1>3 DEF Gapped
  <2>3. ASSUME n > m + 1 PROVE FALSE
    <3>1. x + Unit > t[n] /\ x <= t[m + 1] /\ n \in 2 .. 4 /\ m \in 0 .. 2
      BY <2>1, <2>3 DEF LiesAfter
    <3>2. t[n] >= t[m + 1] + 200
      BY <2>3, <3>1 DEF Gapped
    <3> QED
      BY <3>1, <3>2, <2>1, <1>3 DEF Gapped
  <2> QED
    BY <2>2, <2>3
<1> QED
  BY <1>1, <1>2, <1>4

-----------------------------------------------------------------------------
\* A word takes a drive that is in time to where the next one finds it.
LEMMA Obeys ==
  ASSUME NEW q \in 1 .. 5, NEW d, d.state \in InTime[q]
  PROVE  /\ Obeyed(d, Words[q]) \in InTime[q]
         /\ q < 5 => Obeyed(d, Words[q]) \in InTime[q + 1]
         /\ q > 1 => (Obeyed(d, Words[q]) = "FAULT" <=> d.state = "FAULT")
<1>1. CASE q = 1
  BY <1>1 DEF Obeyed, Words, InTime, CW_SHUTDOWN_CMD, CW_SWITCH_ON_CMD, CW_ENABLE_OP_CMD, CW_FAULT_RESET_CMD
<1>2. CASE q = 2
  BY <1>2 DEF Obeyed, Words, InTime, CW_SHUTDOWN_CMD, CW_SWITCH_ON_CMD, CW_ENABLE_OP_CMD, CW_FAULT_RESET_CMD
<1>3. CASE q = 3
  BY <1>3 DEF Obeyed, Words, InTime, CW_SHUTDOWN_CMD, CW_SWITCH_ON_CMD, CW_ENABLE_OP_CMD, CW_FAULT_RESET_CMD
<1>4. CASE q = 4
  BY <1>4 DEF Obeyed, Words, InTime, CW_SHUTDOWN_CMD, CW_SWITCH_ON_CMD, CW_ENABLE_OP_CMD, CW_FAULT_RESET_CMD
<1>5. CASE q = 5
  BY <1>5 DEF Obeyed, Words, InTime, CW_SHUTDOWN_CMD, CW_SWITCH_ON_CMD, CW_ENABLE_OP_CMD, CW_FAULT_RESET_CMD
<1> QED
  BY <1>1, <1>2, <1>3, <1>4, <1>5

IsDrive(d) == DOMAIN d = {"state", "cw", "pos", "go"}

\* Only a drive that is enabled before and after moves, and it moves where it is told.
LEMMA Driving ==
  ASSUME NEW d, IsDrive(d), NEW out, plan.program # "pp"
  PROVE  /\ IsDrive(Driven(d, out)) /\ Driven(d, out).state = Obeyed(d, out.cw)
         /\ Driven(d, out).pos = IF d.state = "OPERATION_ENABLED" /\ Obeyed(d, out.cw) = d.state THEN out.pos ELSE d.pos
  BY DEF Driven, IsDrive

-----------------------------------------------------------------------------
\* The positions are integers around 0.
LEMMA Positions == Position \subseteq Int /\ 0 \in Position /\ Lowest \in Int /\ Highest \in Int
<1>1. Span \in Nat \ {0}
  BY DemoAssumption
<1>2. Span \div 2 \in Nat /\ 2 * (Span \div 2) <= Span
  BY <1>1
<1> QED
  BY <1>1, <1>2 DEF Position, Lowest, Highest

\* What an overflow makes of a number is a position, a multiple of Span away.
LEMMA Wrapping ==
  ASSUME NEW x \in Int
  PROVE  Wrapped(x) \in Position /\ \E q \in Int : Wrapped(x) = x - Span * q
<1>1. Span \in Nat \ {0} /\ Lowest \in Int /\ Highest = Lowest + Span - 1
  BY DemoAssumption, Positions DEF Highest
<1> DEFINE y == x - Lowest
           q == y \div Span
<1>2. y \in Int /\ q \in Int /\ y % Span \in 0 .. Span - 1 /\ y % Span = y - Span * q
  BY <1>1
<1>3. Wrapped(x) = Lowest + (y % Span)
  BY DEF Wrapped
<1> DEFINE z == y % Span
           s == Span * q
<1>4. Wrapped(x) = Lowest + z /\ z \in 0 .. Span - 1 /\ z = y - s /\ s \in Int
  BY <1>1, <1>2, <1>3
<1> HIDE DEF z, s, q
<1>5. Wrapped(x) \in Position /\ Wrapped(x) = x - s
  BY <1>1, <1>4 DEF Position
<1> QED
  BY <1>2, <1>5 DEF s

\* What is smaller after a multiplication was smaller before.
LEMMA Cancel ==
  ASSUME NEW c \in Nat \ {0}, NEW x \in Int, NEW y \in Int, c * x < c * y
  PROVE  x < y
<1>1. ASSUME x >= y PROVE FALSE
  <2>1. x = y + (x - y) /\ x - y \in Nat
    BY <1>1
  <2>2. c * x = c * y + c * (x - y) /\ c * (x - y) >= 0
    BY <2>1
  <2> QED
    BY <2>2
<1> QED
  BY <1>1

\* Reach counts are more than twice the highest speed.
LEMMA Reaching ==
  /\ Reach \in Nat \ {0} /\ Count \in Nat \ {0} /\ MAX_VELOCITY \in Nat
  /\ Count * Reach \in Int /\ 2 * MAX_VELOCITY < Count * Reach /\ Count <= Count * Reach
<1>1. Count \in Nat \ {0} /\ MAX_VELOCITY \in Nat
  BY DemoAssumption
<1> DEFINE q == (2 * MAX_VELOCITY) \div Count
<1>2. q \in Nat /\ 2 * MAX_VELOCITY < Count * q + Count
  BY <1>1
<1>3. Reach = q + 1
  BY DEF Reach
<1> HIDE DEF q
<1>4. Count * (q + 1) = Count * q + Count /\ Count * q \in Nat
  BY <1>1, <1>2
<1> QED
  BY <1>1, <1>2, <1>3, <1>4

LEMMA Nudging == Nudge \in Nat /\ \A x \in Position : Wrapped(x + Nudge) \in Position
<1>1. Nudge \in Nat
  BY DemoAssumption, Reaching
<1>2. ASSUME NEW x \in Position PROVE Wrapped(x + Nudge) \in Position
  <2>1. x + Nudge \in Int
    BY <1>1, Positions
  <2> QED
    BY <2>1, Wrapping
<1> QED
  BY <1>1, <1>2

\* The whole number is half a count away at most.
LEMMA Rounds ==
  ASSUME NEW p \in Int
  PROVE  /\ Rounded(p) \in Int /\ Count * Rounded(p) \in Int
         /\ 2 * (Count * Rounded(p)) <= 2 * p + Count /\ 2 * p - Count <= 2 * (Count * Rounded(p))
<1>1. Count \in Nat \ {0}
  BY DemoAssumption
<1>2. ASSUME NEW n \in Nat
      PROVE  LET r == (2 * n + Count) \div (2 * Count)
             IN  /\ r \in Int /\ Count * r \in Int
                 /\ 2 * (Count * r) <= 2 * n + Count /\ 2 * n - Count <= 2 * (Count * r)
  <2> DEFINE d == 2 * Count
             y == 2 * n + Count
             r == y \div d
  <2>1. d \in Nat \ {0} /\ y \in Nat
    BY <1>1
  <2>2. r \in Int /\ d * r <= y /\ y < d * r + d
    <3> HIDE DEF d, y
    <3> QED
      BY <2>1
  <2>3. d * r = 2 * (Count * r) /\ Count * r \in Int
    <3> HIDE DEF r
    <3> QED
      BY <1>1, <2>2
  <2> DEFINE cr == Count * r
  <2>4. cr \in Int /\ 2 * cr <= y /\ y < 2 * cr + d
    BY <2>2, <2>3
  <2> HIDE DEF r
  <2>5. 2 * cr <= 2 * n + Count /\ 2 * n - Count <= 2 * cr
    <3> HIDE DEF cr
    <3> QED
      BY <1>1, <2>4
  <2> QED
    BY <2>2, <2>4, <2>5 DEF r
<1>3. CASE p > 0
  <2>1. Rounded(p) = (2 * p + Count) \div (2 * Count)
    <3>1. Sign(p) = 1 /\ Distance(p) = p
      BY <1>3 DEF Sign, Distance
    <3> DEFINE r == (2 * p + Count) \div (2 * Count)
    <3>2. Rounded(p) = 1 * r /\ r \in Int
      BY <1>1, <3>1 DEF Rounded
    <3> HIDE DEF r
    <3>3. Rounded(p) = r
      BY <3>2
    <3> QED
      BY <3>3 DEF r
  <2> QED
    BY <1>2, <1>3, <2>1
<1>4. CASE p = 0
  <2> DEFINE r == (2 * Distance(p) + Count) \div (2 * Count)
  <2>1. Distance(p) = 0 /\ Sign(p) = 0
    BY <1>4 DEF Sign, Distance
  <2>2. r \in Int
    BY <1>1, <2>1
  <2>3. Rounded(p) = 0 * r
    BY <2>1 DEF Rounded
  <2> HIDE DEF r
  <2>4. Rounded(p) = 0
    BY <2>2, <2>3
  <2> QED
    BY <1>1, <1>4, <2>4
<1>5. CASE p < 0
  <2> DEFINE n == -p
             r == (2 * n + Count) \div (2 * Count)
  <2>1. Sign(p) = -1 /\ Distance(p) = n /\ n \in Nat
    BY <1>5 DEF Sign, Distance
  <2>2. Rounded(p) = (-1) * r
    BY <2>1 DEF Rounded
  <2>3. /\ r \in Int /\ Count * r \in Int
        /\ 2 * (Count * r) <= 2 * n + Count /\ 2 * n - Count <= 2 * (Count * r)
    BY <1>2, <2>1
  <2> HIDE DEF r
  <2>4. Rounded(p) = -r /\ Count * (-r) = -(Count * r)
    BY <1>1, <2>2, <2>3
  <2> DEFINE cr == Count * r
  <2>5. Rounded(p) \in Int /\ Count * Rounded(p) = -cr /\ cr \in Int
    BY <2>3, <2>4
  <2>6. 2 * cr <= 2 * n + Count /\ 2 * n - Count <= 2 * cr
    BY <2>3
  <2> HIDE DEF cr
  <2> QED
    BY <1>1, <2>5, <2>6
<1> QED
  BY <1>3, <1>4, <1>5

\* The whole numbers are as close as the planner's positions are, and one more.
LEMMA RoundedClose ==
  ASSUME NEW p \in Int, NEW m \in Int, m - p < Count * Reach, p - m < Count * Reach
  PROVE  Close(Rounded(m), Rounded(p))
<1> DEFINE r == Rounded(p)
           n == Rounded(m)
           e == Count * Reach
           c == Count
<1>1. c \in Nat \ {0} /\ Reach \in Nat \ {0} /\ e \in Int
  BY Reaching
<1>2. /\ r \in Int /\ c * r \in Int /\ 2 * (c * r) <= 2 * p + c /\ 2 * p - c <= 2 * (c * r)
      /\ n \in Int /\ c * n \in Int /\ 2 * (c * n) <= 2 * m + c /\ 2 * m - c <= 2 * (c * n)
  BY Rounds
<1>3. m - p < e /\ p - m < e
  OBVIOUS
<1> HIDE DEF r, n, e, c
<1>4. c * n < c * r + e + c /\ c * r < c * n + e + c
  BY <1>1, <1>2, <1>3
<1>5. c * r + e + c = c * (r + Reach + 1) /\ c * n + e + c = c * (n + Reach + 1)
  BY <1>1, <1>2 DEF e, c
<1>6. n < r + Reach + 1
  BY <1>1, <1>2, <1>4, <1>5, Cancel
<1>7. r < n + Reach + 1
  BY <1>1, <1>2, <1>4, <1>5, Cancel
<1>8. n - r \in -Reach .. Reach
  BY <1>1, <1>2, <1>6, <1>7
<1> QED
  BY <1>8 DEF Close, r, n

\* A whole number of counts is that number, and what lies between positions is one.
LEMMA RoundedWhole ==
  ASSUME NEW x \in Int
  PROVE  Rounded(Count * x) = x
<1> DEFINE c == Count
           r == Rounded(c * x)
<1>1. c \in Nat \ {0} /\ c * x \in Int
  BY DemoAssumption
<1>2. r \in Int /\ c * r \in Int /\ 2 * (c * r) <= 2 * (c * x) + c /\ 2 * (c * x) - c <= 2 * (c * r)
  BY <1>1, Rounds
<1> HIDE DEF r
<1>3. c * r < c * x + c /\ c * x < c * r + c
  <2> DEFINE s == c * r
             y == c * x
  <2>1. s \in Int /\ y \in Int /\ 2 * s <= 2 * y + c /\ 2 * y - c <= 2 * s
    BY <1>1, <1>2
  <2> HIDE DEF s, y, c
  <2>2. s < y + c /\ y < s + c
    BY <1>1, <2>1
  <2> QED
    BY <2>2 DEF s, y
<1> HIDE DEF c
<1>4. c * x + c = c * (x + 1) /\ c * r + c = c * (r + 1)
  BY <1>1, <1>2
<1>5. r < x + 1
  BY <1>1, <1>2, <1>3, <1>4, Cancel
<1>6. x < r + 1
  BY <1>1, <1>2, <1>3, <1>4, Cancel
<1>7. r = x
  BY <1>2, <1>5, <1>6
<1> QED
  BY <1>7 DEF r, c

LEMMA RoundedWithin ==
  ASSUME NEW p \in Count * Lowest .. Count * Highest
  PROVE  p \in Int /\ Rounded(p) \in Position
<1> DEFINE c == Count
           r == Rounded(p)
           low  == Lowest
           high == Highest
<1>1. c \in Nat \ {0} /\ low \in Int /\ high \in Int
  BY DemoAssumption, Positions
<1>2. c * low \in Int /\ c * high \in Int /\ p \in c * low .. c * high
  BY <1>1
<1>3. p \in Int /\ c * low <= p /\ p <= c * high
  <2> DEFINE a == c * low
             b == c * high
  <2>1. a \in Int /\ b \in Int /\ p \in a .. b
    BY <1>2
  <2> HIDE DEF a, b
  <2>2. p \in Int /\ a <= p /\ p <= b
    BY <2>1
  <2> QED
    BY <2>2 DEF a, b
<1>4. r \in Int /\ c * r \in Int /\ 2 * (c * r) <= 2 * p + c /\ 2 * p - c <= 2 * (c * r)
  BY <1>3, Rounds
<1> HIDE DEF r, low, high
<1>5. c * r < c * high + c /\ c * low < c * r + c
  <2> DEFINE a == c * low
             b == c * high
             s == c * r
  <2>1. a \in Int /\ b \in Int /\ s \in Int /\ a <= p /\ p <= b /\ 2 * s <= 2 * p + c /\ 2 * p - c <= 2 * s
    BY <1>2, <1>3, <1>4
  <2> HIDE DEF a, b, s, c
  <2>2. s < b + c /\ a < s + c
    BY <1>1, <1>3, <2>1
  <2> QED
    BY <2>2 DEF a, b, s
<1> HIDE DEF c
<1>6. c * high + c = c * (high + 1) /\ c * r + c = c * (r + 1)
  BY <1>1, <1>4
<1>7. r < high + 1
  BY <1>1, <1>4, <1>5, <1>6, Cancel
<1>8. low < r + 1
  BY <1>1, <1>4, <1>5, <1>6, Cancel
<1>9. r \in low .. high
  BY <1>1, <1>4, <1>7, <1>8
<1> QED
  BY <1>3, <1>9 DEF Position, r, low, high

\* A position in the planner's units, between the lowest and the highest.
LEMMA CountedIn ==
  ASSUME NEW x \in Position
  PROVE  Count * x \in Count * Lowest .. Count * Highest
<1> DEFINE c == Count
           low  == Lowest
           high == Highest
<1>1. c \in Nat \ {0} /\ low \in Int /\ high \in Int /\ x \in Int /\ low <= x /\ x <= high
  BY DemoAssumption, Positions DEF Position
<1> HIDE DEF c, low, high
<1>2. /\ c * x = c * low + c * (x - low) /\ c * (x - low) >= 0
      /\ c * high = c * x + c * (high - x) /\ c * (high - x) >= 0
  BY <1>1
<1>3. c * x \in Int /\ c * low \in Int /\ c * high \in Int
  BY <1>1
<1>4. c * low <= c * x /\ c * x <= c * high
  BY <1>1, <1>2, <1>3
<1>5. c * x \in c * low .. c * high
  BY <1>3, <1>4
<1> QED
  BY <1>5 DEF c, low, high

\* A speed that is allowed is none above the highest.
LEMMA Speeds ==
  ASSUME NEW x
  PROVE  Braked(x) \in 0 .. MAX_VELOCITY
<1> DEFINE S == {v \in 1 .. MAX_VELOCITY : v * v <= BRAKE_DECEL * x}
<1>1. MAX_VELOCITY \in Nat
  BY DemoAssumption
<1>2. IsFiniteSet(1 .. MAX_VELOCITY) /\ Cardinality(1 .. MAX_VELOCITY) = MAX_VELOCITY
  <2>1. MAX_VELOCITY = 0 \/ MAX_VELOCITY > 0
    BY <1>1
  <2>2. CASE MAX_VELOCITY = 0
    <3>1. 1 .. MAX_VELOCITY = {}
      BY <2>2
    <3> QED
      BY <2>2, <3>1, FS_EmptySet
  <2>3. CASE MAX_VELOCITY > 0
    BY <1>1, <2>3, FS_Interval
  <2> QED
    BY <2>1, <2>2, <2>3
<1>3. S \subseteq 1 .. MAX_VELOCITY
  OBVIOUS
<1> HIDE DEF S
<1>4. IsFiniteSet(S) /\ Cardinality(S) <= MAX_VELOCITY
  BY <1>2, <1>3, FS_Subset
<1>5. Cardinality(S) \in Nat
  BY <1>4, FS_CardinalityType
<1>6. Cardinality(S) \in 0 .. MAX_VELOCITY
  BY <1>1, <1>4, <1>5
<1> QED
  BY <1>6 DEF Braked, S

\* A distance is the number or its opposite, whichever is not negative.
LEMMA Distances ==
  ASSUME NEW x \in Int
  PROVE  Distance(x) \in Int /\ Distance(x) >= x /\ Distance(x) >= -x
BY DEF Distance, Sign

\* What is cut to a range has not moved further.
LEMMA Clamping ==
  ASSUME NEW low \in Int, NEW high \in Int, NEW x \in low .. high, NEW y \in Int
  PROVE  /\ Clamp(y, low, high) \in low .. high
         /\ Clamp(y, low, high) - x \in {y - x} \cup (0 .. y - x) \cup (y - x .. 0)
  BY DEF Clamp

\* The speed changes towards the one desired, and stays within the highest.
LEMMA Speeding ==
  ASSUME NEW v \in -MAX_VELOCITY .. MAX_VELOCITY, NEW e \in Int
  PROVE  v + Clamp(Sign(e) * Braked(Distance(e)) - v, -MAX_ACCELERATION, MAX_ACCELERATION)
           \in -MAX_VELOCITY .. MAX_VELOCITY
<1> DEFINE b == Braked(Distance(e))
           w == Sign(e) * b
<1>1. MAX_VELOCITY \in Nat /\ MAX_ACCELERATION \in Nat
  BY DemoAssumption
<1>2. b \in 0 .. MAX_VELOCITY
  BY Speeds
<1> HIDE DEF b
<1>3. w = b \/ w = -b \/ w = 0
  BY <1>1, <1>2 DEF Sign
<1>4. w \in -MAX_VELOCITY .. MAX_VELOCITY
  BY <1>1, <1>2, <1>3
<1> HIDE DEF w
<1>5. v + Clamp(w - v, -MAX_ACCELERATION, MAX_ACCELERATION) \in -MAX_VELOCITY .. MAX_VELOCITY
  BY <1>1, <1>4 DEF Clamp
<1> QED
  BY <1>5 DEF w, b

\* The planner moves by twice the highest speed at most, and stays between the lowest
\* and the highest position.
LEMMA Planning ==
  ASSUME NEW p, IsPlanner(p), NEW a \in Position, Commanded \in Position
  PROVE  LET m == CSP_plan(CSP_target(p), a)
         IN  /\ IsPlanner(m) /\ m.initialized /\ Rounded(m.pos) \in Position
             /\ Close(Rounded(m.pos), IF p.initialized THEN Rounded(p.pos) ELSE a)
<1> DEFINE t == CSP_target(p)
           s == CSP_starts(t, a)
<1>1. /\ IsPlanner(t) /\ t.initialized = p.initialized /\ t.pos = p.pos
  BY DEF CSP_target, IsPlanner
<1> HIDE DEF t
<1>2. /\ IsPlanner(s) /\ s.initialized
      /\ Rounded(s.pos) = IF p.initialized THEN Rounded(p.pos) ELSE a
  <2>1. CASE t.initialized
    <3>1. s = t
      BY <2>1 DEF CSP_starts
    <3> QED
      BY <3>1, <2>1, <1>1
  <2>2. CASE ~t.initialized
    <3>1. s = [t EXCEPT !.initialized = TRUE, !.pos = Count * a, !.vel = 0]
      BY <2>2 DEF CSP_starts
    <3> HIDE DEF s
    <3> DEFINE ca == Count * a
    <3>2. DOMAIN s = DOMAIN t /\ s.initialized = TRUE /\ s.pos = ca /\ s.vel = 0 /\ s.target = t.target
      <4> HIDE DEF ca
      <4> QED
        BY <3>1, <1>1 DEF IsPlanner, ca
    <3>3. IsPlanner(s)
      <4>1. ca \in Count * Lowest .. Count * Highest
        BY CountedIn
      <4>2. 0 \in -MAX_VELOCITY .. MAX_VELOCITY
        BY DemoAssumption
      <4> HIDE DEF ca
      <4> QED
        BY <3>2, <1>1, <4>1, <4>2 DEF IsPlanner
    <3>4. Rounded(ca) = a
      BY RoundedWhole, Positions
    <3>5. s.initialized /\ Rounded(s.pos) = a /\ ~p.initialized
      BY <3>2, <3>4, <2>2, <1>1
    <3> QED
      BY <3>3, <3>5
  <2> QED
    BY <2>1, <2>2
<1> HIDE DEF s
<1> DEFINE error   == Count * s.target - s.pos
           desired == Sign(error) * Braked(Distance(error))
           vel     == s.vel + Clamp(desired - s.vel, -MAX_ACCELERATION, MAX_ACCELERATION)
           there   == 2 * Distance(error) < Count /\ Distance(s.vel) <= MAX_ACCELERATION
           low     == Count * Lowest
           high    == Count * Highest
           goal    == Count * s.target
           next    == Clamp(s.pos + s.vel + vel, low, high)
           m       == CSP_plan(t, a)
<1>3. m = IF there THEN [s EXCEPT !.pos = goal, !.vel = 0]
          ELSE [s EXCEPT !.pos = next, !.vel = vel]
  BY DEF CSP_plan, s
<1>4. low \in Int /\ high \in Int /\ goal \in low .. high /\ s.pos \in low .. high
  <2>1. s.target \in Position /\ s.pos \in low .. high
    BY <1>2 DEF IsPlanner
  <2>2. goal \in low .. high
    BY <2>1, CountedIn
  <2>3. low \in Int /\ high \in Int
    BY Positions, DemoAssumption
  <2> QED
    BY <2>1, <2>2, <2>3
<1>5. error \in Int /\ error = goal - s.pos
  <2> HIDE DEF low, high
  <2>1. goal \in Int /\ s.pos \in Int
    <3> HIDE DEF goal
    <3> QED
      BY <1>4
  <2>2. error = goal - s.pos
    OBVIOUS
  <2> HIDE DEF error, goal
  <2> QED
    BY <2>1, <2>2
<1>6. s.vel \in -MAX_VELOCITY .. MAX_VELOCITY
  BY <1>2 DEF IsPlanner
<1>7. vel \in -MAX_VELOCITY .. MAX_VELOCITY
  <2> HIDE DEF error
  <2> QED
    BY <1>5, <1>6, Speeding
<1>8. next \in low .. high /\ next - s.pos <= 2 * MAX_VELOCITY /\ s.pos - next <= 2 * MAX_VELOCITY
  <2>1. MAX_VELOCITY \in Nat
    BY DemoAssumption
  <2> HIDE DEF low, high, vel
  <2> DEFINE y == s.pos + s.vel + vel
  <2>2. y \in Int /\ y - s.pos = s.vel + vel
    BY <1>4, <1>6, <1>7
  <2>3. y - s.pos <= 2 * MAX_VELOCITY /\ s.pos - y <= 2 * MAX_VELOCITY
    BY <2>1, <2>2, <1>4, <1>6, <1>7
  <2> HIDE DEF y
  <2>4. Clamp(y, low, high) \in low .. high
    BY <1>4, <2>2, Clamping
  <2>5. Clamp(y, low, high) - s.pos \in {y - s.pos} \cup (0 .. y - s.pos) \cup (y - s.pos .. 0)
    BY <1>4, <2>2, Clamping
  <2> QED
    BY <1>4, <2>1, <2>2, <2>3, <2>4, <2>5 DEF y
<1>9. ASSUME NEW pos \in low .. high, NEW v \in -MAX_VELOCITY .. MAX_VELOCITY, m = [s EXCEPT !.pos = pos, !.vel = v],
             pos - s.pos < Count * Reach, s.pos - pos < Count * Reach
      PROVE  IsPlanner(m) /\ m.initialized /\ Rounded(m.pos) \in Position /\ Close(Rounded(m.pos), Rounded(s.pos))
  <2> HIDE DEF m
  <2>1. DOMAIN m = DOMAIN s /\ m.initialized = s.initialized /\ m.target = s.target /\ m.pos = pos /\ m.vel = v
    BY <1>2, <1>9 DEF IsPlanner
  <2>2. IsPlanner(m) /\ m.initialized
    BY <1>2, <2>1 DEF IsPlanner
  <2>3. Rounded(pos) \in Position /\ pos \in Int /\ s.pos \in Int
    BY <1>4, RoundedWithin
  <2>4. Close(Rounded(pos), Rounded(s.pos))
    BY <1>9, <2>3, RoundedClose
  <2> QED
    BY <2>1, <2>2, <2>3, <2>4
<1>10. ASSUME there
       PROVE  IsPlanner(m) /\ m.initialized /\ Rounded(m.pos) \in Position /\ Close(Rounded(m.pos), Rounded(s.pos))
  <2>1. 2 * (goal - s.pos) < Count /\ 2 * (s.pos - goal) < Count /\ Count \in Nat /\ goal \in Int /\ s.pos \in Int
    <3>1. 2 * Distance(error) < Count /\ Count \in Nat
      BY <1>10, DemoAssumption
    <3>2. goal \in Int /\ s.pos \in Int
      <4> HIDE DEF low, high, goal
      <4> QED
        BY <1>4
    <3> HIDE DEF error, goal
    <3>3. Distance(error) >= error /\ Distance(error) >= -error /\ Distance(error) \in Int
      BY <1>5, Distances
    <3> QED
      BY <1>5, <3>1, <3>2, <3>3
  <2>2. goal - s.pos < Count * Reach /\ s.pos - goal < Count * Reach
    <3> DEFINE e == Count * Reach
    <3>1. e \in Int /\ Count <= e
      BY Reaching
    <3> HIDE DEF goal, e
    <3>2. goal - s.pos < e /\ s.pos - goal < e
      BY <2>1, <3>1
    <3> QED
      BY <3>2 DEF e
  <2>3. m = [s EXCEPT !.pos = goal, !.vel = 0] /\ 0 \in -MAX_VELOCITY .. MAX_VELOCITY
    <3>1. 0 \in -MAX_VELOCITY .. MAX_VELOCITY
      BY DemoAssumption
    <3> HIDE DEF m, goal, there, next, vel
    <3> QED
      BY <1>3, <1>10, <3>1
  <2> HIDE DEF m, goal, low, high
  <2> QED
    BY <1>4, <1>9, <2>2, <2>3, Zenon
<1>11. ASSUME ~there
       PROVE  IsPlanner(m) /\ m.initialized /\ Rounded(m.pos) \in Position /\ Close(Rounded(m.pos), Rounded(s.pos))
  <2>1. next - s.pos < Count * Reach /\ s.pos - next < Count * Reach
    <3> DEFINE e == Count * Reach
    <3>1. e \in Int /\ 2 * MAX_VELOCITY < e /\ MAX_VELOCITY \in Nat
      BY Reaching
    <3>2. next \in Int /\ s.pos \in Int
      <4> HIDE DEF next, low, high
      <4> QED
        BY <1>4, <1>8
    <3> HIDE DEF next, e
    <3>3. next - s.pos < e /\ s.pos - next < e
      BY <1>8, <3>1, <3>2
    <3> QED
      BY <3>3 DEF e
  <2>2. m = [s EXCEPT !.pos = next, !.vel = vel]
    <3> HIDE DEF m, goal, there, next, vel
    <3> QED
      BY <1>3, <1>11
  <2> HIDE DEF m, next, vel, low, high
  <2> QED
    BY <1>7, <1>8, <1>9, <2>1, <2>2, Zenon
<1> HIDE DEF there, m
<1>12. IsPlanner(m) /\ m.initialized /\ Rounded(m.pos) \in Position /\ Close(Rounded(m.pos), Rounded(s.pos))
  BY <1>10, <1>11
<1>13. Close(Rounded(m.pos), IF p.initialized THEN Rounded(p.pos) ELSE a)
  BY <1>2, <1>12
<1> QED
  BY <1>12, <1>13 DEF m, t

\* What a pass that went well makes of the loop.
IsLoop(l) == {"step", "out", "planner"} \subseteq DOMAIN l /\ l.step \in Nat

LEMMA Turning ==
  ASSUME plan.program \in Counting, NEW l, IsLoop(l), NEW a
  PROVE  LET m == Turn(l, a)
         IN  /\ IsLoop(m) /\ m.step \in {l.step, l.step + 1}
             /\ m.out.cw = Words[Phase(Table, l.step)]
             /\ (m.out.go => Phase(Table, l.step) = 5)
<1>1. \A limit : Step(l, limit) \in {l.step, l.step + 1} /\ Step(l, limit) \in Nat
  BY DEF Step, IsLoop
<1>2. CASE plan.program = "csp"
  <2> DEFINE m  == CSP_cycle(l, a)
             ph == Phase(<<400, 600, 800, 1000>>, l.step)
  <2>1. Turn(l, a) = m /\ Table = <<400, 600, 800, 1000>>
    BY <1>2 DEF Turn, Table, Tables
  <2>2. /\ DOMAIN m = {"step", "out", "planner"} /\ m.step = Step(l, 1200)
        /\ m.out.cw = Words[ph] /\ (m.out.go => ph = 5)
    BY DEF CSP_cycle
  <2>3. Phase(Table, l.step) = ph
    BY <2>1
  <2> HIDE DEF m, ph
  <2>4. IsLoop(m) /\ m.step \in {l.step, l.step + 1}
    BY <2>2, <1>1 DEF IsLoop
  <2> QED
    BY <2>1, <2>2, <2>3, <2>4
<1>3. CASE plan.program = "csp_subscriber"
  <2> DEFINE m  == SUB_cycle(l, a)
             ph == Phase(<<1000, 1600, 2000, 2400>>, l.step)
  <2>1. Turn(l, a) = m /\ Table = <<1000, 1600, 2000, 2400>>
    BY <1>3 DEF Turn, Table, Tables
  <2>2. DOMAIN m = DOMAIN l /\ m.step = Step(l, 1200) /\ m.out.cw = Words[ph] /\ (m.out.go => ph = 5)
    BY DEF SUB_cycle, IsLoop
  <2>3. Phase(Table, l.step) = ph
    BY <2>1
  <2> HIDE DEF m, ph
  <2>4. IsLoop(m) /\ m.step \in {l.step, l.step + 1}
    BY <2>2, <1>1 DEF IsLoop
  <2> QED
    BY <2>1, <2>2, <2>3, <2>4
<1>4. CASE plan.program = "tc"
  <2> DEFINE m  == TC_cycle(l, a)
             ph == Phase(<<400, 600, 800, 1000>>, l.step)
  <2>1. Turn(l, a) = m /\ Table = <<400, 600, 800, 1000>>
    BY <1>4 DEF Turn, Table, Tables
  <2>2. DOMAIN m = DOMAIN l /\ m.step = Step(l, 1200) /\ m.out.cw = Words[ph] /\ (m.out.go => ph = 5)
    BY DEF TC_cycle, IsLoop
  <2>3. Phase(Table, l.step) = ph
    BY <2>1
  <2> HIDE DEF m, ph
  <2>4. IsLoop(m) /\ m.step \in {l.step, l.step + 1}
    BY <2>2, <1>1 DEF IsLoop
  <2> QED
    BY <2>1, <2>2, <2>3, <2>4
<1>5. CASE plan.program = "cst"
  <2> DEFINE m  == CST_cycle(l, a)
             ph == Phase(<<4000, 5300, 6000, 7000>>, l.step)
  <2>1. Turn(l, a) = m /\ Table = <<4000, 5300, 6000, 7000>>
    BY <1>5 DEF Turn, Table, Tables
  <2>5. DOMAIN m = DOMAIN l /\ m.step = Step(l, 8000) /\ m.out = [cw |-> Words[ph], go |-> ph = 5, pos |-> 0]
    BY DEF CST_cycle, IsLoop
  <2>2. DOMAIN m = DOMAIN l /\ m.step = Step(l, 8000) /\ m.out.cw = Words[ph] /\ (m.out.go => ph = 5)
    <3> HIDE DEF m, ph
    <3>1. m.out.go => ph = 5
      <4>1. m.out.go = (ph = 5)
        BY <2>5
      <4> QED
        BY <4>1, Zenon
    <3> QED
      BY <2>5, <3>1
  <2>3. Phase(Table, l.step) = ph
    BY <2>1
  <2> HIDE DEF m, ph
  <2>4. IsLoop(m) /\ m.step \in {l.step, l.step + 1}
    BY <2>2, <1>1 DEF IsLoop
  <2> QED
    BY <2>1, <2>2, <2>3, <2>4
<1>6. CASE plan.program = "pt"
  <2> DEFINE m  == PT_cycle(l, a)
             ph == Phase(<<2000, 2300, 2600, 3000>>, l.step)
  <2>1. Turn(l, a) = m /\ Table = <<2000, 2300, 2600, 3000>>
    BY <1>6 DEF Turn, Table, Tables
  <2>5. DOMAIN m = DOMAIN l /\ m.step = Step(l, 8000) /\ m.out = [cw |-> Words[ph], go |-> ph = 5, pos |-> 0]
    BY DEF PT_cycle, IsLoop
  <2>2. DOMAIN m = DOMAIN l /\ m.step = Step(l, 8000) /\ m.out.cw = Words[ph] /\ (m.out.go => ph = 5)
    <3> HIDE DEF m, ph
    <3>1. m.out.go => ph = 5
      <4>1. m.out.go = (ph = 5)
        BY <2>5
      <4> QED
        BY <4>1, Zenon
    <3> QED
      BY <2>5, <3>1
  <2>3. Phase(Table, l.step) = ph
    BY <2>1
  <2> HIDE DEF m, ph
  <2>4. IsLoop(m) /\ m.step \in {l.step, l.step + 1}
    BY <2>2, <1>1 DEF IsLoop
  <2> QED
    BY <2>1, <2>2, <2>3, <2>4
<1>7. CASE plan.program = "pv"
  <2> DEFINE m  == PV_cycle(l, a)
             ph == Phase(<<1500, 1800, 2000, 2400>>, l.step)
  <2>1. Turn(l, a) = m /\ Table = <<1500, 1800, 2000, 2400>>
    BY <1>7 DEF Turn, Table, Tables
  <2>5. DOMAIN m = DOMAIN l /\ m.step \in {l.step, Step(l, 8000)} /\ m.out = [cw |-> Words[ph], go |-> ph = 5, pos |-> 0]
    BY DEF PV_cycle, IsLoop
  <2>2. DOMAIN m = DOMAIN l /\ m.step \in {l.step, Step(l, 8000)} /\ m.out.cw = Words[ph] /\ (m.out.go => ph = 5)
    <3> HIDE DEF m, ph
    <3>1. m.out.go => ph = 5
      <4>1. m.out.go = (ph = 5)
        BY <2>5
      <4> QED
        BY <4>1, Zenon
    <3> QED
      BY <2>5, <3>1
  <2>3. Phase(Table, l.step) = ph
    BY <2>1
  <2> HIDE DEF m, ph
  <2>4. IsLoop(m) /\ m.step \in {l.step, l.step + 1}
    BY <2>2, <1>1 DEF IsLoop
  <2> QED
    BY <2>1, <2>2, <2>3, <2>4
<1> QED
  BY <1>2, <1>3, <1>4, <1>5, <1>6, <1>7 DEF Counting, Tables

-----------------------------------------------------------------------------
\* What a delivered image does to drives that are in time.
LEMMA Delivered ==
  ASSUME Pacing, plan.program \in Counting, NEW q \in 1 .. 5, Paced(q),
         NEW ds, ds = [k \in Devices |-> Driven(drives[k], loop.out)]
  PROVE  /\ DOMAIN ds = Devices /\ \A k \in Devices : IsDrive(ds[k])
         /\ \A k \in Devices : /\ ds[k].state \in InTime[q]
                               /\ q < 5 => ds[k].state \in InTime[q + 1]
                               /\ q > 1 => (ds[k].state = "FAULT" <=> drives[k].state = "FAULT")
                               /\ ds[k].pos = IF drives[k].state = "OPERATION_ENABLED" /\ ds[k].state = drives[k].state
                                              THEN loop.out.pos ELSE drives[k].pos
<1>1. plan.program # "pp"
  BY DEF Counting, Tables
<1> SUFFICES ASSUME NEW k \in Devices
             PROVE  /\ IsDrive(ds[k]) /\ ds[k].state \in InTime[q]
                    /\ q < 5 => ds[k].state \in InTime[q + 1]
                    /\ q > 1 => (ds[k].state = "FAULT" <=> drives[k].state = "FAULT")
                    /\ ds[k].pos = IF drives[k].state = "OPERATION_ENABLED" /\ ds[k].state = drives[k].state
                                   THEN loop.out.pos ELSE drives[k].pos
  OBVIOUS
<1>2. ds[k] = Driven(drives[k], loop.out) /\ IsDrive(drives[k])
  BY DEF Pacing, IsDrive
<1>3. drives[k].state \in InTime[q] /\ loop.out.cw = Words[q]
  BY DEF Paced
<1>4. /\ IsDrive(ds[k]) /\ ds[k].state = Obeyed(drives[k], Words[q])
      /\ ds[k].pos = IF drives[k].state = "OPERATION_ENABLED" /\ ds[k].state = drives[k].state
                     THEN loop.out.pos ELSE drives[k].pos
  <2> DEFINE d == drives[k]
             e == Driven(d, loop.out)
  <2>1. IsDrive(e) /\ e.state = Obeyed(d, loop.out.cw)
    BY <1>1, <1>2, Driving
  <2>2. e.pos = IF d.state = "OPERATION_ENABLED" /\ Obeyed(d, loop.out.cw) = d.state THEN loop.out.pos ELSE d.pos
    BY <1>1, <1>2, Driving
  <2>3. ds[k] = e /\ loop.out.cw = Words[q]
    BY <1>2, <1>3
  <2> HIDE DEF d, e
  <2>4. IsDrive(ds[k]) /\ ds[k].state = Obeyed(d, Words[q])
    BY <2>1, <2>3
  <2>5. ds[k].pos = IF d.state = "OPERATION_ENABLED" /\ ds[k].state = d.state THEN loop.out.pos ELSE d.pos
    BY <2>2, <2>3, <2>4
  <2> QED
    BY <2>4, <2>5 DEF d
<1>5. /\ Obeyed(drives[k], Words[q]) \in InTime[q]
      /\ q < 5 => Obeyed(drives[k], Words[q]) \in InTime[q + 1]
      /\ q > 1 => (Obeyed(drives[k], Words[q]) = "FAULT" <=> drives[k].state = "FAULT")
  BY <1>3, Obeys
<1> QED
  BY <1>4, <1>5

\* how near an image is when the drive got it
LEMMA NearDelivered ==
  ASSUME Pacing, Positioned, NEW q \in 1 .. 5, Paced(q), Near(q), NEW d,
         d.pos \in {drives[1].pos, loop.out.pos}, q > 1 => (d.state = "FAULT" <=> drives[1].state = "FAULT")
  PROVE  /\ ~(q = 5 /\ plan.program = "csp" /\ loop.planner.initialized)
              => /\ q = 5 /\ plan.program = "tc" => loop.out.pos \in {d.pos, Wrapped(d.pos + Nudge)}
                 /\ q > 1 /\ (q = 5 => plan.program # "tc") => loop.out.pos = d.pos
         /\ q = 5 /\ plan.program = "csp" /\ loop.planner.initialized
              => (d.state # "FAULT" => Close(loop.out.pos, d.pos))
<1> DEFINE out == loop.out.pos
           pos == drives[1].pos
<1>1. out \in Int /\ pos \in Int /\ Close(out, out)
  <2>1. out \in Int /\ pos \in Int
    BY Positions DEF Pacing
  <2> HIDE DEF out, pos
  <2> QED
    BY <2>1, Reaching DEF Close
<1>2. d.pos = pos \/ d.pos = out
  OBVIOUS
<1> HIDE DEF out, pos
<1>3. ASSUME q = 5 /\ plan.program = "tc", out \in {pos, Wrapped(pos + Nudge)} PROVE out \in {d.pos, Wrapped(d.pos + Nudge)}
  BY <1>2, <1>3
<1>4. ASSUME out = pos PROVE out = d.pos
  BY <1>2, <1>4
<1>5. ASSUME Close(out, pos) PROVE Close(out, d.pos)
  BY <1>1, <1>2, <1>5
<1> QED
  BY <1>3, <1>4, <1>5 DEF Near, out, pos

\* A pass after which the loop stays as it is keeps how near the image is.
LEMMA SameLoopKept ==
  ASSUME Pacing, plan.program \in Counting, NEW q \in 1 .. 5, Paced(q), Positioned => Near(q),
         UNCHANGED <<plan, loop, sent>>, Devices' = Devices, Positioned => 1 \in Devices,
         \/ drives' = drives
         \/ drives' = [k \in Devices |-> Driven(drives[k], loop.out)]
  PROVE  Pacing'
<1> DEFINE ds == drives'
<1>1. /\ DOMAIN ds = Devices /\ \A k \in Devices : IsDrive(ds[k])
      /\ \A k \in Devices : /\ ds[k].state \in InTime[q]
                            /\ q > 1 => (ds[k].state = "FAULT" <=> drives[k].state = "FAULT")
                            /\ ds[k].pos \in {drives[k].pos, loop.out.pos}
  <2>1. CASE drives' = drives
    BY <2>1 DEF Pacing, Paced, IsDrive
  <2>2. CASE ds = [k \in Devices |-> Driven(drives[k], loop.out)]
    <3> HIDE DEF ds
    <3> QED
      BY <2>2, Delivered
  <2> QED
    BY <2>1, <2>2
<1>2. Table' = Table /\ Positioned' = Positioned /\ \A s : Phase(Table, s)' = Phase(Table, s')
  BY DEF Table, Positioned, Phase
<1>3. Paced(q)'
  BY <1>1, <1>2 DEF Paced, Phase, Table
<1>4. ASSUME Positioned PROVE Near(q)' /\ ds[1].pos \in Position
  <2>1. 1 \in Devices /\ ds[1].pos \in Position
    BY <1>1, <1>4 DEF Pacing
  <2>2. /\ ~(q = 5 /\ plan.program = "csp" /\ loop.planner.initialized)
             => /\ q = 5 /\ plan.program = "tc" => loop.out.pos \in {ds[1].pos, Wrapped(ds[1].pos + Nudge)}
                /\ q > 1 /\ (q = 5 => plan.program # "tc") => loop.out.pos = ds[1].pos
        /\ q = 5 /\ plan.program = "csp" /\ loop.planner.initialized
             => (ds[1].state # "FAULT" => Close(loop.out.pos, ds[1].pos))
    <3> HIDE DEF ds
    <3> QED
      BY <1>1, <1>4, <2>1, NearDelivered
  <2>3. CASE q = 5 /\ plan.program = "csp" /\ loop.planner.initialized
    BY <2>1, <2>2, <2>3, <1>4 DEF Near
  <2>4. CASE ~(q = 5 /\ plan.program = "csp" /\ loop.planner.initialized)
    BY <2>1, <2>2, <2>4, <1>4 DEF Near
  <2> QED
    BY <2>3, <2>4
<1> QED
  BY <1>1, <1>2, <1>3, <1>4 DEF Pacing, IsDrive

\* A pass that went well makes the next image of the positions before.
LEMMA TurnKept ==
  ASSUME Pacing, plan.program \in Counting, NEW q \in 1 .. 5, Paced(q), Positioned => Near(q),
         UNCHANGED <<plan, sent>>, Devices' = Devices, Positioned => 1 \in Devices,
         Positioned /\ sent > 0 => Commanded \in Position,
         NEW a, loop' = Turn(loop, a), Positioned => a = drives[1].pos,
         drives' = [k \in Devices |-> Driven(drives[k], loop.out)]
  PROVE  Pacing'
<1> DEFINE m  == Turn(loop, a)
           ds == [k \in Devices |-> Driven(drives[k], loop.out)]
<1>0. PICK p : p = Phase(Table, loop.step)
  OBVIOUS
<1>1. IsLoop(m) /\ m.step \in {loop.step, loop.step + 1} /\ m.out.cw = Words[p] /\ (m.out.go => p = 5)
  <2>1. IsLoop(loop)
    BY DEF Pacing, IsLoop
  <2>2. IsLoop(m) /\ m.step \in {loop.step, loop.step + 1}
    BY <2>1, Turning
  <2>3. m.out.cw = Words[Phase(Table, loop.step)]
    BY <2>1, Turning
  <2>4. m.out.go => Phase(Table, loop.step) = 5
    BY <2>1, Turning
  <2> HIDE DEF m
  <2> QED
    BY <2>2, <2>3, <2>4, <1>0
<1>2. p \in 1 .. 5 /\ p \in {q, q + 1} /\ Phase(Table, m.step) \in {p, p + 1}
  <2>1. p \in 1 .. 5 /\ Phase(Table, loop.step + 1) \in {p, p + 1}
    BY <1>0, Gaps, PhaseNext DEF Pacing
  <2>2. p \in {q, q + 1}
    BY <1>0 DEF Paced
  <2>3. m.step \in {loop.step, loop.step + 1}
    BY <1>1
  <2> HIDE DEF m
  <2> QED
    BY <2>1, <2>2, <2>3, <1>0
<1>3. /\ DOMAIN ds = Devices /\ \A k \in Devices : IsDrive(ds[k])
      /\ \A k \in Devices : /\ ds[k].state \in InTime[q]
                            /\ q < 5 => ds[k].state \in InTime[q + 1]
                            /\ q > 1 => (ds[k].state = "FAULT" <=> drives[k].state = "FAULT")
                            /\ ds[k].pos = IF drives[k].state = "OPERATION_ENABLED" /\ ds[k].state = drives[k].state
                                           THEN loop.out.pos ELSE drives[k].pos
  <2> HIDE DEF ds
  <2> QED
    BY Delivered DEF ds
<1>4. drives' = ds /\ loop' = m
  OBVIOUS
<1> HIDE DEF ds, m
<1>5. \A k \in Devices : ds[k].state \in InTime[p]
  BY <1>2, <1>3
<1>6. Table' = Table /\ Positioned' = Positioned
  BY DEF Table, Positioned
<1>7. Paced(p)'
  BY <1>1, <1>2, <1>4, <1>5, <1>6 DEF Paced, Phase
<1>8. ASSUME Positioned PROVE IsPlanner(m.planner) /\ m.out.pos \in Position /\ ds[1].pos \in Position /\ Near(p)'
  <2> DEFINE d   == ds[1]
             pos == drives[1].pos
             out == loop.out.pos
             pl  == loop.planner
  <2>1. /\ pos \in Position /\ out \in Position /\ IsPlanner(pl) /\ a = pos /\ 1 \in Devices
        /\ plan.program \in {"csp", "csp_subscriber", "tc"}
    BY <1>8 DEF Pacing, Positioned
  <2>2. /\ d.pos = IF drives[1].state = "OPERATION_ENABLED" /\ d.state = drives[1].state THEN out ELSE pos
        /\ q > 1 => (d.state = "FAULT" <=> drives[1].state = "FAULT")
        /\ drives[1].state \in InTime[q] /\ d.state \in InTime[q]
    BY <1>3, <2>1 DEF Paced
  <2>3. Near(q)
    BY <1>8
  <2>4. d.pos \in {pos, out} /\ d.pos \in Position
    BY <2>1, <2>2
  <2>5. ASSUME ~(q = 5 /\ plan.program = "tc"), ~(q = 5 /\ plan.program = "csp" /\ pl.initialized)
        PROVE  d.pos = a /\ ~pl.initialized
    <3>1. CASE q = 1
      <4>1. drives[1].state # "OPERATION_ENABLED"
        BY <2>2, <3>1 DEF InTime
      <4> QED
        BY <4>1, <2>1, <2>2, <2>3, <3>1 DEF Near
    <3>2. CASE q > 1
      BY <2>1, <2>3, <2>4, <2>5, <3>2 DEF Near
    <3> QED
      BY <3>1, <3>2
  <2>6. Near(p)' <=> (IF p = 5 /\ plan.program = "csp" /\ m.planner.initialized
                      THEN /\ sent > 0 /\ m.out.pos = Rounded(m.planner.pos)
                           /\ d.state # "FAULT" => Close(m.out.pos, d.pos)
                      ELSE /\ ~m.planner.initialized
                           /\ p = 5 /\ plan.program = "tc" => m.out.pos \in {d.pos, Wrapped(d.pos + Nudge)}
                           /\ p > 1 /\ (p = 5 => plan.program # "tc") => m.out.pos = d.pos)
    BY <1>4 DEF Near
  <2>7. CASE plan.program = "csp_subscriber"
    <3>1. m.planner = pl /\ m.out.pos = IF p = 1 THEN 0 ELSE a
      <4>1. m = SUB_cycle(loop, a) /\ Table = <<1000, 1600, 2000, 2400>>
        BY <2>7 DEF m, Turn, Table, Tables
      <4>2. p = Phase(<<1000, 1600, 2000, 2400>>, loop.step)
        BY <4>1, <1>0
      <4> QED
        BY <4>1, <4>2 DEF SUB_cycle, Pacing
    <3>2. d.pos = a /\ ~pl.initialized
      BY <2>5, <2>7
    <3> QED
      BY <3>1, <3>2, <2>1, <2>4, <2>6, <2>7, Positions
  <2>8. CASE plan.program = "tc"
    <3>1. m.planner = pl /\ m.out.pos = IF p = 1 THEN 0 ELSE IF p = 5 THEN Wrapped(a + Nudge) ELSE a
      <4>1. m = TC_cycle(loop, a) /\ Table = <<400, 600, 800, 1000>>
        BY <2>8 DEF m, Turn, Table, Tables
      <4>2. p = Phase(<<400, 600, 800, 1000>>, loop.step)
        BY <4>1, <1>0
      <4> QED
        BY <4>1, <4>2 DEF TC_cycle, Pacing
    <3>2. Wrapped(a + Nudge) \in Position
      <4>1. a \in Position
        BY <2>1
      <4> QED
        BY <4>1, Nudging
    <3>3. ~pl.initialized
      BY <2>3, <2>8 DEF Near
    <3>4. CASE q = 5
      <4>1. p = 5
        BY <1>2, <3>4
      <4>2. out \in {pos, Wrapped(pos + Nudge)}
        BY <2>3, <2>8, <3>4 DEF Near
      <4>3. d.pos \in {a, Wrapped(a + Nudge)}
        BY <4>2, <2>1, <2>4
      <4>4. m.out.pos = Wrapped(a + Nudge)
        BY <3>1, <4>1
      <4> HIDE DEF d, pos, out, pl
      <4>5. m.out.pos \in {d.pos, Wrapped(d.pos + Nudge)}
        BY <4>3, <4>4
      <4> QED
        BY <3>1, <3>2, <3>3, <4>1, <4>4, <4>5, <2>1, <2>4, <2>6, <2>8 DEF d, pl
    <3>5. CASE q # 5
      <4>1. d.pos = a
        BY <2>5, <3>5, <2>8
      <4> HIDE DEF d, pos, out, pl
      <4> QED
        BY <3>1, <3>2, <3>3, <4>1, <2>1, <2>4, <2>6, <2>8, Positions DEF d, pl
    <3> QED
      BY <3>4, <3>5
  <2>9. CASE plan.program = "csp"
    <3> DEFINE go    == p = 5 /\ sent > 0
               moved == CSP_plan(CSP_target(pl), a)
    <3>1. /\ m.planner = IF go THEN moved ELSE IF p = 5 THEN [pl EXCEPT !.initialized = FALSE] ELSE pl
          /\ m.out.pos = IF p = 1 THEN 0 ELSE IF go THEN Rounded(moved.pos) ELSE a
      <4>1. m = CSP_cycle(loop, a) /\ Table = <<400, 600, 800, 1000>>
        BY <2>9 DEF m, Turn, Table, Tables
      <4>2. p = Phase(<<400, 600, 800, 1000>>, loop.step)
        BY <4>1, <1>0
      <4> QED
        BY <4>1, <4>2 DEF CSP_cycle
    <3>2. CASE go
      <4>1. /\ IsPlanner(moved) /\ moved.initialized /\ Rounded(moved.pos) \in Position
            /\ Close(Rounded(moved.pos), IF pl.initialized THEN Rounded(pl.pos) ELSE a)
        BY <1>8, <2>1, <3>2, Planning
      <4>2. m.planner = moved /\ m.out.pos = Rounded(moved.pos) /\ p = 5
        BY <3>1, <3>2
      <4>3. ASSUME d.state # "FAULT" PROVE d.pos = IF pl.initialized THEN Rounded(pl.pos) ELSE a
        <5>1. CASE pl.initialized
          <6>1. q = 5 /\ Rounded(pl.pos) = out
            BY <2>3, <2>9, <5>1 DEF Near
          <6>2. drives[1].state = "OPERATION_ENABLED" /\ d.state = drives[1].state
            BY <2>2, <6>1, <4>3 DEF InTime
          <6> QED
            BY <6>1, <6>2, <2>2, <5>1
        <5>2. CASE ~pl.initialized
          BY <2>5, <2>9, <5>2
        <5> QED
          BY <5>1, <5>2
      <4> HIDE DEF moved, d, pos, out, pl
      <4>4. IsPlanner(m.planner) /\ m.planner.initialized /\ m.out.pos = Rounded(m.planner.pos) /\ m.out.pos \in Position
        BY <4>1, <4>2
      <4>5. d.state # "FAULT" => Close(m.out.pos, d.pos)
        BY <4>1, <4>2, <4>3
      <4> QED
        BY <4>2, <4>4, <4>5, <3>2, <2>4, <2>6, <2>9 DEF d
    <3>3. CASE ~go
      <4>1. d.pos = a /\ ~pl.initialized
        <5>1. ~(q = 5 /\ pl.initialized)
          BY <2>3, <2>9, <3>3, <1>2 DEF Near
        <5> QED
          BY <5>1, <2>5, <2>9
      <4>2. m.out.pos = IF p = 1 THEN 0 ELSE a
        BY <3>1, <3>3
      <4>3. IsPlanner(m.planner) /\ ~m.planner.initialized
        <5>1. m.planner = pl \/ m.planner = [pl EXCEPT !.initialized = FALSE]
          BY <3>1, <3>3
        <5> HIDE DEF pl
        <5>2. CASE m.planner = pl
          BY <5>2, <4>1, <2>1
        <5>3. CASE m.planner = [pl EXCEPT !.initialized = FALSE]
          BY <5>3, <2>1 DEF IsPlanner
        <5> QED
          BY <5>1, <5>2, <5>3
      <4> HIDE DEF moved, d, pos, out, pl
      <4> QED
        BY <4>1, <4>2, <4>3, <2>1, <2>4, <2>6, <2>9, Positions DEF d
    <3> QED
      BY <3>2, <3>3
  <2> QED
    BY <2>1, <2>7, <2>8, <2>9
<1>9. \E r \in 1 .. 5 : Paced(r)' /\ (Positioned' => Near(r)')
  BY <1>2, <1>6, <1>7, <1>8
<1>10. plan.program # "pp"
  BY DEF Counting, Tables
<1> QED
  BY <1>1, <1>3, <1>4, <1>6, <1>8, <1>9, <1>10 DEF Pacing, IsLoop, IsDrive

\* A plan that is run, with its devices.
LEMMA PlanIs ==
  ASSUME Devs
  PROVE  /\ plan \in Plans /\ Len(plan.kinds) \in Nat \ {0} /\ Devices = 1 .. Len(plan.kinds)
         /\ plan.goals \in Seq(Position) /\ plan.start \in Position /\ plan.drive \in {"SW_ON_DISABLED", "FAULT"}
         /\ Positioned => Devices = {1} /\ plan.program \in Counting
<1>1. plan \in Plans /\ Len(plan.kinds) \in Nat \ {0} /\ Devices = 1 .. Len(plan.kinds)
  BY PlanAssumption DEF Devs, Devices
<1>2. plan.goals \in Seq(Position) /\ plan.start \in Position /\ plan.drive \in {"SW_ON_DISABLED", "FAULT"}
  BY <1>1, DemoAssumption DEF Position
<1>3. ASSUME Positioned PROVE Devices = {1} /\ plan.program \in Counting
  <2>1. Len(plan.kinds) = 1
    BY <1>3 DEF Positioned
  <2>2. Devices = {1}
    BY <1>1, <2>1
  <2> QED
    BY <2>2, <1>3 DEF Positioned, Counting, Tables
<1> QED
  BY <1>1, <1>2, <1>3

\* The image of a demo that counts in every cycle is only kept in shape.
LEMMA PpKept ==
  ASSUME Pacing, Devs, Devices' = Devices, plan.program = "pp", UNCHANGED <<plan, sent>>,
         \/ loop' = PP_sends(loop, loop)
         \/ loop' = PP_sends(loop, PP_cycle(loop)),
         \/ drives' = drives
         \/ drives' = [k \in Devices |-> Driven(drives[k], loop.out)]
  PROVE  Pacing'
<1>1. DOMAIN drives' = Devices /\ \A k \in Devices : DOMAIN drives'[k] = {"state", "cw", "pos", "go"}
  <2>1. CASE drives' = drives
    BY <2>1 DEF Pacing
  <2>2. CASE drives' = [k \in Devices |-> Driven(drives[k], loop.out)]
    BY <2>2 DEF Pacing, Driven
  <2> QED
    BY <2>1, <2>2
<1>2. {"step", "out", "planner"} \subseteq DOMAIN loop' /\ loop'.step \in Nat
  <2> DEFINE G(l) == [l EXCEPT !.out = loop.rxpdo, !.step = Step(loop, 1800)]
  <2>1. PICK l : loop' = G(l) /\ DOMAIN l = DOMAIN loop
    <3>1. loop' = G(loop) \/ loop' = G(PP_cycle(loop))
      BY DEF PP_sends
    <3>2. DOMAIN PP_cycle(loop) = DOMAIN loop
      BY DEF PP_cycle
    <3> HIDE DEF G
    <3> QED
      BY <3>1, <3>2
  <2>2. Step(loop, 1800) \in Nat
    BY DEF Pacing, Step
  <2> QED
    BY <2>1, <2>2 DEF Pacing
<1>3. plan'.program = "pp" /\ plan.program \notin Counting /\ ~Positioned'
  BY DEF Counting, Tables, Positioned
<1> QED
  BY <1>1, <1>2, <1>3 DEF Pacing

LEMMA PassKept ==
  ASSUME Pacing, Devs, Devices' = Devices, UNCHANGED plan, NEW fate \in Fates, Pass(fate)
  PROVE  Pacing'
<1> DEFINE ds == [k \in Devices |-> Driven(drives[k], loop.out)]
           a  == drives[Max(Devices)].pos
<1>1. UNCHANGED sent /\ plan.program \in Loops
  BY DEF Pass
<1>2. drives' = (IF fate = "lost" THEN drives ELSE ds)
  BY DEF Pass
<1>3. loop' = PP_sends(loop, IF Answered(fate) THEN Turn(loop, a) ELSE loop)
  BY DEF Pass
<1>4. Answered(fate) => fate # "lost"
  BY DEF Answered
<1>5. CASE plan.program = "pp"
  <2>1. Turn(loop, a) = PP_cycle(loop)
    BY <1>5 DEF Turn
  <2>2. drives' = drives \/ drives' = ds
    BY <1>2
  <2>3. loop' = PP_sends(loop, loop) \/ loop' = PP_sends(loop, PP_cycle(loop))
    BY <1>3, <2>1
  <2> QED
    BY <1>1, <1>5, <2>2, <2>3, PpKept
<1>6. CASE plan.program # "pp"
  <2>1. plan.program \in Counting
    BY <1>1, <1>6 DEF Loops, Counting, Tables
  <2>2. PICK q \in 1 .. 5 : Paced(q) /\ (Positioned => Near(q))
    BY <2>1 DEF Pacing
  <2>3. loop' = IF Answered(fate) THEN Turn(loop, a) ELSE loop
    BY <1>3, <1>6 DEF PP_sends
  <2>4. Positioned => a = drives[1].pos /\ 1 \in Devices
    <3>1. Max({1}) = 1
      BY DEF Max
    <3> QED
      BY <3>1, PlanIs
  <2>5. Positioned /\ sent > 0 => Commanded \in Position
    <3>1. plan.goals \in Seq(Position) /\ sent \in 0 .. Len(plan.goals)
      BY PlanIs DEF Pacing
    <3> QED
      BY <3>1 DEF Commanded
  <2>6. CASE Answered(fate)
    <3>1. loop' = Turn(loop, a) /\ drives' = ds
      BY <1>2, <1>4, <2>3, <2>6
    <3> HIDE DEF a
    <3> QED
      BY <1>1, <2>1, <2>2, <2>4, <2>5, <3>1, TurnKept
  <2>7. CASE ~Answered(fate)
    <3>1. UNCHANGED loop /\ (drives' = drives \/ drives' = ds)
      BY <1>2, <2>3, <2>7
    <3> QED
      BY <1>1, <2>1, <2>2, <2>4, <3>1, SameLoopKept
  <2> QED
    BY <2>6, <2>7
<1> QED
  BY <1>5, <1>6

\* A client that sends a target and a drive that gets a fault.
LEMMA ClientsKept ==
  ASSUME Pacing, Devs, Devices' = Devices, UNCHANGED plan, Command \/ \E k \in Devices : DriveFault(k)
  PROVE  Pacing'
<1>T. Table' = Table /\ Positioned' = Positioned
  BY DEF Table, Positioned
<1>1. CASE Command
  <2>1. UNCHANGED <<loop, drives>> /\ sent' = sent + 1 /\ sent < Len(plan.goals) /\ Len(plan.goals) \in Nat
    BY <1>1, PlanIs DEF Command
  <2>2. sent' \in 0 .. Len(plan.goals) /\ (sent > 0 => sent' > 0)
    BY <2>1 DEF Pacing
  <2>3. \A q \in 1 .. 5 : Paced(q)' <=> Paced(q)
    BY <2>1, <1>T DEF Paced, Phase
  <2>4. \A q \in 1 .. 5 : Near(q) => Near(q)'
    BY <2>1, <2>2 DEF Near
  <2> QED
    BY <2>1, <2>2, <2>3, <2>4, <1>T DEF Pacing
<1>2. ASSUME NEW j \in Devices, DriveFault(j) PROVE Pacing'
  <2>1. UNCHANGED <<loop, sent>> /\ drives' = [drives EXCEPT ![j].state = "FAULT"]
    BY <1>2 DEF DriveFault
  <2>2. /\ DOMAIN drives' = Devices
        /\ \A k \in Devices : /\ DOMAIN drives'[k] = DOMAIN drives[k] /\ drives'[k].pos = drives[k].pos
                              /\ drives'[k].state \in {drives[k].state, "FAULT"}
    <3>1. \A k \in Devices : drives'[k] = drives[k] \/ drives'[k] = [drives[k] EXCEPT !.state = "FAULT"]
      BY <2>1 DEF Pacing
    <3>2. ASSUME NEW d, IsDrive(d)
          PROVE  LET e == [d EXCEPT !.state = "FAULT"] IN DOMAIN e = DOMAIN d /\ e.pos = d.pos /\ e.state = "FAULT"
      BY <3>2 DEF IsDrive
    <3>3. \A k \in Devices : IsDrive(drives[k])
      BY DEF Pacing, IsDrive
    <3> QED
      BY <2>1, <3>1, <3>2, <3>3 DEF Pacing
  <2>3. ASSUME NEW q \in 1 .. 5, Paced(q) PROVE Paced(q)'
    <3>1. "FAULT" \in InTime[q]
      BY DEF InTime
    <3> QED
      BY <2>1, <2>2, <2>3, <3>1, <1>T DEF Paced, Phase
  <2>4. ASSUME NEW q \in 1 .. 5, Positioned, Near(q) PROVE Near(q)'
    <3>1. 1 \in Devices
      BY <2>4, PlanIs
    <3>2. drives'[1].pos = drives[1].pos /\ (drives'[1].state # "FAULT" => drives[1].state # "FAULT")
      BY <2>2, <3>1
    <3> QED
      BY <2>1, <2>4, <3>2 DEF Near
  <2>5. Positioned => drives'[1].pos = drives[1].pos
    BY <2>2, PlanIs
  <2> QED
    BY <2>1, <2>2, <2>3, <2>4, <2>5, <1>T DEF Pacing
<1> QED
  BY <1>1, <1>2

\* Other steps touch neither the loop nor the drives.
LEMMA OthersKeepPacing ==
  ASSUME Pacing, Devices' = Devices, UNCHANGED <<plan, loop, drives, sent>>
  PROVE  Pacing'
<1>1. Table' = Table /\ Positioned' = Positioned
  BY DEF Table, Positioned
<1>2. \A q \in 1 .. 5 : (Paced(q)' <=> Paced(q)) /\ (Near(q)' <=> Near(q))
  BY <1>1 DEF Paced, Phase, Near
<1> QED
  BY <1>1, <1>2 DEF Pacing

\* The plan is made before.
LEMMA PlanStays ==
  ASSUME Flow, Devs, Budget, Next
  PROVE  UNCHANGED plan /\ (ecatthread \/ UNCHANGED <<loop, drives, sent>>)
<1>1. ASSUME ecx_config_init \/ ecx_config_map \/ erob_test PROVE UNCHANGED plan
  BY <1>1, ConfigTame, MapTame, TestTame DEF Untroubled
<1>2. ASSUME ecatcheck PROVE UNCHANGED plan
  BY <1>2, CheckTame DEF Spends
<1>3. ASSUME inOP, Environment PROVE UNCHANGED plan
  BY <1>3 DEF Environment, PowerOff, PowerOn, Watchdog
<1>4. ASSUME (\E fate : Cycle(fate)) \/ ecatthread \/ eepromtool \/ RomDone \/ RomNack PROVE UNCHANGED plan
  BY <1>4, OthersTame DEF Spends, StartTool
<1>5. ASSUME eepromtool \/ RomDone \/ RomNack PROVE UNCHANGED <<loop, drives, sent>>
  BY <1>5 DEF eepromtool, StartTool, WaitNotBusy, ForceToMaster, ClearError, SendData, SendCommand, Fetch, RomDone, RomNack,
              Elsewhere, demovars
<1> QED
  BY <1>1, <1>2, <1>3, <1>4, <1>5 DEF Next, Rest, demovars

LEMMA PacingKept ==
  ASSUME Flow, Devs, Budget, Pacing, Next
  PROVE  Pacing'
<1>1. UNCHANGED plan /\ (ecatthread \/ UNCHANGED <<loop, drives, sent>>)
  BY PlanStays
<1>2. Devices' = Devices
  <2>1. Devs'
    BY DevsKept
  <2> QED
    BY <2>1, <1>1 DEF Devs, Devices
<1>3. CASE ecatthread
  BY <1>1, <1>2, <1>3, PassKept, ClientsKept DEF ecatthread
<1>4. CASE UNCHANGED <<loop, drives, sent>>
  BY <1>1, <1>2, <1>4, OthersKeepPacing
<1> QED
  BY <1>1, <1>3, <1>4

LEMMA NewPlanner == IsPlanner(NewLoop.planner)
<1> DEFINE p == [initialized |-> FALSE, target |-> 0, pos |-> 0, vel |-> 0]
<1>1. Count * 0 \in Count * Lowest .. Count * Highest /\ 0 \in Position
  BY Positions, CountedIn
<1>2. Count * 0 = 0 /\ 0 \in -MAX_VELOCITY .. MAX_VELOCITY
  BY DemoAssumption
<1>3. IsPlanner(p)
  BY <1>1, <1>2 DEF IsPlanner
<1> QED
  BY <1>3 DEF NewLoop

LEMMA InitPacing ==
  ASSUME Init, Devs
  PROVE  Pacing
<1>1. /\ loop \in NewLoops /\ sent = 0
      /\ drives = [k \in DOMAIN plan.kinds |-> [state |-> plan.drive, cw |-> 0, pos |-> plan.start, go |-> FALSE]]
  BY DEF Init
<1>2. DOMAIN drives = Devices /\ \A k \in Devices :
        DOMAIN drives[k] = {"state", "cw", "pos", "go"} /\ drives[k].state = plan.drive /\ drives[k].pos = plan.start
  BY <1>1 DEF Devs, Devices
<1>3. {"step", "out", "planner"} \subseteq DOMAIN loop /\ loop.step = 0
  <2>1. CASE loop = NewLoop
    BY <2>1 DEF NewLoop
  <2>2. CASE loop \in PP_loops
    <3>1. PICK w, g : loop = PP_loop(w, g)
      BY <2>2 DEF PP_loops
    <3> QED
      BY <3>1 DEF PP_loop, NewLoop
  <2> QED
    BY <1>1, <2>1, <2>2 DEF NewLoops
<1>4. sent \in 0 .. Len(plan.goals)
  BY <1>1, PlanIs
<1>5. plan.program # "pp" => loop = NewLoop
  BY <1>1 DEF NewLoops
<1>6. NewLoop.out.cw = Words[1] /\ ~NewLoop.out.go /\ NewLoop.out.pos = 0 /\ IsPlanner(NewLoop.planner)
      /\ ~NewLoop.planner.initialized
  BY NewPlanner DEF NewLoop, Words
<1>7. ASSUME plan.program \in Counting PROVE Paced(1) /\ (Positioned => Near(1)) /\ plan.program # "pp"
  <2>1. plan.program # "pp"
    BY <1>7 DEF Counting, Tables
  <2>2. Phase(Table, loop.step) = 1
    <3>1. PICK m \in 0 .. 4 : Phase(Table, 0) = m + 1 /\ LiesAfter(Table, 0 * Unit, m)
      BY <1>7, Gaps, PhaseAt
    <3>2. 0 * Unit = 0
      BY DemoAssumption
    <3>3. m = 0
      BY <1>7, <3>1, <3>2, Gaps DEF LiesAfter, Gapped
    <3> QED
      BY <1>3, <3>1, <3>3
  <2>3. \A k \in Devices : drives[k].state \in InTime[1]
    BY <1>2, PlanIs DEF InTime
  <2> QED
    BY <1>5, <1>6, <2>1, <2>2, <2>3 DEF Paced, Near
<1>8. Positioned => IsPlanner(loop.planner) /\ loop.out.pos \in Position /\ drives[1].pos \in Position
  BY <1>2, <1>5, <1>6, <1>7, PlanIs, Positions
<1> QED
  BY <1>2, <1>3, <1>4, <1>5, <1>6, <1>7, <1>8 DEF Pacing

\* The loops and drives in every state of every network.
LEMMA Pace == Spec => []Pacing
<1>1. Pacing /\ Flow /\ Devs /\ Budget /\ Devs' /\ [Next]_netall => Pacing'
  <2> SUFFICES ASSUME Pacing, Flow, Devs, Budget, [Next]_netall PROVE Pacing'
    OBVIOUS
  <2>1. CASE Next
    BY <2>1, PacingKept
  <2>2. CASE UNCHANGED netall
    BY <2>2, OthersKeepPacing DEF netall, vars, mapvars, netvars, demovars, Devices
  <2> QED
    BY <2>1, <2>2
<1>2. Init /\ Devs => Pacing
  BY InitPacing
<1> QED
  BY <1>1, <1>2, Course, PTL DEF Spec

\* A torque, velocity or new set-point is only sent once every drive has been enabled or
\* has a fault, however many slaves there are, whichever frames are lost and whenever a
\* drive gets a fault; but for eRob_PP_subscriber, which counts its steps in the cycles
\* that went wrong as well.
THEOREM DrivesAreEnabledFirst == Spec => [](plan.program # "pp" => DrivenWhenEnabled)
<1>1. ASSUME Pacing, plan.program # "pp" PROVE DrivenWhenEnabled
  <2> SUFFICES ASSUME loop.out.go, NEW k \in Devices PROVE drives[k].state \in {"OPERATION_ENABLED", "FAULT"}
    BY DEF DrivenWhenEnabled
  <2>1. PICK q \in 1 .. 5 : Paced(q)
    BY <1>1 DEF Pacing
  <2> QED
    BY <2>1 DEF Paced, InTime
<1> QED
  BY <1>1, Pace, PTL

\* A remainder is found by its quotient.
LEMMA Remainder ==
  ASSUME NEW x \in Int, NEW q \in Int, NEW r \in 0 .. Span - 1, x = Span * q + r
  PROVE  x % Span = r
  BY DemoAssumption

Steps == {x \in Int : (x + Reach) % Span <= 2 * Reach}

\* What is close is close in the numbers modulo Span.
LEMMA ShortSteps ==
  ASSUME NEW x \in -Reach .. Reach
  PROVE  x \in Steps
<1>1. Span \in Nat \ {0} /\ Reach \in Nat
  BY DemoAssumption, Reaching
<1> DEFINE y == x + Reach
<1>2. y \in Nat /\ y <= 2 * Reach
  BY <1>1
<1> HIDE DEF y
<1>3. y % Span <= y
  <2>1. y \div Span \in Nat /\ y % Span = y - Span * (y \div Span)
    BY <1>1, <1>2
  <2>2. Span * (y \div Span) \in Nat
    <3> DEFINE q == y \div Span
    <3>1. q \in Nat
      BY <2>1
    <3> HIDE DEF q
    <3>2. Span * q \in Nat
      BY <1>1, <3>1
    <3> QED
      BY <3>2 DEF q
  <2> QED
    BY <1>2, <2>1, <2>2
<1>4. y % Span <= 2 * Reach
  <2>1. y % Span \in Int
    BY <1>1, <1>2
  <2> QED
    BY <1>1, <1>2, <1>3, <2>1
<1> QED
  BY <1>4 DEF Steps, y

\* eRob_TC's nudge is a short step too, also where the numbers start again.
LEMMA NudgeStep ==
  ASSUME NEW a \in Int
  PROVE  Wrapped(a + Nudge) - a \in Steps
<1>1. Span \in Nat \ {0} /\ Nudge \in 0 .. Reach /\ Reach \in Nat
  BY DemoAssumption, Reaching
<1> DEFINE w == Wrapped(a + Nudge)
<1>2. w \in Int
  BY <1>1, Wrapping, Positions
<1>3. PICK q \in Int : w = (a + Nudge) - Span * q
  <2> DEFINE n == a + Nudge
  <2>1. n \in Int
    BY Nudging
  <2> HIDE DEF n
  <2>2. \E q \in Int : Wrapped(n) = n - Span * q
    BY <2>1, Wrapping
  <2> QED
    BY <2>2 DEF n
<1> HIDE DEF w
<1> DEFINE y == Nudge + Reach
           r == y % Span
           k == y \div Span
<1>4. r \in 0 .. Span - 1 /\ k \in Int /\ y = Span * k + r
  BY <1>1
<1>5. r <= 2 * Reach
  BY <1>1, ShortSteps DEF Steps
<1> HIDE DEF r, k
<1>6. w - a + Reach = Span * (k - q) + r
  <2>1. Span * (k - q) = Span * k - Span * q
    BY <1>1, <1>3, <1>4
  <2> QED
    BY <1>1, <1>2, <1>3, <1>4, <2>1
<1> DEFINE x == w - a + Reach
           z == k - q
<1>7. x \in Int /\ z \in Int /\ x = Span * z + r
  BY <1>1, <1>2, <1>3, <1>4, <1>6
<1> HIDE DEF x, z
<1>8. x % Span = r
  BY <1>4, <1>7, Remainder
<1> QED
  BY <1>2, <1>5, <1>8 DEF x, w, Steps

\* The set-points of the demos are safe whichever frames are lost, whenever the client
\* sends targets and whenever the drive gets a fault: an enabled drive in position mode
\* is never told a position further away than the planner moves in a cycle, and nothing
\* is sent to a drive that is not enabled. The position demos are taken with one drive
\* (with more, all are told the last one's position), eRob_PP_subscriber is left out
\* (its count of steps goes on while cycles are lost).
THEOREM CommandsAreSafe ==
  Spec => [](plan.program # "pp" /\ (plan.program \in {"csp", "csp_subscriber", "tc"} => Len(plan.kinds) = 1)
               => CommandsSafe)
<1>1. ASSUME Pacing, Devs, plan.program \in {"csp", "csp_subscriber", "tc"}, Len(plan.kinds) = 1 PROVE NoJump
  <2>1. Positioned /\ Devices = {1} /\ plan.program \in Counting
    BY <1>1, PlanIs DEF Positioned
  <2> SUFFICES ASSUME drives[1].state = "OPERATION_ENABLED"
               PROVE  loop.out.pos - drives[1].pos \in Steps
    BY <2>1 DEF NoJump, Steps
  <2>2. PICK q \in 1 .. 5 : Paced(q) /\ Near(q)
    BY <1>1, <2>1 DEF Pacing
  <2> DEFINE pos == drives[1].pos
             out == loop.out.pos
  <2>3. pos \in Int /\ out \in Int
    BY <1>1, <2>1, Positions DEF Pacing
  <2>4. q > 1
    BY <2>1, <2>2 DEF Paced, InTime
  <2>5. Close(out, pos) \/ out = Wrapped(pos + Nudge)
    <3>1. Close(out, pos) \/ out = pos \/ out = Wrapped(pos + Nudge)
      BY <2>1, <2>2, <2>4 DEF Near
    <3> QED
      BY <2>3, <3>1, Reaching DEF Close
  <2> HIDE DEF pos, out
  <2>6. out - pos \in Steps
    BY <2>3, <2>5, ShortSteps, NudgeStep DEF Close
  <2> QED
    BY <2>6 DEF pos, out
<1>2. plan.program \notin {"csp", "csp_subscriber", "tc"} => NoJump
  BY DEF NoJump
<1>3. Pacing /\ Devs /\ (plan.program # "pp" => DrivenWhenEnabled)
      => (plan.program # "pp" /\ (plan.program \in {"csp", "csp_subscriber", "tc"} => Len(plan.kinds) = 1)
            => CommandsSafe)
  BY <1>1, <1>2 DEF CommandsSafe
<1> QED
  BY <1>3, Pace, Course, DrivesAreEnabledFirst, PTL

-----------------------------------------------------------------------------
(***************************************************************************)
(* Positions are numbers, in every demo and with any number of drives.     *)
(***************************************************************************)
IsTurned(l) ==
  /\ l.out.pos \in Position /\ IsPlanner(l.planner)
  /\ plan.program = "pp" => {"rxpdo", "seen"} \subseteq DOMAIN l /\ l.rxpdo.pos \in Position /\ l.seen \in Nat

Moving == IsTurned(loop) /\ \A k \in Devices : drives[k].pos \in Position

\* What the loop makes of a pass that went well.
LEMMA TurnsAround ==
  ASSUME Pacing, Devs, plan.program \in Loops, plan.program # "pp", NEW a \in Position, IsTurned(loop)
  PROVE  LET l == Turn(loop, a) IN l.out.pos \in Position /\ IsPlanner(l.planner)
<1>1. {"step", "out", "planner"} \subseteq DOMAIN loop
  BY DEF Pacing
<1>2. CASE plan.program = "csp"
  <2> DEFINE m == CSP_plan(CSP_target(loop.planner), a)
             s == [loop.planner EXCEPT !.initialized = FALSE]
  <2>1. /\ CSP_cycle(loop, a).planner \in {m, s, loop.planner} /\ CSP_cycle(loop, a).out.pos \in {0, Rounded(m.pos), a}
        /\ sent = 0 => CSP_cycle(loop, a).planner \in {s, loop.planner} /\ CSP_cycle(loop, a).out.pos \in {0, a}
    <3>1. sent \in Nat
      BY PlanIs DEF Pacing
    <3> QED
      BY <3>1 DEF CSP_cycle
  <2>2. sent > 0 => IsPlanner(m) /\ Rounded(m.pos) \in Position
    <3>1. sent > 0 => Commanded \in Position
      BY PlanIs DEF Pacing, Commanded
    <3> QED
      BY <3>1, Planning DEF IsTurned, IsPlanner
  <2>3. IsPlanner(s)
    BY DEF IsTurned, IsPlanner
  <2>4. sent = 0 \/ sent > 0
    BY PlanIs DEF Pacing
  <2>5. Turn(loop, a) = CSP_cycle(loop, a)
    BY <1>2 DEF Turn
  <2> HIDE DEF m, s
  <2> QED
    BY <2>1, <2>2, <2>3, <2>4, <2>5, Positions DEF IsTurned
<1>3. CASE plan.program = "csp_subscriber"
  <2>1. /\ SUB_cycle(loop, a).planner = loop.planner
        /\ SUB_cycle(loop, a).out.pos \in {0, a}
    BY <1>1 DEF SUB_cycle
  <2> QED
    BY <1>3, <2>1, Positions DEF Turn, IsTurned
<1>4. CASE plan.program = "tc"
  <2>1. TC_cycle(loop, a).planner = loop.planner /\ TC_cycle(loop, a).out.pos \in {0, a, Wrapped(a + Nudge)}
    BY <1>1 DEF TC_cycle
  <2>2. Wrapped(a + Nudge) \in Position
    BY Nudging
  <2> QED
    BY <1>4, <2>1, <2>2, Positions DEF Turn, IsTurned
<1>5. CASE plan.program \in {"cst", "pt", "pv"}
  <2>1. /\ CST_cycle(loop, a).planner = loop.planner /\ CST_cycle(loop, a).out.pos = 0
        /\ PT_cycle(loop, a).planner = loop.planner /\ PT_cycle(loop, a).out.pos = 0
        /\ PV_cycle(loop, a).planner = loop.planner /\ PV_cycle(loop, a).out.pos = 0
    BY <1>1 DEF CST_cycle, PT_cycle, PV_cycle
  <2>2. Turn(loop, a) \in {CST_cycle(loop, a), PT_cycle(loop, a), PV_cycle(loop, a)}
    BY <1>5 DEF Turn
  <2> QED
    BY <2>1, <2>2, Positions DEF IsTurned
<1> QED
  BY <1>2, <1>3, <1>4, <1>5 DEF Loops

\* eRob_PP_subscriber sends what it made of the pass before.
LEMMA TurnsPp ==
  ASSUME Pacing, Devs, plan.program = "pp", IsTurned(loop), UNCHANGED plan,
         NEW l \in {loop, PP_cycle(loop)}, loop' = PP_sends(loop, l)
  PROVE  IsTurned(loop')
<1>1. {"step", "out", "planner", "rxpdo", "seen"} \subseteq DOMAIN loop /\ loop.rxpdo.pos \in Position /\ loop.seen \in Nat
  BY DEF Pacing, IsTurned
<1>2. sent \in Nat /\ (loop.seen < sent => Commanded \in Position)
  <2>1. plan.goals \in Seq(Position) /\ sent \in 0 .. Len(plan.goals)
    BY PlanIs DEF Pacing
  <2> QED
    BY <1>1, <2>1 DEF Commanded
<1>3. /\ DOMAIN l = DOMAIN loop /\ l.planner = loop.planner /\ l.rxpdo.pos \in Position /\ l.seen \in Nat
  <2>1. CASE l = loop
    BY <1>1, <2>1
  <2>2. CASE l = PP_cycle(loop)
    <3> DEFINE new == loop.step * Unit > 1600 /\ PP_updated(loop)
               r0  == [cw |-> Words[Phase(<<400, 600, 800, 1000>>, loop.step)], pos |-> 0, go |-> FALSE]
               pos == IF new THEN Commanded ELSE loop.rxpdo.pos
               r   == [cw |-> CW_ENABLE_OP_CMD, pos |-> pos, go |-> new]
               n   == IF new THEN sent ELSE loop.seen
    <3>1. r0.pos = 0 /\ r.pos = pos
      OBVIOUS
    <3>2. l = loop \/ l = [loop EXCEPT !.rxpdo = r0] \/ l = [loop EXCEPT !.rxpdo = r, !.seen = n]
      <4>1. PP_cycle(loop) = IF Phase(<<400, 600, 800, 1000>>, loop.step) < 5 THEN [loop EXCEPT !.rxpdo = r0]
                             ELSE IF loop.step * Unit <= 1600 THEN loop
                             ELSE [loop EXCEPT !.rxpdo = r, !.seen = n]
        BY Zenon DEF PP_cycle
      <4> HIDE DEF r, n, r0
      <4> QED
        BY <2>2, <4>1
    <3>3. pos \in Position /\ n \in Nat
      BY <1>1, <1>2 DEF PP_updated
    <3> HIDE DEF r, n, r0, pos, new
    <3>4. CASE l = loop
      BY <1>1, <3>4
    <3>5. CASE l = [loop EXCEPT !.rxpdo = r0]
      BY <1>1, <3>1, <3>5, Positions
    <3>6. CASE l = [loop EXCEPT !.rxpdo = r, !.seen = n]
      <4> DEFINE q == [loop EXCEPT !.rxpdo = r]
      <4>1. l = [q EXCEPT !.seen = n]
        BY <3>6
      <4>2. DOMAIN q = DOMAIN loop /\ q.planner = loop.planner /\ q.rxpdo = r
        BY <1>1
      <4> HIDE DEF q
      <4> QED
        BY <1>1, <3>1, <3>3, <4>1, <4>2
    <3> QED
      BY <3>2, <3>4, <3>5, <3>6
  <2> QED
    BY <2>1, <2>2
<1>4. loop' = [l EXCEPT !.out = loop.rxpdo, !.step = Step(loop, 1800)]
  BY DEF PP_sends
<1>5. loop'.out = loop.rxpdo /\ loop'.planner = loop.planner /\ loop'.rxpdo = l.rxpdo /\ loop'.seen = l.seen
      /\ DOMAIN loop' = DOMAIN loop
  BY <1>1, <1>3, <1>4
<1> QED
  BY <1>1, <1>3, <1>5 DEF IsTurned

LEMMA LastDevice == ASSUME Devs PROVE Max(Devices) \in Devices
<1>1. Devices = 1 .. Len(plan.kinds) /\ Len(plan.kinds) \in Nat \ {0}
  BY PlanIs
<1>2. \E x \in Devices : \A y \in Devices : x >= y
  BY <1>1
<1> QED
  BY <1>2 DEF Max

LEMMA MovingKept ==
  ASSUME Flow, Devs, Budget, Pacing, Moving, Next
  PROVE  Moving'
<1>1. UNCHANGED plan /\ Devices' = Devices
  <2>1. Devs' /\ UNCHANGED plan
    BY DevsKept, PlanStays
  <2> QED
    BY <2>1 DEF Devs, Devices
<1>2. CASE UNCHANGED <<loop, drives, sent>>
  BY <1>1, <1>2 DEF Moving, IsTurned
<1>3. ASSUME NEW fate \in Fates, Pass(fate) PROVE Moving'
  <2> DEFINE a == drives[Max(Devices)].pos
  <2>1. a \in Position
    BY LastDevice DEF Moving
  <2>2. \A k \in Devices : drives'[k].pos \in Position
    <3>1. ASSUME NEW d, IsDrive(d), d.pos \in Position, NEW out, out.pos \in Position PROVE Driven(d, out).pos \in Position
      BY <3>1 DEF Driven, IsDrive
    <3>2. \A k \in Devices : IsDrive(drives[k]) /\ drives[k].pos \in Position /\ loop.out.pos \in Position
      BY DEF Pacing, IsDrive, Moving, IsTurned
    <3>3. \A k \in Devices : drives'[k] \in {drives[k], Driven(drives[k], loop.out)}
      BY <1>3 DEF Pass
    <3> QED
      BY <3>1, <3>2, <3>3
  <2>3. loop' = PP_sends(loop, IF Answered(fate) THEN Turn(loop, a) ELSE loop) /\ plan.program \in Loops
    BY <1>3 DEF Pass
  <2> HIDE DEF a
  <2>4. CASE plan.program = "pp"
    <3>1. Turn(loop, a) = PP_cycle(loop)
      BY <2>4 DEF Turn
    <3>2. \E l \in {loop, PP_cycle(loop)} : loop' = PP_sends(loop, l)
      BY <2>3, <3>1
    <3>3. IsTurned(loop')
      BY <1>1, <2>4, <3>2, TurnsPp DEF Moving
    <3> QED
      BY <1>1, <2>2, <3>3 DEF Moving, IsTurned
  <2>5. CASE plan.program # "pp"
    <3>1. loop' = loop \/ loop' = Turn(loop, a)
      BY <2>3, <2>5 DEF PP_sends
    <3>2. loop'.out.pos \in Position /\ IsPlanner(loop'.planner)
      BY <2>1, <2>3, <2>5, <3>1, TurnsAround DEF Moving, IsTurned
    <3> QED
      BY <1>1, <2>2, <2>5, <3>2 DEF Moving, IsTurned
  <2> QED
    BY <2>4, <2>5
<1>4. CASE Command
  BY <1>1, <1>4 DEF Command, Moving, IsTurned
<1>5. ASSUME NEW j \in Devices, DriveFault(j) PROVE Moving'
  <2>1. UNCHANGED loop /\ drives' = [drives EXCEPT ![j].state = "FAULT"]
    BY <1>5 DEF DriveFault
  <2>2. \A k \in Devices : drives'[k].pos = drives[k].pos
    BY <2>1 DEF Pacing
  <2> QED
    BY <1>1, <2>1, <2>2 DEF Moving, IsTurned
<1> QED
  BY <1>2, <1>3, <1>4, <1>5, PlanStays DEF ecatthread

\* The positions in every state of every network.
LEMMA PositionsCourse == Spec => []Moving
<1>1. Init /\ Devs => Moving
  <2> SUFFICES ASSUME Init, Devs PROVE Moving
    OBVIOUS
  <2>1. \A k \in Devices : drives[k].pos \in Position
    <3>1. drives = [k \in DOMAIN plan.kinds |-> [state |-> plan.drive, cw |-> 0, pos |-> plan.start, go |-> FALSE]]
      BY DEF Init
    <3> QED
      BY <3>1, PlanIs DEF Devs, Devices
  <2>2. IsTurned(NewLoop)
    BY NewPlanner, Positions DEF IsTurned, NewLoop
  <2>3. ASSUME NEW w, NEW g PROVE IsTurned(PP_loop(w, g))
    BY NewPlanner, Positions DEF PP_loop, IsTurned, NewLoop
  <2>4. loop = NewLoop \/ \E w, g : loop = PP_loop(w, g)
    BY DEF Init, NewLoops, PP_loops
  <2> QED
    BY <2>1, <2>2, <2>3, <2>4 DEF Moving
<1>2. Moving /\ Flow /\ Devs /\ Budget /\ Pacing /\ [Next]_netall => Moving'
  <2> SUFFICES ASSUME Moving, Flow, Devs, Budget, Pacing, [Next]_netall PROVE Moving'
    OBVIOUS
  <2>1. CASE UNCHANGED netall
    BY <2>1 DEF netall, vars, mapvars, netvars, demovars, Devices, Moving, IsTurned
  <2> QED
    BY <2>1, MovingKept
<1> QED
  BY <1>1, <1>2, Course, Pace, PTL DEF Spec
=============================================================================
