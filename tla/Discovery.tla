----------------------------- MODULE Discovery -----------------------------
(***************************************************************************)
(* ecx_config_init of soem/ethercatconfig.c: find the slaves, give them    *)
(* their addresses and learn what they are.  The stages go over all the    *)
(* slaves; the read of a word a stage starts is taken by the next one.     *)
(*                                                                         *)
(* Nothing else is on the wire yet: a stage is one step for each slave,    *)
(* and no frame is lost.                                                   *)
(***************************************************************************)
EXTENDS Eeprom, Programs

CONSTANT EC_MAXSLAVE

VARIABLE at     \* what the master does: the procedure, the slave it is at and the
                \* next step of the program

netvars == <<plan, bus, trouble, cuts, list, esi, at>>

GoOn(proc, s) == at' = [at EXCEPT !.proc = proc, !.s = s]
Go(proc)      == GoOn(proc, 1)

\* a procedure returns to the program that called it
Return == "program"

Script == Programs[plan.program].script

\* the next slave of the stage, or the next stage
Onward(next) == IF at.s < Len(list) THEN GoOn(at.proc, at.s + 1) ELSE Go(next)

Untroubled == UNCHANGED <<plan, trouble, cuts>>

Calmly(b, who, Change(_)) == Wrote(b, who, Change, "arrives")

\* the slaves before with the same manufacturer, ID and revision
Alike(s) ==
  {i \in 1 .. s - 1 : /\ list[i].eep_man = list[s].eep_man
                      /\ list[i].eep_id = list[s].eep_id
                      /\ list[i].eep_rev = list[s].eep_rev}

-----------------------------------------------------------------------------
\* variant: as if the list had no entry for the master
FitsAll(wkc) == wkc <= EC_MAXSLAVE

\* does the slave list have room for them?
Fits(wkc) == wkc < EC_MAXSLAVE

\* ecx_detect_slaves; EC_SLAVECOUNTEXCEEDED and no slaves end the procedure
ecx_detect_slaves ==
  /\ at.proc = "detect"
  /\ bus' = Calmly(bus, All, LAMBDA d : AlRequest(d, EC_STATE_INIT, TRUE))
  /\ LET wkc == Cardinality(All)
     IN  /\ list' = IF Fits(wkc) THEN [s \in 1 .. wkc |-> EmptySlave] ELSE <<>>
         /\ Go(IF wkc > 0 /\ Fits(wkc) THEN "defaults" ELSE "stopped")
  /\ esi' = NoCache
  /\ Untroubled

\* what ecx_set_slaves_to_default does to each slave
SetDefault(d) ==
  [AlRequest([d EXCEPT !.fmmu = 0, !.sm = NoSM], EC_STATE_INIT, TRUE) EXCEPT !.ctl = "master"]

ecx_set_slaves_to_default ==
  /\ at.proc = "defaults"
  /\ bus' = Calmly(bus, All, SetDefault)
  /\ Go("address")
  /\ UNCHANGED <<list, esi>> /\ Untroubled

\* the first stage: station address, alias, size of an EEPROM read
Address(s) ==
  LET b1 == Calmly(bus, AP(s), LAMBDA d : [d EXCEPT !.adr = s])
      \* until all have their new address, another one may still have had it
      who == {k \in Connected : b1[k].adr = s}
      last == b1[Max(who)]
  IN  /\ at.proc = "address" /\ at.s = s
      /\ list' = [list EXCEPT ![s].configadr = s, ![s].aliasadr = Kinds[last.kind].alias,
                              ![s].eep_8byte = Kinds[last.kind].r64]
      /\ bus' = Calmly(b1, who, LAMBDA d : EepCommand(d, ECT_SII_MANUF))
      /\ Onward("manuf")
      /\ UNCHANGED esi /\ Untroubled

\* stages that take a word of each slave and start the read of the next one
Took(entry, next, word, wanted) ==
  /\ list' = [list EXCEPT ![at.s] = entry]
  /\ bus' = IF wanted THEN StartWord(bus, at.s, word) ELSE bus
  /\ Onward(next)
  /\ UNCHANGED esi /\ Untroubled

TakeManuf ==
  /\ at.proc = "manuf"
  /\ Took([list[at.s] EXCEPT !.eep_man = Number(TakeWord(at.s))], "id", ECT_SII_ID, TRUE)

TakeId ==
  /\ at.proc = "id"
  /\ Took([list[at.s] EXCEPT !.eep_id = Number(TakeWord(at.s))], "rev", ECT_SII_REV, TRUE)

TakeRev ==
  /\ at.proc = "rev"
  /\ Took([list[at.s] EXCEPT !.eep_rev = Number(TakeWord(at.s))], "rxmbx", ECT_SII_RXMBXADR, TRUE)

\* mbx_wo and mbx_l, here with the start of sync manager 0
TakeRxMailbox ==
  LET word == TakeWord(at.s)
  IN  /\ at.proc = "rxmbx"
      /\ Took([list[at.s] EXCEPT !.mbx_l = High(word),
                                 !.SM[0] = IF High(word) > 0 THEN Low(word) ELSE 0],
              "links", ECT_SII_TXMBXADR, High(word) > 0)

\* mbx_ro and mbx_rl, the clock, the links and the parent
TakeLinks ==
  LET s    == at.s
      word == TakeWord(s)
      me   == list[s]
      k    == Max(Reached(s))
      open == UsedPorts(plan.wires, k)
      mail == IF me.mbx_l = 0 THEN me
              ELSE [me EXCEPT !.mbx_rl = IF High(word) = 0 THEN me.mbx_l ELSE High(word),
                              !.SM[1] = Low(word)]
      links == [c \in 1 .. s |-> IF c = s THEN Cardinality(open) ELSE list[c].topology]
  IN  /\ at.proc = "links"
      /\ list' = [list EXCEPT ![s] = [mail EXCEPT !.hasdc = Kinds[bus[k].kind].dc,
                                                  !.topology = Cardinality(open), !.activeports = open,
                                                  !.parent = ParentOf(links, s)]]
      /\ bus' = IF me.mbx_l > 0 THEN StartWord(bus, s, ECT_SII_MBXPROTO) ELSE bus
      /\ GoOn("mailbox", s)
      /\ UNCHANGED esi /\ Untroubled

\* the check for INIT, the types of the sync managers of a mailbox slave, mbx_proto
TakeMailbox ==
  LET s == at.s
  IN  /\ at.proc = "mailbox"
      /\ list' = [list EXCEPT ![s].state = AlStatus(bus[Max(Reached(s))]),
                              ![s].SMtype = IF list[s].mbx_l > 0 THEN [n \in 0 .. 3 |-> n + 1] ELSE @,
                              ![s].mbx_proto = IF list[s].mbx_l > 0 THEN Low(TakeWord(s)) ELSE @]
      /\ GoOn("sii", s)
      /\ UNCHANGED <<bus, esi>> /\ Untroubled

-----------------------------------------------------------------------------
\* ecx_lookup_prev_sii: the first slave before of the same kind
CopySii(s) ==
  LET i == Min(Alike(s))
  IN  /\ at.proc = "sii" /\ at.s = s /\ Alike(s) # {}
      /\ list' = [list EXCEPT ![s].CoEdetails = list[i].CoEdetails, ![s].blockLRW = list[i].blockLRW,
                              ![s].name = list[i].name, ![s].SM = list[i].SM,
                              ![s].func = list[i].func]
      /\ GoOn("sm01", s)
      /\ UNCHANGED <<bus, esi>> /\ Untroubled

\* the sections of the SII, read one after the other through the cache
General(v)  == ecx_siifind(v, ECT_SII_GENERAL)

SiiUses(v) ==
  SectionUses(v, ECT_SII_GENERAL, 16) \cup FindUses(v, ECT_SII_STRING)
  \cup (IF ecx_siifind(v, ECT_SII_STRING) > 0 THEN StringUses(v, 1) ELSE {})
  \cup SectionUses(v, ECT_SII_SM, 2 + 8 * Min({SmCount(v), 4}))
  \cup SectionUses(v, ECT_SII_FMMU, 2 + Len(FmmuFuncs(v)))

FromSii(me, v) ==
  LET starts == SmStarts(v)
      funcs  == FmmuFuncs(v)
      gen    == General(v)
  IN  [me EXCEPT !.CoEdetails = IF gen > 0 THEN At(v, gen + 7) ELSE @,
                 !.blockLRW = gen > 0 /\ (At(v, gen + 13) \div 2) % 2 = 1,
                 !.name = IF ecx_siifind(v, ECT_SII_STRING) > 0 THEN ecx_siistring(v, 1)
                          ELSE <<me.eep_man, me.eep_id>>,
                 !.SM = [n \in 0 .. 3 |-> IF n + 1 \in DOMAIN starts THEN starts[n + 1] ELSE @[n]],
                 !.func = [n \in 1 .. 4 |-> IF n \in DOMAIN funcs /\ funcs[n] # 255 THEN funcs[n] ELSE @[n]]]

ReadSii(s) ==
  LET v == Bytes(s)
  IN  /\ at.proc = "sii" /\ at.s = s /\ Alike(s) = {}
      /\ list' = [list EXCEPT ![s] = FromSii(@, v)]
      /\ Looked(s, SiiUses(v))
      /\ GoOn("sm01", s)
      /\ UNCHANGED bus /\ Untroubled

\* The sync managers of the mailbox, with defaults for what is missing; the
\* EEPROM is handed to the application of the slave before PRE_OP is requested.
Program(s) ==
  LET me == list[s]
      sm == IF me.mbx_l = 0 THEN me.SM
            ELSE [me.SM EXCEPT ![0] = IF @ = 0 THEN 4096 ELSE @, ![1] = IF @ = 0 THEN 4224 ELSE @]
      b1 == IF me.mbx_l = 0 THEN bus
            ELSE Calmly(bus, Reached(s), LAMBDA d : [d EXCEPT !.sm = [@ EXCEPT ![0] = sm[0], ![1] = sm[1]]])
  IN  /\ at.proc = "sm01" /\ at.s = s
      /\ list' = ecx_eeprom2pdi([list EXCEPT ![s].SM = sm], s)
      /\ bus' = Calmly(ToPdi(b1, s, "arrives"), Reached(s),
                       LAMBDA d : AlRequest(d, EC_STATE_PRE_OP, TRUE))
      /\ IF s < Len(list) THEN GoOn("links", s + 1) ELSE Go(Return)
      /\ UNCHANGED esi /\ Untroubled

ecx_config_init ==
  \/ ecx_detect_slaves
  \/ ecx_set_slaves_to_default
  \/ \E s \in Slaves : Address(s) \/ CopySii(s) \/ ReadSii(s) \/ Program(s)
  \/ TakeManuf \/ TakeId \/ TakeRev \/ TakeRxMailbox
  \/ TakeLinks
  \/ TakeMailbox
=============================================================================
