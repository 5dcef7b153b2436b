------------------------------ MODULE Mapping ------------------------------
(***************************************************************************)
(* What follows ecx_config_init until the slaves are asked for SAFE_OP:    *)
(* the process data of each slave and its sync managers                    *)
(* (ecx_config_find_mappings), its FMMUs (module IoMap lays them out, here *)
(* they are counted), and then the clocks (ecx_configdc).  Still nothing   *)
(* else is on the wire.                                                    *)
(***************************************************************************)
EXTENDS Discovery, PdoMap

VARIABLES
  hold,    \* parenthold of ecx_configdc
  clocked  \* history: are the clocks done?

mapvars == <<netvars, hold, clocked>>

ECT_MBXPROT_COE  == 4
ECT_MBXPROT_SOE  == 16
ECT_COEDET_SDOCA == 32

Has(flags, bit) == (flags \div bit) % 2 = 1

Bytes8(bits) == (bits + 7) \div 8

-----------------------------------------------------------------------------
\* the objects of the device: a program may have written its PDOs
Objects(k) ==
  IF bus[k].map = <<>> THEN Kinds[bus[k].kind].od
  ELSE [Kinds[bus[k].kind].od EXCEPT !.assign = [@ EXCEPT ![2] = <<1>>, ![3] = <<2>>],
                                     !.pdos = <<bus[k].map.rx, bus[k].map.tx>>]

\* context->manualstatechange: the program asks for SAFE_OP itself
Manual == \E i \in 1 .. at.pc - 1 : Script[i] = "manual"

\* by CoE, with complete access if the slave has it and it finds something
ByCoE(me, od) ==
  LET ca == ecx_readPDOmapCA(me, od)
  IN  IF ~Has(me.mbx_proto, ECT_MBXPROT_COE) THEN [me EXCEPT !.Obits = 0, !.Ibits = 0]
      ELSE IF Has(me.CoEdetails, ECT_COEDET_SDOCA)
      THEN IF ca.Obits + ca.Ibits > 0 THEN ca ELSE ecx_readPDOmap(ca, od)
      ELSE ecx_readPDOmap(me, od)

BySoE(me, od) ==
  IF me.Obits + me.Ibits > 0 \/ ~Has(me.mbx_proto, ECT_MBXPROT_SOE) THEN me
  ELSE LET map == ecx_readIDNmap(od)
       IN  [me EXCEPT !.Obits = map.out, !.Ibits = map.in,
                      !.SMlength = [@ EXCEPT ![2] = Bytes8(map.out), ![3] = Bytes8(map.in)]]

\* ecx_map_coe_soe: once the slave is in PRE_OP it tells what it maps
MapCoe(s) ==
  LET k  == Max(Reached(s))
      me == [list[s] EXCEPT !.state = AlStatus(bus[k])]
  IN  /\ at.proc = "coe" /\ at.s = s
      /\ list' = [list EXCEPT ![s] = BySoE(ByCoE(me, Objects(k)), Objects(k))]
      /\ Onward("map")
      /\ UNCHANGED <<bus, esi, hold, clocked>> /\ Untroubled

\* ecx_lookup_mapping
MappingOf(me, like) ==
  [me EXCEPT !.SMlength = like.SMlength, !.SMtype = like.SMtype, !.Obits = like.Obits, !.Ibits = like.Ibits]

\* the sync managers with PDOs of the SII: first the inputs, type 4, then the
\* outputs, type 3
WithPdos(me, pdos, type) ==
  [me EXCEPT !.SMlength = [n \in 0 .. 3 |-> IF SmBits(pdos, n) > 0 THEN Bytes8(SmBits(pdos, n)) ELSE @[n]],
             !.SMtype = [n \in 0 .. 3 |-> IF SmBits(pdos, n) > 0 THEN type ELSE @[n]]]

PdoUses(v, t) == SectionUses(v, ECT_SII_PDO + t, 2 + 2 * WordAt(v, ecx_siifind(v, ECT_SII_PDO + t)))

\* the sizes are there already, or a slave of the same kind has them, or the SII
NeedsMapping(me) == me.Obits = 0 /\ me.Ibits = 0

Copied(s) ==
  IF NeedsMapping(list[s]) /\ Alike(s) # {} THEN MappingOf(list[s], list[Min(Alike(s))]) ELSE list[s]

FromPdos(me, v) ==
  [WithPdos(WithPdos(me, PdosOf(v, 0), 4), PdosOf(v, 1), 3)
     EXCEPT !.Ibits = TotalBits(v, 0), !.Obits = TotalBits(v, 1)]

\* what ecx_map_sm programs: sync managers 0 and 1 only without a mailbox
Programmed(me) == [n \in 0 .. 3 |-> IF n < 2 /\ me.mbx_l > 0 THEN 0 ELSE me.SM[n]]

\* ecx_map_sii and ecx_map_sm for one slave
MapSii(s) ==
  LET me   == Copied(s)
      v    == Bytes(s)
      done == IF NeedsMapping(me) THEN FromPdos(me, v) ELSE me
  IN  /\ at.proc = "map" /\ at.s = s
      /\ list' = [list EXCEPT ![s] = done]
      /\ IF NeedsMapping(me) THEN Looked(s, PdoUses(v, 0) \cup PdoUses(v, 1)) ELSE UNCHANGED esi
      /\ bus' = Calmly(bus, Reached(s),
                       LAMBDA d : [d EXCEPT !.sm = [n \in 0 .. 3 |-> IF Programmed(done)[n] # 0
                                                                     THEN Programmed(done)[n] ELSE @[n]]])
      /\ Onward("fmmu")
      /\ UNCHANGED <<hold, clocked>> /\ Untroubled

\* one FMMU for the outputs, one for the inputs: those of FMMUunused
Fmmus(me) == (IF me.Obits > 0 THEN 1 ELSE 0) + (IF me.Ibits > 0 THEN 1 ELSE 0)

\* the slave's part of ecx_config_map_group: FMMUs, EEPROM, SAFE_OP
MapFmmus(s) ==
  LET b1 == Calmly(bus, Reached(s), LAMBDA d : [d EXCEPT !.fmmu = Fmmus(list[s])])
  IN  /\ at.proc = "fmmu" /\ at.s = s
      /\ list' = ecx_eeprom2pdi([list EXCEPT ![s].FMMUunused = Fmmus(list[s])], s)
      /\ bus' = Calmly(ToPdi(b1, s, "arrives"), Reached(s),
                       LAMBDA d : IF Manual THEN d ELSE AlRequest(d, EC_STATE_SAFE_OP, FALSE))
      /\ Onward(Return)
      /\ UNCHANGED <<esi, hold, clocked>> /\ Untroubled

-----------------------------------------------------------------------------
\* ecx_configdc for slave s.  The latch of all times comes with the first.
ConfigDc(s) ==
  LET k     == Max(Reached(s))
      times == PortTimes(plan.wires, k, plan.clock)
      plain == PlainSlave(list, s, hold)
  IN  /\ at.proc = "dc" /\ at.s = s
      /\ IF list[s].hasdc THEN list' = DcSlave(list, s, times) /\ hold' = 0
         ELSE list' = plain.list /\ hold' = plain.hold
      /\ clocked' = (s = Len(list))
      /\ Onward(Return)
      /\ UNCHANGED <<bus, esi>> /\ Untroubled

ecx_config_map == \E s \in Slaves : MapCoe(s) \/ MapSii(s) \/ MapFmmus(s) \/ ConfigDc(s)
=============================================================================
