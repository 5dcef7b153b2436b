------------------------------- MODULE Eeprom -------------------------------
(***************************************************************************)
(* ec_slave[] and who has the EEPROM of a slave: ecx_eeprom2master,        *)
(* ecx_eeprom2pdi and the reads of a word, all through the station address *)
(* the list has for the slave.                                             *)
(***************************************************************************)
EXTENDS Bus, Sii

VARIABLES
  list,   \* slavelist[], its first slavecount entries
  esi     \* esislave, esimap and esibuf

Slaves == DOMAIN list

\* an entry as ecx_init_context clears it
EmptySlave ==
  [configadr |-> 0, aliasadr |-> 0, eep_man |-> 0, eep_id |-> 0, eep_rev |-> 0,
   eep_8byte |-> FALSE, eep_pdi |-> FALSE,
   mbx_l |-> 0, mbx_rl |-> 0, mbx_proto |-> 0, CoEdetails |-> 0, blockLRW |-> FALSE, name |-> <<>>,
   hasdc |-> FALSE, topology |-> 0, activeports |-> {}, parent |-> 0,
   DCrt |-> [p \in Ports |-> 0], consumedports |-> {}, entryport |-> 0, pdelay |-> 0,
   SM |-> NoSM, SMtype |-> NoSM, SMlength |-> NoSM, func |-> <<0, 0, 0, 0>>,
   Obits |-> 0, Ibits |-> 0, FMMUunused |-> 0, state |-> EC_STATE_NONE, islost |-> FALSE]

\* the bytes of a word as a number: the least is the first
Number(b) == b[0] + 256 * b[1] + 65536 * (b[2] + 256 * b[3])
Low(b)    == b[0] + 256 * b[1]
High(b)   == b[2] + 256 * b[3]

Reached(s) == FP(list[s].configadr)

-----------------------------------------------------------------------------
\* the two writes of ecx_eeprom2master; nobody looks whether they came through
ToMaster(b, s, fate) ==
  IF list[s].eep_pdi THEN Wrote(b, Reached(s), LAMBDA d : [d EXCEPT !.ctl = "master"], fate) ELSE b

ecx_eeprom2master(l, s) == [l EXCEPT ![s].eep_pdi = FALSE]

ToPdi(b, s, fate) ==
  IF list[s].eep_pdi THEN b ELSE Wrote(b, Reached(s), LAMBDA d : [d EXCEPT !.ctl = "pdi"], fate)

ecx_eeprom2pdi(l, s) == [l EXCEPT ![s].eep_pdi = TRUE]

-----------------------------------------------------------------------------
\* ecx_readeeprom1 leaves a word in the data register of the slave
StartWord(b, s, word) == Wrote(b, Reached(s), LAMBDA d : EepCommand(d, word), "arrives")

\* ecx_readeeprom2 fetches it
TakeWord(s) == ReadOr(Reached(s), "arrives", LAMBDA k : EepData(bus[k]), [i \in 0 .. 3 |-> 0])

\* What may become of ecx_readeepromFP: the command or the data are lost.  Lost
\* commands are not told from late ones, and what is then read is older.
Reads == {"right", "stale", "nothing"}

WordRead(who, word, how) ==
  IF how = "nothing" \/ who = {} THEN 0
  ELSE LET d == bus[Max(who)] IN Number(EepData(IF how = "stale" THEN d ELSE EepCommand(d, word)))

-----------------------------------------------------------------------------
\* the bytes ecx_siigetbyte answers for slave s
Bytes(s) ==
  View(EsiOf(esi, s),
       IF Reached(s) = {} THEN [a \in Cells |-> 0] ELSE Kinds[bus[Max(Reached(s))].kind].image)

\* the addresses used have been read; the slave was asked if one was missing
Looked(s, used) ==
  esi' = Filled(EsiOf(esi, s), Bytes(s), used, IF list[s].eep_8byte THEN 8 ELSE 4)
=============================================================================
