------------------------------ MODULE Network ------------------------------
(***************************************************************************)
(* A network and a program from the first frame on: the program brings the *)
(* slaves up (BringUp), then exchanges process data, the tests of          *)
(* test/linux while ecatcheck looks after the slaves (Recovery), the demos *)
(* with their control loops (Demos).  While a test runs, slaves lose their *)
(* power and get it back, at any step of ecatcheck, and may be replaced.   *)
(* The tool for the EEPROM (EepromTool) only counts the slaves before.     *)
(***************************************************************************)
EXTENDS EepromTool

netall == <<vars, demovars, toolvars>>

-----------------------------------------------------------------------------
(***************************************************************************)
(* What the networks and programs are like.                                *)
(***************************************************************************)
\* the number at a word of the EEPROM of a device, and what tells devices apart
WordOf(kind, word) == Number([i \in 0 .. 3 |-> Kinds[kind].image[2 * word + i]])

IdWords  == {ECT_SII_ID, ECT_SII_MANUF, ECT_SII_REV}
EepWords == IdWords \cup {ECT_SII_RXMBXADR, ECT_SII_TXMBXADR, ECT_SII_MBXPROTO}

SameIdentity(x, y) == \A w \in IdWords : WordOf(x, w) = WordOf(y, w)

\* what cuts device j off cuts device k off
CutWith(wires, j, k) == \A a \in DOMAIN wires : j \in Below(wires, a) => k \in Below(wires, a)

\* entry 0 of slavelist[] is the master, and EC_TEMPNODE no address of a slave
ASSUME SizeAssumption == EC_MAXSLAVE \in 2 .. Temp - 1 /\ EC_DEFAULTRETRIES \in Nat

ASSUME PlanAssumption ==
  \A p \in Plans :
    /\ p.program \in DOMAIN Programs /\ p.mode \in {"info", "write", "alias"}
    /\ Len(p.kinds) \in Nat \ {0} /\ DOMAIN p.kinds = 1 .. Len(p.kinds)
    /\ DOMAIN p.adrs = DOMAIN p.kinds /\ DOMAIN p.wires = DOMAIN p.kinds
    /\ \A k \in DOMAIN p.kinds : p.adrs[k] \in 0 .. EC_MAXSLAVE /\ p.kinds[k] \in DOMAIN Kinds
    /\ p.spare \subseteq DOMAIN Kinds
    /\ p.trouble \in Nat /\ p.cuts \in Nat

\* The cables make a tree: a device has four ports, and a frame comes back to where it went out.
ASSUME TreeAssumption == \A p \in Plans : IsTree(p.wires)

\* No number of the identity of a device is zero or that of another word: a read that
\* is lost or too early cannot pass for it.
ASSUME IdentityAssumption ==
  \A x, y \in DOMAIN Kinds : \A v \in IdWords, w \in EepWords :
    WordOf(x, v) # 0 /\ (WordOf(x, v) = WordOf(y, w) => v = w)

\* Where a device may be found at the place of another, its identity is another one;
\* so is that of a device that is put in the place of another.  ecx_recover_slave looks
\* at the place and at the identity: it cannot tell twins apart.
ASSUME PlacesAssumption ==
  \A p \in Plans : p.cuts > 0 =>
    \A k \in DOMAIN p.kinds :
      /\ \A s \in 1 .. k - 1 : (\A j \in 1 .. k : CutWith(p.wires, j, k)) \/ ~SameIdentity(p.kinds[s], p.kinds[k])
      /\ \A x \in p.spare : ~SameIdentity(x, p.kinds[k])

\* the counts that the planner moves in a cycle, at most, with the one it is rounded by
Reach == (2 * MAX_VELOCITY) \div Count + 1

\* The steps of a loop fall on every word of its table: the code has Unit = 1.  A drive
\* is not enabled before it is told to, and 20 counts are less than the planner moves
\* in a cycle.
ASSUME DemoAssumption ==
  /\ Unit \in 1 .. 200 /\ Span \in Nat \ {0} /\ Nudge \in 0 .. Reach
  /\ MAX_VELOCITY \in Nat /\ MAX_ACCELERATION \in Nat /\ BRAKE_DECEL \in Nat /\ Count \in Nat \ {0}
  /\ \A p \in Plans : /\ p.goals \in Seq(Lowest .. Highest) /\ p.start \in Lowest .. Highest
                       /\ p.drive \in {"SW_ON_DISABLED", "FAULT"}

-----------------------------------------------------------------------------

\* a network that is wired as the plan says; every device has power
Init ==
  /\ plan \in Plans
  /\ bus = [k \in DOMAIN plan.kinds |-> [Started(plan.kinds[k]) EXCEPT !.adr = plan.adrs[k]]]
  /\ trouble = 0 /\ cuts = 0
  /\ list = <<>> /\ esi = NoCache
  /\ at = [proc |-> Return, s |-> 1, pc |-> 1]
  /\ hold = 0 /\ clocked = FALSE
  /\ inOP = FALSE /\ short = FALSE /\ docheckstate = FALSE /\ slips = {}
  /\ loop \in NewLoops
  /\ drives = [k \in DOMAIN plan.kinds |-> [state |-> plan.drive, cw |-> 0, pos |-> plan.start, go |-> FALSE]]
  /\ sent = 0
  /\ tool = NewTool("info") /\ rom = NewRom

\* a slave that counts in full for expectedWKC
Serves(k) == /\ k \in Connected /\ bus[k].al = EC_STATE_OPERATIONAL
             /\ bus[k].fmmu = list[k].FMMUunused

\* a cycle of ecatthread of a test: the frame or a slave may be missing
Cycle(fate) ==
  /\ inOP
  /\ Costs(fate)
  /\ short' = (fate = "lost" \/ \E k \in Devices : ~Serves(k))
  /\ short' # short
  /\ UNCHANGED <<plan, bus, cuts, list, esi, at, hold, clocked, inOP, docheckstate, slips>>

Environment ==
  \/ \E k \in Devices : PowerOff(k) \/ Watchdog(k)
  \/ \E k \in Devices : \E kind \in {plan.kinds[k]} \cup plan.spare : PowerOn(k, kind)

UnseenBy == UNCHANGED <<list, esi, at, hold, clocked, checkvars>>

Rest == UNCHANGED <<demovars, toolvars>>

Next ==
  \/ /\ \/ ecx_config_init /\ UNCHANGED <<hold, clocked, checkvars>>
        \/ ecx_config_map /\ UNCHANGED checkvars
        \/ erob_test
        \/ ecatcheck
        \/ \E fate \in {"arrives", "lost"} : Cycle(fate)
        \/ inOP /\ Environment /\ UnseenBy
     /\ Rest
  \/ ecatthread /\ UNCHANGED toolvars
  \/ eepromtool
  \/ RomDone \/ RomNack

\* Once process data is exchanged the threads run, and a device that has lost its
\* power gets it back.
Fairness ==
  /\ WF_netall(ecatcheck /\ Rest)
  /\ WF_netall(Cycle("arrives") /\ Rest)
  /\ \A k \in 1 .. EC_MAXSLAVE :
       WF_netall(k \in Devices /\ PowerOn(k, plan.kinds[k]) /\ UnseenBy /\ Rest)
  /\ WF_netall(Pass("arrives") /\ UNCHANGED toolvars)

Spec == Init /\ [][Next]_netall /\ Fairness

-----------------------------------------------------------------------------
(***************************************************************************)
(* Properties.                                                             *)
(***************************************************************************)
\* Types, and that the list has room for its slaves: entry 0 of slavelist[] is the
\* master, so that EC_MAXSLAVE - 1 slaves fit, which ecx_detect_slaves sees to.
TypeOK ==
  /\ plan \in Plans
  /\ trouble \in 0 .. plan.trouble /\ cuts \in 0 .. plan.cuts
  /\ Len(list) < EC_MAXSLAVE
  /\ at.s \in 1 .. EC_MAXSLAVE /\ at.pc \in 1 .. Len(Script) + 1
  /\ {inOP, short, docheckstate, clocked} \subseteq BOOLEAN
  /\ slips \subseteq Slaves /\ hold \in 0 .. Len(list)
  /\ \A k \in Devices :
       /\ bus[k].adr \in 0 .. EC_MAXSLAVE \cup {Temp}
       /\ bus[k].al \in {EC_STATE_INIT, EC_STATE_PRE_OP, EC_STATE_SAFE_OP, EC_STATE_OPERATIONAL}
       /\ bus[k].ctl \in {"master", "pdi"} /\ bus[k].sync \in {"off", "early", "common"}
       /\ drives[k].pos \in Lowest .. Highest
  /\ loop.out.pos \in Lowest .. Highest /\ loop.planner.vel \in -MAX_VELOCITY .. MAX_VELOCITY
  /\ \A s \in Slaves : list[s].configadr \in 0 .. EC_MAXSLAVE \cup {Temp}
  /\ sent \in 0 .. Len(plan.goals)
  /\ tool.tries \in 0 .. EC_DEFAULTRETRIES /\ tool.nacks \in 0 .. 2 /\ tool.said \subseteq DOMAIN rom.cells

\* the calls that have returned or run
Called(instruction) == \E i \in 1 .. at.pc - 1 : Script[i] = instruction

\* ec_config_map has returned
Surveyed == Called("config_map") /\ at.proc \notin {"coe", "map", "fmmu"}

\* the first device with a clock on the way to device k
FirstClock(k) == Min({a \in Devices : k \in Below(plan.wires, a) /\ Kinds[plan.kinds[a]].dc})

\* The code finds the parent of each slave from the numbers of links alone: it is that
\* of the cables, in every tree.
ParentsFound == Surveyed => \A s \in Slaves : list[s].parent = plan.wires[s].parent

\* The code finds the propagation delays from the times of the ports: they are those
\* of the cables.  A delay is not asked for where a slave without a clock splits the
\* line, or where the times pass the end of the clock while they are latched.
DelaysFound ==
  Surveyed /\ at.proc # "dc" /\ clocked
    /\ (\A s \in Slaves : /\ list[s].hasdc \/ list[s].topology <= 2
                          /\ ~Straddles(plan.wires, s, plan.clock))
    => \A s \in Slaves : list[s].hasdc =>
         list[s].pdelay = Arrival(plan.wires, s) - Arrival(plan.wires, FirstClock(s))

\* Both are right in every tree, whatever has a clock.
TopologyFound == ParentsFound /\ DelaysFound

\* What the list says of a slave is what its EEPROM and its objects say, whether it
\* was read through the cache, copied from a slave of the same kind or told by CoE or
\* SoE: name, sync managers, FMMU functions and sizes.
Learned ==
  Surveyed =>
    \A s \in Slaves :
      LET k == Kinds[plan.kinds[s]]
      IN  /\ list[s].name = k.name /\ list[s].SM = k.sm /\ list[s].func = k.func
          /\ bus[s].map = <<>> => list[s].Obits = k.out /\ list[s].Ibits = k.in

\* A station address leads to the slave it was given to, whatever lost its power,
\* came back or was replaced by something else, and whatever frame of a recovery was
\* lost; but for slaves of which a frame was lost whose loss nobody notices.
PlaceKept ==
  inOP => \A k \in Devices : bus[k].adr \in Slaves /\ bus[k].adr \notin slips
                    => bus[k].adr = k /\ bus[k].kind = plan.kinds[k]

\* A slave ecatcheck brings back to OP has its FMMUs again before, or the process
\* data would go past it.
OperationalIsConfigured ==
  inOP => \A k \in Devices :
            bus[k].al = EC_STATE_OPERATIONAL /\ bus[k].adr = k /\ k \notin slips
              => bus[k].fmmu = list[k].FMMUunused

\* Once the losses are over every slave serves again: ecatcheck has found, recovered
\* and reconfigured it.  Not those that were replaced by something else or of which a
\* loss was not noticed, and not if at some time no slave had its address: then the
\* broadcast of ecx_readstate finds all in INIT, none counts as lost, and none is
\* recovered.
Resumes ==
  \/ <>(inOP /\ \A k \in Devices : bus[k].adr # k)
  \/ [](inOP => <>[](\A k \in Devices : Serves(k) \/ slips # {} \/ bus[k].kind # plan.kinds[k]))

Total(widths) == MapThenSumSet(LAMBDA i : widths[i], DOMAIN widths)

\* When the loop of a demo starts, the image of each drive is laid out as the structs
\* that are copied to it and from it, in the objects of the drive and in the sizes of
\* the list; for eRob_CSP and eRob_CSV SYNC0 was started on the common time.
DrivesPrepared ==
  at.proc = "loop" =>
    LET pdo == Programs[plan.program].pdo
    IN  /\ \A k \in Devices : bus[k].map = pdo
        /\ \A s \in Slaves : list[s].Obits = Total(pdo.rx) /\ list[s].Ibits = Total(pdo.tx)
        /\ plan.program \in {"csp", "csv"} => \A k \in Devices : bus[k].sync = "common"

\* An enabled drive in position mode is never sent a position further away than the
\* planner may move in a cycle: also not by the first target, by a new one on the way
\* or where the numbers start again.
NoJump ==
  at.proc = "loop" /\ plan.program \in {"csp", "csp_subscriber", "tc"} =>
    \A k \in Devices : drives[k].state = "OPERATION_ENABLED" =>
                         (loop.out.pos - drives[k].pos + Reach) % Span <= 2 * Reach

\* A torque, velocity or new set-point is only sent once every drive has been enabled,
\* however many cycles went wrong on the way; but for drives with a fault.  Of
\* eRob_PP_subscriber it says so of what it has set, which what it sends first is not,
\* and while no cycle goes wrong: it counts such cycles too, and a hundred in a row
\* let it skip a control word.
DrivenWhenEnabled ==
  at.proc = "loop" /\ loop.out.go /\ (plan.program = "pp" => loop.step > 1 /\ plan.trouble = 0) =>
    \A k \in Devices : drives[k].state \in {"OPERATION_ENABLED", "FAULT"}

\* What the demos send their drives is safe in both respects.
CommandsSafe == NoJump /\ DrivenWhenEnabled


\* eRob_CSP_subscriber, too, gets to the target sent last.
TargetReached ==
  plan.program = "csp_subscriber" =>
    <>[](sent = 0 \/ drives[1].pos = Commanded \/ drives[1].state = "FAULT")

\* Whatever frame is lost and whenever the EEPROM does not acknowledge or takes long,
\* the tool leaves the old or the new value in every word, what it says it has
\* written is there, and after it says so of the alias the checksum fits; but if
\* something went wrong that it does not look at.
ToolTrue ==
  at.proc = "tool" /\ ~tool.unnoticed =>
    /\ \A w \in DOMAIN rom.cells : rom.cells[w] \in {OldCells[w], Asked(w)}
    /\ \A w \in tool.said : rom.cells[w] = Asked(w)
    /\ plan.mode = "alias" /\ 7 \in tool.said => rom.cells[7] = SIIcrc(rom.cells[0], rom.cells[4])
=============================================================================
