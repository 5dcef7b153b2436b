-------------------------------- MODULE Bus --------------------------------
(***************************************************************************)
(* The slaves on the wire, and the datagrams of soem/ethercatbase.c.       *)
(*                                                                         *)
(* A slave that has lost its power is passed by nothing: those behind it   *)
(* are cut off too.  A datagram reaches the n-th slave that is connected   *)
(* (AP), those with a station address (FP) or all of them (B).  Station    *)
(* address EC_NODEOFFSET + s is the number s here, EC_TEMPNODE is Temp.    *)
(***************************************************************************)
EXTENDS Wiring

CONSTANTS
  Kinds,        \* what a device of each kind is: its image, sync managers and so on
  Plans         \* environment: the networks and programs to start from, with the
                \* bounds on lost frames (plan.trouble) and power losses (plan.cuts)

VARIABLES
  plan,      \* the cables, what devices are where, and the program
  bus,       \* the devices
  trouble,   \* frames lost so far
  cuts       \* power losses so far

EC_STATE_NONE        == 0
EC_STATE_INIT        == 1
EC_STATE_PRE_OP      == 2
EC_STATE_SAFE_OP     == 4
EC_STATE_OPERATIONAL == 8
EC_STATE_ERROR       == 16     \* also EC_STATE_ACK

Temp == 61439     \* EC_TEMPNODE - EC_NODEOFFSET

Devices == DOMAIN bus

NoWord == -1
NoSM   == [n \in 0 .. 3 |-> 0]

\* a device that has just got its power; map are the PDOs a program has given it
\* and sync says whether SYNC0 was started by a clock of its own or the common one
Started(kind) ==
  [kind |-> kind, power |-> TRUE, adr |-> 0, al |-> EC_STATE_INIT, err |-> FALSE,
   sm |-> NoSM, fmmu |-> 0, ctl |-> "master", data |-> NoWord, map |-> <<>>, sync |-> "off"]

Dark(kind) == [Started(kind) EXCEPT !.power = FALSE]

Kind(k) == Kinds[bus[k].kind]

-----------------------------------------------------------------------------
Connected == {k \in Devices : \A a \in Devices : k \in Below(plan.wires, a) => bus[a].power}

\* whom ecx_APRD and ecx_APWR reach, ecx_FPRD and ecx_FPWR, ecx_BRD and ecx_BWR
AP(n) == {k \in Connected : Cardinality({j \in Connected : j <= k}) = n}
FP(a) == {k \in Connected : bus[k].adr = a}
All   == Connected

Fates == {"arrives", "lost", "unheard"}

\* the bus after a write, the working counter and what is read, for a frame that
\* is sent as often as its timeout allows.  Of several slaves the last one's
\* answer stays.
Wrote(b, who, Change(_), fate) ==
  IF fate = "lost" THEN b ELSE [k \in DOMAIN b |-> IF k \in who THEN Change(b[k]) ELSE b[k]]

Wkc(who, fate) == IF fate = "arrives" THEN Cardinality(who) ELSE -1

ReadOr(who, fate, Value(_), default) ==
  IF fate = "arrives" /\ who # {} THEN Value(Max(who)) ELSE default

\* lost frames cost trouble
Costs(fate) ==
  /\ fate # "arrives" => trouble < plan.trouble
  /\ trouble' = trouble + (IF fate = "arrives" THEN 0 ELSE 1)

-----------------------------------------------------------------------------
\* The AL state machine of a slave.  While the error flag is set, a higher state
\* is only taken with the acknowledge bit.
Refuses(d, state) ==
  LET k == Kinds[d.kind]
  IN  \/ state \in k.never
      \/ /\ state = EC_STATE_PRE_OP /\ d.al = EC_STATE_INIT
         /\ \/ k.needspdi /\ d.ctl # "pdi"
            \/ k.mbx > 0 /\ \E n \in {0, 1} : d.sm[n] # k.sm[n]
      \/ /\ state = EC_STATE_SAFE_OP /\ d.al < EC_STATE_SAFE_OP
         /\ d.al = EC_STATE_INIT \/ d.sm # k.sm
      \/ state = EC_STATE_OPERATIONAL /\ d.al < EC_STATE_SAFE_OP

AlRequest(d, state, ack) ==
  IF d.err /\ ~ack /\ state > d.al THEN d
  ELSE IF Refuses(d, state) THEN [d EXCEPT !.err = TRUE]
  ELSE [d EXCEPT !.al = state, !.err = FALSE]

AlStatus(d) == d.al + (IF d.err THEN EC_STATE_ERROR ELSE 0)

\* an EEPROM read command is only taken while the master owns the interface
EepCommand(d, word) == IF d.ctl = "master" THEN [d EXCEPT !.data = word] ELSE d

\* the four bytes in the data register
EepData(d) ==
  [i \in 0 .. 3 |-> IF d.data = NoWord THEN 0 ELSE Kinds[d.kind].image[2 * d.data + i]]

-----------------------------------------------------------------------------
\* what happens to the devices by themselves
PowerOff(k) ==
  /\ bus[k].power /\ cuts < plan.cuts
  /\ cuts' = cuts + 1
  /\ bus' = [bus EXCEPT ![k] = Dark(bus[k].kind)]
  /\ UNCHANGED <<plan, trouble>>

\* a device may be replaced before it has power again
PowerOn(k, kind) ==
  /\ ~bus[k].power
  /\ bus' = [bus EXCEPT ![k] = Started(kind)]
  /\ UNCHANGED <<plan, trouble, cuts>>

\* no frame has come for too long
Watchdog(k) ==
  /\ bus[k].power /\ bus[k].al = EC_STATE_OPERATIONAL /\ k \notin Connected
  /\ bus' = [bus EXCEPT ![k].al = EC_STATE_SAFE_OP, ![k].err = TRUE]
  /\ UNCHANGED <<plan, trouble, cuts>>
=============================================================================
