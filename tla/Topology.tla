------------------------------ MODULE Topology ------------------------------
(***************************************************************************)
(* What soem derives from the links of the slaves: the parent of a slave   *)
(* (ecx_config_init) and its propagation delay (ecx_configdc).             *)
(*                                                                         *)
(* slavelist[s] has topology (the number of links), activeports (a set of  *)
(* 0 .. 3), parent, hasdc, DCrt (the time latched at each port),           *)
(* consumedports, entryport and pdelay.                                    *)
(***************************************************************************)
EXTENDS Integers, FiniteSetsExt

CONSTANT Wrap   \* the times of the ports are signed numbers modulo Wrap: 2^32 in the code

ASSUME WrapAssumption == Wrap \in Nat /\ Wrap % 2 = 0 /\ Wrap > 0

Ports == 0 .. 3

Signed(x) == ((x + Wrap \div 2) % Wrap) - Wrap \div 2

-----------------------------------------------------------------------------
\* ends close a branch, splits and crosses open one and two
Opens(links) == CASE links = 1 -> -1 [] links = 3 -> 1 [] links = 4 -> 2 [] OTHER -> 0

\* the links these slaves leave open
OpensOf(links, slaves) == MapThenSumSet(LAMBDA d : Opens(links[d]), slaves)

\* the nearest slave before with a link no slave between has taken, else the first
ParentOf(links, slave) ==
  IF slave = 1 THEN 0
  ELSE Max({c \in 1 .. slave - 1 :
              c = 1 \/ (links[c] > 1 /\ OpensOf(links, c .. slave - 1) >= 0)})

-----------------------------------------------------------------------------
FirstIn(order, ports, default) ==
  IF \E i \in DOMAIN order : order[i] \in ports
  THEN order[Min({i \in DOMAIN order : order[i] \in ports})] ELSE default

\* the active port the frame passed before it came back to this one
ecx_prevport(sl, port) ==
  FirstIn([p \in Ports |-> CASE p = 0 -> <<2, 1, 3>> [] p = 1 -> <<3, 0, 2>>
                             [] p = 2 -> <<1, 3, 0>> [] OTHER -> <<0, 2, 1>>][port],
          sl.activeports, port)

\* variant: the last child is looked for first
ecx_parentportLast(sl) == FirstIn(<<2, 1, 3, 0>>, sl.consumedports, 0)

\* the port of the parent that is consumed next
ecx_parentport(sl) == FirstIn(<<3, 1, 2, 0>>, sl.consumedports, 0)

Consume(sl) == [sl EXCEPT !.consumedports = @ \ {ecx_parentport(sl)}]

\* the port with the lowest time; of equal times the first in the order of the frame
EntryPort(sl) ==
  FirstIn(<<0, 3, 1, 2>>,
          {p \in sl.activeports : \A q \in sl.activeports : sl.DCrt[p] <= sl.DCrt[q]}, 0)

\* the next slave towards the master that has a clock, and the slave below it;
\* slavelist[0].hasdc is of no importance here
DcParent(list, child) ==
  LET up[c \in DOMAIN list] ==
        LET p == list[c].parent IN IF p = 0 \/ list[p].hasdc THEN <<p, c>> ELSE up[p]
  IN  up[child]

\* The delay of slave i behind its parent, from the times of the two.
DelayBehind(list, i, parent, child, port) ==
  LET up  == list[parent]
      me  == list[i]
      before == up.DCrt[ecx_prevport(up, port)]
      dt3 == Signed(up.DCrt[port] - before)
      raw == IF me.topology > 1
             THEN Signed(me.DCrt[ecx_prevport(me, me.entryport)] - me.DCrt[me.entryport]) ELSE 0
      dt1 == IF raw > dt3 THEN -raw ELSE raw
      dt2 == IF child - parent > 1 THEN Signed(before - up.DCrt[up.entryport]) ELSE 0
  IN  (IF dt3 >= dt1 THEN (dt3 - dt1) \div 2 ELSE -((dt1 - dt3) \div 2)) + (IF dt2 < 0 THEN -dt2 ELSE dt2)

\* a slave with a clock: its entry, the port it hangs on and its delay
DcSlave(list, i, times) ==
  LET timed  == [list[i] EXCEPT !.DCrt = times, !.consumedports = list[i].activeports]
      me     == [timed EXCEPT !.entryport = EntryPort(timed),
                              !.consumedports = @ \ {EntryPort(timed)}]
      l1     == [list EXCEPT ![i] = me]
      link   == DcParent(l1, i)
      parent == link[1]
      port   == IF l1[parent].topology = 1 THEN l1[parent].entryport ELSE ecx_parentport(l1[parent])
  IN  IF parent = 0 THEN l1
      ELSE [l1 EXCEPT ![parent] = Consume(@),
                      ![i].pdelay = DelayBehind(l1, i, parent, link[2], port) + l1[parent].pdelay]

\* A slave without a clock: what it leaves in parenthold, and the list.  A branch
\* that has no clock at all takes its port of the root of the branch with it.
PlainSlave(list, i, hold) ==
  LET parent == list[i].parent
      root   == IF parent > 0 /\ list[parent].topology > 2 THEN parent ELSE hold
      l1     == [list EXCEPT ![i].DCrt = [p \in Ports |-> 0], ![i].consumedports = list[i].activeports]
  IN  IF root > 0 /\ list[i].topology = 1
      THEN [list |-> [l1 EXCEPT ![root] = Consume(@)], hold |-> 0]
      ELSE [list |-> l1, hold |-> root]
=============================================================================
