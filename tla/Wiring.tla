------------------------------- MODULE Wiring -------------------------------
(***************************************************************************)
(* The cables of a network, and how long a frame takes: outside the code.  *)
(* wires[k] is what device k hangs on, [parent, port, delay]; the first    *)
(* device hangs on the master, parent 0.  Devices are numbered in the      *)
(* order the frame reaches them: a device passes it on at port 3, then 1,  *)
(* then 2.  Every device is entered at its port 0.                         *)
(***************************************************************************)
EXTENDS Topology, Sequences

Kids(wires, k) == {c \in DOMAIN wires : wires[c].parent = k}

UsedPorts(wires, k) == {0} \cup {wires[c].port : c \in Kids(wires, k)}

\* the device and those behind it
Below(wires, k) ==
  LET behind[d \in DOMAIN wires] == {d} \cup UNION {behind[c] : c \in Kids(wires, d)} IN behind[k]

\* the time from a frame's way in to its way out of device k
Round(wires, k) == MapThenSumSet(LAMBDA d : 2 * wires[d].delay, Below(wires, k) \ {k})

\* when a frame reaches device k for the first time
Arrival(wires, k) ==
  LET arrival[d \in DOMAIN wires] ==
        IF wires[d].parent = 0 THEN 0
        ELSE LET earlier == {c \in Kids(wires, wires[d].parent) : c < d}
             IN  arrival[wires[d].parent] + wires[d].delay
                 + MapThenSumSet(LAMBDA c : 2 * wires[c].delay + Round(wires, c), earlier)
  IN  arrival[k]

\* what the clock of device k latches at each of its ports
PortTimes(wires, k, clock) ==
  [p \in Ports |->
     IF p = 0 THEN Signed(clock + Arrival(wires, k))
     ELSE IF p \in UsedPorts(wires, k)
     THEN LET c == CHOOSE c \in Kids(wires, k) : wires[c].port = p
          IN  Signed(clock + Arrival(wires, c) + Round(wires, c) + wires[c].delay)
     ELSE 0]

\* the latched times pass the largest number of the clock
Straddles(wires, k, clock) ==
  \E p, q \in UsedPorts(wires, k) :
    /\ p = 0
    /\ PortTimes(wires, k, clock)[q] < PortTimes(wires, k, clock)[p]

\* A device hangs on one before it, whatever is between the two hangs on that one or
\* behind it (the frame goes to the end of a branch before it comes back), and no two
\* devices hang on the same port.
IsTree(w) ==
  /\ \A k \in DOMAIN w : w[k].parent \in (IF k = 1 THEN {0} ELSE 1 .. k - 1) /\ (k > 1 => w[k].port \in 1 .. 3)
  /\ \A j, k \in DOMAIN w : /\ w[k].parent < j /\ j < k => w[j].parent >= w[k].parent
                            /\ w[j].parent = w[k].parent /\ j # k => w[j].port # w[k].port

-----------------------------------------------------------------------------
\* every way to hang n devices on each other, numbered as the frame goes
Before(p) == CASE p = 3 -> 1 [] p = 1 -> 2 [] p = 2 -> 3 [] OTHER -> 0

\* one device more, at a free port on the way to the last one
Grown(t) ==
  {Append(t, new) : new \in {w \in [parent : DOMAIN t, port : {1, 2, 3}] :
                             /\ Len(t) \in Below(t, w.parent)
                             /\ \A c \in Kids(t, w.parent) : Before(t[c].port) < Before(w.port)}}

Trees(n) ==
  LET trees[m \in 1 .. n] == IF m = 1 THEN {<<[parent |-> 0, port |-> 0]>>} ELSE UNION {Grown(t) : t \in trees[m - 1]}
  IN  trees[n]
=============================================================================
