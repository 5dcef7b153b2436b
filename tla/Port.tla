-------------------------------- MODULE Port --------------------------------
(***************************************************************************)
(* The network port as ecx_setupnic sets it up: on Linux without           *)
(* redundancy (module NicPort) or, after a second call for the secondary   *)
(* socket, with redundancy (module RedPort), or on VxWorks (module         *)
(* VxPort).  It stays so.                                                  *)
(***************************************************************************)
EXTENDS VxPort, RedPort

VARIABLES
  redstate,   \* ECT_RED_NONE or ECT_RED_DOUBLE
  platform    \* which nicdrv.c is built in (oshw/)

portvars == <<vars, vxvars, redvars, redstate, platform>>

\* ecx_setupnic; without redundancy there is no ring
PortInit ==
  /\ Init /\ VxInit /\ RedInit
  /\ platform \in {"linux", "vxworks"}
  /\ redstate \in (IF platform = "linux" THEN {"ECT_RED_NONE", "ECT_RED_DOUBLE"} ELSE {"ECT_RED_NONE"})
  /\ redstate = "ECT_RED_NONE" => cut = {}

Single(step) ==
  /\ platform = "linux" /\ redstate = "ECT_RED_NONE" /\ step
  /\ UNCHANGED <<vxvars, redvars, redstate, platform>>

Double(step) ==
  /\ platform = "linux" /\ redstate = "ECT_RED_DOUBLE" /\ step
  /\ UNCHANGED <<vars, vxvars, redstate, platform>>

VxWorks(step) == platform = "vxworks" /\ step /\ UNCHANGED <<redvars, redstate, platform>>

PortNext == Single(Next) \/ Double(RedNext) \/ VxWorks(VxNext)

\* as in NicPort
PortFairness ==
  \A t \in Threads :
    /\ WF_portvars(Single(ThreadStep(t)) \/ VxWorks(VxThreadStep(t)))
    /\ SF_portvars(Single(GiveUp(t)) \/ VxWorks(VxGiveUp(t)))

PortSpec == PortInit /\ [][PortNext]_portvars /\ PortFairness
=============================================================================
