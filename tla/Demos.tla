------------------------------- MODULE Demos -------------------------------
(***************************************************************************)
(* The control loops (ecatthread) of the demos other than eRob_CSV, which  *)
(* is module CsvControl.  A loop goes through a table of control words by  *)
(* the number of cycles in which all slaves have answered, then it drives. *)
(*                                                                         *)
(* One pass stands for Unit cycles of which all go well or all go wrong,   *)
(* and for one cycle once the steps are over.  The planner of eRob_CSP     *)
(* counts speeds in whole numbers, and positions in halves of what a speed *)
(* of one moves in a cycle.  The drives are the environment.               *)
(***************************************************************************)
EXTENDS BringUp

CONSTANTS
  Unit,   \* cycles of a pass
  Nudge,  \* 20 counts, in our unit of length
  Span,   \* positions are numbers modulo Span: 2^32 in the code
  MAX_VELOCITY, MAX_ACCELERATION, BRAKE_DECEL,
  Count   \* a count of the drive, in the planner's positions

VARIABLES
  loop,    \* the loop: its step, the image it sends, and the planner of eRob_CSP
  drives,  \* environment: the drive behind each device
  sent     \* commands the clients have sent so far

demovars == <<loop, drives, sent>>

CW_SHUTDOWN_CMD    == 6
CW_SWITCH_ON_CMD   == 7
CW_ENABLE_OP_CMD   == 15
CW_FAULT_RESET_CMD == 128

Words == <<CW_FAULT_RESET_CMD, CW_SHUTDOWN_CMD, CW_SWITCH_ON_CMD, CW_ENABLE_OP_CMD, CW_ENABLE_OP_CMD>>

\* before the first cycle; pos and go are the target position and whether the
\* target torque or velocity is not zero; for eRob_PP_subscriber, the bit of a new
\* set-point (0x10)
NewLoop ==
  [step |-> 0, out |-> [cw |-> CW_FAULT_RESET_CMD, pos |-> 0, go |-> FALSE],
   rxpdo |-> [cw |-> 0, pos |-> 0, go |-> FALSE], seen |-> 0,
   planner |-> [initialized |-> FALSE, target |-> 0, pos |-> 0, vel |-> 0]]

\* eRob_PP_subscriber has not written to the image yet, and never sets the rxpdo it
\* copies to it first
PP_loop(w, g) == [NewLoop EXCEPT !.out.cw = 0, !.rxpdo = [cw |-> w, pos |-> 0, go |-> g]]

PP_loops == {PP_loop(w, g) : w \in {0} \cup Range(Words), g \in BOOLEAN}

NewLoops == IF plan.program = "pp" THEN PP_loops ELSE {NewLoop}

\* what the clients have asked for last
Commanded == plan.goals[sent]

\* where the clock of the loop stands in the table: 5 is past its end
Phase(table, step) == 1 + Cardinality({i \in DOMAIN table : step * Unit > table[i]})

\* the positions of int32_t, and what an overflow makes of a number
Lowest  == - (Span \div 2)
Highest == Lowest + Span - 1
Wrapped(x) == Lowest + ((x - Lowest) % Span)

Step(l, limit) == IF l.step * Unit < limit THEN l.step + 1 ELSE l.step

-----------------------------------------------------------------------------
\* eRob_CSP

\* variant: the planner starts where it was left
CSP_startsLeft(p, actual) == [p EXCEPT !.initialized = TRUE, !.vel = 0]

\* if (!planner->initialized)
CSP_starts(p, actual) ==
  IF p.initialized THEN p ELSE [p EXCEPT !.initialized = TRUE, !.pos = Count * actual, !.vel = 0]

Sign(x)     == IF x > 0 THEN 1 ELSE IF x < 0 THEN -1 ELSE 0
Distance(x) == Sign(x) * x

Clamp(x, low, high) == IF x < low THEN low ELSE IF x > high THEN high ELSE x

\* sqrt, as a whole number: of the speeds from which it can brake in time the highest
Braked(distance) == Cardinality({v \in 1 .. MAX_VELOCITY : v * v <= BRAKE_DECEL * distance})

\* plan_trajectory: the speed follows the one desired as fast as it may, and what is
\* within half a count and slow enough is there
CSP_plan(p, actual) ==
  LET q       == CSP_starts(p, actual)
      error   == Count * q.target - q.pos
      desired == Sign(error) * Braked(Distance(error))
      vel     == q.vel + Clamp(desired - q.vel, -MAX_ACCELERATION, MAX_ACCELERATION)
  IN  IF 2 * Distance(error) < Count /\ Distance(q.vel) <= MAX_ACCELERATION
      THEN [q EXCEPT !.pos = Count * q.target, !.vel = 0]
      ELSE [q EXCEPT !.pos = Clamp(q.pos + q.vel + vel, Count * Lowest, Count * Highest), !.vel = vel]

\* llround: a half goes away from zero
Rounded(pos) == Sign(pos) * ((2 * Distance(pos) + Count) \div (2 * Count))


\* the destination is replaced in every cycle
CSP_target(p) == [p EXCEPT !.target = Commanded]

CSP_cycle(l, actual) ==
  LET phase == Phase(<<400, 600, 800, 1000>>, l.step)
      drive == phase = 5 /\ sent > 0
      moved == IF drive THEN CSP_plan(CSP_target(l.planner), actual) ELSE l.planner
  IN  [step    |-> Step(l, 1200),
       out     |-> [cw |-> Words[phase], go |-> FALSE,
                    pos |-> IF phase = 1 THEN 0 ELSE IF drive THEN Rounded(moved.pos) ELSE actual],
       planner |-> IF drive THEN moved
                   ELSE IF phase = 5 THEN [l.planner EXCEPT !.initialized = FALSE] ELSE l.planner]

\* eRob_CSP_subscriber: the steps end before the table does, and the planner is
\* never asked
SUB_cycle(l, actual) ==
  LET phase == Phase(<<1000, 1600, 2000, 2400>>, l.step)
  IN  [l EXCEPT !.step = Step(l, 1200),
                !.out = [cw |-> Words[phase], go |-> FALSE, pos |-> IF phase = 1 THEN 0 ELSE actual]]

\* eRob_TC: what the planner says is not used
TC_cycle(l, actual) ==
  LET phase == Phase(<<400, 600, 800, 1000>>, l.step)
  IN  [l EXCEPT !.step = Step(l, 1200),
                !.out = [cw |-> Words[phase], go |-> FALSE,
                         pos |-> IF phase = 1 THEN 0 ELSE IF phase = 5 THEN Wrapped(actual + Nudge) ELSE actual]]

\* eRob_CST and eRob_PT: a torque in the last phase
CST_cycle(l, actual) ==
  LET phase == Phase(<<4000, 5300, 6000, 7000>>, l.step)
  IN  [l EXCEPT !.step = Step(l, 8000), !.out = [cw |-> Words[phase], go |-> phase = 5, pos |-> 0]]

PT_cycle(l, actual) ==
  LET phase == Phase(<<2000, 2300, 2600, 3000>>, l.step)
  IN  [l EXCEPT !.step = Step(l, 8000), !.out = [cw |-> Words[phase], go |-> phase = 5, pos |-> 0]]

\* eRob_PV: the steps only go on while all drives are in the state of the phase
PV_ready(phase) ==
  phase = 5 \/ \A k \in Devices : drives[k].state = <<"SW_ON_DISABLED", "READY_TO_SWITCH_ON", "SWITCHED_ON",
                                                      "OPERATION_ENABLED">>[phase]

PV_cycle(l, actual) ==
  LET phase == Phase(<<1500, 1800, 2000, 2400>>, l.step)
  IN  [l EXCEPT !.step = IF PV_ready(phase) THEN Step(l, 8000) ELSE @,
                !.out = [cw |-> Words[phase], go |-> phase = 5, pos |-> 0]]

\* eRob_PP_subscriber, whose passes are of half a Unit and, once it drives, one
\* cycle: the bit of a new set-point is set in the cycle after a target has come
PP_updated(l) == l.seen < sent

PP_cycle(l) ==
  LET phase == Phase(<<400, 600, 800, 1000>>, l.step)
      new   == l.step * Unit > 1600 /\ PP_updated(l)
  IN  IF phase < 5 THEN [l EXCEPT !.rxpdo = [cw |-> Words[phase], pos |-> 0, go |-> FALSE]]
      ELSE IF l.step * Unit <= 1600 THEN l
      ELSE [l EXCEPT !.rxpdo = [cw |-> CW_ENABLE_OP_CMD, pos |-> IF new THEN Commanded ELSE @.pos, go |-> new],
                     !.seen = IF new THEN sent ELSE @]

\* in every pass, also one that went wrong: the image is what rxpdo was before, and
\* the step is counted
PP_sends(l, turned) ==
  IF plan.program = "pp" THEN [turned EXCEPT !.out = l.rxpdo, !.step = Step(l, 1800)] ELSE turned

\* what the loop does in a pass that went well
Turn(l, actual) ==
  CASE plan.program = "csp" -> CSP_cycle(l, actual)
    [] plan.program = "csp_subscriber" -> SUB_cycle(l, actual)
    [] plan.program = "tc"  -> TC_cycle(l, actual)
    [] plan.program = "cst" -> CST_cycle(l, actual)
    [] plan.program = "pt"  -> PT_cycle(l, actual)
    [] plan.program = "pv"  -> PV_cycle(l, actual)
    [] plan.program = "pp"  -> PP_cycle(l)

Loops == {"csp", "csp_subscriber", "tc", "cst", "pt", "pv", "pp"}

-----------------------------------------------------------------------------
\* the state a drive takes on a control word; bit 7 resets a fault when it rises
Obeyed(d, cw) ==
  CASE d.state = "FAULT" /\ cw = CW_FAULT_RESET_CMD /\ d.cw # cw -> "SW_ON_DISABLED"
    [] d.state # "FAULT" /\ cw = CW_FAULT_RESET_CMD -> "SW_ON_DISABLED"
    [] d.state # "FAULT" /\ cw = CW_SHUTDOWN_CMD -> "READY_TO_SWITCH_ON"
    [] d.state \in {"READY_TO_SWITCH_ON", "OPERATION_ENABLED"} /\ cw = CW_SWITCH_ON_CMD -> "SWITCHED_ON"
    [] d.state = "READY_TO_SWITCH_ON" /\ cw = CW_ENABLE_OP_CMD -> "SWITCHED_ON"
    [] d.state = "SWITCHED_ON" /\ cw = CW_ENABLE_OP_CMD -> "OPERATION_ENABLED"
    [] OTHER -> d.state

\* a drive that stays enabled goes where it is told; in profile position mode, when
\* the bit of a new set-point rises
Driven(d, out) ==
  LET state == Obeyed(d, out.cw)
      told  == plan.program = "pp" => out.go /\ ~d.go
  IN  [d EXCEPT !.state = state, !.cw = out.cw, !.go = out.go,
                !.pos = IF d.state = "OPERATION_ENABLED" /\ state = d.state /\ told THEN out.pos ELSE @]

\* wkc >= expectedWKC
Answered(fate) == fate = "arrives" /\ \A k \in Devices : k \in Connected /\ bus[k].al = EC_STATE_OPERATIONAL

\* The image goes round, then the loop makes the next one.  Of several slaves the
\* last one's inputs stay in txpdo, as they were when the frame passed.
Pass(fate) ==
  /\ at.proc = "loop" /\ plan.program \in Loops
  /\ Costs(fate)
  /\ drives' = IF fate = "lost" THEN drives ELSE [k \in Devices |-> Driven(drives[k], loop.out)]
  /\ loop' = PP_sends(loop, IF Answered(fate) THEN Turn(loop, drives[Max(Devices)].pos) ELSE loop)
  /\ UNCHANGED <<plan, bus, cuts, sent, list, esi, at, hold, clocked, checkvars>>

\* a client sends the next target: command_socket_thread, start_server
Command ==
  /\ at.proc = "loop" /\ sent < Len(plan.goals)
  /\ sent' = sent + 1
  /\ UNCHANGED <<loop, drives, vars>>

DriveFault(k) ==
  /\ at.proc = "loop" /\ drives[k].state # "FAULT" /\ trouble < plan.trouble
  /\ trouble' = trouble + 1
  /\ drives' = [drives EXCEPT ![k].state = "FAULT"]
  /\ UNCHANGED <<plan, bus, cuts, loop, sent, list, esi, at, hold, clocked, checkvars>>

ecatthread ==
  \/ \E fate \in Fates : Pass(fate)
  \/ Command
  \/ \E k \in Devices : DriveFault(k)
=============================================================================
