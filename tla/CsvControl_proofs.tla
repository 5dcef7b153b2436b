-------------------------- MODULE CsvControl_proofs --------------------------
(***************************************************************************)
(* Proofs about CsvControl for any number of slaves, any speed, any number *)
(* of upsets and any bound of the step counter.                            *)
(***************************************************************************)
EXTENDS CsvControl, WellFoundedInduction, TLAPS

-----------------------------------------------------------------------------
(***************************************************************************)
(* The motor library.                                                      *)
(***************************************************************************)

\* cia402_decode_state knows no other states.
LEMMA DecodeType == \A sw : cia402_decode_state(sw) \in States
  BY DEF cia402_decode_state, StateWord, States

\* The step counter stays within its bounds.
LEMMA AdvanceType ==
  ASSUME NEW k \in 0 .. StepMax
  PROVE  Advance(k) \in 0 .. StepMax /\ Advance(k) <= k + 1
  BY StepAssumption DEF Advance

LEMMA WordsType ==
  /\ {CW_SAFE, CW_QUICK_STOP_CMD, CW_ENABLE_OP_CMD, CW_FAULT_RESET_CMD} \subseteq ControlWords
  /\ \A s \in DOMAIN EnableCommand : s \in States /\ EnableCommand[s] \in ControlWords
  /\ 0 \in 0 .. StepMax
  BY StepAssumption DEF ControlWords, EnableCommand, States

LEMMA HoldType ==
  ASSUME NEW V, NEW m \in Motors(V), NEW s \in States, NEW cw \in ControlWords
  PROVE  Hold(m, s, cw) \in Motors(V)
  BY WordsType, Zenon DEF Motors, Hold

LEMMA ResetFaultType ==
  ASSUME NEW V, NEW m \in Motors(V), NEW s \in States
  PROVE  ResetFault(m, s) \in Motors(V)
<1>1. Advance(0) \in 0 .. StepMax
  BY AdvanceType, WordsType
<1> QED
  BY <1>1, WordsType, Zenon DEF Motors, ResetFault

LEMMA EnableFurtherType ==
  ASSUME NEW V, NEW m \in Motors(V), NEW s \in DOMAIN EnableCommand
  PROVE  EnableFurther(m, s) \in Motors(V)
<1> DEFINE due == m.step >= StepCmd
           cw == IF due THEN EnableCommand[s] ELSE m.controlword
           k == Advance(IF due THEN 0 ELSE m.step)
<1>1. m.step \in 0 .. StepMax /\ m.controlword \in ControlWords
  BY Zenon DEF Motors
<1>2. k \in 0 .. StepMax /\ cw \in ControlWords
  BY <1>1, AdvanceType, WordsType
<1>3. EnableFurther(m, s) =
        [m EXCEPT !.state = s, !.faulted = FALSE, !.operation_enabled = FALSE,
                  !.controlword = cw, !.step = k]
  BY DEF EnableFurther
<1> HIDE DEF k, cw
<1> QED
  BY <1>2, <1>3, WordsType, Zenon DEF Motors

LEMMA RunEnabledType ==
  ASSUME NEW V, NEW m \in Motors(V), NEW s \in States
  PROVE  RunEnabled(m, s) \in Motors(V)
<1>1. m.step \in 0 .. StepMax
  BY Zenon DEF Motors
<1>2. Advance(m.step) \in 0 .. StepMax
  BY <1>1, AdvanceType
<1> QED
  BY <1>2, WordsType, Zenon DEF Motors, RunEnabled
(***************************************************************************)
(* What the loop relies on: cia402_state_machine leaves ec_connected alone *)
(* and enables operation only on the status word that says so.             *)
(***************************************************************************)
Trusted(m, n, sw) ==
  /\ n.ec_connected = m.ec_connected
  /\ n.operation_enabled => /\ n.controlword = CW_ENABLE_OP_CMD
                            /\ cia402_decode_state(sw) = "OPERATION_ENABLED"

\* An enabling command is either kept, while the counter advances by at most
\* one, or issued when the counter was due, which then starts anew.
Paced(m, n) ==
  /\ n.controlword \in {CW_SHUTDOWN_CMD, CW_SWITCH_ON_CMD} =>
       \/ n.controlword = m.controlword /\ n.step <= m.step + 1
       \/ m.step >= StepCmd /\ n.step <= 1
  /\ n.controlword \in {CW_SWITCH_ON_CMD, CW_ENABLE_OP_CMD} /\ ~n.operation_enabled =>
       n.controlword = m.controlword \/ m.step >= StepCmd

LEMMA MachineStep ==
  ASSUME NEW V, NEW m \in Motors(V), NEW sw
  PROVE  LET n == cia402_state_machine(m, sw)
         IN  n \in Motors(V) /\ Trusted(m, n, sw) /\ Paced(m, n)
<1> DEFINE s == cia402_decode_state(sw)
           n == cia402_state_machine(m, sw)
<1> SUFFICES n \in Motors(V) /\ Trusted(m, n, sw) /\ Paced(m, n)
  OBVIOUS
<1>1. s \in States
  BY DecodeType
<1>2. m.step \in 0 .. StepMax /\ StepMax \in Nat
  BY StepAssumption, Zenon DEF Motors
<1> USE DEF Trusted, Paced, CW_SAFE, CW_QUICK_STOP_CMD, CW_SHUTDOWN_CMD, CW_SWITCH_ON_CMD,
        CW_ENABLE_OP_CMD, CW_FAULT_RESET_CMD
<1>3. ASSUME NEW cw \in {CW_SAFE, CW_QUICK_STOP_CMD}, n = Hold(m, s, cw)
      PROVE  n \in Motors(V) /\ Trusted(m, n, sw) /\ Paced(m, n)
  <2>1. n \in Motors(V)
    BY <1>1, <1>3, HoldType, WordsType
  <2> HIDE DEF s, n
  <2>2. n.ec_connected = m.ec_connected /\ ~n.operation_enabled /\ n.controlword = cw
    BY <1>3 DEF Hold, Motors
  <2> QED
    BY <1>3, <2>1, <2>2
<1>4. CASE s = "UNKNOWN"
  <2>1. n = Hold(m, s, CW_SAFE)
    BY <1>4 DEF cia402_state_machine, EnableCommand
  <2> QED
    BY <1>3, <2>1
<1>5. CASE s \in {"QUICK_STOP_ACTIVE", "FAULT_REACTION_ACTIVE"}
  <2>1. n = Hold(m, s, CW_QUICK_STOP_CMD)
    BY <1>5 DEF cia402_state_machine, EnableCommand
  <2> QED
    BY <1>3, <2>1
<1>6. CASE s \in {"NOT_READY_TO_SWITCH_ON", "FAULT"}
  <2>1. n = ResetFault(m, s)
    BY <1>6 DEF cia402_state_machine, EnableCommand
  <2>2. n \in Motors(V)
    BY <1>1, <2>1, ResetFaultType
  <2> HIDE DEF s, n
  <2>3. n.ec_connected = m.ec_connected /\ ~n.operation_enabled
        /\ n.controlword = CW_FAULT_RESET_CMD
    BY <2>1 DEF ResetFault, Motors
  <2> QED
    BY <2>2, <2>3
<1>7. CASE s \in DOMAIN EnableCommand
  <2>1. n = EnableFurther(m, s)
    BY <1>7 DEF cia402_state_machine, EnableCommand
  <2>2. n \in Motors(V)
    BY <1>7, <2>1, EnableFurtherType
  <2> HIDE DEF s, n
  <2>3. /\ n.ec_connected = m.ec_connected /\ ~n.operation_enabled
        /\ n.controlword = IF m.step >= StepCmd THEN EnableCommand[s] ELSE m.controlword
        /\ n.step = Advance(IF m.step >= StepCmd THEN 0 ELSE m.step)
    BY <2>1 DEF EnableFurther, Motors
  <2>4. CASE m.step >= StepCmd
    BY <2>2, <2>3, <2>4, AdvanceType, WordsType
  <2>5. CASE ~(m.step >= StepCmd)
    BY <1>2, <2>2, <2>3, <2>5, AdvanceType
  <2> QED
    BY <2>4, <2>5
<1>8. CASE s = "OPERATION_ENABLED"
  <2>1. n = RunEnabled(m, s)
    BY <1>8 DEF cia402_state_machine, EnableCommand
  <2>2. n \in Motors(V)
    BY <1>1, <2>1, RunEnabledType
  <2>3. n.ec_connected = m.ec_connected /\ n.operation_enabled
        /\ n.controlword = CW_ENABLE_OP_CMD
    <3> HIDE DEF s, n
    <3> QED
      BY <2>1 DEF RunEnabled, Motors
  <2> QED
    BY <1>8, <2>2, <2>3
<1> QED
  BY <1>1, <1>4, <1>5, <1>6, <1>7, <1>8 DEF States, EnableCommand

-----------------------------------------------------------------------------
(***************************************************************************)
(* One pass of the loop over one motor.                                    *)
(***************************************************************************)

\* The connection check leaves a motor that is not connected as
\* cia402_lost_motor made it, and only notes that a motor is connected again.
LEMMA CheckedStep ==
  ASSUME NEW m \in Motors(Velocities)
  PROVE  /\ Checked(m, TRUE) = [m EXCEPT !.ec_connected = TRUE]
         /\ Checked(m, TRUE) \in Motors(Velocities)
         /\ m.ec_connected \/ m = cia402_lost_motor => Checked(m, FALSE) = cia402_lost_motor
         /\ Checked(m, FALSE) \in Motors(Velocities)
         /\ ~Checked(m, FALSE).ec_connected
<1>1. cia402_lost_motor \in Motors(Velocities)
  <2>1. 0 \in 0 .. StepMax
    BY StepAssumption
  <2> QED
    BY <2>1, Zenon DEF cia402_lost_motor, Motors, States, ControlWords, Velocities
<1>2. Checked(m, TRUE) = [m EXCEPT !.ec_connected = TRUE]
  BY DEF Checked
<1>3. Checked(m, TRUE) \in Motors(Velocities)
  BY <1>2, Zenon DEF Motors
<1>4. [cia402_lost_motor EXCEPT !.ec_connected = FALSE] = cia402_lost_motor
  <2>1. ASSUME NEW l, l = [x \in DOMAIN l |-> l[x]], "ec_connected" \in DOMAIN l,
               l.ec_connected = FALSE
        PROVE  [l EXCEPT !.ec_connected = FALSE] = l
    BY <2>1
  <2>2. cia402_lost_motor.ec_connected = FALSE
        /\ "ec_connected" \in DOMAIN cia402_lost_motor
    BY DEF cia402_lost_motor
  <2>3. cia402_lost_motor = [x \in DOMAIN cia402_lost_motor |-> cia402_lost_motor[x]]
    BY Zenon DEF cia402_lost_motor
  <2> QED
    BY <2>1, <2>2, <2>3
<1>5. m.ec_connected \/ m = cia402_lost_motor => Checked(m, FALSE) = cia402_lost_motor
  BY <1>4, Zenon DEF Checked
<1>6. CASE m.ec_connected
  <2>1. ~cia402_lost_motor.ec_connected
    BY DEF cia402_lost_motor
  <2>2. Checked(m, FALSE) = cia402_lost_motor
    BY <1>5, <1>6
  <2> QED
    BY <1>1, <1>2, <1>3, <1>5, <2>1, <2>2
<1>7. CASE ~m.ec_connected
  <2>1. Checked(m, FALSE) = [m EXCEPT !.ec_connected = FALSE]
    BY <1>7 DEF Checked
  <2>2. Checked(m, FALSE) \in Motors(Velocities)
    BY <2>1, Zenon DEF Motors
  <2>3. ~Checked(m, FALSE).ec_connected
    BY <2>1 DEF Motors
  <2> QED
    BY <1>2, <1>3, <1>5, <2>2, <2>3
<1> QED
  BY <1>6, <1>7

\* A controlled motor has a speed only when operation is enabled.
LEMMA ControlledStep ==
  ASSUME NEW m \in Motors(Velocities), NEW sw
  PROVE  LET n == Controlled(m, sw)
         IN  /\ n \in Motors(Velocities) /\ Trusted(m, n, sw) /\ Paced(m, n)
             /\ n.target_velocity # 0 => n.operation_enabled
<1> DEFINE k == cia402_state_machine(m, sw)
           n == Controlled(m, sw)
           v == IF k.operation_enabled THEN CruiseSpeed ELSE 0
<1> SUFFICES /\ n \in Motors(Velocities) /\ Trusted(m, n, sw) /\ Paced(m, n)
             /\ n.target_velocity # 0 => n.operation_enabled
  OBVIOUS
<1>1. k \in Motors(Velocities) /\ Trusted(m, k, sw) /\ Paced(m, k)
  BY MachineStep
<1>2. n = [k EXCEPT !.target_velocity = v]
  BY DEF Controlled
<1>3. v \in Velocities /\ (v # 0 => k.operation_enabled)
  BY DEF Velocities
<1> HIDE DEF k, n, v
<1>4. n \in Motors(Velocities)
  BY <1>1, <1>2, <1>3, Zenon DEF Motors
<1>5. /\ n.ec_connected = k.ec_connected /\ n.operation_enabled = k.operation_enabled
      /\ n.controlword = k.controlword /\ n.step = k.step /\ n.target_velocity = v
  BY <1>1, <1>2 DEF Motors
<1> QED
  BY <1>1, <1>3, <1>4, <1>5 DEF Trusted, Paced

-----------------------------------------------------------------------------
(***************************************************************************)
(* The inductive invariant.                                                *)
(***************************************************************************)
LEMMA InitMotorType == cia402_init_motor \in Motors(Velocities)
<1>1. 0 \in 0 .. StepMax
  BY StepAssumption
<1> QED
  BY <1>1, Zenon DEF cia402_init_motor, Motors, States, ControlWords, Velocities

LEMMA RxPdoType ==
  ASSUME NEW m \in Motors(Velocities)
  PROVE  RxPdo(m) \in Image
  BY Zenon DEF RxPdo, Image, Motors

LEMMA SilenceType ==
  /\ Silence \in [Slaves -> StatusWords] /\ Silence \in [Slaves -> {0, 1, 3}]
  /\ NoFrame \in [at : {"none", "wire", "back"}, counts : [Slaves -> {0, 1, 3}],
                  inputs : [Slaves -> StatusWords]]
<1>1. Silence \in [Slaves -> StatusWords] /\ Silence \in [Slaves -> {0, 1, 3}]
  BY DEF Silence, StatusWords
<1> QED
  BY <1>1, Zenon DEF NoFrame

LEMMA ReceivedType ==
  ASSUME TypeOK
  PROVE  Received \in [Slaves -> StatusWords] /\ HeardNow \in [Slaves -> {0, 1, 3}]
  BY SilenceType, Zenon DEF TypeOK, Received, HeardNow

LEMMA SendType ==
  ASSUME NEW in \in [Slaves -> StatusWords], Send(in)
  PROVE  frame' \in [at : {"none", "wire", "back"}, counts : [Slaves -> {0, 1, 3}],
                     inputs : [Slaves -> StatusWords]]
  BY SilenceType, Zenon DEF Send

LEMMA InitCsvInv == Init => CsvInv
<1> SUFFICES ASSUME Init PROVE CsvInv
  OBVIOUS
<1>1. motors \in [Slaves -> Motors(Velocities)]
  BY InitMotorType DEF Init
<1>2. outputs \in [Slaves -> Image]
  <2>1. [controlword |-> CW_SAFE, target_velocity |-> 0] \in Image
    BY Zenon DEF Image, ControlWords, Velocities
  <2> QED
    BY <2>1, Zenon DEF Init
<1>3. drive \in [Slaves -> Drives]
  <2>1. \A st \in {"SW_ON_DISABLED", "FAULT"} :
           [state |-> st, cause |-> st = "FAULT", controlword |-> CW_SAFE] \in Drives
    BY Zenon DEF Drives, States, ControlWords
  <2> DEFINE Fresh == {[state |-> st, cause |-> st = "FAULT", controlword |-> CW_SAFE] :
                         st \in {"SW_ON_DISABLED", "FAULT"}}
  <2>2. Fresh \subseteq Drives
    BY <2>1, Zenon
  <2>3. drive \in [Slaves -> Fresh]
    BY Zenon DEF Init
  <2> HIDE DEF Fresh
  <2> QED
    BY <2>2, <2>3
<1>4. inputs \in [Slaves -> StatusWords] /\ heard \in [Slaves -> {0, 1, 3}]
      /\ frame \in [at : {"none", "wire", "back"}, counts : [Slaves -> {0, 1, 3}],
                    inputs : [Slaves -> StatusWords]]
  BY SilenceType, Zenon DEF Init
<1>5. link \in [Slaves -> {"op", "safeop", "off"}] /\ age \in [Slaves -> 0 .. StepCmd]
      /\ upsets \in 0 .. MaxUpsets
  BY StepAssumption, CsvAssumption DEF Init
<1>6. TypeOK
  BY <1>1, <1>2, <1>3, <1>4, <1>5, Zenon DEF TypeOK, Init
<1>7. \A s \in Slaves : outputs[s].target_velocity = 0 /\ outputs[s].controlword = CW_SAFE
  BY DEF Init
<1>8. SyncInv /\ QuietInv
  BY <1>7 DEF SyncInv, QuietInv, Init
<1>9. PaceInv /\ VelocityNeedsEnable
  BY <1>7 DEF PaceInv, VelocityNeedsEnable, CW_SAFE, CW_SHUTDOWN_CMD, CW_SWITCH_ON_CMD
<1> QED
  BY <1>6, <1>8, <1>9 DEF CsvInv

\* TypeOK is kept: Cycle by the lemmas on one motor, the rest by inspection.
LEMMA NextTypeOK == TypeOK /\ [Next]_vars => TypeOK'
<1> SUFFICES ASSUME TypeOK, [Next]_vars
             PROVE  TypeOK'
  OBVIOUS
<1> USE StepAssumption, CsvAssumption
<1>1. CASE Start
  <2>1. motors' \in [Slaves -> Motors(Velocities)]
    BY <1>1, InitMotorType DEF Start
  <2>2. outputs' \in [Slaves -> Image]
    BY <1>1, <2>1, RxPdoType DEF Start
  <2> QED
    BY <1>1, <2>1, <2>2, SendType DEF Start, TypeOK
<1>2. CASE FirstReceive
  BY <1>2, ReceivedType, SilenceType DEF FirstReceive, TypeOK
<1>3. CASE Cycle
  <2> DEFINE connected(s) == Wkc >= 3 * s
  <2>1. motors' = [s \in Slaves |->
                    IF connected(s) THEN Controlled(Checked(motors[s], TRUE), Received[s])
                                    ELSE Checked(motors[s], FALSE)]
    BY <1>3 DEF Cycle
  <2>2. outputs' = [s \in Slaves |-> IF connected(s) THEN RxPdo(motors'[s]) ELSE outputs[s]]
    BY <1>3 DEF Cycle
  <2> HIDE DEF connected
  <2>3. \A s \in Slaves : motors[s] \in Motors(Velocities) /\ outputs[s] \in Image
    BY DEF TypeOK
  <2>4. \A s \in Slaves : /\ Controlled(Checked(motors[s], TRUE), Received[s]) \in Motors(Velocities)
                         /\ Checked(motors[s], FALSE) \in Motors(Velocities)
    BY <2>3, CheckedStep, ControlledStep
  <2>5. motors' \in [Slaves -> Motors(Velocities)]
    BY <2>1, <2>4
  <2>6. outputs' \in [Slaves -> Image]
    BY <2>2, <2>3, <2>5, RxPdoType
  <2>7. inputs' \in [Slaves -> StatusWords] /\ heard' \in [Slaves -> {0, 1, 3}]
        /\ frame' \in [at : {"none", "wire", "back"}, counts : [Slaves -> {0, 1, 3}],
                       inputs : [Slaves -> StatusWords]]
    BY <1>3, ReceivedType, SendType DEF Cycle
  <2>8. age' \in [Slaves -> 0 .. StepCmd]
    <3>1. age \in [Slaves -> 0 .. StepCmd]
      BY DEF TypeOK
    <3>2. Longer(0) \in 0 .. StepCmd /\ \A s \in Slaves : Longer(age[s]) \in 0 .. StepCmd
      BY <3>1 DEF Longer
    <3> QED
      BY <1>3, <3>2 DEF Cycle
  <2> QED
    BY <1>3, <2>5, <2>6, <2>7, <2>8, Zenon DEF Cycle, TypeOK
<1>4. CASE Traverse
  <2>1. drive' \in [Slaves -> Drives]
    <3>1. \A s \in Slaves : Obeyed(drive[s], outputs[s].controlword) \in States
      BY DEF Obeyed, States, TypeOK, Drives
    <3>2. \A s \in Slaves : outputs[s].controlword \in ControlWords /\ drive[s] \in Drives
      BY DEF TypeOK, Image
    <3>3. ASSUME NEW s \in Slaves, NEW st \in States, NEW cw \in ControlWords
          PROVE  [drive[s] EXCEPT !.state = st, !.controlword = cw] \in Drives
      BY <3>2, Zenon DEF Drives
    <3> QED
      BY <1>4, <3>1, <3>2, <3>3 DEF Traverse, Visited
  <2>2. frame' \in [at : {"none", "wire", "back"}, counts : [Slaves -> {0, 1, 3}],
                   inputs : [Slaves -> StatusWords]]
    <3> DEFINE c == [s \in Slaves |-> Contribution[link[s]]]
               v == [s \in Slaves |-> IF link[s] = "off" THEN frame.inputs[s]
                                       ELSE StatusWord(drive[s].state)]
    <3>1. c \in [Slaves -> {0, 1, 3}]
      BY DEF TypeOK, Contribution
    <3>2. v \in [Slaves -> StatusWords]
      BY DEF TypeOK, Drives, StatusWords
    <3>3. frame' = [at |-> "back", counts |-> c, inputs |-> v]
      BY <1>4 DEF Traverse, Visited
    <3> QED
      BY <3>1, <3>2, <3>3, Zenon
  <2> QED
    BY <1>4, <2>1, <2>2 DEF Traverse, Visited, TypeOK, master
<1>5. CASE LoseFrame \/ LoseAnswer
  BY <1>5, SilenceType DEF LoseFrame, LoseAnswer, Upset, TypeOK, master
<1>6. ASSUME NEW s \in Slaves, DriveStep(s) PROVE TypeOK'
  <2>0. drive \in [Slaves -> Drives] /\ drive[s] \in Drives
    BY DEF TypeOK
  <2>1. ASSUME NEW st \in States
        PROVE  /\ [drive EXCEPT ![s].state = st] \in [Slaves -> Drives]
               /\ [drive EXCEPT ![s].cause = FALSE] \in [Slaves -> Drives]
               /\ [drive EXCEPT ![s].state = st, ![s].cause = TRUE] \in [Slaves -> Drives]
    <3>1. [drive[s] EXCEPT !.state = st] \in Drives
      BY <2>0, Zenon DEF Drives
    <3>2. [drive[s] EXCEPT !.cause = FALSE] \in Drives
      BY <2>0, Zenon DEF Drives
    <3>3. [drive[s] EXCEPT !.state = st, !.cause = TRUE] \in Drives
      BY <2>0, Zenon DEF Drives
    <3>4. ASSUME NEW d \in Drives PROVE [drive EXCEPT ![s] = d] \in [Slaves -> Drives]
      BY <2>0, Zenon
    <3>5. /\ [drive EXCEPT ![s].state = st] = [drive EXCEPT ![s] = [drive[s] EXCEPT !.state = st]]
          /\ [drive EXCEPT ![s].cause = FALSE] = [drive EXCEPT ![s] = [drive[s] EXCEPT !.cause = FALSE]]
          /\ [drive EXCEPT ![s].state = st, ![s].cause = TRUE]
               = [drive EXCEPT ![s] = [drive[s] EXCEPT !.state = st, !.cause = TRUE]]
      BY <2>0
    <3> QED
      BY <3>1, <3>2, <3>3, <3>4, <3>5
  <2>2. drive' \in [Slaves -> Drives]
    <3>1. CASE DriveFault(s)
      BY <2>1, <3>1 DEF DriveFault, States
    <3>2. CASE CauseClears(s)
      BY <2>1, <3>2 DEF CauseClears, States
    <3>3. CASE OddStatus(s)
      BY <2>1, <3>3 DEF OddStatus, States
    <3>4. CASE DriveProgress(s)
      <4>1. Passing[drive[s].state] \in States
        BY <3>4 DEF DriveProgress, Passing, States
      <4> QED
        BY <2>1, <3>4, <4>1 DEF DriveProgress
    <3> QED
      BY <1>6, <3>1, <3>2, <3>3, <3>4 DEF DriveStep
  <2>3. upsets' \in 0 .. MaxUpsets
    BY <1>6 DEF DriveStep, DriveFault, CauseClears, OddStatus, DriveProgress, Upset, TypeOK
  <2>4. UNCHANGED <<master, frame, link>>
    BY <1>6 DEF DriveStep, DriveFault, CauseClears, OddStatus, DriveProgress
  <2> QED
    BY <2>2, <2>3, <2>4 DEF TypeOK, master
<1>7. ASSUME NEW s \in Slaves, LinkDown(s) \/ LinkUp(s) PROVE TypeOK'
  <2>1. CASE LinkDown(s)
    BY <2>1 DEF LinkDown, Upset, TypeOK, master
  <2>2. CASE LinkUp(s)
    <3>1. [state |-> "NOT_READY_TO_SWITCH_ON", cause |-> FALSE, controlword |-> CW_SAFE] \in Drives
      BY Zenon DEF Drives, States, ControlWords
    <3>2. drive' \in [Slaves -> Drives]
      BY <2>2, <3>1 DEF LinkUp, TypeOK
    <3>3. link' \in [Slaves -> {"op", "safeop", "off"}]
      BY <2>2 DEF LinkUp, TypeOK
    <3>4. UNCHANGED <<master, frame, upsets>>
      BY <2>2 DEF LinkUp
    <3> QED
      BY <3>2, <3>3, <3>4 DEF TypeOK, master
  <2> QED
    BY <1>7, <2>1, <2>2
<1>8. CASE UNCHANGED vars
  BY <1>8 DEF vars, TypeOK
<1> QED
  BY <1>1, <1>2, <1>3, <1>4, <1>5, <1>6, <1>7, <1>8 DEF Next

-----------------------------------------------------------------------------
\* what CsvInv says of one motor after a pass of the loop
Good(s) ==
  /\ IF motors[s].ec_connected THEN outputs[s] = RxPdo(motors[s])
                               ELSE motors[s] = cia402_lost_motor
  /\ motors[s].ec_connected /\ outputs[s].controlword \in {CW_SHUTDOWN_CMD, CW_SWITCH_ON_CMD}
       => age[s] >= StepCmd \/ age[s] >= motors[s].step
  /\ motors[s].ec_connected /\ outputs[s].target_velocity # 0 =>
       /\ outputs[s].controlword = CW_ENABLE_OP_CMD
       /\ motors[s].operation_enabled
       /\ cia402_decode_state(inputs[s]) = "OPERATION_ENABLED"

\* the part of PacedStep that is about one motor
PacedMotor(s) ==
  ~motors'[s].operation_enabled /\ <<outputs[s].controlword, outputs'[s].controlword>> \in
       {<<CW_SHUTDOWN_CMD, CW_SWITCH_ON_CMD>>, <<CW_SWITCH_ON_CMD, CW_ENABLE_OP_CMD>>}
    => age[s] >= StepCmd

(***************************************************************************)
(* One pass of the loop over motor s, from any state that satisfies the    *)
(* invariant: the motor ends up as the invariant says, and a command it    *)
(* replaced had been standing long enough.                                 *)
(***************************************************************************)
LEMMA CycleMotor ==
  ASSUME CsvInv, Cycle, NEW s \in Slaves
  PROVE  Good(s)' /\ PacedMotor(s)
<1> USE StepAssumption
<1> DEFINE connected == Wkc >= 3 * s
           m == Checked(motors[s], TRUE)
           n == Controlled(m, Received[s])
<1>1. /\ motors[s] \in Motors(Velocities) /\ motors[s].step \in Nat
      /\ age[s] \in 0 .. StepCmd /\ outputs[s] \in Image
      /\ IF motors[s].ec_connected THEN outputs[s] = RxPdo(motors[s])
                                   ELSE motors[s] = cia402_lost_motor
      /\ motors[s].ec_connected /\ outputs[s].controlword \in {CW_SHUTDOWN_CMD, CW_SWITCH_ON_CMD}
           => age[s] >= StepCmd \/ age[s] >= motors[s].step
  <2>1. motors[s] \in Motors(Velocities) /\ age[s] \in 0 .. StepCmd /\ outputs[s] \in Image
    BY DEF CsvInv, TypeOK
  <2>2. motors[s].step \in 0 .. StepMax
    BY <2>1, Zenon DEF Motors
  <2> QED
    BY <2>1, <2>2 DEF CsvInv, SyncInv, PaceInv, Cycle
<1>2. /\ motors'[s] = IF connected THEN n ELSE Checked(motors[s], FALSE)
      /\ outputs'[s] = IF connected THEN RxPdo(motors'[s]) ELSE outputs[s]
      /\ inputs' = Received
      /\ age'[s] = IF outputs'[s].controlword = outputs[s].controlword
                   THEN Longer(age[s]) ELSE Longer(0)
  BY DEF Cycle
<1>3. ASSUME ~connected PROVE Good(s)' /\ PacedMotor(s)
  <2>1. motors'[s] = cia402_lost_motor /\ ~motors'[s].ec_connected /\ outputs'[s] = outputs[s]
    BY <1>1, <1>2, <1>3, CheckedStep
  <2>2. PacedMotor(s)
    BY <2>1 DEF PacedMotor, CW_SHUTDOWN_CMD, CW_SWITCH_ON_CMD, CW_ENABLE_OP_CMD
  <2> QED
    BY <2>1, <2>2 DEF Good
<1>4. ASSUME connected PROVE Good(s)' /\ PacedMotor(s)
  <2>1. motors'[s] = n /\ outputs'[s] = RxPdo(n)
    BY <1>2, <1>4
  <2>2. m = [motors[s] EXCEPT !.ec_connected = TRUE] /\ m \in Motors(Velocities)
    BY <1>1, CheckedStep
  <2>3. /\ m.ec_connected /\ m.controlword = motors[s].controlword /\ m.step = motors[s].step
        /\ ~motors[s].ec_connected => motors[s].controlword = CW_SAFE /\ motors[s].step = 0
    <3>1. cia402_lost_motor.controlword = CW_SAFE /\ cia402_lost_motor.step = 0
      BY DEF cia402_lost_motor
    <3> HIDE DEF m
    <3> QED
      BY <1>1, <2>2, <3>1 DEF Motors
  <2>4. /\ n \in Motors(Velocities) /\ Trusted(m, n, Received[s]) /\ Paced(m, n)
        /\ n.target_velocity # 0 => n.operation_enabled
    BY <2>2, ControlledStep
  <2> HIDE DEF m, n, connected
  <2>5. n.ec_connected /\ n.step \in Nat
    <3>1. n.step \in 0 .. StepMax
      BY <2>4, Zenon DEF Motors
    <3> QED
      BY <2>3, <2>4, <3>1 DEF Trusted
  <2>6. /\ outputs'[s].controlword = n.controlword
        /\ outputs'[s].target_velocity = n.target_velocity
        /\ motors[s].ec_connected => outputs[s].controlword = motors[s].controlword
    BY <1>1, <2>1 DEF RxPdo
  <2>7. n.controlword \in {CW_SHUTDOWN_CMD, CW_SWITCH_ON_CMD} =>
           age'[s] >= StepCmd \/ age'[s] >= n.step
    <3> USE DEF CW_SHUTDOWN_CMD, CW_SWITCH_ON_CMD, CW_SAFE, Longer
    <3>1. CASE n.controlword = m.controlword /\ n.step <= m.step + 1
      BY <1>1, <1>2, <2>3, <2>5, <2>6, <3>1
    <3>2. CASE m.step >= StepCmd /\ n.step <= 1
      BY <1>1, <1>2, <2>5, <3>2
    <3> QED
      BY <2>4, <3>1, <3>2 DEF Paced
  <2>8. Good(s)'
    BY <1>2, <2>1, <2>4, <2>5, <2>6, <2>7 DEF Good, Trusted
  <2>9. PacedMotor(s)
    BY <1>1, <2>1, <2>3, <2>4, <2>6
    DEF PacedMotor, Paced, CW_SHUTDOWN_CMD, CW_SWITCH_ON_CMD, CW_ENABLE_OP_CMD, CW_SAFE
  <2> QED
    BY <2>8, <2>9
<1> QED
  BY <1>3, <1>4

\* No step of the environment changes what the invariant speaks of.
LEMMA EnvironmentStep ==
  ASSUME [Next]_vars, ~Start, ~FirstReceive, ~Cycle
  PROVE  UNCHANGED <<pc, motors, outputs, inputs, age>>
  BY DEF Next, vars, master, Traverse, LoseFrame, LoseAnswer, DriveStep, DriveFault, CauseClears,
     OddStatus, DriveProgress, LinkDown, LinkUp

LEMMA NextCsvInv == CsvInv /\ [Next]_vars => CsvInv'
<1> SUFFICES ASSUME CsvInv, [Next]_vars
             PROVE  CsvInv'
  OBVIOUS
<1>1. TypeOK'
  BY NextTypeOK DEF CsvInv
<1>2. CASE Start
  <2>1. /\ pc' = "first" /\ age' = age
        /\ \A s \in Slaves : /\ motors'[s] = cia402_init_motor
                             /\ outputs'[s] = RxPdo(cia402_init_motor)
    BY <1>2 DEF Start
  <2>2. /\ RxPdo(cia402_init_motor).controlword = CW_FAULT_RESET_CMD
        /\ RxPdo(cia402_init_motor).target_velocity = 0
        /\ cia402_init_motor.ec_connected
    BY DEF RxPdo, cia402_init_motor
  <2>3. QuietInv' /\ SyncInv'
    BY <2>1, <2>2 DEF QuietInv, SyncInv
  <2>4. PaceInv' /\ VelocityNeedsEnable'
    BY <2>1, <2>2 DEF PaceInv, VelocityNeedsEnable, CW_FAULT_RESET_CMD, CW_SHUTDOWN_CMD,
       CW_SWITCH_ON_CMD
  <2> QED
    BY <1>1, <2>3, <2>4 DEF CsvInv
<1>3. CASE FirstReceive
  <2>1. pc = "first" /\ pc' = "loop" /\ UNCHANGED <<motors, outputs, age>>
    BY <1>3 DEF FirstReceive
  <2> QED
    BY <1>1, <2>1 DEF CsvInv, SyncInv, QuietInv, PaceInv, VelocityNeedsEnable
<1>4. CASE Cycle
  <2>1. \A s \in Slaves : Good(s)'
    BY <1>4, CycleMotor
  <2>2. pc' = "loop"
    BY <1>4 DEF Cycle
  <2> QED
    BY <1>1, <2>1, <2>2 DEF Good, CsvInv, SyncInv, QuietInv, PaceInv, VelocityNeedsEnable
<1>5. CASE ~Start /\ ~FirstReceive /\ ~Cycle
  <2>1. UNCHANGED <<pc, motors, outputs, inputs, age>>
    BY <1>5, EnvironmentStep
  <2> QED
    BY <1>1, <2>1 DEF CsvInv, SyncInv, QuietInv, PaceInv, VelocityNeedsEnable
<1> QED
  BY <1>2, <1>3, <1>4, <1>5

LEMMA CsvInductive == Spec => []CsvInv
  BY InitCsvInv, NextCsvInv, PTL DEF Spec

-----------------------------------------------------------------------------
(***************************************************************************)
(* Types: the state machine never leaves a motor with a control word or a  *)
(* step counter outside the ranges the code means.                         *)
(***************************************************************************)
THEOREM TypeCorrect == Spec => []TypeOK
<1>1. CsvInv => TypeOK
  BY DEF CsvInv
<1> QED
  BY CsvInductive, <1>1, PTL

(***************************************************************************)
(* For any number of motors, the image commands a connected motor to move  *)
(* only while the status word received last says its operation is enabled. *)
(***************************************************************************)
THEOREM VelocitySafety == Spec => []VelocityNeedsEnable
<1>1. CsvInv => VelocityNeedsEnable
  BY DEF CsvInv
<1> QED
  BY CsvInductive, <1>1, PTL

(***************************************************************************)
(* For any number of cycles an enabling command must stand, no disconnect, *)
(* reconnect or fault shortens the time: the step counter never runs ahead *)
(* of the time the command has been in the image.                          *)
(***************************************************************************)
THEOREM CommandPacing == Spec => CommandPaced
<1>1. CsvInv /\ [Next]_vars => [PacedStep]_vars
  <2> SUFFICES ASSUME CsvInv, [Next]_vars
               PROVE  [PacedStep]_vars
    OBVIOUS
  <2>1. CASE Cycle
    BY <2>1, CycleMotor DEF PacedMotor, PacedStep
  <2>2. CASE Start
    <3>1. \A s \in Slaves : outputs[s].controlword \in {CW_SAFE, CW_FAULT_RESET_CMD}
      BY <2>2 DEF CsvInv, QuietInv, Start
    <3> QED
      BY <3>1 DEF PacedStep, CW_SAFE, CW_FAULT_RESET_CMD, CW_SHUTDOWN_CMD, CW_SWITCH_ON_CMD
  <2>3. CASE ~Cycle /\ ~Start
    <3>1. UNCHANGED outputs
      BY <2>3, EnvironmentStep DEF FirstReceive
    <3> QED
      BY <3>1 DEF PacedStep, CW_SHUTDOWN_CMD, CW_SWITCH_ON_CMD, CW_ENABLE_OP_CMD
  <2> QED
    BY <2>1, <2>2, <2>3
<1> QED
  BY CsvInductive, <1>1, PTL DEF Spec, CommandPaced

-----------------------------------------------------------------------------
LEMMA LeastNatural ==
  ASSUME NEW S \in SUBSET Nat, S # {}
  PROVE  \E x \in S : \A y \in S : x <= y
<1>1. PICK x \in S : \A y \in S : <<y, x>> \notin OpToRel(<, Nat)
  BY NatLessThanWellFounded, WFMin
<1>2. \A y \in S : x <= y
  <2> SUFFICES ASSUME NEW y \in S, y < x PROVE FALSE
    OBVIOUS
  <2>1. <<y, x>> \in OpToRel(<, Nat)
    BY DEF OpToRel
  <2> QED
    BY <1>1, <2>1
<1> QED
  BY <1>2

(***************************************************************************)
(* The working counter as the connection check reads it.  If the slaves up *)
(* to position k answered in full and none behind them, the sum over the   *)
(* first n is three times the smaller of n and k.                          *)
(***************************************************************************)
LEMMA WkcOfPrefix ==
  ASSUME frame.at = "back", NEW k \in 0 .. SlaveCount,
         \A s \in Slaves : frame.counts[s] = IF s <= k THEN 3 ELSE 0
  PROVE  Wkc = 3 * k
<1> DEFINE IsSum(f) == f = [s \in 0 .. SlaveCount |-> IF s = 0 THEN 0 ELSE f[s - 1] + frame.counts[s]]
           thrice == [s \in 0 .. SlaveCount |-> IF s <= k THEN 3 * s ELSE 3 * k]
           sum == CHOOSE f : IsSum(f)
<1>0. SlaveCount \in Nat /\ k \in Nat /\ k <= SlaveCount
  BY CsvAssumption
<1>1. \A s \in 0 .. SlaveCount : s # 0 => s \in Slaves /\ s - 1 \in 0 .. SlaveCount
  BY <1>0 DEF Slaves
<1>2. IsSum(thrice)
  <2>1. \A s \in 0 .. SlaveCount : thrice[s] = IF s = 0 THEN 0 ELSE thrice[s - 1] + frame.counts[s]
    BY <1>0, <1>1
  <2> QED
    BY <2>1
<1>3. IsSum(sum)
  BY <1>2
<1>4. \A s \in 0 .. SlaveCount : sum[s] = IF s = 0 THEN 0 ELSE sum[s - 1] + frame.counts[s]
  BY <1>3
<1>5. \A s \in 0 .. SlaveCount : thrice[s] = IF s = 0 THEN 0 ELSE thrice[s - 1] + frame.counts[s]
  BY <1>2
<1>6. Wkc = sum[SlaveCount]
  BY DEF Wkc
<1>7. thrice[SlaveCount] = 3 * k
  BY <1>0
<1> HIDE DEF sum, thrice, IsSum
<1> DEFINE wrong == {s \in 0 .. SlaveCount : sum[s] # thrice[s]}
<1>8. wrong = {}
  <2> SUFFICES ASSUME wrong # {} PROVE FALSE
    OBVIOUS
  <2>0. wrong \in SUBSET Nat
    BY <1>0
  <2>1. PICK s \in wrong : \A r \in wrong : s <= r
    BY <2>0, LeastNatural
  <2>2. s \in 0 .. SlaveCount /\ s # 0
    BY <1>4, <1>5, <2>1
  <2>3. s - 1 \in 0 .. SlaveCount /\ ~(s <= s - 1)
    BY <1>0, <2>2
  <2>4. sum[s - 1] = thrice[s - 1]
    BY <2>1, <2>3
  <2> QED
    BY <1>4, <1>5, <2>1, <2>2, <2>4
<1> QED
  BY <1>0, <1>6, <1>7, <1>8

\* the first cycle has run before the image has held its control word
AgedInv == pc # "loop" => \A s \in Slaves : age[s] = 0

LEMMA CycleConnects ==
  ASSUME CsvInv, Cycle
  PROVE  ConnectedIsAnswering'
<1> SUFFICES ASSUME NEW s \in Slaves, HeardNow \in Prefixes
             PROVE  motors'[s].ec_connected <=> HeardNow[s] = 3
  BY DEF Cycle, ConnectedIsAnswering, Prefixes, Slaves
<1>1. PICK k \in 0 .. SlaveCount : HeardNow = [r \in Slaves |-> IF r <= k THEN 3 ELSE 0]
  BY DEF Prefixes
<1>2. SlaveCount \in Nat /\ s \in Nat /\ s # 0
  BY CsvAssumption DEF Slaves
<1>3. (Wkc >= 3 * s) <=> HeardNow[s] = 3
  <2>1. CASE frame.at = "back"
    <3>1. Wkc = 3 * k
      BY <1>1, <2>1, WkcOfPrefix DEF HeardNow
    <3> QED
      BY <1>1, <1>2, <3>1
  <2>2. CASE frame.at # "back"
    <3>1. Wkc = -1 /\ HeardNow[s] = 0
      BY <2>2 DEF Wkc, HeardNow, Silence
    <3> QED
      BY <1>2, <3>1
  <2> QED
    BY <2>1, <2>2
<1>4. motors'[s].ec_connected <=> Wkc >= 3 * s
  <2>1. motors'[s] = IF Wkc >= 3 * s THEN Controlled(Checked(motors[s], TRUE), Received[s])
                                      ELSE Checked(motors[s], FALSE)
    BY DEF Cycle
  <2>2. motors[s] \in Motors(Velocities)
    BY DEF CsvInv, TypeOK
  <2>3. CASE Wkc >= 3 * s
    <3> DEFINE m == Checked(motors[s], TRUE)
               n == Controlled(m, Received[s])
    <3>1. m \in Motors(Velocities) /\ m.ec_connected
      BY ZenonT(40), <2>2, CheckedStep DEF Motors
    <3> HIDE DEF m
    <3>2. n.ec_connected = m.ec_connected
      BY <3>1, ControlledStep DEF Trusted
    <3> QED
      BY <2>1, <2>3, <3>1, <3>2 DEF m
  <2>4. CASE ~(Wkc >= 3 * s)
    BY <2>1, <2>2, <2>4 DEF Checked, Motors, cia402_lost_motor
  <2> QED
    BY <2>3, <2>4
<1> QED
  BY <1>3, <1>4

(***************************************************************************)
(* For any number of slaves: when all slaves up to some position answered  *)
(* in full and none behind it, the motors the loop takes for connected are *)
(* exactly theirs.                                                         *)
(***************************************************************************)
THEOREM ConnectionCheck == Spec => []ConnectedIsAnswering
<1>1. Init => AgedInv /\ ConnectedIsAnswering
  BY DEF Init, AgedInv, ConnectedIsAnswering
<1>2. CsvInv /\ AgedInv /\ ConnectedIsAnswering /\ [Next]_vars => AgedInv' /\ ConnectedIsAnswering'
  <2> SUFFICES ASSUME CsvInv, AgedInv, ConnectedIsAnswering, [Next]_vars
               PROVE  AgedInv' /\ ConnectedIsAnswering'
    OBVIOUS
  <2>1. CASE Start
    BY <2>1 DEF Start, AgedInv, ConnectedIsAnswering
  <2>2. CASE FirstReceive
    BY <2>2 DEF FirstReceive, AgedInv, ConnectedIsAnswering
  <2>3. CASE Cycle
    <3>1. AgedInv'
      BY <2>3 DEF Cycle, AgedInv
    <3> QED
      BY <2>3, <3>1, CycleConnects
  <2>4. CASE ~Start /\ ~FirstReceive /\ ~Cycle
    <3>1. UNCHANGED <<pc, motors, heard, age>>
      BY <2>4 DEF Next, vars, master, Traverse, LoseFrame, LoseAnswer, DriveStep, DriveFault,
                  CauseClears, OddStatus, DriveProgress, LinkDown, LinkUp
    <3> QED
      BY <3>1 DEF AgedInv, ConnectedIsAnswering, Prefixes
  <2> QED
    BY <2>1, <2>2, <2>3, <2>4
<1> QED
  BY <1>1, <1>2, CsvInductive, PTL DEF Spec
=============================================================================
