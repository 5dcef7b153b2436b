----------------------------- MODULE CsvControl -----------------------------
(***************************************************************************)
(* The real-time loop of demo/eRob_CSV.cpp (ecatthread) with the drives it *)
(* controls.  Every cycle the loop takes the answer to the frame of the    *)
(* cycle before, decides from its working counter which motors still       *)
(* answer, runs the CiA 402 state machine of those, copies their RXPDO     *)
(* into the process image and sends the image in the next frame.           *)
(*                                                                         *)
(* The wire and the drives are the environment: a frame may be lost before *)
(* or after it passed the slaves, a slave may leave the operational state  *)
(* or fall silent, a drive may fault.  Their behaviour is what the loop    *)
(* relies on, not code of this repository.                                 *)
(***************************************************************************)
EXTENDS Cia402

CONSTANTS
  SlaveCount,   \* ec_slavecount
  CruiseSpeed,  \* target velocity of an enabled motor, -2000 in the code
  MaxUpsets     \* bound: faults, lost frames, slaves dropping out

ASSUME CsvAssumption ==
  SlaveCount \in Nat /\ CruiseSpeed \in Int \ {0} /\ MaxUpsets \in Nat

Slaves     == 1 .. SlaveCount
Velocities == {0, CruiseSpeed}
Image      == [controlword : ControlWords, target_velocity : Velocities]

\* what a slave adds to the working counter: 2 for its outputs, 1 for its inputs
Contribution == [op |-> 3, safeop |-> 1, off |-> 0]

\* The status word of a drive in a state: bit 4 (voltage) is not part of the
\* state.  UNKNOWN stands for a word outside the table.
StatusWord(st) == 16 + IF st = "UNKNOWN" THEN 96 ELSE StateWord[st]
StatusWords    == {StatusWord(st) : st \in States} \cup {0}
Drives         == [state : States, cause : BOOLEAN, controlword : ControlWords]

VARIABLES
  pc,       \* "start", "first" (before the receive of the prologue) or "loop"
  motors,   \* motors[]: cia402_motor_t of each slave
  outputs,  \* ec_slave[].outputs: the RXPDO in the process image
  inputs,   \* ec_slave[].inputs: the status word in the process image
  frame,    \* the process data frame: [at, counts, inputs]
  heard,    \* counts of the frame received last: what each slave added to wkc
  drive,    \* environment: the drive behind each slave
  link,     \* environment: EtherCAT state of each slave: "op", "safeop", "off"
  age,      \* history: cycles for which the image has held its control word
  upsets    \* upsets so far

master == <<pc, motors, outputs, inputs, heard, age>>
vars   == <<pc, motors, outputs, inputs, frame, heard, drive, link, age, upsets>>

Silence == [s \in Slaves |-> 0]
NoFrame == [at |-> "none", counts |-> Silence, inputs |-> Silence]

Init ==
  /\ pc = "start"
  /\ motors = [s \in Slaves |-> cia402_init_motor]
  /\ outputs = [s \in Slaves |-> [controlword |-> CW_SAFE, target_velocity |-> 0]]
  /\ inputs = Silence
  /\ frame = NoFrame
  /\ heard = Silence
  /\ drive \in [Slaves -> {[state |-> st, cause |-> st = "FAULT", controlword |-> CW_SAFE] :
                             st \in {"SW_ON_DISABLED", "FAULT"}}]
  /\ link = [s \in Slaves |-> "safeop"]
  /\ age = [s \in Slaves |-> 0]
  /\ upsets = 0

-----------------------------------------------------------------------------
(***************************************************************************)
(* ecatthread                                                              *)
(***************************************************************************)

\* the RXPDO of a motor as it is copied into the image
RxPdo(m) == [controlword |-> m.controlword, target_velocity |-> m.target_velocity]

\* ec_send_processdata: the image leaves in a frame, its inputs included
Send(in) == frame' = [at |-> "wire", counts |-> Silence, inputs |-> in]

\* ec_receive_processdata: the working counter, EC_NOFRAME if no frame came back
Wkc ==
  LET sum[s \in 0 .. SlaveCount] == IF s = 0 THEN 0 ELSE sum[s - 1] + frame.counts[s]
  IN  IF frame.at = "back" THEN sum[SlaveCount] ELSE -1

Received == IF frame.at = "back" THEN frame.inputs ELSE inputs
HeardNow == IF frame.at = "back" THEN frame.counts ELSE Silence

\* before the loop: initialise the motors, put their RXPDO in the image, send it
Start ==
  /\ pc = "start"
  /\ motors' = [s \in Slaves |-> cia402_init_motor]
  /\ outputs' = [s \in Slaves |-> RxPdo(motors'[s])]
  /\ Send(inputs)
  /\ pc' = "first"
  /\ UNCHANGED <<inputs, heard, drive, link, age, upsets>>

\* the receive before the loop; its wkc is not looked at
FirstReceive ==
  /\ pc = "first" /\ frame.at # "wire"
  /\ inputs' = Received
  /\ heard' = HeardNow
  /\ frame' = NoFrame
  /\ pc' = "loop"
  /\ UNCHANGED <<motors, outputs, drive, link, age, upsets>>

\* variant: ec_connected is not set again when the slave is back
CheckedSticky(m, connected) ==
  IF m.ec_connected /\ ~connected THEN cia402_lost_motor ELSE m

\* the connection check: a slave answers if wkc reaches three times its position
Checked(m, connected) ==
  [IF m.ec_connected /\ ~connected THEN cia402_lost_motor ELSE m
     EXCEPT !.ec_connected = connected]

\* variant: the target velocity is not taken back when operation ends
ControlledKeepsSpeed(m, statusword) ==
  LET n == cia402_state_machine(m, statusword)
  IN  [n EXCEPT !.target_velocity = IF n.operation_enabled THEN CruiseSpeed ELSE @]

\* the state machine and the target velocity of a connected motor
Controlled(m, statusword) ==
  LET n == cia402_state_machine(m, statusword)
  IN  [n EXCEPT !.target_velocity = IF n.operation_enabled THEN CruiseSpeed ELSE 0]

Longer(a) == IF a < StepCmd THEN a + 1 ELSE a

\* One pass of the loop.  In the first one no frame is on its way, since the
\* receive before the loop has fetched it.
Cycle ==
  /\ pc = "loop" /\ frame.at # "wire"
  /\ LET connected(s) == Wkc >= 3 * s
     IN  /\ motors' = [s \in Slaves |->
                         IF connected(s) THEN Controlled(Checked(motors[s], TRUE), Received[s])
                                         ELSE Checked(motors[s], FALSE)]
         /\ outputs' = [s \in Slaves |->
                         IF connected(s) THEN RxPdo(motors'[s]) ELSE outputs[s]]
  /\ inputs' = Received
  /\ heard' = HeardNow
  /\ age' = [s \in Slaves |-> IF outputs'[s].controlword = outputs[s].controlword
                              THEN Longer(age[s]) ELSE Longer(0)]
  /\ Send(Received)
  /\ UNCHANGED <<pc, drive, link, upsets>>

-----------------------------------------------------------------------------
(***************************************************************************)
(* The environment.  A slave in the operational state writes its status    *)
(* word into a passing frame and hands the RXPDO to its drive.             *)
(***************************************************************************)
Powered == {"READY_TO_SWITCH_ON", "SWITCHED_ON", "OPERATION_ENABLED", "QUICK_STOP_ACTIVE"}

\* the state a drive takes on a control word; bit 7 resets a fault when it rises
Obeyed(d, cw) ==
  CASE d.state = "FAULT" /\ cw = CW_FAULT_RESET_CMD
                         /\ d.controlword # CW_FAULT_RESET_CMD /\ ~d.cause -> "SW_ON_DISABLED"
    [] d.state \in Powered /\ cw \in {CW_SAFE, CW_FAULT_RESET_CMD} -> "SW_ON_DISABLED"
    [] d.state = "OPERATION_ENABLED" /\ cw = CW_QUICK_STOP_CMD -> "QUICK_STOP_ACTIVE"
    [] d.state \in {"READY_TO_SWITCH_ON", "SWITCHED_ON"} /\ cw = CW_QUICK_STOP_CMD -> "SW_ON_DISABLED"
    [] d.state \in {"SW_ON_DISABLED", "SWITCHED_ON", "OPERATION_ENABLED"}
         /\ cw = CW_SHUTDOWN_CMD -> "READY_TO_SWITCH_ON"
    [] d.state \in {"READY_TO_SWITCH_ON", "OPERATION_ENABLED"} /\ cw = CW_SWITCH_ON_CMD -> "SWITCHED_ON"
    [] d.state = "READY_TO_SWITCH_ON" /\ cw = CW_ENABLE_OP_CMD -> "SWITCHED_ON"
    [] d.state = "SWITCHED_ON" /\ cw = CW_ENABLE_OP_CMD -> "OPERATION_ENABLED"
    [] OTHER -> d.state

Upset == upsets < MaxUpsets /\ upsets' = upsets + 1

\* the frame passes the slaves: they add to the counter, fill in their inputs
\* and take their outputs
Visited ==
  /\ frame' = [at |-> "back",
               counts |-> [s \in Slaves |-> Contribution[link[s]]],
               inputs |-> [s \in Slaves |-> IF link[s] = "off" THEN frame.inputs[s]
                                            ELSE StatusWord(drive[s].state)]]
  /\ drive' = [s \in Slaves |->
                 IF link[s] # "op" THEN drive[s]
                 ELSE [drive[s] EXCEPT !.state = Obeyed(drive[s], outputs[s].controlword),
                                       !.controlword = outputs[s].controlword]]

Traverse ==
  /\ frame.at = "wire"
  /\ Visited
  /\ UNCHANGED <<master, link, upsets>>

\* the frame is lost on its way out
LoseFrame ==
  /\ frame.at = "wire"
  /\ frame' = NoFrame
  /\ Upset
  /\ UNCHANGED <<master, drive, link>>

\* the frame has passed the slaves and is lost on its way back
LoseAnswer ==
  /\ frame.at = "back"
  /\ frame' = NoFrame
  /\ Upset
  /\ UNCHANGED <<master, drive, link>>

DriveFault(s) ==
  /\ drive[s].state \notin {"FAULT", "FAULT_REACTION_ACTIVE"}
  /\ drive' = [drive EXCEPT ![s].state = "FAULT_REACTION_ACTIVE", ![s].cause = TRUE]
  /\ Upset
  /\ UNCHANGED <<master, frame, link>>

CauseClears(s) ==
  /\ drive[s].cause
  /\ drive' = [drive EXCEPT ![s].cause = FALSE]
  /\ UNCHANGED <<master, frame, link, upsets>>

\* a disabled drive reports a word outside the table for a while
OddStatus(s) ==
  /\ drive[s].state = "SW_ON_DISABLED"
  /\ drive' = [drive EXCEPT ![s].state = "UNKNOWN"]
  /\ Upset
  /\ UNCHANGED <<master, frame, link>>

\* states a drive leaves by itself
Passing == [NOT_READY_TO_SWITCH_ON |-> "SW_ON_DISABLED", UNKNOWN |-> "SW_ON_DISABLED",
            QUICK_STOP_ACTIVE |-> "SW_ON_DISABLED", FAULT_REACTION_ACTIVE |-> "FAULT"]

DriveProgress(s) ==
  /\ drive[s].state \in DOMAIN Passing
  /\ drive' = [drive EXCEPT ![s].state = Passing[drive[s].state]]
  /\ UNCHANGED <<master, frame, link, upsets>>

LinkDown(s) ==
  /\ \E l \in {"safeop", "off"} : link[s] = "op" /\ link' = [link EXCEPT ![s] = l]
  /\ Upset
  /\ UNCHANGED <<master, frame, drive>>

\* the slave is operational (again), with the drive as it was or restarted
LinkUp(s) ==
  /\ link[s] # "op"
  /\ link' = [link EXCEPT ![s] = "op"]
  /\ \/ drive' = drive
     \/ link[s] = "off"
        /\ drive' = [drive EXCEPT ![s] = [state |-> "NOT_READY_TO_SWITCH_ON", cause |-> FALSE,
                                          controlword |-> CW_SAFE]]
  /\ UNCHANGED <<master, frame, upsets>>

DriveStep(s) == DriveFault(s) \/ CauseClears(s) \/ OddStatus(s) \/ DriveProgress(s)

Next ==
  \/ Start \/ FirstReceive \/ Cycle
  \/ Traverse \/ LoseFrame \/ LoseAnswer
  \/ \E s \in Slaves : DriveStep(s) \/ LinkDown(s) \/ LinkUp(s)

(***************************************************************************)
(* The loop is woken every cycle and its receive has a timeout; a frame    *)
(* comes back or is lost; a drive leaves its passing states; a cause of a  *)
(* fault goes away.  Nothing brings a slave back to the operational state: *)
(* ecatcheck acts only if inOP, which is never set.                        *)
(***************************************************************************)
Fairness ==
  /\ WF_vars(Start) /\ WF_vars(FirstReceive) /\ WF_vars(Cycle)
  /\ WF_vars(Traverse)
  /\ \A s \in Slaves : WF_vars(CauseClears(s)) /\ WF_vars(DriveProgress(s))

Spec == Init /\ [][Next]_vars /\ Fairness
-----------------------------------------------------------------------------
TypeOK ==
  /\ pc \in {"start", "first", "loop"}
  /\ motors \in [Slaves -> Motors(Velocities)]
  /\ outputs \in [Slaves -> Image]
  /\ inputs \in [Slaves -> StatusWords]
  /\ frame \in [at : {"none", "wire", "back"}, counts : [Slaves -> {0, 1, 3}],
                inputs : [Slaves -> StatusWords]]
  /\ heard \in [Slaves -> {0, 1, 3}]
  /\ drive \in [Slaves -> Drives]
  /\ link \in [Slaves -> {"op", "safeop", "off"}]
  /\ age \in [Slaves -> 0 .. StepCmd]
  /\ upsets \in 0 .. MaxUpsets

(***************************************************************************)
(* The image commands a connected motor to move only while the status word *)
(* received last says that its operation is enabled, and then with the     *)
(* control word that keeps it enabled: through lost frames, disconnection  *)
(* and reconnection no velocity is left over from before.                  *)
(***************************************************************************)
VelocityNeedsEnable == \A s \in Slaves :
  motors[s].ec_connected /\ outputs[s].target_velocity # 0 =>
    /\ outputs[s].controlword = CW_ENABLE_OP_CMD
    /\ motors[s].operation_enabled
    /\ cia402_decode_state(inputs[s]) = "OPERATION_ENABLED"

(***************************************************************************)
(* When the slaves fell silent from some position of the line onwards, the *)
(* motors taken for connected are those whose slave answered in full.      *)
(***************************************************************************)
Prefixes == {[s \in Slaves |-> IF s <= k THEN 3 ELSE 0] : k \in 0 .. SlaveCount}

ConnectedIsAnswering == \A s \in Slaves :
  age[s] # 0 /\ heard \in Prefixes => (motors[s].ec_connected <=> heard[s] = 3)

(***************************************************************************)
(* A drive is led to operation step by step: unless it reports that it is  *)
(* in operation already, the next enabling command replaces the one before *)
(* it only after StepCmd cycles, whatever was lost, reset or reconnected   *)
(* meanwhile.                                                              *)
(***************************************************************************)
PacedStep == \A s \in Slaves :
  ~motors'[s].operation_enabled /\ <<outputs[s].controlword, outputs'[s].controlword>> \in
       {<<CW_SHUTDOWN_CMD, CW_SWITCH_ON_CMD>>, <<CW_SWITCH_ON_CMD, CW_ENABLE_OP_CMD>>}
    => age[s] >= StepCmd

CommandPaced == [][PacedStep]_vars

(***************************************************************************)
(* Once all slaves stay operational, every motor ends up enabled for good, *)
(* unless its drive is in a fault whose reset bit is high already, so that *)
(* no edge of it will come.                                                *)
(***************************************************************************)
StuckInFault(s) == drive[s].state = "FAULT" /\ drive[s].controlword = CW_FAULT_RESET_CMD

AllOperational == \A s \in Slaves : link[s] = "op"

EveryMotorSettles ==
  <>[]AllOperational =>
    \A s \in Slaves : <>[](motors[s].operation_enabled \/ StuckInFault(s))

(***************************************************************************)
(* What cia402.h says of cia402_lost_motor: a motor whose communication is *)
(* lost is put into safe mode.  Its image does not tell it to move.        *)
(***************************************************************************)
LostIsSafe == \A s \in Slaves :
  ~motors[s].ec_connected => outputs[s].target_velocity = 0

(***************************************************************************)
(* What doc/progress.md says: a faulted motor recovers once the fault is   *)
(* cleared.                                                                *)
(***************************************************************************)
FaultRecovers ==
  <>[]AllOperational =>
    \A s \in Slaves : drive[s].state = "FAULT" /\ ~drive[s].cause ~> drive[s].state # "FAULT"

-----------------------------------------------------------------------------
(***************************************************************************)
(* The inductive invariant behind VelocityNeedsEnable and CommandPaced.    *)
(***************************************************************************)

\* the image holds the RXPDO of a connected motor; a lost motor starts over
SyncInv == pc # "start" => \A s \in Slaves :
  IF motors[s].ec_connected THEN outputs[s] = RxPdo(motors[s])
                            ELSE motors[s] = cia402_lost_motor

\* no motor has been controlled yet
QuietInv == pc # "loop" => \A s \in Slaves :
  /\ motors[s] = cia402_init_motor
  /\ outputs[s].target_velocity = 0
  /\ outputs[s].controlword \in {CW_SAFE, CW_FAULT_RESET_CMD}

\* the step counter is not ahead of the time the command has been standing
PaceInv == \A s \in Slaves :
  motors[s].ec_connected /\ outputs[s].controlword \in {CW_SHUTDOWN_CMD, CW_SWITCH_ON_CMD}
    => age[s] >= StepCmd \/ age[s] >= motors[s].step

CsvInv == TypeOK /\ SyncInv /\ QuietInv /\ PaceInv /\ VelocityNeedsEnable
=============================================================================
