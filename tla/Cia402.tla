------------------------------- MODULE Cia402 -------------------------------
(***************************************************************************)
(* The CiA 402 motor library, cia402/cia402.cpp and cia402.h: the status   *)
(* word a drive reports, the control word that answers it, and the three   *)
(* operations on a cia402_motor_t.  Each operation is a function from the  *)
(* motor record before the call to the record after it.                    *)
(***************************************************************************)
EXTENDS Integers

CONSTANTS
  StepCmd,   \* cycles before an enable command is issued, 500 in the code
  StepMax    \* where the step counter stops, 2000 in the code

ASSUME StepAssumption == StepCmd \in Nat /\ StepMax \in Nat /\ StepCmd <= StepMax

States == {"NOT_READY_TO_SWITCH_ON", "SW_ON_DISABLED", "READY_TO_SWITCH_ON",
           "SWITCHED_ON", "OPERATION_ENABLED", "QUICK_STOP_ACTIVE",
           "FAULT_REACTION_ACTIVE", "FAULT", "UNKNOWN"}

CW_SAFE            == 0
CW_QUICK_STOP_CMD  == 2
CW_SHUTDOWN_CMD    == 6
CW_SWITCH_ON_CMD   == 7
CW_ENABLE_OP_CMD   == 15
CW_FAULT_RESET_CMD == 128

ControlWords == {CW_SAFE, CW_QUICK_STOP_CMD, CW_SHUTDOWN_CMD, CW_SWITCH_ON_CMD,
                 CW_ENABLE_OP_CMD, CW_FAULT_RESET_CMD}

\* SW_STATE_*: the word of each state after masking
StateWord == [NOT_READY_TO_SWITCH_ON |-> 0,  SW_ON_DISABLED        |-> 64,
              READY_TO_SWITCH_ON     |-> 33, SWITCHED_ON           |-> 35,
              OPERATION_ENABLED      |-> 39, QUICK_STOP_ACTIVE     |-> 7,
              FAULT_REACTION_ACTIVE  |-> 15, FAULT                 |-> 8]

\* status_word & SW_STATE_MASK (0x006F): bits 0 to 3, 5 and 6
Masked(sw) == (sw % 16) + 32 * ((sw \div 32) % 4)

cia402_decode_state(sw) ==
  IF \E s \in DOMAIN StateWord : StateWord[s] = Masked(sw)
  THEN CHOOSE s \in DOMAIN StateWord : StateWord[s] = Masked(sw)
  ELSE "UNKNOWN"

(***************************************************************************)
(* A cia402_motor_t: what the master believes of a motor, and the RXPDO it *)
(* means to send.  The TXPDO is read in the cycle it is copied and is a    *)
(* parameter here; mode_of_operation never changes after cia402_init_motor.*)
(***************************************************************************)
Motors(Velocities) ==
  [state : States, controlword : ControlWords, target_velocity : Velocities,
   step : 0 .. StepMax, faulted : BOOLEAN, operation_enabled : BOOLEAN,
   ec_connected : BOOLEAN]

cia402_init_motor ==
  [state |-> "NOT_READY_TO_SWITCH_ON", controlword |-> CW_FAULT_RESET_CMD,
   target_velocity |-> 0, step |-> 0, faulted |-> FALSE,
   operation_enabled |-> FALSE, ec_connected |-> TRUE]

cia402_lost_motor ==
  [state |-> "NOT_READY_TO_SWITCH_ON", controlword |-> CW_SAFE,
   target_velocity |-> 0, step |-> 0, faulted |-> TRUE,
   operation_enabled |-> FALSE, ec_connected |-> FALSE]

\* the command that leads a healthy drive one state further
EnableCommand == [SW_ON_DISABLED     |-> CW_SHUTDOWN_CMD,
                  READY_TO_SWITCH_ON |-> CW_SWITCH_ON_CMD,
                  SWITCHED_ON        |-> CW_ENABLE_OP_CMD]

\* variant: the counter has no upper end
AdvanceForever(step) == step + 1

\* if (motor->step < 2000) motor->step++
Advance(step) == IF step < StepMax THEN step + 1 ELSE step

\* early return with a safe control word; faulted keeps its value
Hold(m, s, cw) ==
  [m EXCEPT !.state = s, !.controlword = cw, !.operation_enabled = FALSE, !.step = 0]

ResetFault(m, s) ==
  [m EXCEPT !.state = s, !.faulted = TRUE, !.operation_enabled = FALSE,
            !.controlword = CW_FAULT_RESET_CMD, !.step = Advance(0)]

\* variant: the counter does not start anew when a command is issued
EnableFurtherNoReset(m, s) ==
  [m EXCEPT !.state = s, !.faulted = FALSE, !.operation_enabled = FALSE,
            !.controlword = IF m.step >= StepCmd THEN EnableCommand[s] ELSE @,
            !.step = Advance(@)]

\* variant: the counter does not advance while the motor waits
EnableFurtherNoCount(m, s) ==
  LET due == m.step >= StepCmd
  IN  [m EXCEPT !.state = s, !.faulted = FALSE, !.operation_enabled = FALSE,
                !.controlword = IF due THEN EnableCommand[s] ELSE @,
                !.step = IF due THEN 0 ELSE @]

\* the command is issued when the step counter is due; until then the motor
\* keeps the control word it had, whatever that is
EnableFurther(m, s) ==
  LET due == m.step >= StepCmd
  IN  [m EXCEPT !.state = s, !.faulted = FALSE, !.operation_enabled = FALSE,
                !.controlword = IF due THEN EnableCommand[s] ELSE @,
                !.step = Advance(IF due THEN 0 ELSE @)]

RunEnabled(m, s) ==
  [m EXCEPT !.state = s, !.faulted = FALSE, !.operation_enabled = TRUE,
            !.controlword = CW_ENABLE_OP_CMD, !.step = Advance(@)]

cia402_state_machine(m, sw) ==
  LET s == cia402_decode_state(sw)
  IN  CASE s = "UNKNOWN" -> Hold(m, s, CW_SAFE)
        [] s \in {"QUICK_STOP_ACTIVE", "FAULT_REACTION_ACTIVE"} -> Hold(m, s, CW_QUICK_STOP_CMD)
        [] s \in {"NOT_READY_TO_SWITCH_ON", "FAULT"} -> ResetFault(m, s)
        [] s \in DOMAIN EnableCommand -> EnableFurther(m, s)
        [] s = "OPERATION_ENABLED" -> RunEnabled(m, s)
=============================================================================
