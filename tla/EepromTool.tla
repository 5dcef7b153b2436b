----------------------------- MODULE EepromTool -----------------------------
(***************************************************************************)
(* test/linux/eepromtool, and under it ecx_readeepromAP and                *)
(* ecx_writeeepromAP frame by frame: their retries, the acknowledge of the *)
(* EEPROM and the time they wait for it.  The slave is there throughout.   *)
(*                                                                         *)
(* Of the EEPROM we keep word 0 (all words the checksum covers but the     *)
(* alias), the alias in word 4 and the checksum in word 7.                 *)
(***************************************************************************)
EXTENDS Demos

CONSTANT EC_DEFAULTRETRIES

VARIABLES
  tool,   \* the tool: its accesses to come, the one at hand, and what it has read and said
  rom     \* environment: the EEPROM of the slave, and the registers in front of it

toolvars == <<tool, rom>>

SIIcrc(rest, alias) == 10 * rest + alias

Cells3(rest, alias) ==
  [w \in {0, 4, 7} |-> CASE w = 0 -> rest [] w = 4 -> alias [] w = 7 -> SIIcrc(rest, alias)]

OldCells == Cells3(5, 1)
File     == Cells3(6, 2)

NewRom ==
  [cells |-> OldCells, data |-> 0, command |-> "none", word |-> 0, nack |-> FALSE, master |-> FALSE]

Forcing    == [op |-> "force", word |-> 0]
Reading(w) == [op |-> "read", word |-> w]
Writing(w) == [op |-> "write", word |-> w]

eeprom_read       == <<Forcing, Reading(0), Reading(4)>>
eeprom_write      == <<Forcing, Writing(0), Writing(4), Writing(7)>>
eeprom_writealias == <<Forcing, Writing(4), Writing(7)>>

\* the modes of the tool; unnoticed says that something went wrong that nobody looked at
NewTool(mode) ==
  [todo |-> CASE mode = "info" -> eeprom_read
              [] mode = "write" -> eeprom_write
              [] mode = "alias" -> eeprom_read \o eeprom_writealias,
   at |-> "wait", tries |-> 0, nacks |-> 0, buf |-> [w \in {0, 4} |-> 0], said |-> {}, unnoticed |-> FALSE]

Access == Head(tool.todo)

\* what is to be in a word in the end
Asked(w) ==
  IF plan.mode = "alias" /\ w = 7 THEN SIIcrc(tool.buf[0], File[4]) ELSE File[w]

Accessing(op, place) == /\ at.proc = "tool" /\ tool.todo # <<>>
                        /\ Access.op \in op /\ tool.at \in place

Elsewhere == UNCHANGED <<plan, bus, cuts, list, esi, at, hold, clocked, checkvars, demovars>>

\* the slave takes a frame, unless it is busy or its PDI has the EEPROM
Taken(fate) == fate # "lost" /\ rom.master /\ rom.command = "none"

-----------------------------------------------------------------------------
\* The access is over.  Only eeprom_writealias looks whether it was a success.
Ended(t, ok) ==
  LET w == Access.word
  IN  [t EXCEPT !.at = "wait", !.tries = 0, !.nacks = 0,
                !.todo = IF ~ok /\ plan.mode = "alias" /\ Access.op = "write" THEN <<>> ELSE Tail(@),
                !.said = IF ok /\ Access.op = "write" THEN @ \cup {w} ELSE @,
                !.unnoticed = @ \/ (~ok /\ Access.op = "read")]

First == IF Access.op = "write" THEN "data" ELSE "command"

\* while ((nackcnt > 0) && (nackcnt < 3))
Again(t) == IF t.nacks \in 1 .. 2 THEN [t EXCEPT !.at = First, !.tries = 0] ELSE Ended(t, FALSE)

\* ecx_eeprom_waitnotbusyAP has seen the EEPROM ready, with a NACK or without
Ready(t, nack) ==
  IF t.at = "wait" THEN [t EXCEPT !.at = IF nack THEN "clear" ELSE First]
  ELSE IF nack THEN Again([t EXCEPT !.nacks = @ + 1])
  ELSE IF Access.op = "write" THEN Ended(t, TRUE)
  ELSE [t EXCEPT !.nacks = 0, !.at = "fetch", !.tries = 0]

\* variant: a frame is sent once
TriedOnce(t, fate, place) == [t EXCEPT !.at = place, !.tries = 0]

\* while ((wkc <= 0) && (cnt++ < EC_DEFAULTRETRIES)), then on to the next place, also
\* if all tries have failed: wkc is EC_NOFRAME then, which passes for success
Tried(t, fate, place) ==
  IF fate # "arrives" /\ t.tries < EC_DEFAULTRETRIES THEN [t EXCEPT !.tries = @ + 1]
  ELSE [t EXCEPT !.at = place, !.tries = 0, !.unnoticed = @ \/ fate # "arrives"]

-----------------------------------------------------------------------------
\* the slaves are counted
StartTool ==
  /\ Does("tool") /\ All # {} /\ GoTo("tool")
  /\ tool' = NewTool(plan.mode)
  /\ UNCHANGED <<plan, bus, trouble, cuts, list, esi, hold, clocked, checkvars, demovars, rom>>

\* EEPCFG is written, to force the EEPROM from the PDI and to take it
ForceToMaster(fate) ==
  /\ Accessing({"force"}, {"wait"})
  /\ Costs(fate)
  /\ rom' = [rom EXCEPT !.master = @ \/ fate # "lost"]
  /\ tool' = [tool EXCEPT !.todo = Tail(@), !.unnoticed = @ \/ ~rom'.master]
  /\ Elsewhere

\* ecx_eeprom_waitnotbusyAP.  A status that is not heard leaves estat zero, which is
\* taken for an EEPROM that is ready if the time is over.
WaitNotBusy ==
  /\ Accessing({"read", "write"}, {"wait", "poll"})
  /\ \/ /\ rom.command = "none"
        /\ tool' = Ready(tool, rom.nack)
        /\ UNCHANGED trouble
     \/ /\ rom.command # "none"
        /\ tool' = IF tool.at = "wait" THEN Ended(tool, FALSE) ELSE Again(tool)
        /\ UNCHANGED trouble
     \/ /\ Costs("lost")
        /\ tool' = [Ready(tool, FALSE) EXCEPT !.unnoticed = TRUE]
  /\ UNCHANGED rom /\ Elsewhere

ClearError(fate) ==
  /\ Accessing({"read", "write"}, {"clear"})
  /\ Costs(fate)
  /\ rom' = IF Taken(fate) THEN [rom EXCEPT !.nack = FALSE] ELSE rom
  /\ tool' = [tool EXCEPT !.at = First]
  /\ Elsewhere

\* the word to write; if all tries fail the command is sent nevertheless
SendData(fate) ==
  /\ Accessing({"write"}, {"data"})
  /\ Costs(fate)
  /\ rom' = IF Taken(fate) THEN [rom EXCEPT !.data = Asked(Access.word)] ELSE rom
  /\ tool' = Tried(tool, fate, "command")
  /\ Elsewhere

SendCommand(fate) ==
  /\ Accessing({"read", "write"}, {"command"})
  /\ Costs(fate)
  /\ rom' = IF Taken(fate) THEN [rom EXCEPT !.command = Access.op, !.word = Access.word, !.nack = FALSE] ELSE rom
  /\ tool' = Tried(tool, fate, "poll")
  /\ Elsewhere

\* if all tries fail the value read is zero
Fetch(fate) ==
  /\ Accessing({"read"}, {"fetch"})
  /\ Costs(fate)
  /\ tool' = LET t == Tried(tool, fate, "done")
             IN  IF t.at # "done" THEN t
                 ELSE Ended([t EXCEPT !.buf[Access.word] = IF fate = "arrives" THEN rom.data ELSE 0], fate = "arrives")
  /\ UNCHANGED rom /\ Elsewhere

eepromtool ==
  \/ StartTool
  \/ WaitNotBusy
  \/ \E fate \in Fates :
       ForceToMaster(fate) \/ ClearError(fate) \/ SendData(fate) \/ SendCommand(fate) \/ Fetch(fate)

-----------------------------------------------------------------------------
\* the EEPROM does what it was told
RomDone ==
  /\ rom.command # "none"
  /\ rom' = IF rom.command = "write" THEN [rom EXCEPT !.command = "none", !.cells[rom.word] = rom.data]
            ELSE [rom EXCEPT !.command = "none", !.data = rom.cells[rom.word]]
  /\ UNCHANGED <<trouble, tool>> /\ Elsewhere

\* or it does not acknowledge
RomNack ==
  /\ rom.command # "none" /\ Costs("lost")
  /\ rom' = [rom EXCEPT !.command = "none", !.nack = TRUE]
  /\ UNCHANGED tool /\ Elsewhere
=============================================================================
