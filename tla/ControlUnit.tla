---------------------------- MODULE ControlUnit ----------------------------
(***************************************************************************)
(* rtl/control_unit.sv: the main state machine of the accelerator and the  *)
(* flag that remembers whether the CGRA holds a configuration.  A record   *)
(* [state, conf_done_reg]; ControlTick is one clock edge.  Inputs of a     *)
(* cycle: clr, start, conf_change from the registers, conf_done and        *)
(* mn_done, the conjunctions over the memory nodes.                        *)
(***************************************************************************)

ControlStates == {"IDLE", "WAIT", "EXEC", "DONE"}

ControlReset == [state |-> "IDLE", conf_done_reg |-> FALSE]

Exec(c)       == c.state = "EXEC"
Interrupt(c)  == c.state = "DONE"
ClearNodes(c) == c.state = "DONE"
ConfNeeded(c) == ~c.conf_done_reg

\* Mutant: the array keeps what the last run left in it.
ClearOnConfiguration(c, in) == in.conf_done /\ ~c.conf_done_reg

ClearCGRA(c, in) == (in.conf_done /\ ~c.conf_done_reg) \/ c.state = "DONE"

\* Mutant: a start skips the configuration.
StartUnconfigured(c, in) == IF in.start THEN "EXEC" ELSE "IDLE"

StartState(c, in) ==
    IF ~in.start THEN "IDLE" ELSE IF c.conf_done_reg THEN "EXEC" ELSE "WAIT"

NextConfReg(c, in) == ~in.conf_change /\ (in.conf_done \/ c.conf_done_reg)

\* Mutant: DONE, and with it the interrupt, lasts until the next start.
DoneHeld(c, in) ==
    CASE c.state = "WAIT" -> IF in.conf_done THEN "EXEC" ELSE "WAIT"
      [] c.state = "EXEC" -> IF in.mn_done THEN "DONE" ELSE "EXEC"
      [] c.state = "DONE" /\ ~in.start -> "DONE"
      [] OTHER -> StartState(c, in)

ControlNextState(c, in) ==
    CASE c.state = "IDLE" -> StartState(c, in)
      [] c.state = "WAIT" -> IF in.conf_done THEN "EXEC" ELSE "WAIT"
      [] c.state = "EXEC" -> IF in.mn_done THEN "DONE" ELSE "EXEC"
      [] c.state = "DONE" -> "IDLE"

ControlTick(c, in) ==
    IF in.clr THEN ControlReset
    ELSE [state         |-> ControlNextState(c, in),
          conf_done_reg |-> NextConfReg(c, in)]
=============================================================================
