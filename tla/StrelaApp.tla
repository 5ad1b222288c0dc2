------------------------------ MODULE StrelaApp ------------------------------
(***************************************************************************)
(* What the applications of sw/applications do with one accelerator run,   *)
(* in polling and in interrupt mode: main, the interrupt handler, the fast *)
(* interrupt controller and the accelerator, the last seen only through    *)
(* START, the interrupt line and STATUS (AcceleratorRun; StrelaTop has the *)
(* inside).                                                                *)
(*                                                                         *)
(* One step is one clock cycle.  The CPU executes one instruction of main  *)
(* or of the handler in it, or none: an access may take any number of      *)
(* cycles.  A pending interrupt is taken before main's next instruction.   *)
(***************************************************************************)
EXTENDS FastIntrCtrl

CONSTANTS
    Strela, Others,  \* the accelerator's line; lines that other devices raise
    Modes            \* how applications wait: "poll", "intr"

ASSUME AppAssumption ==
    /\ Strela \in Lines /\ Others \subseteq Lines \ {Strela}
    /\ Modes \subseteq {"poll", "intr"} /\ Modes # {}

VARIABLES
    acc,     \* accelerator: idle, started (START is high), busy, done
    status,  \* STATUS.EXEC_DONE
    mode,    \* the mode of this run; MODE.INTR_EN is high in "intr"
    calm,    \* this run ends only once main waits for it, and no other line
             \* is raised while Strela's interrupt is served
    fic,     \* fast interrupt controller
    pc,      \* main: its next instruction
    hpc,     \* handler_irq_fast_strela: its next instruction, or out
    flag     \* strela_intr_flag

vars == <<acc, status, mode, calm, fic, pc, hpc, flag>>

-----------------------------------------------------------------------------
(* The hardware in one cycle                                               *)

Pulse == IF acc = "done" /\ mode = "intr" THEN {Strela} ELSE {}

\* A run takes at least a cycle; a calm one lasts until main waits.
MayEnd == acc = "busy" /\ (~calm \/ (pc \in {"asleep", "poll"} /\ hpc = "out"))

\* The accelerator, in a cycle in which software leaves CTRL alone.
Accelerator == INSTANCE AcceleratorRun
Unattended ==
    \/ Accelerator!Begin \/ Accelerator!Work \/ Accelerator!Rest
    \/ MayEnd /\ Accelerator!Finish

Served == Pulse # {} \/ Strela \in fic.pending \cup fic.clear

OthersRaised == IF ~calm \/ ~Served THEN SUBSET Others ELSE {{}}

\* The interrupt controller, given software's access to it.
Interrupts(write) ==
    \E others \in OthersRaised :
        fic' = FicTick(fic, [intr |-> Pulse \cup others, write |-> write])

Run == Unattended /\ Interrupts(<<>>)

Interrupted == Strela \in fic.pending /\ hpc = "out"

-----------------------------------------------------------------------------
(* main.  mie enables the accelerator's line only.                         *)

MainMay(at) == pc = at /\ hpc = "out" /\ ~Interrupted

\* CLR or CLR_PARAM, before other parameters.
Clear ==
    /\ MainMay("ready") /\ Accelerator!Clear /\ Interrupts(<<>>)
    /\ UNCHANGED <<mode, calm, pc, hpc, flag>>

\* Parameters, MODE, then START.
Start ==
    /\ MainMay("ready")
    /\ mode' \in Modes /\ calm' \in BOOLEAN
    /\ Accelerator!Start /\ Interrupts(<<>>)
    /\ pc' = IF mode' = "poll" THEN "poll" ELSE "unflag"
    /\ UNCHANGED <<hpc, flag>>

\* while (!(STATUS & 1));  the read reaches STATUS after START has fallen.
Poll ==
    /\ MainMay("poll") /\ acc # "started"
    /\ pc' = IF status THEN "ready" ELSE "poll"
    /\ Run /\ UNCHANGED <<mode, calm, hpc, flag>>

\* Mutant: the flag of an earlier run is not reset.
UnflagSkipped ==
    /\ MainMay("unflag") /\ pc' = "test"
    /\ Run /\ UNCHANGED <<mode, calm, hpc, flag>>

\* strela_intr_flag = 0;
Unflag ==
    /\ MainMay("unflag") /\ pc' = "test"
    /\ flag' = FALSE
    /\ Run /\ UNCHANGED <<mode, calm, hpc>>

\* Mutant: a flag that is not volatile is read once.
TestCached ==
    /\ MainMay("test") /\ pc' = "sleep"
    /\ Run /\ UNCHANGED <<mode, calm, hpc, flag>>

\* while (strela_intr_flag == 0)
Test ==
    /\ MainMay("test")
    /\ pc' = IF flag THEN "ready" ELSE "sleep"
    /\ Run /\ UNCHANGED <<mode, calm, hpc, flag>>

\* wait_for_interrupt();
Sleep ==
    /\ MainMay("sleep") /\ pc' = "asleep"
    /\ Run /\ UNCHANGED <<mode, calm, hpc, flag>>

-----------------------------------------------------------------------------
(* The handler                                                             *)

\* An interrupt ends a wfi; the loop goes on with its test.
Enter ==
    /\ Interrupted /\ hpc' = "clear"
    /\ pc' = IF pc = "asleep" THEN "test" ELSE pc
    /\ Run /\ UNCHANGED <<mode, calm, flag>>

\* clear_fast_interrupt(kStrela_fic_e);
ClearInterrupt ==
    /\ hpc = "clear" /\ hpc' = "call"
    /\ Unattended /\ Interrupts(<<{Strela}>>) /\ UNCHANGED <<mode, calm, pc, flag>>

\* fic_irq_strela();
RaiseFlag ==
    /\ hpc = "call" /\ hpc' = "mret"
    /\ flag' = TRUE
    /\ Run /\ UNCHANGED <<mode, calm, pc>>

Return ==
    /\ hpc = "mret" /\ hpc' = "out"
    /\ Run /\ UNCHANGED <<mode, calm, pc, flag>>

\* The CPU waits for the bus, or sleeps.
Stall == Run /\ UNCHANGED <<mode, calm, pc, hpc, flag>>

Handler == Enter \/ ClearInterrupt \/ RaiseFlag \/ Return
Main == Clear \/ Start \/ Poll \/ Unflag \/ Test \/ Sleep

Init ==
    /\ Accelerator!AccInit /\ mode \in Modes /\ calm = FALSE
    /\ fic = FicReset
    /\ pc = "ready" /\ hpc = "out" /\ flag = FALSE

Next == Main \/ Handler \/ Stall

Spec == Init /\ [][Next]_vars

-----------------------------------------------------------------------------
(* What the applications rely on                                           *)

TypeOK ==
    /\ acc \in {"idle", "started", "busy", "done"} /\ status \in BOOLEAN
    /\ mode \in Modes /\ calm \in BOOLEAN /\ flag \in BOOLEAN
    /\ fic \in [pending : SUBSET Lines, clear : SUBSET Lines, enable : SUBSET Lines]
    /\ pc \in {"ready", "poll", "unflag", "test", "sleep", "asleep"}
    /\ hpc \in {"out", "clear", "call", "mret"}

\* main goes on only when the run it started is over, whatever interrupts of
\* earlier runs did to the flag (strela_test/main.c:232-234, 158).
GoesOnAfterRun == pc = "ready" => acc \in {"idle", "done"}

\* One run is served once: when the handler returns, the bit it cleared is
\* down.  A bit still up would enter the handler again and raise the flag
\* that main resets for the next run (fast_intr_ctrl.c, handler_irq_fast_strela;
\* fast_intr_ctrl.sv:43-50).
ServedOnce == hpc = "mret" => Strela \notin fic.pending \cup fic.clear

\* Clearing one line leaves the pending bits of the others alone: "clean the
\* bit inside FAST_INTR_PENDING register for the requested peripheral"
\* (fast_intr_ctrl.h, clear_fast_interrupt; fast_intr_ctrl.sv:43-66).
ClearIsSelective ==
    [][fic.clear # {} => \A l \in fic.pending \ fic.clear : l \in fic'.pending]_vars

\* The CPU executes, and a run ends some time after it may: RunCompletes of
\* StrelaTop, which holds of runs whose configuration nobody else's accesses
\* disturbed.  An array that was left astray need not end its run.
Fairness ==
    /\ WF_vars(Main) /\ WF_vars(Handler)
    /\ WF_vars(Next /\ acc' # acc) /\ SF_vars(Next /\ acc' = "done")

FairSpec == Spec /\ Fairness

\* A polling application never misses the end of its run, whatever happens
\* to interrupts (strela_test/main.c:158).
PollEnds == pc = "poll" ~> pc = "ready"

\* In both modes main goes on after a calm run, whatever happened in the runs
\* before it (strela_test/main.c:158, 232-234).
CalmWaitEnds == pc # "ready" /\ calm ~> pc = "ready"

\* Every wait for the accelerator ends (strela_test/main.c:158, 232-234).
WaitEnds == pc # "ready" ~> pc = "ready"
=============================================================================
