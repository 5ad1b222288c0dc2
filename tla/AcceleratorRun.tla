--------------------------- MODULE AcceleratorRun ---------------------------
(***************************************************************************)
(* What the accelerator promises to software about a run: the interrupt    *)
(* line is high while acc is "done", one cycle in a run, and status, the   *)
(* flag STATUS.EXEC_DONE, is up from the end of a run to the next START    *)
(* or to a clear.  One step is one clock edge.  StrelaTop implements it,   *)
(* StrelaApp is built on it.                                               *)
(***************************************************************************)
VARIABLES
    acc,     \* idle, started (START is high), busy, done
    status   \* STATUS.EXEC_DONE

AccInit == acc = "idle" /\ status = FALSE

Start  == acc = "idle"    /\ acc' = "started" /\ UNCHANGED status
Begin  == acc = "started" /\ acc' = "busy"    /\ status' = FALSE
Finish == acc = "busy"    /\ acc' = "done"    /\ status' = TRUE

\* Mutant: the done flag is a pulse, like the interrupt.
RestForgets == acc = "done" /\ acc' = "idle" /\ status' = FALSE
Rest        == acc = "done" /\ acc' = "idle" /\ status' = TRUE

\* A run takes as many cycles as it likes.
Work == acc \in {"idle", "busy"} /\ UNCHANGED <<acc, status>>

\* CLR or CLR_PARAM between two runs.
Clear == acc = "idle" /\ status' = FALSE /\ UNCHANGED acc

AccNext == Start \/ Begin \/ Finish \/ Rest \/ Work \/ Clear

AccSpec == AccInit /\ [][AccNext]_<<acc, status>>
=============================================================================
