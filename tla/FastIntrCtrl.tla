---------------------------- MODULE FastIntrCtrl ----------------------------
(***************************************************************************)
(* hw/ip/fast_intr_ctrl of X-HEEP: latches the pulses of the fast          *)
(* interrupt lines for the CPU.  A record [pending, clear, enable] of sets *)
(* of lines; FicTick is one clock edge.  Inputs of a cycle: intr, the      *)
(* lines that are high, and write, the word software writes to             *)
(* FAST_INTR_CLEAR (<<>> or <<lines>>).                                    *)
(***************************************************************************)
EXTENDS Sequences

CONSTANT Lines

FicReset == [pending |-> {}, clear |-> {}, enable |-> Lines]

\* pending.de is the OR over all lines: one event loads the whole register.
PendingLoads(f, in) == f.clear \cup in.intr # {}

\* Mutant: a clear does not reach the pending register.
NextPendingKept(f, in) == f.pending \cup (in.intr \cap f.enable)

\* A line that is being cleared loses a pulse of the same cycle.
NextPending(f, in) ==
    IF PendingLoads(f, in) THEN (in.intr \cap f.enable) \ f.clear ELSE f.pending

\* The clear bits fall by themselves; a write has priority.
NextClear(in) == IF in.write = <<>> THEN {} ELSE Head(in.write)

FicTick(f, in) ==
    [f EXCEPT !.pending = NextPending(f, in), !.clear = NextClear(in)]
=============================================================================
