--------------------------- MODULE StrelaApp_proofs ---------------------------
(***************************************************************************)
(* For every set of interrupt lines, whatever other devices raise and      *)
(* however long a run takes: main goes on only when its run is over.       *)
(***************************************************************************)
EXTENDS StrelaApp, TLAPS

Resting == acc \in {"idle", "done"}

\* Whatever main could take for the end of a run belongs to the run it waits
\* for: the done flag, a pending interrupt, a handler under way, and a raised
\* flag once main has reset it.
SignsAreFresh ==
    /\ status /\ acc # "started" => Resting
    /\ Strela \in fic.pending => acc = "idle"
    /\ hpc # "out" => acc = "idle"
    /\ pc \in {"test", "sleep", "asleep"} /\ flag => acc = "idle"

IInv == TypeOK /\ SignsAreFresh /\ GoesOnAfterRun

-----------------------------------------------------------------------------
(* The devices                                                             *)

\* The interrupt controller keeps its type; Strela's bit comes from its pulse.
LEMMA FicStep ==
  ASSUME fic \in [pending : SUBSET Lines, clear : SUBSET Lines, enable : SUBSET Lines],
         NEW others \in SUBSET Others, NEW write \in {<<>>, <<{Strela}>>},
         NEW new, new = FicTick(fic, [intr |-> Pulse \cup others, write |-> write])
  PROVE  /\ new \in [pending : SUBSET Lines, clear : SUBSET Lines, enable : SUBSET Lines]
         /\ Strela \in new.pending => Strela \in fic.pending \/ acc = "done"
<1> DEFINE in == [intr |-> Pulse \cup others, write |-> write]
<1>1. /\ Strela \in Lines /\ Others \subseteq Lines \ {Strela}
  BY AppAssumption
<1>2. /\ Pulse \subseteq Lines
      /\ Strela \in in.intr => acc = "done"
  BY <1>1 DEF Pulse
<1>3. /\ NextPending(fic, in) \subseteq Lines
      /\ Strela \in NextPending(fic, in) => Strela \in fic.pending \/ acc = "done"
  BY <1>1, <1>2 DEF NextPending
<1>4. NextClear(in) \subseteq Lines
  <2>1. CASE write = <<>>
    BY <2>1 DEF NextClear
  <2>2. CASE write = <<{Strela}>>
    BY <1>1, <2>2 DEF NextClear
  <2> QED BY <2>1, <2>2
<1> QED BY <1>3, <1>4 DEF FicTick

\* A cycle without START: a run that is over stays over, only a run that ends
\* raises the flag or the bit.
LEMMA RunStep ==
  ASSUME IInv, NEW write \in {<<>>, <<{Strela}>>}, Unattended, Interrupts(write)
  PROVE  /\ acc' \in {"idle", "started", "busy", "done"} /\ status' \in BOOLEAN
         /\ fic' \in [pending : SUBSET Lines, clear : SUBSET Lines, enable : SUBSET Lines]
         /\ acc = "idle" => acc' = "idle"
         /\ Resting => Resting'
         /\ status' /\ acc' # "started" => Resting'
         /\ Strela \in fic'.pending => acc' = "idle"
<1>1. /\ acc \in {"idle", "started", "busy", "done"} /\ status \in BOOLEAN
      /\ fic \in [pending : SUBSET Lines, clear : SUBSET Lines, enable : SUBSET Lines]
  BY DEF IInv, TypeOK
<1> USE DEF Unattended, Accelerator!Begin, Accelerator!Work, Accelerator!Rest,
            Accelerator!Finish
<1>2. /\ acc' \in {"idle", "started", "busy", "done"} /\ status' \in BOOLEAN
      /\ acc = "idle" => acc' = "idle"
      /\ acc = "done" => acc' = "idle"
      /\ Resting => Resting'
  BY <1>1 DEF Resting
<1>3. status' /\ acc' # "started" => Resting'
  BY <1>1 DEF IInv, SignsAreFresh, Resting
<1>4. /\ fic' \in [pending : SUBSET Lines, clear : SUBSET Lines, enable : SUBSET Lines]
      /\ Strela \in fic'.pending => Strela \in fic.pending \/ acc = "done"
  <2>1. PICK others \in SUBSET Others :
          fic' = FicTick(fic, [intr |-> Pulse \cup others, write |-> write])
    BY DEF Interrupts, OthersRaised
  <2> QED BY <1>1, <2>1, FicStep
<1> QED BY <1>1, <1>2, <1>3, <1>4 DEF IInv, SignsAreFresh

-----------------------------------------------------------------------------
(* Software                                                                *)

LEMMA InitIInv == Init => IInv
<1> SUFFICES ASSUME Init PROVE IInv
  OBVIOUS
<1>1. fic.pending = {}
  BY DEF Init, FicReset
<1>2. fic \in [pending : SUBSET Lines, clear : SUBSET Lines, enable : SUBSET Lines]
  BY DEF Init, FicReset
<1> QED BY <1>1, <1>2 DEF Init, Accelerator!AccInit, IInv, TypeOK, SignsAreFresh, GoesOnAfterRun, Resting

LEMMA AccessStep ==
  ASSUME IInv, Start \/ Clear
  PROVE  IInv'
<1>1. /\ fic' \in [pending : SUBSET Lines, clear : SUBSET Lines, enable : SUBSET Lines]
      /\ Strela \in fic'.pending => Strela \in fic.pending \/ acc = "done"
  <2>1. PICK others \in SUBSET Others :
          fic' = FicTick(fic, [intr |-> Pulse \cup others, write |-> <<>>])
    BY DEF Start, Clear, Interrupts, OthersRaised
  <2> QED BY <2>1, FicStep DEF IInv, TypeOK
<1>2. /\ acc = "idle" /\ hpc = "out" /\ Strela \notin fic.pending
      /\ acc' \in {"idle", "started"} /\ status' \in BOOLEAN
      /\ pc = "ready" /\ hpc' = hpc /\ flag' = flag
      /\ mode' \in Modes /\ calm' \in BOOLEAN
  BY DEF Start, Clear, Accelerator!Start, Accelerator!Clear, MainMay, Interrupted, IInv, TypeOK
<1>3. IF acc' = "started" THEN pc' \in {"poll", "unflag"} ELSE pc' = "ready"
  BY <1>2 DEF Start, Clear, Accelerator!Start, Accelerator!Clear
<1> QED BY <1>1, <1>2, <1>3 DEF IInv, TypeOK, SignsAreFresh, GoesOnAfterRun, Resting

\* Every other step of software, by what it changes.
LEMMA OtherSteps ==
  ASSUME IInv, Poll \/ Unflag \/ Test \/ Sleep \/ Handler \/ Stall
  PROVE  IInv'
<1> USE DEF IInv, TypeOK, SignsAreFresh, GoesOnAfterRun, Resting
<1>1. PICK write \in {<<>>, <<{Strela}>>} : Unattended /\ Interrupts(write)
  BY DEF Poll, Unflag, Test, Sleep, Handler, Enter, ClearInterrupt, RaiseFlag, Return,
         Stall, Run
<1>2. /\ acc' \in {"idle", "started", "busy", "done"} /\ status' \in BOOLEAN
      /\ fic' \in [pending : SUBSET Lines, clear : SUBSET Lines, enable : SUBSET Lines]
      /\ acc = "idle" => acc' = "idle"
      /\ Resting => Resting'
      /\ status' /\ acc' # "started" => Resting'
      /\ Strela \in fic'.pending => acc' = "idle"
  BY <1>1, RunStep
<1>3. CASE Poll
  BY <1>2, <1>3 DEF Poll, MainMay
<1>4. CASE Unflag
  BY <1>2, <1>4 DEF Unflag, MainMay
<1>5. CASE Test
  BY <1>2, <1>5 DEF Test, MainMay
<1>6. CASE Sleep
  BY <1>2, <1>6 DEF Sleep, MainMay
<1>7. CASE Enter
  BY <1>2, <1>7 DEF Enter, Interrupted
<1>8. CASE ClearInterrupt
  BY <1>2, <1>8 DEF ClearInterrupt
<1>9. CASE RaiseFlag
  BY <1>2, <1>9 DEF RaiseFlag
<1>10. CASE Return
  BY <1>2, <1>10 DEF Return
<1>11. CASE Stall
  BY <1>2, <1>11 DEF Stall
<1> QED BY <1>3, <1>4, <1>5, <1>6, <1>7, <1>8, <1>9, <1>10, <1>11 DEF Handler

LEMMA NextIInv == IInv /\ [Next]_vars => IInv'
<1>1. CASE Next
  BY <1>1, AccessStep, OtherSteps DEF Next, Main
<1>2. CASE UNCHANGED vars
  BY <1>2 DEF vars, IInv, TypeOK, SignsAreFresh, GoesOnAfterRun, Resting
<1> QED BY <1>1, <1>2

LEMMA IInvAlways == Spec => []IInv
BY InitIInv, NextIInv, PTL DEF Spec

\* In polling and in interrupt mode alike, main goes on only when the run it
\* started is over (strela_test/main.c:158, 232-234), although the handler
\* and main share the flag and no lock protects it.
THEOREM AppGoesOnAfterRun == Spec => []GoesOnAfterRun
<1>1. IInv => GoesOnAfterRun
  BY DEF IInv
<1> QED BY <1>1, IInvAlways, PTL

-----------------------------------------------------------------------------
(* One entry of the handler for one run                                    *)

\* Between the write of the handler and its effect the bit may still be up.
BitFalls ==
    /\ hpc = "call" => Strela \in fic.clear \/ Strela \notin fic.pending
    /\ ServedOnce

\* While the accelerator is idle a clear takes the bit down and nothing
\* raises it.
LEMMA IdleFicStep ==
  ASSUME IInv, acc = "idle", Run
  PROVE  /\ fic'.clear = {}
         /\ Strela \in fic.clear \/ Strela \notin fic.pending => Strela \notin fic'.pending
<1>1. PICK others \in SUBSET Others :
        fic' = FicTick(fic, [intr |-> Pulse \cup others, write |-> <<>>])
  BY DEF Run, Interrupts, OthersRaised
<1> DEFINE in == [intr |-> Pulse \cup others, write |-> <<>>]
<1>2. Strela \notin in.intr
  BY AppAssumption DEF Pulse
<1>3. Strela \in fic.clear \/ Strela \notin fic.pending => Strela \notin NextPending(fic, in)
  BY <1>2 DEF NextPending, PendingLoads
<1>4. NextClear(in) = {}
  BY DEF NextClear
<1>5. fic'.pending = NextPending(fic, in) /\ fic'.clear = NextClear(in)
  BY <1>1 DEF FicTick, IInv, TypeOK
<1> QED BY <1>3, <1>4, <1>5

LEMMA BitFallsStep ==
  ASSUME IInv, BitFalls, Next
  PROVE  BitFalls'
<1> USE DEF BitFalls, ServedOnce
<1>1. hpc # "out" => acc = "idle"
  BY DEF IInv, SignsAreFresh
<1>2. CASE ClearInterrupt
  <2>1. PICK others \in SUBSET Others :
          fic' = FicTick(fic, [intr |-> Pulse \cup others, write |-> <<{Strela}>>])
    BY <1>2 DEF ClearInterrupt, Interrupts, OthersRaised
  <2>2. fic'.clear = {Strela}
    BY <2>1 DEF FicTick, NextClear, IInv, TypeOK
  <2> QED BY <1>2, <2>2 DEF ClearInterrupt
<1>3. CASE RaiseFlag
  BY <1>1, <1>3, IdleFicStep DEF RaiseFlag
<1>4. CASE Stall
  BY <1>1, <1>4, IdleFicStep DEF Stall
<1>5. CASE Enter \/ Return \/ Main
  BY <1>5 DEF Enter, Return, Main, Clear, Start, Poll, Unflag, Test, Sleep, MainMay
<1> QED BY <1>2, <1>3, <1>4, <1>5 DEF Next, Handler

\* The handler clears the bit of the run it serves before it returns, so a
\* run enters it once (fast_intr_ctrl.c:438-444, fast_intr_ctrl.sv:43-66).
THEOREM AppServedOnce == Spec => []ServedOnce
<1>1. Init => BitFalls
  BY DEF Init, BitFalls, ServedOnce
<1>2. IInv /\ BitFalls /\ [Next]_vars => BitFalls'
  BY BitFallsStep DEF vars, BitFalls, ServedOnce
<1>3. BitFalls => ServedOnce
  BY DEF BitFalls
<1> QED BY <1>1, <1>2, <1>3, IInvAlways, PTL DEF Spec
=============================================================================
