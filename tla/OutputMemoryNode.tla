-------------------------- MODULE OutputMemoryNode --------------------------
(***************************************************************************)
(* rtl/output_memory_node.sv: one output column's writer.  It takes a      *)
(* token from the CGRA whenever its FIFO has room, in every state, and     *)
(* writes tokens to consecutive words while it is in S_MREQ.               *)
(*                                                                         *)
(* Inputs of a cycle: clr, exec from the control unit, size from the       *)
(* registers, gnt from the bus, din (<<>> or <<token>>) from the CGRA.     *)
(***************************************************************************)
EXTENDS StrelaPkg

OutputStates == {"IDLE", "MREQ", "DONE"}

\* Mutant: ready while full.
OutputReadyAlways(n) == TRUE

OutputReady(n)    == Len(n.fifo) < FIFO_DEPTH
OutputRequests(n) == n.state = "MREQ" /\ n.fifo # <<>>
OutputDone(n)     == n.state = "DONE"

\* Mutant: a word counts as written before it is granted.
WrittenUngranted(n, in) == OutputRequests(n)

Written(n, in)     == OutputRequests(n) /\ in.gnt
OutputOffset(n)    == (n.addr_offset + CONF_STRIDE) % OFFSET_RANGE

\* Mutant: the last word is not waited for.
OutputLastShort(n, in) ==
    Written(n, in) /\ OutputOffset(n) + CONF_STRIDE >= in.size

LastWritten(n, in) == Written(n, in) /\ OutputOffset(n) >= in.size

OutputNextState(n, in) ==
    CASE n.state = "IDLE" -> IF ~in.exec THEN "IDLE"
                             ELSE IF in.size = 0 THEN "DONE" ELSE "MREQ"
      [] n.state = "MREQ" -> IF LastWritten(n, in) THEN "DONE" ELSE "MREQ"
      [] n.state = "DONE" -> "DONE"

OutputNextFifo(n, in) ==
    (IF Written(n, in) THEN Tail(n.fifo) ELSE n.fifo)
        \o (IF OutputReady(n) THEN in.din ELSE <<>>)

OutputTick(n, in) ==
    IF in.clr THEN NodeReset
    ELSE [state       |-> OutputNextState(n, in),
          addr_offset |-> IF Written(n, in) THEN OutputOffset(n) ELSE n.addr_offset,
          fifo        |-> OutputNextFifo(n, in)]
=============================================================================
