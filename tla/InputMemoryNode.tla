-------------------------- MODULE InputMemoryNode --------------------------
(***************************************************************************)
(* rtl/input_memory_node.sv: one input column's reader.  It fetches the    *)
(* column's configuration words, then its data words, through a FIFO that  *)
(* must have room for every word already requested.                        *)
(*                                                                         *)
(* A node is a record [state, addr_offset, fifo]; InputTick is one clock   *)
(* edge.  Its inputs are a record of the port values in that cycle:        *)
(*   clr, start, exec, conf_needed   from the control unit                 *)
(*   size, stride                    from the registers                    *)
(*   gnt, rvalid                     from the bus; rvalid is <<>> or       *)
(*                                   <<word>>                              *)
(*   dout_r                          from the CGRA                         *)
(* fifo_v3 is used through the bounded FIFO it implements (FifoV3).        *)
(***************************************************************************)
EXTENDS StrelaPkg

InputStates == {"IDLE", "CONF", "WAIT", "MREQ", "DONE"}

\* usage_o of fifo_v3 has clog2(FIFO_DEPTH) bits: a full FIFO reads as empty.
DataCount(n) == Len(n.fifo) % FIFO_DEPTH

\* Mutant: one request too many.
InputRequestsLate(n) ==
    n.state \in {"CONF", "MREQ"} /\ DataCount(n) <= WORST_MEM_LATENCY

InputRequests(n) ==
    n.state \in {"CONF", "MREQ"} /\ DataCount(n) < WORST_MEM_LATENCY

NextOffset(n, in) ==
    (n.addr_offset + (IF in.conf_needed THEN CONF_STRIDE ELSE in.stride))
        % OFFSET_RANGE

\* Mutant: the last word of the data is not asked for.
LastGrantedShort(n, in) ==
    /\ InputRequests(n) /\ in.gnt
    /\ IF n.state = "CONF" THEN NextOffset(n, in) >= CONF_SIZE
                           ELSE NextOffset(n, in) + in.stride >= in.size

\* The transaction after which the phase's words are all requested.
LastGranted(n, in) ==
    /\ InputRequests(n) /\ in.gnt
    /\ NextOffset(n, in) >= (IF n.state = "CONF" THEN CONF_SIZE ELSE in.size)

\* A column without data is done at once.
BeginExec(in) == IF in.size # 0 THEN "MREQ" ELSE "DONE"

InputNextState(n, in) ==
    CASE n.state = "IDLE" -> IF in.start /\ in.conf_needed THEN "CONF"
                             ELSE IF in.exec THEN BeginExec(in) ELSE "IDLE"
      [] n.state = "CONF" -> IF LastGranted(n, in) THEN "WAIT" ELSE "CONF"
      [] n.state = "WAIT" -> IF in.exec THEN BeginExec(in) ELSE "WAIT"
      [] n.state = "MREQ" -> IF LastGranted(n, in) THEN "DONE" ELSE "MREQ"
      [] n.state = "DONE" -> "DONE"

\* change_mode restarts the offset for the data phase.
InputNextOffset(n, in) ==
    IF n.state = "CONF" /\ LastGranted(n, in) THEN 0
    ELSE IF InputRequests(n) /\ in.gnt THEN NextOffset(n, in)
    ELSE n.addr_offset

ConfDone(n)  == n.state = "WAIT" /\ n.fifo = <<>>
InputDone(n) == n.state = "DONE"

\* The word at the head configures a PE, or is offered as a token, or both.
ConfEnable(n)      == n.fifo # <<>> /\ n.state \in {"CONF", "WAIT"}
OffersData(n, exec) == n.fifo # <<>> /\ exec

\* Mutant: a word is popped although the CGRA is not ready.
PopsUnready(n, in) == ConfEnable(n) \/ OffersData(n, in.exec)

Pops(n, in) == ConfEnable(n) \/ (OffersData(n, in.exec) /\ in.dout_r)

InputNextFifo(n, in) ==
    (IF Pops(n, in) THEN Tail(n.fifo) ELSE n.fifo)
        \o (IF Len(n.fifo) < FIFO_DEPTH THEN in.rvalid ELSE <<>>)

InputTick(n, in) ==
    IF in.clr THEN NodeReset
    ELSE [state       |-> InputNextState(n, in),
          addr_offset |-> InputNextOffset(n, in),
          fifo        |-> InputNextFifo(n, in)]
=============================================================================
