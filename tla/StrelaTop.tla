------------------------------ MODULE StrelaTop ------------------------------
(***************************************************************************)
(* rtl/strela_top.sv: the control unit, the memory nodes and the CGRA      *)
(* wired together, on the X-HEEP bus and driven by software as the         *)
(* applications of sw/applications do.  One step is one clock cycle: every *)
(* register takes its next value at once, and the bus and the software     *)
(* choose what they do in that cycle.                                      *)
(*                                                                         *)
(* The CGRA is kept at the level its neighbours see: configuration words   *)
(* shift into the PEs of a column, and an array that holds a kernel's      *)
(* words passes the tokens of a column from its input node to its output   *)
(* node through PATH_SLOTS places, preceded, for the kernels in Initial,   *)
(* by the token that a PE with initial_valid makes of its own after each   *)
(* clear.  What an array with other words does to tokens is chosen freely. *)
(***************************************************************************)
EXTENDS InputMemoryNode, OutputMemoryNode, ControlUnit, FiniteSets

CONSTANTS
    Cols, Rows, WordsPerPE,     \* shape of the CGRA and of its configuration
    Kernels, Initial, Sizes,    \* what software may load and ask for
    PATH_SLOTS,                 \* places of a column's data path
    Banks,                      \* most grants in one cycle
    Contended,                  \* phases in which other masters may win the banks
    Slow,                       \* phases in which a response may take longer
    ClearAnytime                \* software may write CLR during a run

ASSUME StrelaAssumption ==
    /\ IsFiniteSet(Cols) /\ Cols # {}
    /\ Rows \in Nat \ {0} /\ WordsPerPE \in Nat \ {0}
    /\ CONF_SIZE = Rows * WordsPerPE * CONF_STRIDE
    /\ Initial \subseteq Kernels /\ Sizes \subseteq Nat
    /\ PATH_SLOTS \in Nat \ {0, 1} /\ Banks \in Nat \ {0}
    /\ Contended \cup Slow \subseteq {"load", "execute"} /\ ClearAnytime \in BOOLEAN

VARIABLES
    ctl,        \* control_unit
    imn, omn,   \* the memory nodes, by column
    cgra,       \* by column: PE configuration registers and data path
    rd, wr,     \* bus: the read under way of a column, whether a write is
    ctrl,       \* CTRL register: each bit is high for one cycle
    params,     \* CONF_ADDR and the size registers
    status,     \* STATUS register
    driver,     \* software: ready, running, cleared or resized
    kernel,     \* the kernel software works with
    run,        \* which of two successive runs' data the memory holds
    written     \* history: words written to memory in this run, by column

vars == <<ctl, imn, omn, cgra, rd, wr, ctrl, params, status,
          driver, kernel, run, written>>

-----------------------------------------------------------------------------
(* Words, told apart by what they are for                                  *)

ConfWord(k, c, o) == <<"conf", k, c, o>>
DataWord(r, c, o) == <<"data", r, c, o>>
InitWord(k)       == <<"init", k>>
NoWord            == <<"none">>

Pulse(start, clr, clr_param, clr_conf) ==
    [start |-> start, clr |-> clr, clr_param |-> clr_param, clr_conf |-> clr_conf]
Quiet == Pulse(FALSE, FALSE, FALSE, FALSE)

NoParams == [conf_addr |-> NoWord, size |-> [c \in Cols |-> 0]]

\* Every word that can be on a wire.
Word == {NoWord} \cup {InitWord(k) : k \in Kernels}
        \cup {ConfWord(k, c, o) : k \in Kernels \cup {NoWord}, c \in Cols,
                                 o \in 0 .. OFFSET_RANGE - 1}
        \cup {DataWord(r, c, o) : r \in {0, 1}, c \in Cols, o \in 0 .. OFFSET_RANGE - 1}

-----------------------------------------------------------------------------
(* Wires of this cycle                                                     *)

\* Mutants: one node is enough.
OneConfDone == \E c \in Cols : ConfDone(imn[c])
OneDone     == \E c \in Cols : InputDone(imn[c]) /\ OutputDone(omn[c])

conf_done  == \A c \in Cols : ConfDone(imn[c])
mn_done    == \A c \in Cols : InputDone(imn[c]) /\ OutputDone(omn[c])
exec       == Exec(ctl)
controlIn  == [clr |-> ctrl.clr, start |-> ctrl.start, conf_change |-> ctrl.clr_conf,
               conf_done |-> conf_done, mn_done |-> mn_done]
clr_nodes  == ctrl.clr \/ ClearNodes(ctl)
clr_cgra   == ctrl.clr \/ ClearCGRA(ctl, controlIn)

\* What every PE of a column must hold for kernel k.
Configured(c, k) ==
    \A r \in 1 .. Rows : \A w \in 1 .. WordsPerPE :
        cgra[c].regs[r][w] = ConfWord(k, c, ((r - 1) * WordsPerPE + w - 1) * CONF_STRIDE)

Blank(c) == \A r \in 1 .. Rows : \A w \in 1 .. WordsPerPE : cgra[c].regs[r][w] = NoWord

\* No kernel is in place: fork masks, multiplexers, buffer enables and
\* initial_valid are bits of other words than they should be.  (While words
\* are still shifted in, the array is empty and it does not matter.)
Astray ==
    /\ ctl.state # "WAIT"
    /\ \A k \in Kernels : \E c \in Cols : ~Configured(c, k)

\* Such an array may take, refuse and make up tokens in any column, or be
\* stuck; one without any word has no buffer enabled.
Stuck  == [takes |-> {}, gives |-> {}]
Strays == IF Astray /\ \E c \in Cols : ~Blank(c)
          THEN [takes : SUBSET Cols, gives : SUBSET Cols] ELSE {Stuck}

PathReady(c, s) == IF Astray THEN c \in s.takes ELSE Len(cgra[c].path) < PATH_SLOTS

\* A configuration word never enters the data path (PE tmp_north_din_v).
TokenIn(c, s) ==
    IF OffersData(imn[c], exec) /\ PathReady(c, s) /\ ~ConfEnable(imn[c])
    THEN <<Head(imn[c].fifo)>> ELSE <<>>

PathOffers(c, s) == IF Astray THEN c \in s.gives ELSE cgra[c].path # <<>>

TokenOut(c, s) ==
    IF PathOffers(c, s) /\ OutputReady(omn[c])
    THEN <<IF Astray THEN NoWord ELSE Head(cgra[c].path)>> ELSE <<>>

ShiftIn(c) == IF ConfEnable(imn[c]) THEN <<Head(imn[c].fifo)>> ELSE <<>>

\* The word an input node asks for.
Addressed(c) ==
    IF ConfNeeded(ctl) THEN ConfWord(params.conf_addr, c, imn[c].addr_offset)
    ELSE DataWord(run, c, imn[c].addr_offset)

-----------------------------------------------------------------------------
(* The CGRA column                                                         *)

EmptyColumn == [regs  |-> [r \in 1 .. Rows |-> [w \in 1 .. WordsPerPE |-> NoWord]],
                cnt   |-> 0,
                fresh |-> TRUE,
                path  |-> <<>>]

\* Each PE takes the first words that reach it and lets the others pass to
\* the PE below; the registers are not cleared, the counters are.
ShiftRegs(g, w) ==
    LET r == (g.cnt \div WordsPerPE) + 1
    IN  IF w # <<>> /\ r <= Rows THEN [g.regs EXCEPT ![r] = Tail(@) \o w] ELSE g.regs

\* Mutant: the counters survive a clear.
ShiftCountKept(g, w, clr) ==
    IF w # <<>> /\ g.cnt < Rows * WordsPerPE THEN g.cnt + 1 ELSE g.cnt

ShiftCount(g, w, clr) ==
    IF clr THEN 0
    ELSE IF w # <<>> /\ g.cnt < Rows * WordsPerPE THEN g.cnt + 1 ELSE g.cnt

\* The first cycle after a clear loads initial_valid of the loaded kernel.
OwnToken(g) ==
    IF g.fresh /\ g.regs[1][1] # NoWord /\ g.regs[1][1][2] \in Initial
    THEN <<InitWord(g.regs[1][1][2])>> ELSE <<>>

ColumnTick(g, w, clr, in, out) ==
    [regs  |-> ShiftRegs(g, w),
     cnt   |-> ShiftCount(g, w, clr),
     fresh |-> clr,
     path  |-> IF clr \/ Astray THEN <<>>
               ELSE (IF out = <<>> THEN g.path ELSE Tail(g.path)) \o OwnToken(g) \o in]

-----------------------------------------------------------------------------
(* The bus: at most one transaction of a master is outstanding; the next   *)
(* may be granted in the cycle of the previous response.                   *)

ReadsPending  == {c \in Cols : rd[c] # <<>>}
WritesPending == {c \in Cols : wr[c]}

ReadsEligible(answered) ==
    {c \in Cols : InputRequests(imn[c]) /\ (rd[c] = <<>> \/ c \in answered)}
WritesEligible(answered) ==
    {c \in Cols : OutputRequests(omn[c]) /\ (~wr[c] \/ c \in answered)}

\* What the nodes read, and with it from which bank.
Phase == IF ConfNeeded(ctl) THEN "load" ELSE "execute"

\* Responses of this cycle: all that are due, unless the memory is slow.
Responses(pending) == IF Phase \in Slow THEN SUBSET pending ELSE {pending}

\* Grants of this cycle: every bank serves someone unless another master,
\* the CPU for one, took it.
GrantsAllowed(gi, go, ri, ro) ==
    /\ gi \subseteq ReadsEligible(ri) /\ go \subseteq WritesEligible(ro)
    /\ Cardinality(gi) + Cardinality(go) <= Banks
    /\ gi = {} /\ go = {} =>
         Phase \in Contended \/ (ReadsEligible(ri) = {} /\ WritesEligible(ro) = {})

-----------------------------------------------------------------------------
(* One clock cycle of the hardware                                         *)

InputIn(c, gi, ri, s) ==
    [clr |-> clr_nodes, start |-> ctrl.start, exec |-> exec,
     conf_needed |-> ConfNeeded(ctl),
     size |-> params.size[c], stride |-> CONF_STRIDE,
     gnt |-> c \in gi, rvalid |-> IF c \in ri THEN rd[c] ELSE <<>>,
     dout_r |-> PathReady(c, s)]

OutputIn(c, go, s) ==
    [clr |-> clr_nodes, exec |-> exec, size |-> params.size[c],
     gnt |-> c \in go, din |-> TokenOut(c, s)]

\* Mutant: a start leaves the flag of the last run.
NextStatusKept ==
    [exec_done |-> ~(ctrl.clr \/ ctrl.clr_param) /\ (mn_done \/ status.exec_done),
     conf_done |-> ~(ctrl.clr \/ ctrl.clr_conf) /\ (conf_done \/ status.conf_done)]

NextStatus ==
    [exec_done |-> ~(ctrl.clr \/ ctrl.clr_param \/ ctrl.start)
                   /\ (mn_done \/ status.exec_done),
     conf_done |-> ~(ctrl.clr \/ ctrl.clr_conf) /\ (conf_done \/ status.conf_done)]

Clock(gi, go, ri, ro, s) ==
    /\ GrantsAllowed(gi, go, ri, ro)
    /\ rd' = [c \in Cols |-> IF c \in gi THEN <<Addressed(c)>>
                             ELSE IF c \in ri THEN <<>> ELSE rd[c]]
    /\ wr' = [c \in Cols |-> c \in go \/ (wr[c] /\ c \notin ro)]
    /\ ctl' = ControlTick(ctl, controlIn)
    /\ imn' = [c \in Cols |-> InputTick(imn[c], InputIn(c, gi, ri, s))]
    /\ omn' = [c \in Cols |-> OutputTick(omn[c], OutputIn(c, go, s))]
    /\ cgra' = [c \in Cols |->
                  ColumnTick(cgra[c], ShiftIn(c), clr_cgra, TokenIn(c, s), TokenOut(c, s))]
    /\ status' = NextStatus
    /\ written' = [c \in Cols |-> IF ctrl.start THEN <<>>
                     ELSE IF c \in go THEN Append(written[c], Head(omn[c].fifo))
                     ELSE written[c]]

Hardware ==
    \E ri \in Responses(ReadsPending), ro \in Responses(WritesPending),
       gi, go \in SUBSET Cols, s \in Strays : Clock(gi, go, ri, ro, s)

ParamsKept == params' = IF ctrl.clr \/ ctrl.clr_param THEN NoParams ELSE params

-----------------------------------------------------------------------------
(* Software.  A register access takes two cycles at least, so CTRL is      *)
(* quiet when the next one arrives.                                        *)

Write(bits) == ctrl = Quiet /\ ctrl' = bits

NoAccess ==
    /\ ctrl' = Quiet /\ ParamsKept
    /\ UNCHANGED <<driver, kernel, run>>

\* Software fills the input buffers and starts.
WriteStart ==
    /\ driver = "ready" /\ driver' = "running"
    /\ Write(Pulse(TRUE, FALSE, FALSE, FALSE))
    /\ run' = 1 - run
    /\ UNCHANGED <<params, kernel>>

\* while (!(STATUS & 1))
PollDone ==
    /\ driver = "running" /\ driver' = "ready"
    /\ status.exec_done /\ Write(Quiet)
    /\ UNCHANGED <<params, kernel, run>>

\* A kernel whose own token leaves the array as soon as it is cleared stays: the
\* token waits in the output FIFO, which the next kernel would find it in.
Replaceable == kernel \notin Initial

WriteClear ==
    /\ Replaceable
    /\ driver = "ready" \/ (ClearAnytime /\ driver = "running")
    /\ driver' = "cleared"
    /\ Write(Pulse(FALSE, TRUE, FALSE, FALSE))
    /\ UNCHANGED <<params, kernel, run>>

\* CLR_PARAM | CLR_CONF between two kernels, as conv2d does.
WriteClearConf ==
    /\ Replaceable /\ driver = "ready" /\ driver' = "cleared"
    /\ Write(Pulse(FALSE, FALSE, TRUE, TRUE))
    /\ UNCHANGED <<params, kernel, run>>

\* CLR_PARAM: other sizes for the kernel that is loaded.
WriteClearParam ==
    /\ driver = "ready" /\ driver' = "resized"
    /\ Write(Pulse(FALSE, FALSE, TRUE, FALSE))
    /\ UNCHANGED <<params, kernel, run>>

WriteParams ==
    /\ driver \in {"cleared", "resized"} /\ driver' = "ready"
    /\ Write(Quiet)
    /\ kernel' \in IF driver = "cleared" THEN Kernels ELSE {kernel}
    /\ \E size \in [Cols -> Sizes] : params' = [conf_addr |-> kernel', size |-> size]
    /\ UNCHANGED run

Init ==
    /\ ctl = ControlReset
    /\ imn = [c \in Cols |-> NodeReset]
    /\ omn = [c \in Cols |-> NodeReset]
    /\ cgra = [c \in Cols |-> EmptyColumn]
    /\ rd = [c \in Cols |-> <<>>] /\ wr = [c \in Cols |-> FALSE]
    /\ ctrl = Quiet /\ params = NoParams
    /\ status = [exec_done |-> FALSE, conf_done |-> FALSE]
    /\ driver = "cleared" /\ kernel \in Kernels /\ run = 0
    /\ written = [c \in Cols |-> <<>>]

Next ==
    \/ NoAccess /\ Hardware
    \/ WriteStart /\ Hardware
    \/ PollDone /\ Hardware
    \/ WriteClear /\ Hardware
    \/ WriteClearConf /\ Hardware
    \/ WriteClearParam /\ Hardware
    \/ WriteParams /\ Hardware

Spec == Init /\ [][Next]_vars

-----------------------------------------------------------------------------
(* What the accelerator promises                                           *)

NodeType(states) == [state : states, addr_offset : 0 .. OFFSET_RANGE - 1, fifo : Seq(Word)]
ColumnType == [regs : [1 .. Rows -> [1 .. WordsPerPE -> Word]], cnt : 0 .. Rows * WordsPerPE,
               fresh : BOOLEAN, path : Seq(Word)]

TypeOK ==
    /\ ctl \in [state : ControlStates, conf_done_reg : BOOLEAN]
    /\ imn \in [Cols -> NodeType(InputStates)]
    /\ omn \in [Cols -> NodeType(OutputStates)]
    /\ cgra \in [Cols -> ColumnType]
    /\ rd \in [Cols -> Seq(Word)] /\ wr \in [Cols -> BOOLEAN]
    /\ ctrl \in [start : BOOLEAN, clr : BOOLEAN, clr_param : BOOLEAN, clr_conf : BOOLEAN]
    /\ params \in [conf_addr : Kernels \cup {NoWord}, size : [Cols -> Nat]]
    /\ status \in [exec_done : BOOLEAN, conf_done : BOOLEAN]
    /\ driver \in {"ready", "running", "cleared", "resized"}
    /\ kernel \in Kernels /\ run \in {0, 1}
    /\ written \in [Cols -> Seq(Word)]
    /\ \A c \in Cols :
        /\ Len(rd[c]) <= 1 /\ Len(omn[c].fifo) <= FIFO_DEPTH
        /\ Len(cgra[c].path) <= PATH_SLOTS

\* Every word under way has a place in its node's FIFO, and the count never
\* reaches the depth, where usage_o would read zero and the node would go on
\* requesting into a full FIFO (input_memory_node.sv:127,145; fifo_v3.sv:49,146).
RoomForEveryRead ==
    \A c \in Cols : Len(imn[c].fifo) + Len(rd[c]) <= WORST_MEM_LATENCY + 1

\* Nine state machines that only exchange levels stay in step: no node is in
\* a phase the control unit is not in, so none misses its start, its exec or
\* its clear (control_unit.sv:65-104, input_memory_node.sv:102-152,
\* output_memory_node.sv:69-100).
PhasesAgree ==
    \A c \in Cols :
        /\ ctl.state = "IDLE" => imn[c].state = "IDLE" /\ omn[c].state = "IDLE"
        /\ ctl.state = "WAIT" => imn[c].state \in {"CONF", "WAIT"} /\ omn[c].state = "IDLE"
        /\ ctl.state = "EXEC" => imn[c].state \in {"IDLE", "WAIT", "MREQ", "DONE"}
        /\ ctl.state = "DONE" => imn[c].state = "DONE" /\ omn[c].state = "DONE"

\* "Configuration done" means done: while a kernel executes, every PE holds its
\* own words of the kernel software asked for, each in its place
\* (control_unit.sv:81, input_memory_node.sv:137, PE_superpolyvalent.sv:75-97).
ConfigExact == exec => \A c \in Cols : Configured(c, kernel)

\* What column c writes in a run: the kernel's own first token, if it makes
\* one, then the input words in order.
Expected(c) ==
    LET data == [i \in 1 .. params.size[c] \div CONF_STRIDE |->
                    DataWord(run, c, (i - 1) * CONF_STRIDE)]
        own  == IF kernel \in Initial THEN <<InitWord(kernel)>> ELSE <<>>
    IN  SubSeq(own \o data, 1, Len(data))

\* "Execution done" means that memory holds the results: exactly the expected
\* words of this run, in order, in every column, and none of an earlier run
\* or kernel (strela_top.sv:82, mmio_interface.sv:90, output_memory_node.sv:87).
\* It depends on ConfigExact: an array astray writes anything.
OutputsExact == Interrupt(ctl) => \A c \in Cols : written[c] = Expected(c)

\* Between runs nothing is on its way into an input node: a word left in a FIFO
\* or on the bus would be the first word of the next configuration or run
\* (input_memory_node.sv:94,162, strela_top.sv:96).
NothingLeftBehind ==
    ctl.state = "IDLE" => \A c \in Cols : imn[c].fifo = <<>> /\ rd[c] = <<>>

\* Software that polls STATUS never takes the last run's "done" for this one's:
\* while the flag is up and no start is being taken, the accelerator rests
\* (mmio_interface.sv:90-91).
DoneMeansIdle ==
    status.exec_done /\ ~ctrl.start => ctl.state \in {"IDLE", "DONE"}

\* What software sees of a run: START, busy, one cycle with the interrupt, and
\* a done flag that stands from there to the next START or clear, whatever the
\* order of grants and responses (control_unit.sv:59-104, mmio_interface.sv:89-91).
AccState ==
    CASE ctrl.start                                   -> "started"
      [] ~ctrl.start /\ ctl.state = "IDLE"            -> "idle"
      [] ~ctrl.start /\ ctl.state \in {"WAIT", "EXEC"} -> "busy"
      [] OTHER                                        -> "done"
Abstract == INSTANCE AcceleratorRun WITH acc <- AccState, status <- status.exec_done
ImplementsRun == Abstract!AccSpec

-----------------------------------------------------------------------------
(* Progress.  The clock ticks; the round-robin arbiter serves a master that *)
(* keeps asking; the memory answers; software polls.                       *)

ServesRead(c) ==
    \E ri \in Responses(ReadsPending), ro \in Responses(WritesPending),
       gi, go \in SUBSET Cols, s \in Strays : c \in gi /\ Clock(gi, go, ri, ro, s)
ServesWrite(c) ==
    \E ri \in Responses(ReadsPending), ro \in Responses(WritesPending),
       gi, go \in SUBSET Cols, s \in Strays : c \in go /\ Clock(gi, go, ri, ro, s)
AnswersAll ==
    \E gi, go \in SUBSET Cols : Clock(gi, go, ReadsPending, WritesPending, Stuck)

Fairness ==
    /\ WF_vars(NoAccess /\ AnswersAll)
    /\ \A c \in Cols : /\ WF_vars(NoAccess /\ ServesRead(c))
                       /\ WF_vars(NoAccess /\ ServesWrite(c))

FairSpec == Spec /\ Fairness

\* A started run ends: no order of grants and responses leaves the nodes, the
\* CGRA and the control unit waiting on one another, and the done flag rises
\* (control_unit.sv:80-93).  Not so when another master takes a bank while the
\* configuration is read: the array may then be left astray and stuck
\* (see ConfigExact).
RunCompletes == driver = "running" ~> status.exec_done /\ ~ctrl.start

=============================================================================
