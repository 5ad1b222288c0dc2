# X-TRELA in TLA+

X-TRELA is an X-HEEP microcontroller with STRELA, a coarse-grained
reconfigurable array (CGRA), on its bus. Software loads a *kernel* into the
array, points the array at buffers in memory, starts it, and waits, by polling
or by interrupt, until the results are in memory. This directory holds a TLA+
specification of that machine, its model-checking configurations and
machine-checked proofs about it.

Everything is translated from the RTL under `hw/vendor/cei_upm_strela/rtl`
(abbreviated `rtl/` below), the parts of the vendored X-HEEP that STRELA's
correctness rests on, and the C applications under `sw/applications`.

## 1. The system and its parts

| Part | Source | State it keeps | Operations | Talks to |
|---|---|---|---|---|
| Register interface | `rtl/mmio_interface.sv`, generated `strela_reg_top.sv` | CTRL pulses, STATUS, MODE, parameters, performance counters | a bus write or read; hardware sets STATUS, clears CTRL after a cycle | software; start, clear and parameters to the rest |
| Control unit | `rtl/control_unit.sv` | main FSM, `conf_done_reg` | one step of the FSM per clock | levels to every node and to the CGRA |
| Input memory node, 4 | `rtl/input_memory_node.sv` | FSM, address offset, FIFO | request, take a response, hand a word to the CGRA | bus, its CGRA column, control unit |
| Output memory node, 4 | `rtl/output_memory_node.sv` | FSM, address offset, FIFO | take a token, write it | bus, its CGRA column, control unit |
| FIFO | `fifo_v3.sv` (pulp common cells) | memory, pointers, counter | push, pop, flush | memory nodes |
| CGRA: 4x4 processing elements | `rtl/cgra/*` | configuration registers, elastic buffers, delay counters, function-unit register | shift configuration; join, merge, compute, fork tokens | neighbours, memory nodes |
| Elastic buffer | `rtl/cgra/elastic_buffer.sv` | two words, their valid bits, registered ready | shift, stall, clear | neighbours in the array |
| X-HEEP interconnect | `xbar_varlat_n_to_one.sv`, `addr_dec_resp_mux_varlat.sv`, `rr_arb_tree.sv` | one in-flight bit per master, round-robin pointers | grant, respond | nodes, CPU, memories |
| Fast interrupt controller | `fast_intr_ctrl.sv` and its registers | PENDING, CLEAR, ENABLE | latch pulses, clear | STRELA's interrupt, other devices, CPU |
| Fast interrupt driver | `fast_intr_ctrl.c` | none | `handler_irq_fast_strela`, `clear_fast_interrupt` | CPU, application flag |
| Applications | `sw/applications/*/main.c` | `strela_intr_flag`, buffers | clear, write parameters, start, wait | CTRL, STATUS, MODE |
| Driver header, kernels | `sw/external/lib/drivers/strela/strela.h`, `kernels.h` | none; tables of configuration words | field accessors | applications |
| X-TRELA top, FPGA wrapper, test bench | `hw/x_trela`, `hw/fpga_ext`, `tb` | none of their own | wiring | everything |
| Vendored MCU, scripts, configuration | `hw/vendor/esl_epfl_x_heep`, `util`, `configs` | | | environment |

### How a run goes

1. Software writes `CLR` (or `CLR_PARAM | CLR_CONF` when it changes kernels,
   `CLR_PARAM` when it changes buffers only), then the parameters, then `START`.
   A CTRL bit is high for one cycle.
2. If no configuration is loaded, the control unit goes to WAIT and every input
   node reads its column's configuration words and shifts them into the column.
   `conf_done` is the conjunction of the nodes' momentary `conf_done_o`.
3. In EXEC every input node reads its data, the array computes, every output
   node writes the tokens that reach it. A node with size 0 is done at once.
4. When all nodes are done the control unit spends one cycle in DONE: the
   interrupt is a pulse of that cycle, the nodes and the array are cleared, and
   STATUS.EXEC_DONE has been set.
5. In polling mode software reads STATUS until the flag is up. In interrupt mode
   the pulse is latched by the fast interrupt controller, the CPU enters the
   handler, the handler clears the pending bit and sets a flag in memory, and
   main, which sleeps in `wfi` between tests of that flag, goes on.

### Which behaviours are hard

* Nine state machines advance on levels they exchange, with no acknowledgement;
  one that misses a one-cycle level would stay behind for good.
* Grants and responses of eight masters and of the CPU interleave freely;
  `conf_done` and `exec_done` are conjunctions taken in a single cycle of it.
* An input node requests words before it knows it can store them.
* `ready` is registered in every elastic buffer: a sender learns of a stall late.
* In the array a token is copied by forks, paired by joins and sent round loops. Words
  reach the columns, and results leave them, at times that nobody controls; what a
  kernel computes must not depend on them.
* Applications read and write the same arrays in one run (conv2d, fft), change the
  kernel's table between runs, and use three clears that reset different parts.
* The interrupt is a one-cycle pulse that passes through two registers, an
  interrupt handler and a volatile variable before main sees it; each step can
  interleave with main and with the next run.
* A clear takes effect in some registers and not in others (`conf_reg` keeps the
  kernel, the bus keeps a read under way).

## 2. Modules

| Module | Models | State | Actions and operators |
|---|---|---|---|
| `BoundedFifo` | abstract: what a token buffer promises | `q`, `io` | `FifoCycle`, `FifoFlush` |
| `ElasticBuffer` | `elastic_buffer.sv`, every register | `data_0/1`, `valid_0/1`, `areg`, `en`, `io` (observed transfers) | `Cycle`, `Clear` |
| `FifoV3` | `fifo_v3.sv` with FALL_THROUGH = 0 | `mem`, pointers, `status_cnt`, `io` | `Cycle`, `Flush` |
| `StrelaPkg` | parameters shared by the nodes | | `NodeReset` |
| `InputMemoryNode` | `input_memory_node.sv` | record `[state, addr_offset, fifo]` | `InputTick`: one clock edge |
| `OutputMemoryNode` | `output_memory_node.sv` | the same | `OutputTick` |
| `ControlUnit` | `control_unit.sv` | record `[state, conf_done_reg]` | `ControlTick` |
| `StrelaTop` | `strela_top.sv`, composed with the bus and the software | below | `Hardware` with one software action per cycle |
| `FastIntrCtrl` | `fast_intr_ctrl.sv` | record `[pending, clear, enable]` | `FicTick` |
| `AcceleratorRun` | abstract: what a run looks like to software | `acc`, `status` | `Start`, `Begin`, `Work`, `Finish`, `Rest`, `Clear` |
| `StrelaApp` | main, handler, interrupt controller, and `AcceleratorRun` | below | `Main`, `Handler`, `Stall` |
| `ProcessingElement` | `PE_superpolyvalent.sv`, `PC_superpolyvalent.sv`, `join_merge.sv`, `fork_sender.sv`, `FU_*.sv` | record `[buf, primed, v, dout, cnt]` | `PeTick`, `Lost`, `WellRouted` |
| `KernelTables` | the tables of `kernels.h`, decoded | | `Table` |
| `KernelStreams` | what each kernel makes of its input streams | | `Outputs` |
| `StreamKernel` | abstract: a stream function with unknown delays | `job`, `got`, `put` | `KernelNext` |
| `Cgra` | `CGRA.sv`, the 4x4 array with a kernel loaded | below | `Cycle` |
| `StrelaPrograms` | each `main.c` as the list of its accesses, `dataset.h`, `gendata.py` | | `Program`, `Data`, `Expected` |
| `StrelaApps` | the applications executed, `mmio_interface.sv`, runs word by word | below | `Main`, `Strela` |
| `*_proofs` | theorems of the module they extend | | |
| `MC*` | small instances for TLC | | |

How they are stacked:

    StrelaApps     (applications on streams)       StrelaApp     (one wait, cycle by cycle)
        | Outputs         | run ends: RunCompletes     | uses AcceleratorRun
    StreamKernel          |                        AcceleratorRun
        ^ implements      |                            ^ implements
    Cgra + KernelTables   +--------------------->  StrelaTop
        | PeTick                                       | InputTick, OutputTick, ControlTick
    ProcessingElement                                  |
        ^ TicksAsQueue                                 | BoundedFifo's view
    ElasticBuffer --implements--> BoundedFifo <--implements-- FifoV3

The parts of the accelerator are *tick* operators on records: given the
registers of a part and the wires of the cycle, the registers after the edge.
`StrelaTop` computes the wires from the current state and ticks all parts at
once, as the clock does; nothing inside the accelerator interleaves. What is
chosen freely in each cycle is what the accelerator does not decide: which
eligible masters the bus grants, which outstanding transactions are answered,
and whether software performs its next register access. The memory nodes use the
FIFO through `BoundedFifo`'s view (a sequence); `FifoV3` proves that view right.

**State of `StrelaTop`.** `ctl` control unit; `imn`, `omn` nodes by column;
`cgra` by column: configuration registers of the PEs, the number of words that
have been shifted in, whether the last cycle was a clear, and the tokens on the
column's data path; `rd` the read a node has outstanding (the word it will
return), `wr` whether a write is; `ctrl`, `params`, `status` registers;
`driver`, `kernel` where software is; `run` which of two successive data sets is
in the buffers; `written` history of the run's writes. A word is named by what
it is for, `ConfWord(kernel, column, offset)` or `DataWord(run, column, offset)`,
so that a word from the wrong kernel, run, column or place is told apart.

**Its actions.** Every disjunct of `Next` is a clock cycle, `Hardware`, together
with what software does in it: `NoAccess`, `WriteStart`, `PollDone`,
`WriteClear`, `WriteClearConf`, `WriteClearParam`, `WriteParams`. An access over
the peripheral bus takes at least two cycles, so CTRL is quiet when the next
arrives (`Write`). `ParamsKept` is the hardware's clearing of parameters;
`WriteParams` stands for the run of register writes after a clear.

**Abstraction of the array.** The configuration shift chain is
kept exactly: each PE takes the first words that reach it, later ones pass on,
counters are cleared with the array while `conf_reg` is not. What the array does with
tokens depends on what the chain left in the registers:

* If every PE of every column holds its words of one kernel (`Configured`), a column is a
  path of `PATH_SLOTS` places from its input node to its output node. `OwnToken` is the token a
  PE with `initial_valid` creates in the first cycle after a clear; the kernels in `Initial`
  have one. Routing, joining, forking and arithmetic are in `Cgra`.
* Otherwise the array is `Astray`: masks, multiplexers and buffer enables are bits of the wrong
  words. In each cycle it may then take a token, refuse one and make one up in any column
  (`Strays`), or do nothing at all (`Stuck`). An array without any word, as after reset, has no buffer
  enabled and is stuck.

While words are shifted in (WAIT) the array is empty and neither matters.

A kernel with a token of its own stays loaded once it is named (`Replaceable`, section 6).

**State of `StrelaApp`.** `acc`, `status` the accelerator as `AcceleratorRun` has it; `fic`; `pc` main's next instruction, `hpc` the handler's; `flag` is
`strela_intr_flag`; `mode` poll or intr; `calm` says of the current run that it
ends only once main waits for it and that no other device raises a line while it
is being served. `calm` is chosen freely by `Start`: it does not restrict the
behaviours, it marks those in which the interrupt-mode wait is promised to end.

**State of `Cgra`.** `conf` is the decoded configuration and does not change; `pe[p]` the
registers of the PE at `<<column, row>>`: its buffers by the side or operand they
serve, whether the initial token was loaded (`primed`), the function unit's output register
with its valid bit, the delay counter. An elastic buffer is a queue with its
registered ready; `ElasticBuffer!TicksAsQueue` shows that this is the two-register buffer
cycle by cycle. In each cycle the environment chooses which columns have a word on offer
and which output nodes are ready, `Ready` and `Out` are the combinational wires, and every
PE ticks. `lost` records what the cycle dropped. `got` and `put` are what `StreamKernel` sees.

*Decoding.* `KernelTables` says of a PE where each fork sends (`to`, `fork`), what each
multiplexer selects (`op`, `out`), and mode, operation, constant, initial value and
delay. `Wired` builds the regular case, in which the multiplexers select what the
forks send; the entries that are not regular are written out.

**State of `StrelaApps`.** `todo` is the rest of main's accesses; `regs` MODE, EXEC_DONE and the
parameters; `conf` the kernel in the array and whether `conf_done_reg` counts it;
`tables` the words of `kernels.h` that applications change; `mem` the arrays; `acc`
the run under way, with the words each column has read and the number it has written;
`counted` the runs the performance counters cover. A step moves one word of
one stream. A run ends only when main waits for it: a run that ends sooner is the subject of
`StrelaApp`.

## 3. What is checked

### Runs that pass

| Run | Instance | Shows |
|---|---|---|
| `elastic_buffer` | four word values | `ImplementsFifo`: a two-place FIFO under any pattern of offers and stalls; `OldestOffered`: a stalled buffer offers its older token; `DisabledIsEmpty`; `ReadyReturns`: it accepts again when its receiver does |
| `fifo_v3` | depth 3, two values | `PointersAgree` and `ImplementsFifo` across the wrap, for each combination of push, pop and flush at each fill level |
| `strela_exclusive` | 2 columns of 2 PEs, 2 kernels, one of them with a token of its own, sizes 0 and 12 bytes per column, a bank per column | over every sequence of kernels, sizes and runs: `ConfigExact` (a kernel executes only with every PE holding its own words), `OutputsExact` (at DONE memory holds exactly the run's results), `NothingLeftBehind`, `DoneMeansIdle`, `PhasesAgree`; `ImplementsRun`: software sees `AcceleratorRun`; `RunCompletes` under fairness |
| `strela_backpressure` | 1 column of 2 PEs, 10 words; while the array executes other masters win the bank and memory answers late, the configuration is read undisturbed | `RoomForEveryRead`, `OutputsExact`, `TypeOK` while FIFOs fill and drain and the offset counters go on; `RunCompletes` although other masters win the bank again and again |
| `app` | both modes, two other interrupt lines | `GoesOnAfterRun`: main never takes a sign of an earlier run for the end of its own; `ServedOnce`: one pulse, one visit of the handler; `PollEnds`; `CalmWaitEnds`: in either mode main goes on after a calm run, whatever happened in earlier runs |
| `cgra` | the seven kernels that applications load, 2 to 4 words per column, words late and results refused at any 3 to 6 places | `ImplementsKernel`: the array clock by clock computes the kernel's stream function, whatever the delays; `AllDelivered`: and delivers all of it, so no loop of PEs locks up; `NoTokenLost`; `TypeOK`: no buffer is offered more than it can hold |
| `apps` | the six applications on small data sets, every order of the words of every run | `ResultsExact`: memory ends as `gendata.py` expects; `NoOverwrite`: in-place runs never destroy a word that is still to be read; `KernelIsCurrent`; `StreamsBalance`; `CountersExact`; `HandsOffDuringRun`: what `StrelaTop` assumes of its driver; `ProgramEnds` |

Deadlock is checked everywhere but in `apps`, where a program may end; that it does is
`ProgramEnds`. A clocked machine always has a next cycle. With `MaxStalls` used up
`Cgra` goes on without stalls, and ticks on when all is delivered.

### Runs that show a disagreement

Each checks one property that a comment or document of the repository states,
and TLC shows how the code departs from it.

| Run | What happens |
|---|---|
| `strela_config_race` | `conf_done_o` is "in S_WAIT and FIFO empty" (`input_memory_node.sv:137`), also true between the last grant and its response. If another master delays that grant, the control unit leaves WAIT with a configuration word still under way and `clr_cgra` zeroes the word counters with it. The late word is then shifted into the first PE, whose words move up by one, and the last PE never gets its last word, with its buffer enables. The array is astray until the next configuration: the same instance violates `OutputsExact` and `RunCompletes` too, while the properties that do not depend on the array (`PhasesAgree`, `RoomForEveryRead`, `DoneMeansIdle`, `NothingLeftBehind`, `ImplementsRun`) hold there. Happens only if a bank is contended while a configuration is read; `StrelaConfig` and `StrelaOutputsAlone` are about that condition |
| `strela_clear_running` | `CLR` during a run flushes the FIFO, yet the read that is outstanding still answers and its word is pushed into the flushed FIFO |
| `cgra_skewed` | PE 2 of `minsearch_kernel` takes an operand from its west buffer, whose fork does not wait for that operand: the bit is in the mask of the east side. When the words of column 2 come seven cycles behind those of column 0, a token leaves the west buffer while the operand buffer is full and is lost, and the second minimum or its index is wrong. The two columns read copies of one vector through nodes of their own; how far apart they come depends on the other masters of the bank |
| `app_lost_wakeup` | main resets the flag after START and tests it before `wfi` with interrupts enabled: an interrupt served between START and the reset, or between the test and `wfi`, leaves main asleep |
| `fic_clears_others` | clearing one line, or a pulse on one, loads the whole PENDING register and drops the bits of other lines |

### Bounds, and why they are enough

* *Columns.* Two instead of four: the conjunctions `conf_done` and `mn_done` need
  two nodes that differ, and nodes are interchangeable; the proofs hold for any number.
* *FIFO_DEPTH 4 and WORST_MEM_LATENCY 2* for 8 and 4: the relation that matters,
  limit + 1 < depth, is the same, a node reaches its limit with three words, and
  usage still wraps at the depth. Theorem `StrelaRoom` is for all values.
* *Sizes.* 0 (the node that is done at once) and 3 words
  (more than the limit of 2); 10 words in the runs with one column, so that input FIFO, path and
  output FIFO, nine words in all, are full at once and the last words enter after stalls.
* *OFFSET_RANGE* 32 or 64 for 2^16, always above the largest size, as in every
  application.
* *PEs.* Two per column of two words each (four of five in the hardware): the
  second PE tells whether the first lets words pass, and a word that comes too late leaves the
  column wrong for good, where a single PE would be put right by it. One PE in `strela_clear_running`,
  where configuration is not the question.
* *Other masters and late answers* (`Contended`, `Slow`). They are chosen by phase: while a
  configuration is read ("load") or not ("execute"). X-HEEP's memories answer in the next cycle;
  `Slow` lets an answer come any time later.
* *Kernels.* One without and one with a token of its own (`Initial`): the second makes its token again after each
  run, while the accelerator is idle, and the next run must begin with it once.
* *Runs.* The number of runs is not bounded. Data of successive runs are told
  apart by one bit: a word that survives one run is seen in the next.
* *Interrupt lines.* Two other lines, so that a line can be pending while another is
  raised.
* *Streams of `cgra`.* Two words where a kernel has no memory, three or four where it carries
  or compares; the tokens on a path then meet one another, and loops are taken several times.
  In a second job of fft column 2 has one word fewer, and the real results go on without it.
  `MaxStalls` bounds, for a behaviour, how often a word is not offered or a result
  refused, at any places: 3 make a sender wait through ready's delay, fill both places of a
  buffer and release them again; 6 for dither, whose carry runs round the upper rows. For minsearch 3,
  since 7 is the finding above. Theorems `CgraNoTokenLost` and `CgraImplementsKernel` have no
  such bound, and any streams.
* *Data sets of `apps`.* A 4x4 image: the three runs of conv2d overlap in a row of sums;
  seven words for relu, so that the last of three parts is longer; two butterflies; five pixels,
  whose carry crosses the threshold; vectors of two words for the fourteen runs of strela_test.
  Five words for the search. Its two smallest are below the kernel's initial
  minimum (50, where `gendata.py` starts from 127 and 0) and not in the last place, which
  the kernel does not look at: the token a PE starts with is the first of the
  firings that its delay counts. Both hold of the shipped data set.
  `ParamsFit` and `GivenAssumption` say that the shipped sizes fit 16 bits.

## 4. Fairness

`StrelaTop!Fairness` has three parts. The clock ticks and memory answers
(`AnswersAll`): X-HEEP's memories answer in the next cycle, and in the phases of `Slow`
some time later. That cycle may be one in which an astray array does nothing: an array with wrong
registers is not assumed to pass anything, ever. Every column that keeps requesting is granted
(`ServesRead`, `ServesWrite`): requests stay up until granted and `rr_arb_tree`
is a round-robin arbiter. Nothing is assumed of software: `RunCompletes` is about
the hardware after START. It is checked where no other master takes a bank while the
configuration is read, and holds only there.

`StrelaApp!Fairness` has three parts. The CPU retires instructions of main and
of the handler. The accelerator's registers move when they can. A run that may
end does end; this is strong fairness on the step to `done`, and its
justification is `RunCompletes`, since `StrelaApp` only keeps the two ends of a
run. So `PollEnds`, `CalmWaitEnds` and, below, `ProgramEnds` are promised to applications whose
configurations are not disturbed by other masters (while main polls or sleeps, the CPU's
accesses to the banks are such); after one that was, the wait may have no end. It is strong because a `calm` run may end only in the cycles in which main is
at the place where it waits.

`StrelaApps!FairSpec` is weak fairness of the whole next-state relation: some step is taken
as long as one is possible. Every step uses up an access of main or a word of the run, so none
can be repeated for ever. It is justified by a CPU that executes and by
`RunCompletes`, under the same condition; that no step waits for one that never comes is what `ProgramEnds` shows.

`Cgra!FairSpec`: the clock ticks. The number of stalls is bounded, and every cycle that
stalls nothing is possible.

`ElasticBuffer!FairSpec` assumes that the receiver is ready again and again: a
consequence of output nodes that drain under the bus fairness above.

## 5. What is proved

All theorems are checked by TLAPS to the last leaf, for every value of the
constants that satisfies the named assumptions (`DataAssumption`,
`DepthAssumption`, `ZeroAssumption`, `StrelaPkgAssumption`, `StrelaAssumption`,
`AppAssumption`, `CellsAssumption`, `InputAssumption`, `RunningAssumption`, `GivenAssumption`,
`ParamsFit`); TLC evaluates the assumptions in every run. Some theorems have a hypothesis about the
instance or the data in their statement; each is explained below, and a run that checks the
same property satisfies it.

**Elastic buffer.** `BufferOldestOffered`, `BufferDisabledIsEmpty`,
`BufferTicksAsQueue` and `BufferImplementsFifo`. The refinement maps
the queue to `Content`: both places while ready is down, the newest one while it
is up, because the older was delivered. A captured shift is only right when a
token in the newer place never stands alone, so the invariant is
`TypeOK /\ OldestOffered /\ DisabledIsEmpty`; the step is split on `areg`, the
two valid bits and the receiver. `BufferTicksAsQueue` is the link to `Cgra`: one cycle of
the buffer is one `BufferTick` of the queue `Cgra` keeps for it.

**fifo_v3.** `FifoV3Types`, `FifoV3PointersAgree` and `FifoV3ImplementsFifo`, for every depth.
`Content` reads `status_cnt` slots from the read pointer round the ring;
`PointersAgree` is what turns "written at the write pointer" into "appended to
the queue" (lemma `PushSlot`), `PopSlot` is its counterpart.

**Accelerator.** One inductive invariant serves four theorems:

    IInv == TypeOK /\ FreshIsEmpty /\ PhasesAgree /\ StartAlone
            /\ RoomForEveryRead /\ DoneMeansIdle

* `StrelaPhases`: `PhasesAgree` is not inductive alone. A second START taken while
  the control unit is in EXEC and an input node has not left IDLE would send the
  node to read a configuration; `StartAlone` says that CTRL is quiet then, which
  follows from accesses being two cycles apart. The theorem also covers software
  that writes CLR at any time.
* `StrelaRoom`: words in the FIFO plus words under way never exceed limit + 1.
  The argument needs that the level read from `usage_o` is the real length
  (`CountIsLength`: it is below the depth), which is the invariant itself. No
  bound on memory latency is used.
* `StrelaTypes`: includes the bounds of output FIFOs and data paths; the path needs
  `FreshIsEmpty`, since only the cycle after a clear adds a token of the kernel's own.
* `StrelaDoneIsFresh`: the done flag never outlives the start of a run.

`StrelaNothingLeft` has an invariant of its own on top, `DriverKnows`, and the
hypotheses (of any array, astray or not) that the memory answers in the next cycle and that software does not
clear during a run; `strela_clear_running` shows that the second is needed.

`StrelaImplementsRun` (software does not clear during a run; any memory latency): the
accelerator implements `AcceleratorRun` under the mapping `AccState`, the phase of the
control unit or, while START is high, "started". The proof goes phase by
phase on `IInv` and `DriverKnows`; `AllDonePhase` says that the nodes are done together in no
phase but EXEC and DONE, so the flag rises with the interrupt. Since `StrelaApp`
is built on `AcceleratorRun`, what is proved of the application holds of `StrelaTop`'s registers.

`StrelaOutputs`: as long as every configuration is exact (`[]ConfigExact` is a hypothesis), memory holds at the
end of every run in each column exactly the words of this
run, once each and in order, for any number of columns and PEs, any depths and paths and every order of
grants. Other masters may take banks at any time: they can spoil results only by way of the
configuration. `StrelaOutputsAlone` has no such hypothesis; with `StrelaConfig` it says that results are
exact if nobody else takes a bank while a configuration is read (`Alone`), whoever takes banks while the
array executes. The invariant, `OutputsInv`, is `Flow` with
what it needs. The words of a column are numbered; what was written, the output FIFO,
the path, the input FIFO and the word on the bus hold consecutive parts of one block of numbers,
and the offset of either node counts the words on its side. Between runs all of these are
empty (`Drained`), which is `NothingLeftBehind` seen from the data. `Sound` is where the hypothesis on
configurations is used: outside of WAIT the array holds a kernel or no word at all, so it makes
nothing up. The hypothesis `Plain` has four parts:

* the memory answers in the next cycle, as X-HEEP's does; `strela_backpressure` checks the property with
  late answers while the array executes, which the proof leaves out;
* software does not clear during a run (`strela_clear_running`);
* no PE has a token of its own on the direct way to an output (section 6);
* sizes are whole words below the wrap of the offset, as in every application.

`StrelaConfig`: while a kernel executes every PE of every column holds its own words of the
kernel that software asked for. `conf_done` is a level of one cycle, all nodes in S_WAIT with empty
FIFOs, so the question is whether it can be up while a word is under way. `NoGap` says
that under `Alone` it cannot: from the first grant to the last some column is answered in every
cycle, and some node has the word of the cycle before in its FIFO or still asks. `Loading` says which
words are in which PE, in the FIFO and on the bus, with `InPlace` for the shift chain, and
`KernelAsked` ties them to the kernel of the parameters. `Alone` asks that
no other master takes a bank while a configuration is read, that memory answers in the next cycle, that software clears
between runs only, that a node may have two words before it stops asking (`WORST_MEM_LATENCY`
is 4) and that a column has more than one configuration word (20). `strela_config_race` is
what happens without the first part.

**Application.** `AppGoesOnAfterRun`: `GoesOnAfterRun` is strengthened by
`SignsAreFresh`, which says that each of the four signs of an end (done flag,
pending bit, handler under way, raised flag after its reset) implies that the
present run is over; every step hands one sign on to the next. `AppServedOnce`
rests on `BitFalls`: from the handler's write on, the clear bit and then the
pending bit fall before the handler returns.

**Array.** `CgraNoTokenLost`: in an array whose tables are well routed no cycle drops a token,
for every set of configurations, streams and stalls. `WellRouted` is what a table must
satisfy: a fork waits for everything its token is sent to, and only one operand of a merge is
a stream. Six of the seven tables satisfy it; minsearch does not, and `cgra_skewed` shows the
consequence. The invariant is `LostInv`: the configuration is fixed, the
registers have their domains, and a PE that has not ticked since the clear holds no
token (`Fresh`); without the last an operand could be taken in the cycle that loads the initial
token over its result. The cycle itself is split by where a token could be lost:
a wire to another PE (`WireKept`), an operand, a pair at the function unit, a merge.
`CgraTypes`: no buffer holds more than two tokens, nor more than one while it invites another.

**Kernels.** `CgraImplementsKernel`: with the table of bypass, relu, fft, either convolution or
dither the array implements `StreamKernel`, for streams of any length, any words (the factors of
conv2d_2 included) and however long whatever stalls. Hypotheses: `TablesLoaded`, each job has the
table of its kernel (`MCLoads` says so of the run `cgra`), and the kernel is not minsearch, which does
depend on timing (`cgra_skewed`). The argument has two halves.

* `LabelsImplement` (`Cgra_proofs`) is about any table that is `Steady`: each PE passes on and combines
  every token it gets. A *label* is a stream, all tokens that a place of the array will ever see with
  the columns that the k-th of them needs the k-th word of. `Labels` says that the labels of a PE agree with what it
  computes (`Computes`, `Depends`) and that both ends of a wire have the same label. Then `FlowInv` is
  inductive: for some counts, every buffer holds consecutive tokens of its label, the last ones that
  came (`InOrder`); what left a place arrived at the other end of each of its wires (`Flow`); no place has seen more
  tokens than the columns it needs have given words (`Backed`); and what was delivered is the
  beginning of the labels of row 3 (`Delivered`). The counts are not in the model, so the invariant
  quantifies them; a step shows the new ones (`NextCounts`). That a fork waits for all its receivers
  and that operands go together, so the places stay in step, is `LostInv` from the first theorem.
* `KernelTables_proofs` has the labels of each table: the streams of all sides (`FftSides`, ...) and, for the
  operands and results, what follows from them. Each `...Labels` lemma checks a table wire by wire, and each `...Job`
  that the delivered labels are the kernel's stream function. Without a loop the labels are
  combinations of the input streams. The carry of dither runs in a loop; its label is the
  recursive `CarryAfter`, whose existence and uniqueness are inductions over the pixels
  (`RunExists`, `RunSame`). The induction is `Least`, from `WFMin`: the library's induction
  theorems take a predicate, and the provers cannot instantiate one, but a set they can.

The proof corrected the model. `Fft` once said that all four results wait for all four
columns; the real ones, on columns 0 and 1, do not wait for column 2. The labels show it, and TLC
confirms it once column 2 lags thirteen cycles, more than the stalls of the run; `fft_short` now
covers it in the run.

**Applications executed.** `StrelaApps_proofs` is about the six programs with data sets
of every size that `GivenAssumption` admits, so positions in a program cannot be enumerated:
a program is taken apart into the pieces it is composed of, and what holds of the pieces is put
together again.

* `AppsTypes` and `AppsHandsOff`: a program is `Disciplined`, that is, every START is
  followed at once by the wait for it, with at most the reset of the flag between. `DisciplineConcat`
  composes pieces. The invariant `InItsWait` says that while a run is under way main is in its
  wait, and that neither sign that could end the wait is left over from an earlier run.
  `AppsHandsOff` is what `StrelaTop` assumes of the software that drives it.
* `AppsKernelCurrent`, `AppsCountersExact`, `AppsStreamsBalance`: `Does(a, x, y)` says what main
  may conclude of the accelerator after access `a`, from what it knew before: the parameters,
  the kernel that is held (or that its table was patched since), whether cycles are counted, the runs made and
  counted. For a START it also demands what makes the run right: a kernel to execute, whose
  name is in the parameters or cleared, and the vectors the kernel needs (`Fits`).
  `Leads` is its closure over a list, `LeadsConcat` composes, and `ProgramsLead` shows it of the six
  programs, with the arithmetic of their vectors (thirds for relu, halves for fft, rows for
  conv2d). `KnownToMain`, what main knows is so, is then inductive.
* `AppsNoOverwrite`: of two vectors of a run, one stored and one read, either they share no word or
  they are the same vector and the kernel delivers no word of it before the word that was
  read from that place (`Spares`, `WaitsFor`).
* `AppsResultsExact`: memory ends as `gendata.py` expects, for every application, data sets of
  any size and numbers, and every order of the words. What main knows includes a world,
  the tables and arrays as they are between runs; a START with its wait takes the arrays to `Left(k, p, v)`, where
  the words that kernel k makes of the vectors of the world v stand where p says. The proof has two halves.
  - *The runs leave what main takes them to leave.* While a run is under way, `Began` says that there is a world v
    in which it began: every stored word is the one in `Left`, every other word is as in v, and what the
    nodes have read are beginnings of the vectors of v. A fetched word was not stored over before (`FollowsFetch`, by
    the argument of `AppsNoOverwrite`), and a word that is stored is the one at its place in the end,
    since longer inputs only append to what a kernel makes (`FollowsStore`, `OutputsGrow`). `StoresApart` is
    what makes the union of the columns well defined.
  - *What main takes them to leave is the expected result.* `ReluLeft`, `FftLeft`, `DitherLeft`, `Conv2dLeft`,
    `MinSearchLeft` and `TestCopied` compare the last world with `Expected`. `Sums` of conv2d grow by a row of the
    filter with each run, and no run stores on the `Border`, which keeps its zeros. The carry of dither and the error of `gendata.py` are two recursions: both
    are shown to satisfy the same step, and `Induction`, from `WFMin`, that they agree.
    The search of the kernel and that of `gendata.py` begin with different minima, so they only
    `Agree` on what is below 50; `LowKept` says that two low words are never given up for higher ones, so that
    the last word, which the kernel leaves out, changes nothing (`LastUnused`). When the kernel delivers is up to
    the delays: main writes the number of words into its table, and no patch makes a delay 0
    (`Delays`, `Delayed`), so that longer inputs only append here too.
* `DataGiven` is the hypothesis of `AppsStreamsBalance`, `AppsNoOverwrite` and `AppsResultsExact`: at least
  one word for each data set, three for relu. With fewer a column that the kernel reads would get a vector
  of size 0. `WordsGiven`, for `AppsResultsExact`, says that the data are integers. `MinimaGiven`, for minsearch
  alone, says that two words are below 50 and not above the last word; without it kernel and
  `gendata.py` may differ. The shipped data set and that of the run satisfy all three. How many words
  minsearch stores is outside of `StreamsBalance`, since it depends on delays and not on lengths.

**Only model-checked.**

* Liveness (`RunCompletes`, `ReadyReturns`, `PollEnds`, `CalmWaitEnds`, `AllDelivered`,
  `ProgramEnds`) is out of the prover's reach: its rules for fairness need ENABLED.
* `ImplementsKernel` for minsearch, which holds only while its two streams stay together.
* `OutputsExact` with a memory that answers late while the array executes, and with a
  kernel that has a token of its own.

## 6. What is not modelled, and why

* In the array: the branch outputs of the function unit (no loaded kernel selects
  them), the ALU operations other than add, subtract, multiply, compare and select, and the
  wrap of a word at 32 bits, which the values of the runs do not reach.
* The six tables of `kernels.h` that no application loads, and the accessors of `strela.h` that
  none calls. `get_pe_delay_value` returns the upper half of the word that
  `set_pe_delay_value` writes the lower half of; nobody reads a delay back.
* Strides other than one word, sizes near the wrap of the 16-bit offset, and a stride of 0:
  no application uses them.
* The value of the performance counters: `StrelaApps` keeps which runs they cover.
* CLR_CONF or parameters during a run: `HandsOffDuringRun` shows that no application does it.
* `hello_world_ext` only prints.
* Replacing a kernel with an initial token on the direct way to an output. The clears keep
  `conf_reg`, so a PE with `initial_valid` makes its token again while the accelerator is idle,
  and the output node accepts tokens in every state. That is right for the kernel's own next run, which
  `strela_exclusive` covers; another kernel's results would start with it. `Replaceable`
  leaves such a kernel loaded. Those that applications load keep their token inside the array:
  dither in a loop, minsearch beside operands that wait.
* Merging two streams: no table that an application loads does, so a token that `join_merge` drops when
  both arrive in one cycle is not in reach of `cgra`.
* What an array astray computes. It may take and give anything, which is all that
  `OutputsExact` and `RunCompletes` need.
* `strela_reg_top.sv` is generated; only its rule that a software write wins over
  hardware in the same cycle is used.
* The interconnect is present only as the contract a master sees: one transaction
  outstanding, the next grant no earlier than the response, a limited number of
  grants per cycle, other masters in between.
* X-TRELA's top, the FPGA wrapper and the test bench only instantiate and wire.
* CPU, memories, DMA and peripherals are environment. Interrupt entry is
  modelled, instruction execution is not.
* Printing, and the data sets themselves beyond the facts named under the bounds.
* Vendoring scripts and build configuration have no behaviour at run time.

## 7. Plan

Done, in this order: token buffers with their abstract FIFO; control unit and
memory nodes; the accelerator composed; interrupt controller and application;
processing element and array with their stream functions; the applications as programs; the
abstract run between accelerator and application; safety proofs of all of them, last those that
follow the words through the accelerator and the programs through their runs.

Next, most important first:

1. **Interconnect** (`VarLatXbar`): `rr_arb_tree`, `addr_dec_resp_mux_varlat`,
   the FSM of `xbar_varlat_n_to_one`: responses reach the master that asked, and a
   persistent request is granted. It would discharge the bus contract and the fairness that
   `StrelaTop` assumes.
2. **A driver without discipline**: CLR_CONF or parameters during a run; strides and sizes
   near the wrap of 16 bits.
3. **`StrelaTop` with `Cgra`** in place of its paths: one kernel at a time, so that what a
   run writes is the kernel's stream function.
4. **Proofs** of `ImplementsKernel` for minsearch whose streams stay together, and of
   `StrelaOutputs` with a memory that answers late while the array executes, and with `Initial`.

## 8. Running it

    tlc -config MCStrelaTop_exclusive.cfg MCStrelaTop.tla
    tlc -config MCCgra.cfg MCCgra.tla
    tlc -config MCStrelaApps.cfg MCStrelaApps.tla
    tlapm StrelaTop_proofs.tla
    tlapm StrelaConfig_proofs.tla
    tlapm StrelaApps_proofs.tla
    tlapm KernelTables_proofs.tla

`StrelaConfig_proofs` extends `StrelaTop_proofs`, and `KernelTables_proofs` extends `Cgra_proofs`.
The longest, `StrelaApps_proofs` and `KernelTables_proofs`, take some minutes.

`PROJECT.json` lists every run with its properties, the mutated definition that
shows each property can fail, the source lines each definition stands for, the
hazards the properties are aimed at and the theorems.
