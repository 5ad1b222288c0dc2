------------------------------ MODULE StrelaApps ------------------------------
(***************************************************************************)
(* The applications of sw/applications from their first register access to *)
(* their check, with the registers of mmio_interface.sv and an accelerator *)
(* that moves one word of one stream in a step, in any order the streams   *)
(* allow: an input node reads ahead as far as its vector goes, an output   *)
(* node writes what the kernel has made of the words read so far.  What is *)
(* inside the accelerator is in StrelaTop and Cgra, how main waits for an  *)
(* interrupt in StrelaApp: here a run ends only once main waits for it,    *)
(* and every configuration is exact, which on the bus takes a bank that no *)
(* other master wins while it is read (StrelaTop, ConfigExact).            *)
(***************************************************************************)
EXTENDS StrelaPrograms

CONSTANTS Running     \* the applications to run

ASSUME RunningAssumption == Running \subseteq Apps

VARIABLES
    app, todo,  \* the application and what its main has still to do
    flag,       \* strela_intr_flag
    irq,        \* whether the core takes the accelerator's interrupt
    regs,       \* MODE, STATUS.EXEC_DONE and the parameters
    conf,       \* what is configured: kernel, its words, whether it counts
    tables,     \* kernels.h in memory, the words that change
    mem,        \* the arrays of the application
    acc,        \* state of the run, its number, what was read and written
    counted     \* runs whose cycles are in the performance counters

vars == <<app, todo, flag, irq, regs, conf, tables, mem, acc, counted>>

NoKernel == "none"
NoStream == Stream("none", 0, 0)
NoParams == [conf_addr |-> NoKernel, imn |-> [c \in Columns |-> NoStream],
             omn |-> [c \in Columns |-> NoStream]]

\* Mutant: every run has the number 0.
Unnumbered(run) == [state |-> "idle", run |-> 0, got |-> [c \in Columns |-> <<>>],
                    put |-> [c \in Columns |-> 0]]

Idle(run) == [state |-> "idle", run |-> run, got |-> [c \in Columns |-> <<>>],
              put |-> [c \in Columns |-> 0]]

-----------------------------------------------------------------------------
(* main                                                                    *)

Done     == todo = <<>>
Now      == Head(todo)
At(op)   == ~Done /\ Now.op = op
Step(op) == At(op) /\ todo' = Tail(todo) /\ UNCHANGED app

\* enable_all_fast_interrupts, mstatus.MIE and the accelerator's bit of mie.
Enable == Step("enable") /\ irq' = TRUE
          /\ UNCHANGED <<flag, regs, conf, tables, mem, acc, counted>>

\* Mutants: a clear that misses a bit of CTRL, a START that leaves EXEC_DONE up.
ParamsKept(bits)      == "CLR" \in bits
CountersKept(bits)    == "CLR_PERF_CTR" \in bits
DoneKeptByStart(bits) == bits \cap {"CLR", "CLR_PARAM"} # {}

ClearsParams(bits)   == bits \cap {"CLR", "CLR_PARAM"} # {}
ClearsConf(bits)     == bits \cap {"CLR", "CLR_CONF"} # {}
ClearsCounters(bits) == bits \cap {"CLR", "CLR_PERF_CTR"} # {}
ClearsDone(bits)     == bits \cap {"CLR", "CLR_PARAM", "START"} # {}

\* A pulse on CTRL.
WriteCtrl ==
    /\ Step("ctrl")
    /\ regs' = [regs EXCEPT !.mode = IF "CLR" \in Now.bits THEN {} ELSE @,
                            !.done = @ /\ ~ClearsDone(Now.bits),
                            !.params = IF ClearsParams(Now.bits) THEN NoParams ELSE @]
    /\ conf' = [conf EXCEPT !.valid = @ /\ ~ClearsConf(Now.bits)]
    /\ counted' = IF ClearsCounters(Now.bits) THEN {} ELSE counted
    /\ acc' = IF "START" \in Now.bits /\ acc.state = "idle"
              THEN [Idle(acc.run + 1) EXCEPT !.state = "started"]
              ELSE IF "CLR" \in Now.bits THEN Idle(acc.run) ELSE acc
    /\ UNCHANGED <<flag, irq, tables, mem>>

WriteMode ==
    /\ Step("mode")
    /\ regs' = [regs EXCEPT !.mode = Now.bits]
    /\ UNCHANGED <<flag, irq, conf, tables, mem, acc, counted>>

WriteParams ==
    /\ \/ /\ Step("conf") /\ regs' = [regs EXCEPT !.params.conf_addr = Now.kernel]
       \/ /\ Step("imn") /\ regs' = [regs EXCEPT !.params.imn[Now.node] = Now.stream]
       \/ /\ Step("omn") /\ regs' = [regs EXCEPT !.params.omn[Now.node] = Now.stream]
    /\ UNCHANGED <<flag, irq, conf, tables, mem, acc, counted>>

StoreArray ==
    /\ Step("store") /\ mem' = [mem EXCEPT ![Now.array] = Now.values]
    /\ UNCHANGED <<flag, irq, regs, conf, tables, acc, counted>>

PatchKernel ==
    /\ Step("patch") /\ tables' = [tables EXCEPT ![Now.kernel][Now.word] = Now.to]
    /\ UNCHANGED <<flag, irq, regs, conf, mem, acc, counted>>

\* while (!(STATUS & 1));
PollDone ==
    /\ At("poll") /\ regs.done /\ Step("poll")
    /\ UNCHANGED <<flag, irq, regs, conf, tables, mem, acc, counted>>

UnflagIntr ==
    /\ Step("unflag") /\ flag' = FALSE
    /\ UNCHANGED <<irq, regs, conf, tables, mem, acc, counted>>

\* while (strela_intr_flag == 0) wait_for_interrupt();
WaitDone ==
    /\ At("wait") /\ flag /\ Step("wait")
    /\ UNCHANGED <<flag, irq, regs, conf, tables, mem, acc, counted>>

ReadReport ==
    /\ Step("read")
    /\ UNCHANGED <<flag, irq, regs, conf, tables, mem, acc, counted>>

Main == \/ Enable \/ WriteCtrl \/ WriteMode \/ WriteParams \/ StoreArray
        \/ PatchKernel \/ PollDone \/ UnflagIntr \/ WaitDone \/ ReadReport

-----------------------------------------------------------------------------
(* The accelerator                                                         *)

Fetches(c) == regs.params.imn[c]
Stores(c)  == regs.params.omn[c]

\* After START: a configuration is loaded unless one is held that counts.
Configure ==
    /\ acc.state = "started" /\ acc' = [acc EXCEPT !.state = "exec"]
    /\ conf' = IF conf.valid THEN conf
               ELSE [kernel |-> regs.params.conf_addr, valid |-> TRUE,
                     words |-> IF regs.params.conf_addr = NoKernel THEN <<>>
                               ELSE tables[regs.params.conf_addr]]
    /\ UNCHANGED <<app, todo, flag, irq, regs, tables, mem, counted>>

Fetch(c) ==
    /\ acc.state = "exec" /\ Len(acc.got[c]) < Fetches(c).n
    /\ LET x == mem[Fetches(c).array][Fetches(c).at + Len(acc.got[c])]
       IN  acc' = [acc EXCEPT !.got[c] = Append(@, x)]
    /\ UNCHANGED <<app, todo, flag, irq, regs, conf, tables, mem, counted>>

Made == Outputs(conf.kernel, conf.words, acc.got)

StoreWord(c) ==
    /\ acc.state = "exec" /\ acc.put[c] < Stores(c).n /\ acc.put[c] < Len(Made[c])
    /\ mem' = [mem EXCEPT ![Stores(c).array][Stores(c).at + acc.put[c]] =
                   Made[c][acc.put[c] + 1]]
    /\ acc' = [acc EXCEPT !.put[c] = @ + 1]
    /\ UNCHANGED <<app, todo, flag, irq, regs, conf, tables, counted>>

\* Every node is done: EXEC_DONE, and the interrupt handler raises the flag.
End ==
    /\ acc.state = "exec"
    /\ \A c \in Columns : Len(acc.got[c]) = Fetches(c).n /\ acc.put[c] = Stores(c).n
    /\ At("poll") \/ At("wait")
    /\ acc' = [acc EXCEPT !.state = "idle"]
    /\ regs' = [regs EXCEPT !.done = TRUE]
    /\ flag' = (flag \/ (irq /\ "INTR_EN" \in regs.mode))
    /\ counted' = IF "PERF_CTR_EN" \in regs.mode THEN counted \cup {acc.run} ELSE counted
    /\ UNCHANGED <<app, todo, irq, conf, tables, mem>>

Strela == Configure \/ End \/ \E c \in Columns : Fetch(c) \/ StoreWord(c)

Init ==
    /\ app \in Running /\ todo = Program[app]
    /\ flag = FALSE /\ irq = FALSE
    /\ regs = [mode |-> {}, done |-> FALSE, params |-> NoParams]
    /\ conf = [kernel |-> NoKernel, words |-> <<>>, valid |-> FALSE]
    /\ tables = KernelWords /\ mem = Data[app] /\ acc = Idle(0) /\ counted = {}

Next == Main \/ Strela

Spec == Init /\ [][Next]_vars

\* The CPU goes on executing, and so does a run that has words to move
\* (RunCompletes of StrelaTop, where nobody disturbs the configuration): no
\* step can be repeated forever.
FairSpec == Spec /\ WF_vars(Next)

-----------------------------------------------------------------------------
(* What the applications promise                                           *)

TypeOK ==
    /\ app \in Running /\ IsSuffix(todo, Program[app])
    /\ flag \in BOOLEAN /\ irq \in BOOLEAN
    /\ regs.mode \subseteq {"PERF_CTR_EN", "INTR_EN"} /\ regs.done \in BOOLEAN
    /\ regs.params.conf_addr \in KernelNames \cup {NoKernel}
    /\ conf.kernel \in KernelNames \cup {NoKernel} /\ conf.valid \in BOOLEAN
    /\ acc.state \in {"idle", "started", "exec"} /\ acc.run \in Nat
    /\ counted \subseteq 1 .. acc.run

\* When main ends, memory holds what gendata.py expects, whatever the order
\* in which the nodes moved their words: in particular the sums that conv2d
\* and the vectors that fft read and write in place (main.c, Check results).
ResultsExact ==
    Done => \A a \in DOMAIN Expected[app] : mem[a] = Expected[app][a]

\* No run overwrites a word that one of its own nodes has still to read.
NoOverwrite ==
    [][\A c \in Columns : acc'.put[c] = acc.put[c] + 1 =>
        \A d \in Columns :
            \/ Fetches(d).array # Stores(c).array
            \/ Stores(c).at + acc.put[c] \notin
                   Fetches(d).at + Len(acc.got[d]) .. Fetches(d).at + Fetches(d).n - 1]_vars

\* A run executes the kernel main named last, as its table reads now: a table
\* patched between two runs is loaded again (strela_conv2d/main.c:101-106), and
\* no run starts without one when the parameters were cleared
\* (strela_test/main.c:134-155).
KernelIsCurrent ==
    acc.state = "exec" =>
        /\ conf.kernel # NoKernel /\ conf.words = tables[conf.kernel]
        /\ regs.params.conf_addr \in {NoKernel, conf.kernel}

\* A run is given vectors for exactly the columns its kernel reads, inside their
\* arrays, and stores exactly the words the kernel makes of them: no node waits
\* for a word that never comes and none is left in the array.
StreamsBalance ==
    acc.state = "exec" =>
        /\ InputsOf[conf.kernel] = {c \in Columns : Fetches(c).n > 0}
        /\ \A c \in Columns :
             /\ Fetches(c).n > 0 => Fetches(c).at + Fetches(c).n - 1 \in DOMAIN mem[Fetches(c).array]
             /\ Stores(c).n > 0 => Stores(c).at + Stores(c).n - 1 \in DOMAIN mem[Stores(c).array]
             /\ LET read == [d \in Columns |-> [i \in 1 .. Fetches(d).n |-> 0]]
                IN  conf.kernel # "minsearch" =>
                        Stores(c).n = Len(Outputs(conf.kernel, conf.words, read)[c])

\* The counters that main reports cover the runs main means to measure, no run
\* of before them and none too few (main.c, the report; strela_test/main.c:170-220,
\* 303-356).
CountersExact == At("read") => counted = Now.runs

\* Main touches the registers, the tables and the arrays only while no run is
\* under way: what StrelaTop assumes of its driver.
HandsOffDuringRun ==
    [][acc.state # "idle" /\ todo' # todo =>
        UNCHANGED <<regs, conf, tables, mem, acc, counted>>]_vars

\* Main reaches its end: no wait is for an interrupt that is not enabled (CLR
\* resets MODE, mmio_interface.sv:84) and no run for words that nobody sends.
ProgramEnds == <>Done
=============================================================================
