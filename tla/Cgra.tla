--------------------------------- MODULE Cgra ---------------------------------
(***************************************************************************)
(* cgra/CGRA.sv: the array of processing elements with a kernel loaded,    *)
(* between its input and its output nodes.  One step is one clock edge; in *)
(* each the environment chooses which columns have a word on offer and     *)
(* which output nodes are ready.  An input node does not take back a word  *)
(* it has offered (input_memory_node.sv:154).                              *)
(***************************************************************************)
EXTENDS ProcessingElement, KernelStreams

CONSTANTS
    Jobs,       \* by job: [kernel, words, input]
    Cells,      \* by job: the configuration of the PEs in use, by <<column, row>>
    MaxStalls   \* by job: words not offered at once and results refused

Rows == 0 .. 3

IsConfiguration(cell) ==
    /\ DOMAIN cell.to \subseteq Sides
    /\ \A s \in DOMAIN cell.to : cell.to[s] \subseteq Targets
    /\ cell.fork \subseteq Sides \cup Operands
    /\ cell.op \in [Operands \cup {"c"} -> Sources]
    /\ cell.out \in [Sides -> Sources \ {"I1"}]
    /\ cell.const \in Int /\ cell.init \in Int /\ cell.starts \in BOOLEAN
    /\ cell.delay \in 0 .. 2^16 - 1

ASSUME CellsAssumption ==
    \A j \in DOMAIN Jobs : /\ DOMAIN Cells[j] \subseteq Columns \X Rows
                           /\ \A p \in DOMAIN Cells[j] : IsConfiguration(Cells[j][p])

ASSUME InputAssumption ==
    \A j \in DOMAIN Jobs : \A c \in Columns : Jobs[j].input[c] \in Seq(Int)

VARIABLES
    job,        \* the kernel and the streams of this behaviour
    conf,       \* the configuration registers, decoded
    pe,         \* the other registers of the PEs
    offered,    \* columns whose next word waits at the array
    got, put,   \* words taken, and results delivered, by column
    stalls,     \* what is left of MaxStalls
    lost        \* tokens that the last cycle dropped

vars == <<job, conf, pe, offered, got, put, stalls, lost>>

PEs == DOMAIN conf

-----------------------------------------------------------------------------
(* The wires                                                               *)

\* The side of another PE that the wire from side s of PE p leads to.  At the
\* left and right edge wires go down to the next row.
Receiver(p, s) ==
    LET c == p[1]
        r == p[2]
    IN  CASE s = "N" -> <<<<c, r - 1>>, "S">>
          [] s = "S" -> <<<<c, r + 1>>, "N">>
          [] s = "E" -> IF c < 3 THEN <<<<c + 1, r>>, "W">> ELSE <<<<c, r + 1>>, "E">>
          [] s = "W" -> IF c > 0 THEN <<<<c - 1, r>>, "E">> ELSE <<<<c, r + 1>>, "W">>

\* The same wires seen from the side b that they enter.
Sender(p, b) ==
    LET c == p[1]
        r == p[2]
    IN  CASE b = "N" -> <<<<c, r - 1>>, "S">>
          [] b = "S" -> <<<<c, r + 1>>, "N">>
          [] b = "E" -> IF c < 3 THEN <<<<c + 1, r>>, "W">> ELSE <<<<c, r - 1>>, "E">>
          [] b = "W" -> IF c > 0 THEN <<<<c - 1, r>>, "E">> ELSE <<<<c, r - 1>>, "W">>

BufferReady(p, b) == p \in PEs /\ b \in DOMAIN pe[p].buf /\ pe[p].buf[b].ready

\* R are the columns whose output node is ready.
Ready(R) ==
    [p \in PEs |-> [s \in Sides |->
        IF s = "S" /\ p[2] = 3 THEN p[1] \in R
        ELSE BufferReady(Receiver(p, s)[1], Receiver(p, s)[2])]]

Out(ready) ==
    [p \in PEs |-> [s \in Sides |-> Selected(conf[p], pe[p], ready[p], conf[p].out[s])]]

\* O are the columns that are offered a word.
NextWord(c) == Jobs[job].input[c][got[c] + 1]
In(out, O) ==
    [p \in PEs |-> [b \in Sides |->
        LET from == Sender(p, b)
        IN  IF b = "N" /\ p[2] = 0 THEN IF p[1] \in O THEN <<NextWord(p[1])>> ELSE <<>>
            ELSE IF from[1] \in PEs THEN out[from[1]][from[2]] ELSE <<>>]]

Waiting == {c \in Columns : got[c] < Len(Jobs[job].input[c])}
Accepting(O) == {c \in O : BufferReady(<<c, 0>>, "N")}

\* Columns that the kernel delivers results from.
Delivering == {c \in Columns : <<c, 3>> \in PEs /\ conf[<<c, 3>>].out["S"] # "none"}

-----------------------------------------------------------------------------
(* A clock edge                                                            *)

Cycle(O, R) ==
    LET ready == Ready(R)
        out   == Out(ready)
        in    == In(out, O)
    IN  /\ pe' = [p \in PEs |-> PeTick(conf[p], pe[p], ready[p], in[p])]
        /\ got' = [c \in Columns |-> IF c \in Accepting(O) THEN got[c] + 1 ELSE got[c]]
        /\ offered' = O \ Accepting(O)
        /\ put' = [c \in Columns |-> IF c \in R THEN put[c] \o out[<<c, 3>>]["S"] ELSE put[c]]
        /\ lost' = UNION {{<<p, x>> : x \in Lost(conf[p], pe[p], ready[p])} : p \in PEs}
        /\ UNCHANGED <<job, conf>>

Next ==
    \E O \in SUBSET Waiting, R \in SUBSET Delivering :
        /\ offered \subseteq O
        /\ LET cost == Cardinality(Waiting \ O) + Cardinality(Delivering \ R)
           IN  cost <= stalls /\ stalls' = stalls - cost
        /\ Cycle(O, R)

Init ==
    /\ job \in DOMAIN Jobs
    /\ conf = Cells[job]
    /\ pe = [p \in PEs |-> PeReset(conf[p])]
    /\ offered = {} /\ got = [c \in Columns |-> 0] /\ put = [c \in Columns |-> <<>>]
    /\ stalls = MaxStalls[job] /\ lost = {}

Spec == Init /\ [][Next]_vars

\* The clock ticks.
FairSpec == Spec /\ WF_vars(Next)

-----------------------------------------------------------------------------
(* What the array promises                                                 *)

\* A buffer never holds more than its two places, nor more than one while its
\* registered ready invites another token.
Fits(buf) == buf.q \in Seq(Int) /\ Len(buf.q) <= 2 /\ (buf.ready => Len(buf.q) <= 1)

PeTypeOK(cell, p) ==
    /\ DOMAIN p.buf = Buffers(cell)
    /\ \A b \in Buffers(cell) : p.buf[b].ready \in BOOLEAN /\ Fits(p.buf[b])
    /\ p.primed \in BOOLEAN /\ p.v \in BOOLEAN
    /\ p.dout \in Int /\ p.cnt \in 0 .. 2^16 - 1

TypeOK ==
    /\ job \in DOMAIN Jobs /\ conf = Cells[job]
    /\ DOMAIN pe = PEs /\ \A p \in PEs : PeTypeOK(conf[p], pe[p])
    /\ offered \subseteq Waiting /\ got \in [Columns -> Nat]

\* In an array whose tables let every fork wait for all its receivers no cycle
\* drops a token, whatever stalls where: what leaves a buffer or a function unit
\* is captured, operands are only taken together, and nothing fires before the
\* initial token is loaded.
NoTokenLost == (\A p \in PEs : WellRouted(conf[p])) => lost = {}

Kernel == INSTANCE StreamKernel

\* The results do not depend on when words come and results go: the array
\* implements the stream function of its kernel.
ImplementsKernel == Kernel!KernelSpec

\* Every result of the whole input is delivered in the end: no ring of buffers
\* and forks locks up, whichever column was late.
AllDelivered ==
    <>(\A c \in Columns :
         Len(put[c]) = Len(Kernel!Result([d \in Columns |-> Len(Jobs[job].input[d])])[c]))
=============================================================================
