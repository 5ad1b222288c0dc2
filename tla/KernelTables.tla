----------------------------- MODULE KernelTables -----------------------------
(***************************************************************************)
(* The tables of kernels.h that the applications load, decoded: for each   *)
(* PE that a kernel uses, by <<column, row>>, where its forks send and     *)
(* what its cell computes.  The bits are cut as in PE_superpolyvalent.sv   *)
(* and PC_superpolyvalent.sv.                                              *)
(***************************************************************************)
EXTENDS ProcessingElement, KernelStreams

\* Whoever feeds target t: the side whose fork includes it.
Feeds(to, t) ==
    LET from(s) == s \in DOMAIN to /\ t \in to[s]
    IN  CASE from("N") -> "N" [] from("E") -> "E" [] from("S") -> "S" [] from("W") -> "W"
          [] OTHER -> "none"

\* A PE whose multiplexers select what its forks send, with a join and an adder.
Wired(to, fork) ==
    [to |-> to, fork |-> fork,
     op  |-> [o \in Operands \cup {"c"} |-> Feeds(to, o)],
     out |-> [s \in Sides |-> IF s \in fork THEN "dout" ELSE Feeds(to, s)],
     mode |-> "join", alu |-> "add", res |-> "alu", feedback |-> FALSE,
     const |-> 0, delay |-> 0, init |-> 0, starts |-> FALSE]

Pass(from, to)      == Wired([s \in {from} |-> {to}], {})
Add(to, fork)       == Wired(to, fork)
Sub(to, fork)       == [Wired(to, fork) EXCEPT !.alu = "sub"]
Mul(to, fork)       == [Wired(to, fork) EXCEPT !.alu = "mul"]
With(o, k, cell)    == [cell EXCEPT !.op[o] = "I1", !.const = k]
GreaterZero(cell)   == [cell EXCEPT !.res = "gtz"]
Select(to, fork)    == [Wired(to, fork) EXCEPT !.mode = "mux", !.res = "mux"]
StartsWith(x, cell) == [cell EXCEPT !.init = x, !.starts = TRUE]

\* Keeps one of the value it has and the one that comes; the south output
\* delivers what it has when it has fired n times.
Keep(x, n, to, fork) ==
    [StartsWith(x, Select(to, fork)) EXCEPT !.op["1"] = "dout", !.out["S"] = "delayed", !.delay = n]

\* The PEs of a table that are not listed pass words from north to south.
Down == Pass("N", "S")

BypassTable == [p \in Columns \X {0, 1, 2, 3} |-> Down]

Sign(to) == GreaterZero(With("2", 0, Add([N |-> to], {"S"})))

ReluTable ==
    [p \in (Columns \X {0, 1}) \cup ({0, 2, 3} \X {2, 3}) |->
     CASE p = <<0, 0>> -> Sign({"1", "W"})
       [] p = <<0, 1>> -> Mul([N |-> {"2"}, W |-> {"1"}], {"S"})
       [] p = <<1, 0>> -> Sign({"1", "E"})
       [] p = <<1, 1>> -> Pass("N", "E")
       [] p = <<2, 0>> -> Mul([S |-> {"2"}, W |-> {"1"}], {"S"})
       [] p = <<2, 1>> -> Wired([N |-> {"S"}, W |-> {"N"}], {})
       [] p = <<3, 0>> -> Sign({"1", "E"})
       [] p = <<3, 1>> -> Mul([N |-> {"1"}, E |-> {"2"}], {"S"})
       [] OTHER -> Down]

FftTable ==
    [p \in Columns \X {0, 1, 2, 3} |->
     CASE p = <<0, 0>> -> With("2", 7, Mul([N |-> {"1", "W"}, E |-> {"S"}], {"E"}))
       [] p = <<0, 1>> -> With("2", -3, Mul([N |-> {"S"}, W |-> {"1"}], {"E"}))
       [] p = <<0, 3>> -> Sub([N |-> {"1", "E"}, E |-> {"2"}], {"S"})
       [] p = <<1, 0>> -> Sub([N |-> {"W"}, E |-> {"2"}, W |-> {"1"}], {"S"})
       [] p = <<1, 1>> -> Wired([N |-> {"S"}, W |-> {"E"}], {})
       [] p = <<1, 3>> -> Add([N |-> {"2", "W"}, W |-> {"1"}], {"S"})
       [] p = <<2, 0>> -> Wired([N |-> {"E"}, E |-> {"W"}], {})
       [] p = <<2, 1>> -> Add([E |-> {"2"}, W |-> {"1"}], {"S"})
       [] p = <<2, 3>> -> Sub([N |-> {"2", "E"}, E |-> {"1"}], {"S"})
       [] p = <<3, 0>> -> With("1", -3, Mul([N |-> {"2", "E"}, W |-> {"S"}], {"W"}))
       [] p = <<3, 1>> -> With("1", 7, Mul([N |-> {"S"}, E |-> {"2"}], {"W"}))
       [] p = <<3, 3>> -> Add([N |-> {"2", "W"}, W |-> {"1"}], {"S"})
       [] OTHER -> Down]

Scale(k)   == With("2", k, Mul([N |-> {"1"}], {"S"}))
Sum(fork)  == Add([N |-> {"2"}, W |-> {"1"}], fork)

Conv2d1Table ==
    [p \in ({0, 1, 2} \X {0, 1}) \cup ({2} \X {2, 3}) |->
     CASE p = <<0, 0>> -> Scale(0)
       [] p = <<1, 0>> -> Scale(-1)
       [] p = <<2, 0>> -> Scale(0)
       [] p = <<0, 1>> -> Pass("N", "E")
       [] p = <<1, 1>> -> Sum({"E"})
       [] p = <<2, 1>> -> Sum({"S"})
       [] OTHER -> Down]

Conv2d2Table(w) ==
    [p \in (Columns \X {0, 1}) \cup ({3} \X {2, 3}) |->
     CASE p = <<0, 0>> -> Scale(w[3])
       [] p = <<1, 0>> -> Scale(w[23])
       [] p = <<2, 0>> -> Scale(w[43])
       [] p = <<0, 1>> -> Pass("N", "E")
       [] p \in {<<1, 1>>, <<2, 1>>} -> Sum({"E"})
       [] p = <<3, 1>> -> Sum({"S"})
       [] OTHER -> Down]

\* The carry runs round the upper two rows; one token is on its way at first.
DitherTable ==
    [p \in ({0} \X {0, 1, 2, 3}) \cup ({1} \X {0, 1, 2}) |->
     CASE p = <<0, 0>> -> Add([N |-> {"1"}, E |-> {"2"}], {"S", "E"})
       [] p = <<0, 1>> -> GreaterZero(With("2", 127, Sub([N |-> {"1"}], {"S", "E"})))
       [] p = <<0, 2>> -> With("2", 255, Mul([N |-> {"1"}], {"S"}))
       [] p = <<1, 0>> -> Wired([S |-> {"W"}, W |-> {"S"}], {})
       [] p = <<1, 1>> -> StartsWith(0, Select([N |-> {"1", "S"}, S |-> {"2"}, W |-> {"c"}], {"N"}))
       [] p = <<1, 2>> -> With("2", 255, Sub([N |-> {"1"}], {"N"}))
       [] OTHER -> Down]

\* Two entries are not as the others.  <<2, 0>> takes its second operand from
\* the west, but the fork of the west buffer does not wait for it (the bit is in
\* the mask of the east side, which is off).  <<0, 3>> counts: it adds 1 to
\* what it has, and its second operand is offered tokens it does not look at.
MinSearchTable(w) ==
    [p \in Columns \X {0, 1, 2, 3} |->
     CASE p = <<0, 0>> -> GreaterZero(Sub([N |-> {"2", "E"}, E |-> {"1"}], {"S"}))
       [] p = <<0, 1>> -> Wired([N |-> {"E"}, E |-> {"S"}], {})
       [] p = <<0, 2>> -> Wired([N |-> {"S"}, S |-> {"E"}], {})
       [] p = <<0, 3>> -> [StartsWith(0, With("1", 1, Add([N |-> {"S"}], {"N", "E"})))
                           EXCEPT !.mode = "merge", !.feedback = TRUE, !.op["2"] = "N"]
       [] p = <<1, 0>> -> Keep(50, w[24], [S |-> {"c"}, W |-> {"2"}], {"W", "S", "E"})
       [] p = <<1, 1>> -> Wired([N |-> {"W"}, W |-> {"N", "E", "S"}], {})
       [] p = <<1, 2>> -> Select([N |-> {"c", "S"}, S |-> {"2"}, W |-> {"1"}], {"E"})
       [] p = <<1, 3>> -> Keep(80, w[39], [N |-> {"c"}, W |-> {"2"}], {"S", "N"})
       [] p = <<2, 0>> -> [Select([N |-> {"1"}, S |-> {"c"}, W |-> {}], {"S", "E"})
                           EXCEPT !.op["2"] = "W"]
       [] p = <<2, 1>> -> GreaterZero(Sub([N |-> {"2"}, E |-> {"1"}, W |-> {"N"}], {"S", "E"}))
       [] p = <<2, 2>> -> Keep(800, w[54], [N |-> {"c"}, W |-> {"2"}], {"S"})
       [] p = <<3, 0>> -> Pass("W", "S")
       [] p = <<3, 1>> -> Keep(50, w[69], [N |-> {"2"}, W |-> {"c"}], {"W", "S"})
       [] OTHER -> Down]

Table(kernel, w) ==
    CASE kernel = "bypass"    -> BypassTable
      [] kernel = "relu"      -> ReluTable
      [] kernel = "fft"       -> FftTable
      [] kernel = "conv2d_1"  -> Conv2d1Table
      [] kernel = "conv2d_2"  -> Conv2d2Table(w)
      [] kernel = "dither"    -> DitherTable
      [] kernel = "minsearch" -> MinSearchTable(w)

\* cells is what an application loads for job: words that it may change are integers.
Loads(job, cells) ==
    /\ job.kernel \in KernelNames
    /\ cells = Table(job.kernel, job.words)
    /\ \A i \in DOMAIN KernelWords[job.kernel] : job.words[i] \in Int
=============================================================================
