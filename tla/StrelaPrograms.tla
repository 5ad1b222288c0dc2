---------------------------- MODULE StrelaPrograms ----------------------------
(***************************************************************************)
(* The applications of sw/applications as data: the arrays of their        *)
(* dataset.h, the results gendata.py expects of them, and main as the      *)
(* sequence of what it does to the accelerator, one element per access of  *)
(* a register pair or of memory.  StrelaApps executes them.                *)
(***************************************************************************)
EXTENDS KernelStreams

CONSTANTS
    SIZE,   \* conv2d: words of a row
    TEST,   \* strela_test: words of a vector
    Given   \* by application: the input arrays, as sequences

DATA_SIZE(app) == Len(Given[app][1])

ASSUME GivenAssumption ==
    /\ SIZE \in Nat \ {0, 1, 2} /\ TEST \in Nat \ {0}
    /\ DATA_SIZE("conv2d") = SIZE * SIZE
    /\ DATA_SIZE("fft") % 2 = 0
    /\ DATA_SIZE("minsearch") < 2^16
    /\ DATA_SIZE("fft") = Len(Given["fft"][2])

\* *_PARAM packs a stride into the upper half of a word and a size in bytes
\* into the lower: the vectors of the shipped datasets fit.
Shipped == {15625 - 2 * 125 - 2, 15625 \div 3 + (15625 % 3), 7688 \div 2, 15625, 2000}
ASSUME ParamsFit == \A words \in Shipped : 4 * words < 2^16

-----------------------------------------------------------------------------
(* Arrays in memory, indexed as in C                                       *)

Array(seq) == [i \in 0 .. Len(seq) - 1 |-> seq[i + 1]]
Zeros(n)   == [i \in 0 .. n - 1 |-> 0]

InputAndZeros(app, n) == [input |-> Array(Given[app][1]), output |-> Zeros(n)]

Conv2dData    == InputAndZeros("conv2d", DATA_SIZE("conv2d"))
DitherData    == InputAndZeros("dither", DATA_SIZE("dither"))
MinSearchData == InputAndZeros("minsearch", 4)
ReluData      == InputAndZeros("relu", DATA_SIZE("relu"))
FftData       == [real |-> Array(Given["fft"][1]), imag |-> Array(Given["fft"][2])]
TestData      == [x \in {"a", "b", "c", "d", "e", "f", "g", "h"} |-> Zeros(TEST)]

Data == [conv2d |-> Conv2dData, dither |-> DitherData, minsearch |-> MinSearchData,
         relu |-> ReluData, fft |-> FftData, test |-> TestData]

-----------------------------------------------------------------------------
(* What gendata.py expects                                                 *)

Conv2dExpected ==
    LET X == Conv2dData.input
        filter == <<0, -1, 0, -1, 5, -1, 0, -1, 0>>
        at(i, j) == filter[3 * i + j + 1]
        Z(k) == at(0, 0) * X[k] + at(0, 1) * X[k + 1] + at(0, 2) * X[k + 2]
                + at(1, 0) * X[k + SIZE] + at(1, 1) * X[k + SIZE + 1] + at(1, 2) * X[k + SIZE + 2]
                + at(2, 0) * X[k + 2 * SIZE] + at(2, 1) * X[k + 2 * SIZE + 1]
                + at(2, 2) * X[k + 2 * SIZE + 2]
    IN  [output |-> [i \in DOMAIN X |->
            IF i \in SIZE + 1 .. DATA_SIZE("conv2d") - SIZE - 2 THEN Z(i - SIZE - 1) ELSE 0]]

DitherExpected ==
    LET X == DitherData.input
        err[i \in DOMAIN X] ==
            LET out == X[i] + (IF i = 0 THEN 0 ELSE err[i - 1])
            IN  IF out > 127 THEN out - 255 ELSE out
        out(i) == X[i] + (IF i = 0 THEN 0 ELSE err[i - 1])
    IN  [output |-> [i \in DOMAIN X |-> IF out(i) > 127 THEN 255 ELSE 0]]

MinSearchExpected ==
    LET X == MinSearchData.input
        Z[i \in 0 .. DATA_SIZE("minsearch")] ==
            IF i = 0 THEN <<127, 0, 0, 0>>
            ELSE LET z == Z[i - 1]
                     x == X[i - 1]
                 IN  CASE x < z[1]               -> <<x, i - 1, z[1], z[2]>>
                       [] x >= z[1] /\ x < z[3]  -> <<z[1], z[2], x, i - 1>>
                       [] OTHER                  -> z
    IN  [output |-> Array(Z[DATA_SIZE("minsearch")])]

ReluExpected == [output |-> [i \in DOMAIN ReluData.input |-> Max({0, ReluData.input[i]})]]

FftExpected ==
    LET X == FftData.real
        Y == FftData.imag
        G == DATA_SIZE("fft") \div 2
        t_r(i) == 7 * X[i + G] - (-3) * Y[i + G]
        t_i(i) == (-3) * X[i + G] + 7 * Y[i + G]
    IN  [real |-> [i \in DOMAIN X |-> IF i < G THEN X[i] + t_r(i) ELSE X[i - G] - t_r(i - G)],
         imag |-> [i \in DOMAIN Y |-> IF i < G THEN Y[i] + t_i(i) ELSE Y[i - G] - t_i(i - G)]]

\* strela_test compares nothing; its kernel copies a .. d to e .. h.
Filled(factor) == [i \in 0 .. TEST - 1 |-> factor * i]
TestExpected == [e |-> Filled(1), f |-> Filled(2), g |-> Filled(3), h |-> Filled(4)]

Expected == [conv2d |-> Conv2dExpected, dither |-> DitherExpected,
             minsearch |-> MinSearchExpected, relu |-> ReluExpected,
             fft |-> FftExpected, test |-> TestExpected]

-----------------------------------------------------------------------------
(* What a main does                                                        *)

EnableInterrupts == [op |-> "enable"]
Ctrl(bits)       == [op |-> "ctrl", bits |-> bits]
Mode(bits)       == [op |-> "mode", bits |-> bits]
Conf(kernel)     == [op |-> "conf", kernel |-> kernel]
Unflag           == [op |-> "unflag"]
WaitIntr         == [op |-> "wait"]
Poll             == [op |-> "poll"]

\* Words n of an array from index at, to read or to write.
Stream(array, at, n)    == [array |-> array, at |-> at, n |-> n]
Imn(c, array, at, n)    == [op |-> "imn", node |-> c, stream |-> Stream(array, at, n)]
Omn(c, array, at, n)    == [op |-> "omn", node |-> c, stream |-> Stream(array, at, n)]
Store(array, values)    == [op |-> "store", array |-> array, values |-> values]
Patch(kernel, word, to) == [op |-> "patch", kernel |-> kernel, word |-> word, to |-> to]
ReadCounters(runs)      == [op |-> "read", runs |-> runs]

Begin == <<EnableInterrupts, Ctrl({"CLR"}), Mode({"PERF_CTR_EN", "INTR_EN"})>>

RunIntr == <<Ctrl({"START"}), Unflag, WaitIntr>>
RunPoll == <<Ctrl({"START"}), Poll>>

\* The report covers the runs that main made; the check ends the program.
Finish(runs) == <<Mode({}), ReadCounters(runs), Ctrl({"CLR"})>>

\* strela.h: where the configuration of a PE lies in a table, and the word of
\* it that holds the delay in its lower half.  A delay of more than 16 bits
\* would change the upper half, the buffer enables.
PE_POSITION == <<0, 4, 8, 12, 1, 5, 9, 13, 2, 6, 10, 14, 3, 7, 11, 15>>
SetPeDelayValue(kernel, pe, value) ==
    Patch(kernel, PE_POSITION[pe + 1] * 5 + 4, value)

-----------------------------------------------------------------------------
(* strela_conv2d/main.c                                                    *)

Conv2dWords == DATA_SIZE("conv2d") - 2 * SIZE - 2

\* A row of the filter on the three words from each place of a row of input.
Row(kernel, from) ==
    <<Conf(kernel), Imn(0, "input", from, Conv2dWords),
      Imn(1, "input", from + 1, Conv2dWords), Imn(2, "input", from + 2, Conv2dWords)>>

\* Mutants: the sums are written one place further, the configuration of the
\* row before or its table are kept.
AccumulateShifted ==
    <<Imn(3, "output", SIZE + 1, Conv2dWords), Omn(3, "output", SIZE + 2, Conv2dWords)>>
NewRowKeepsConf == <<Ctrl({"CLR_PARAM"})>>
ThirdRowKept    == <<>>

\* The sums so far are read and written back in place.
Accumulate ==
    <<Imn(3, "output", SIZE + 1, Conv2dWords), Omn(3, "output", SIZE + 1, Conv2dWords)>>

NewRow == <<Ctrl({"CLR_PARAM", "CLR_CONF"})>>

ThirdRow ==
    <<Patch("conv2d_2", 3, 0), Patch("conv2d_2", 23, -1), Patch("conv2d_2", 43, 0)>>

Conv2d ==
    Begin \o Row("conv2d_1", 0) \o <<Omn(2, "output", SIZE + 1, Conv2dWords)>> \o RunIntr
    \o NewRow \o Row("conv2d_2", SIZE) \o Accumulate \o RunIntr
    \o ThirdRow
    \o NewRow \o Row("conv2d_2", 2 * SIZE) \o Accumulate \o RunIntr \o Finish(1 .. 3)

-----------------------------------------------------------------------------
(* strela_relu, strela_fft, strela_dither_filter, strela_double_min_search *)

\* Three parts, the last one longer by what does not divide.
Relus ==
    LET chunk == DATA_SIZE("relu") \div 3
        last  == chunk + (DATA_SIZE("relu") % 3)
    IN  Begin
        \o <<Conf("relu"), Imn(0, "input", 0, chunk), Imn(1, "input", chunk, chunk),
             Imn(3, "input", 2 * chunk, last), Omn(0, "output", 0, chunk),
             Omn(2, "output", chunk, chunk), Omn(3, "output", 2 * chunk, last)>>
        \o RunIntr \o Finish({1})

Ffts ==
    LET G == DATA_SIZE("fft") \div 2
    IN  Begin
        \o <<Conf("fft"), Imn(0, "real", G, G), Imn(1, "real", 0, G),
             Imn(2, "imag", 0, G), Imn(3, "imag", G, G), Omn(0, "real", G, G),
             Omn(1, "real", 0, G), Omn(2, "imag", G, G), Omn(3, "imag", 0, G)>>
        \o RunIntr \o Finish({1})

Dithers ==
    Begin
    \o <<Conf("dither"), Imn(0, "input", 0, DATA_SIZE("dither")),
         Omn(0, "output", 0, DATA_SIZE("dither"))>>
    \o RunIntr \o Finish({1})

MinSearches ==
    LET N == DATA_SIZE("minsearch")
    IN  <<EnableInterrupts>>
        \o [i \in 1 .. 4 |-> SetPeDelayValue("minsearch", <<1, 7, 10, 13>>[i], N)]
        \o Tail(Begin)
        \o <<Conf("minsearch"), Imn(0, "input", 0, N), Imn(2, "input", 0, N),
             Omn(0, "output", 0, 1), Omn(1, "output", 1, 1), Omn(2, "output", 3, 1),
             Omn(3, "output", 2, 1)>>
        \o RunIntr \o Finish({1})

-----------------------------------------------------------------------------
(* strela_test/main.c: seven runs waited for by polling, seven by interrupt *)

TestStreams ==
    <<Imn(0, "a", 0, TEST), Imn(1, "b", 0, TEST), Imn(2, "c", 0, TEST), Imn(3, "d", 0, TEST),
      Omn(0, "e", 0, TEST), Omn(1, "f", 0, TEST), Omn(2, "g", 0, TEST), Omn(3, "h", 0, TEST)>>

\* What the runs check: all of it cleared, the parameters, the configuration.
AfterClear(mode) == <<Ctrl({"CLR"})>> \o mode \o <<Conf("bypass")>> \o TestStreams
AfterParamClear  == <<Ctrl({"CLR_PARAM"})>> \o TestStreams
AfterConfClear   == <<Ctrl({"CLR_CONF"}), Conf("bypass")>>

TestPolling ==
    <<Conf("bypass")>> \o TestStreams \o RunPoll \o AfterClear(<<>>) \o RunPoll
    \o AfterParamClear \o RunPoll \o AfterConfClear \o RunPoll
    \o <<Mode({"PERF_CTR_EN"})>> \o RunPoll
    \o AfterParamClear \o RunPoll \o AfterConfClear \o RunPoll
    \o <<Mode({}), ReadCounters(5 .. 7)>>

\* CLR resets MODE as well.  Mutant: it is not written again.
ListenAgainForgotten == <<>>
ListenAgain == <<Mode({"INTR_EN"})>>

TestInterrupts ==
    <<Mode({"INTR_EN"})>> \o RunIntr
    \o AfterClear(ListenAgain) \o RunIntr
    \o AfterParamClear \o RunIntr \o AfterConfClear \o RunIntr
    \o <<Mode({"PERF_CTR_EN", "INTR_EN"})>> \o RunIntr
    \o AfterParamClear \o RunIntr \o AfterConfClear \o RunIntr
    \o <<Mode({}), ReadCounters(12 .. 14)>>

Tests ==
    <<EnableInterrupts, Store("a", Filled(1)), Store("b", Filled(2)),
      Store("c", Filled(3)), Store("d", Filled(4))>>
    \o TestPolling \o TestInterrupts

Program == [conv2d |-> Conv2d, relu |-> Relus, fft |-> Ffts, dither |-> Dithers,
            minsearch |-> MinSearches, test |-> Tests]

Apps == DOMAIN Program
=============================================================================
