--------------------------- MODULE StrelaApps_proofs ---------------------------
(***************************************************************************)
(* For every data set, and whatever the order in which the nodes move      *)
(* their words: no application touches a register, a table or an array     *)
(* while a run is under way, each run executes the kernel and has the      *)
(* vectors that main means, the counters cover the runs main reports, no   *)
(* run stores over a word that it has still to read, and memory ends as    *)
(* the data sets expect.  Each main is put together from accesses that     *)
(* start nothing and from runs, a START with the wait for it: what holds   *)
(* of a program is shown of its pieces and put together with them.         *)
(***************************************************************************)
EXTENDS StrelaApps, SequenceTheorems, WellFoundedInduction, TLAPS

Starts(a) == a.op = "ctrl" /\ "START" \in a.bits

\* What a register takes that does not take every value.
IsAccess(a) ==
    /\ a.op = "mode" => a.bits \subseteq {"PERF_CTR_EN", "INTR_EN"}
    /\ a.op = "conf" => a.kernel \in KernelNames

Harmless(a) == IsAccess(a) /\ ~Starts(a)

\* After each START main polls, or resets the flag and waits for the interrupt.
WaitedFor(s, i) ==
    \/ i < Len(s) /\ s[i + 1].op = "poll"
    \/ i + 1 < Len(s) /\ s[i + 1].op = "unflag" /\ s[i + 2].op = "wait"

Disciplined(s) ==
    /\ \E S : s \in Seq(S)
    /\ \A i \in 1 .. Len(s) : IsAccess(s[i]) /\ (Starts(s[i]) => WaitedFor(s, i))

-----------------------------------------------------------------------------
(* Pieces of programs                                                      *)

LEMMA SameSet ==
  ASSUME NEW s, NEW t, \E S : s \in Seq(S), \E S : t \in Seq(S)
  PROVE  \E S : s \in Seq(S) /\ t \in Seq(S)
<1>1. PICK S : s \in Seq(S)
  OBVIOUS
<1>2. PICK T : t \in Seq(T)
  OBVIOUS
<1>3. s \in Seq(S \cup T) /\ t \in Seq(S \cup T)
  BY <1>1, <1>2
<1> QED BY <1>3

LEMMA DisciplineConcat ==
  ASSUME NEW s, NEW t, Disciplined(s), Disciplined(t)
  PROVE  Disciplined(s \o t)
<1>1. PICK S : s \in Seq(S) /\ t \in Seq(S)
  BY SameSet DEF Disciplined
<1>2. PICK k \in Nat, m \in Nat : k = Len(s) /\ m = Len(t)
  BY <1>1, LenProperties
<1>3. /\ s \o t \in Seq(S) /\ Len(s \o t) = k + m
      /\ \A i \in 1 .. k + m : (s \o t)[i] = IF i <= k THEN s[i] ELSE t[i - k]
  BY <1>1, <1>2, ConcatProperties
<1>4. ASSUME NEW i \in 1 .. k + m
      PROVE  /\ IsAccess((s \o t)[i])
             /\ Starts((s \o t)[i]) => WaitedFor(s \o t, i)
  <2>1. CASE i <= k
    <3>1. (s \o t)[i] = s[i] /\ i \in 1 .. k
      BY <1>3, <2>1
    <3>2. IsAccess(s[i]) /\ (Starts(s[i]) => WaitedFor(s, i))
      BY <1>2, <3>1 DEF Disciplined
    <3>3. /\ i < k => (s \o t)[i + 1] = s[i + 1]
          /\ i + 1 < k => (s \o t)[i + 2] = s[i + 2]
      BY <1>3
    <3>4. i < k => i < k + m
      OBVIOUS
    <3>5. i + 1 < k => i + 1 < k + m /\ i < k
      OBVIOUS
    <3>6. WaitedFor(s, i) => WaitedFor(s \o t, i)
      BY <1>2, <1>3, <3>3, <3>4, <3>5, Zenon DEF WaitedFor
    <3> QED BY <3>1, <3>2, <3>6, Zenon
  <2>2. CASE i > k
    <3>1. PICK j \in 1 .. m : j = i - k /\ (s \o t)[i] = t[j]
      BY <1>3, <2>2
    <3>2. IsAccess(t[j]) /\ (Starts(t[j]) => WaitedFor(t, j))
      BY <1>2, <3>1 DEF Disciplined
    <3>3. /\ j < m => i < k + m /\ (s \o t)[i + 1] = t[j + 1]
          /\ j + 1 < m => i + 1 < k + m /\ (s \o t)[i + 1] = t[j + 1]
                          /\ (s \o t)[i + 2] = t[j + 2]
      <4>1. ASSUME NEW q \in 1 .. 2, j + q <= m
            PROVE  i + q <= k + m /\ (s \o t)[i + q] = t[j + q]
        <5>1. i + q \in 1 .. k + m /\ ~(i + q <= k) /\ (i + q) - k = j + q
          BY <2>2, <3>1, <4>1
        <5> QED BY <1>3, <5>1
      <4>2. /\ j < m => j + 1 <= m
            /\ j + 1 < m => j + 1 <= m /\ j + 2 <= m
            /\ i + 1 <= k + m => i < k + m
            /\ i + 2 <= k + m => i + 1 < k + m
            /\ 1 \in 1 .. 2 /\ 2 \in 1 .. 2
        OBVIOUS
      <4> QED BY <4>1, <4>2, Zenon
    <3>4. WaitedFor(t, j) => WaitedFor(s \o t, i)
      BY <1>2, <1>3, <3>3, Zenon DEF WaitedFor
    <3> QED BY <3>1, <3>2, <3>4, Zenon
  <2>3. i <= k \/ i > k
    OBVIOUS
  <2> QED BY <2>1, <2>2, <2>3, Zenon
<1> QED BY <1>1, <1>3, <1>4 DEF Disciplined

\* A list of accesses none of which starts a run.
LEMMA HarmlessList ==
  ASSUME NEW s, NEW S, s \in Seq(S), \A i \in 1 .. Len(s) : Harmless(s[i])
  PROVE  Disciplined(s)
BY DEF Disciplined, Harmless

LEMMA HarmlessOne ==
  ASSUME NEW a, Harmless(a)
  PROVE  Disciplined(<<a>>)
<1>1. <<a>> \in Seq({a}) /\ Len(<<a>>) = 1 /\ <<a>>[1] = a
  OBVIOUS
<1>2. \A i \in 1 .. 1 : i = 1
  OBVIOUS
<1> QED BY <1>1, <1>2, HarmlessList

LEMMA HarmlessNone == Disciplined(<<>>)
<1>1. <<>> \in Seq({}) /\ Len(<<>>) = 0 /\ 1 .. 0 = {}
  OBVIOUS
<1> QED BY <1>1, HarmlessList

LEMMA RunPollDisciplined == Disciplined(RunPoll)
<1> DEFINE a == Ctrl({"START"})
           b == Poll
<1>1. IsAccess(a) /\ IsAccess(b) /\ ~Starts(b) /\ b.op = "poll"
  BY DEF IsAccess, Starts, Ctrl, Poll
<1>2. RunPoll = <<a, b>>
  BY DEF RunPoll
<1> HIDE DEF a, b
<1>3. /\ RunPoll \in Seq({a, b}) /\ Len(RunPoll) = 2 /\ RunPoll[1] = a /\ RunPoll[2] = b
      /\ \A i \in 1 .. 2 : i = 1 \/ i = 2
      /\ 1 < 2 /\ 1 + 1 = 2
  BY <1>2
<1>4. WaitedFor(RunPoll, 1)
  BY <1>1, <1>3 DEF WaitedFor
<1> QED BY <1>1, <1>3, <1>4 DEF Disciplined

LEMMA RunIntrDisciplined == Disciplined(RunIntr)
<1> DEFINE a == Ctrl({"START"})
           b == Unflag
           c == WaitIntr
<1>1. /\ IsAccess(a) /\ IsAccess(b) /\ IsAccess(c) /\ ~Starts(b) /\ ~Starts(c)
      /\ b.op = "unflag" /\ c.op = "wait"
  BY DEF IsAccess, Starts, Ctrl, Unflag, WaitIntr
<1>2. RunIntr = <<a, b, c>>
  BY DEF RunIntr
<1> HIDE DEF a, b, c
<1>3. /\ RunIntr \in Seq({a, b, c}) /\ Len(RunIntr) = 3
      /\ RunIntr[1] = a /\ RunIntr[2] = b /\ RunIntr[3] = c
      /\ \A i \in 1 .. 3 : i = 1 \/ i = 2 \/ i = 3
      /\ 1 + 1 < 3 /\ 1 + 1 = 2 /\ 1 + 2 = 3
  BY <1>2
<1>4. WaitedFor(RunIntr, 1)
  BY <1>1, <1>3 DEF WaitedFor
<1> QED BY <1>1, <1>3, <1>4 DEF Disciplined

LEMMA HarmlessSet ==
  ASSUME NEW S, \A x \in S : Harmless(x), NEW s \in Seq(S)
  PROVE  Disciplined(s)
<1>1. ASSUME NEW i \in 1 .. Len(s) PROVE Harmless(s[i])
  <2>1. s[i] \in S
    OBVIOUS
  <2> QED BY <2>1
<1> QED BY <1>1, HarmlessList

LEMMA HarmlessAccesses ==
  /\ Harmless(EnableInterrupts)
  /\ \A bits \in SUBSET {"CLR", "CLR_PARAM", "CLR_CONF"} : Harmless(Ctrl(bits))
  /\ \A bits \in SUBSET {"PERF_CTR_EN", "INTR_EN"} : Harmless(Mode(bits))
  /\ \A kernel \in KernelNames : Harmless(Conf(kernel))
  /\ \A c, array, at, n : Harmless(Imn(c, array, at, n)) /\ Harmless(Omn(c, array, at, n))
  /\ \A array, values : Harmless(Store(array, values))
  /\ \A kernel, word, to : Harmless(Patch(kernel, word, to))
  /\ \A runs : Harmless(ReadCounters(runs))
BY DEF Harmless, IsAccess, Starts, EnableInterrupts, Ctrl, Mode, Conf, Imn, Omn, Store, Patch,
       ReadCounters

LEMMA Names ==
  KernelNames = {"bypass", "relu", "fft", "conv2d_1", "conv2d_2", "dither", "minsearch"}
BY DEF KernelNames, KernelWords

LEMMA CommonPieces ==
  /\ Disciplined(Begin) /\ Disciplined(Tail(Begin)) /\ Disciplined(<<EnableInterrupts>>)
  /\ \A runs : Disciplined(Finish(runs))
<1> DEFINE e == EnableInterrupts
           c == Ctrl({"CLR"})
           m == Mode({"PERF_CTR_EN", "INTR_EN"})
           off == Mode({})
<1>1. Harmless(e) /\ Harmless(c) /\ Harmless(m) /\ Harmless(off)
  BY HarmlessAccesses
<1>2. Begin = <<e, c, m>> /\ \A runs : Finish(runs) = <<off, ReadCounters(runs), c>>
  BY DEF Begin, Finish
<1> HIDE DEF e, c, m, off
<1>3. <<e, c, m>> \in Seq({e, c, m}) /\ <<c, m>> \in Seq({e, c, m})
  OBVIOUS
<1>4. Tail(<<e, c, m>>) = <<c, m>>
  OBVIOUS
<1>5. ASSUME NEW runs PROVE Disciplined(<<off, ReadCounters(runs), c>>)
  <2>1. PICK r : r = ReadCounters(runs) /\ Harmless(r)
    BY HarmlessAccesses
  <2>2. <<off, r, c>> \in Seq({off, r, c})
    OBVIOUS
  <2> QED BY <1>1, <2>1, <2>2, HarmlessSet
<1>6. Disciplined(<<e>>)
  BY <1>1, HarmlessOne
<1>7. \A x \in {e, c, m} : Harmless(x)
  BY <1>1
<1> QED BY <1>2, <1>3, <1>4, <1>5, <1>6, <1>7, HarmlessSet DEF e

-----------------------------------------------------------------------------
(* The programs                                                            *)

LEMMA Conv2dDisciplined == Disciplined(Conv2d)
<1>1. ASSUME NEW kernel \in KernelNames, NEW from PROVE Disciplined(Row(kernel, from))
  <2>1. PICK a, b, c, d :
          /\ a = Conf(kernel) /\ b = Imn(0, "input", from, Conv2dWords)
          /\ c = Imn(1, "input", from + 1, Conv2dWords)
          /\ d = Imn(2, "input", from + 2, Conv2dWords)
    OBVIOUS
  <2>2. \A x \in {a, b, c, d} : Harmless(x)
    BY <2>1, HarmlessAccesses
  <2>3. Row(kernel, from) \in Seq({a, b, c, d})
    BY <2>1 DEF Row
  <2> QED BY <2>2, <2>3, HarmlessSet
<1>2. Disciplined(<<Omn(2, "output", SIZE + 1, Conv2dWords)>>)
  BY HarmlessAccesses, HarmlessOne
<1>3. Disciplined(Accumulate)
  <2>1. PICK a, b : /\ a = Imn(3, "output", SIZE + 1, Conv2dWords)
                    /\ b = Omn(3, "output", SIZE + 1, Conv2dWords)
    OBVIOUS
  <2>2. \A x \in {a, b} : Harmless(x)
    BY <2>1, HarmlessAccesses
  <2>3. Accumulate \in Seq({a, b})
    BY <2>1 DEF Accumulate
  <2> QED BY <2>2, <2>3, HarmlessSet
<1>4. Disciplined(NewRow)
  BY HarmlessAccesses, HarmlessOne DEF NewRow
<1>5. Disciplined(ThirdRow)
  <2>1. PICK a, b, c : /\ a = Patch("conv2d_2", 3, 0) /\ b = Patch("conv2d_2", 23, -1)
                       /\ c = Patch("conv2d_2", 43, 0)
    OBVIOUS
  <2>2. \A x \in {a, b, c} : Harmless(x)
    BY <2>1, HarmlessAccesses
  <2>3. ThirdRow \in Seq({a, b, c})
    BY <2>1 DEF ThirdRow
  <2> QED BY <2>2, <2>3, HarmlessSet
<1>6. /\ Disciplined(Row("conv2d_1", 0)) /\ Disciplined(Row("conv2d_2", SIZE))
      /\ Disciplined(Row("conv2d_2", 2 * SIZE))
  BY <1>1, Names
<1> QED BY <1>2, <1>3, <1>4, <1>5, <1>6, CommonPieces, RunIntrDisciplined, DisciplineConcat
        DEF Conv2d

LEMMA ReluDisciplined == Disciplined(Relus)
<1> DEFINE chunk == DATA_SIZE("relu") \div 3
           last  == chunk + (DATA_SIZE("relu") % 3)
<1> DEFINE list == <<Conf("relu"), Imn(0, "input", 0, chunk),
                     Imn(1, "input", chunk, chunk), Imn(3, "input", 2 * chunk, last),
                     Omn(0, "output", 0, chunk), Omn(2, "output", chunk, chunk),
                     Omn(3, "output", 2 * chunk, last)>>
<1>1. Disciplined(list)
  <2>1. PICK a, b, c, d, e, f, g :
          /\ a = Conf("relu")
          /\ b = Imn(0, "input", 0, chunk)
          /\ c = Imn(1, "input", chunk, chunk)
          /\ d = Imn(3, "input", 2 * chunk, last)
          /\ e = Omn(0, "output", 0, chunk)
          /\ f = Omn(2, "output", chunk, chunk)
          /\ g = Omn(3, "output", 2 * chunk, last)
    OBVIOUS
  <2>2. \A x \in {a, b, c, d, e, f, g} : Harmless(x)
    BY <2>1, Names, HarmlessAccesses
  <2>3. list = <<a, b, c, d, e, f, g>>
    BY <2>1
  <2>4. list \in Seq({a, b, c, d, e, f, g})
    BY <2>3
  <2> QED BY <2>2, <2>4, HarmlessSet
<1>2. Relus = Begin \o list \o RunIntr \o Finish({1})
  BY DEF Relus
<1> HIDE DEF list
<1> QED BY <1>1, <1>2, CommonPieces, RunIntrDisciplined, DisciplineConcat

LEMMA FftDisciplined == Disciplined(Ffts)
<1> DEFINE G == DATA_SIZE("fft") \div 2
<1> DEFINE list == <<Conf("fft"), Imn(0, "real", G, G), Imn(1, "real", 0, G),
                     Imn(2, "imag", 0, G), Imn(3, "imag", G, G), Omn(0, "real", G, G),
                     Omn(1, "real", 0, G), Omn(2, "imag", G, G), Omn(3, "imag", 0, G)>>
<1>1. Disciplined(list)
  <2>1. PICK a, b, c, d, e, f, g, h, k :
          /\ a = Conf("fft")
          /\ b = Imn(0, "real", G, G)
          /\ c = Imn(1, "real", 0, G)
          /\ d = Imn(2, "imag", 0, G)
          /\ e = Imn(3, "imag", G, G)
          /\ f = Omn(0, "real", G, G)
          /\ g = Omn(1, "real", 0, G)
          /\ h = Omn(2, "imag", G, G)
          /\ k = Omn(3, "imag", 0, G)
    OBVIOUS
  <2>2. \A x \in {a, b, c, d, e, f, g, h, k} : Harmless(x)
    BY <2>1, Names, HarmlessAccesses
  <2>3. list = <<a, b, c, d, e, f, g, h, k>>
    BY <2>1
  <2>4. list \in Seq({a, b, c, d, e, f, g, h, k})
    BY <2>3
  <2> QED BY <2>2, <2>4, HarmlessSet
<1>2. Ffts = Begin \o list \o RunIntr \o Finish({1})
  BY DEF Ffts
<1> HIDE DEF list
<1> QED BY <1>1, <1>2, CommonPieces, RunIntrDisciplined, DisciplineConcat

LEMMA DitherDisciplined == Disciplined(Dithers)
<1> DEFINE N == DATA_SIZE("dither")
<1> DEFINE list == <<Conf("dither"), Imn(0, "input", 0, N), Omn(0, "output", 0, N)>>
<1>1. Disciplined(list)
  <2>1. PICK a, b, c :
          /\ a = Conf("dither")
          /\ b = Imn(0, "input", 0, N)
          /\ c = Omn(0, "output", 0, N)
    OBVIOUS
  <2>2. \A x \in {a, b, c} : Harmless(x)
    BY <2>1, Names, HarmlessAccesses
  <2>3. list = <<a, b, c>>
    BY <2>1
  <2>4. list \in Seq({a, b, c})
    BY <2>3
  <2> QED BY <2>2, <2>4, HarmlessSet
<1>2. Dithers = Begin \o list \o RunIntr \o Finish({1})
  BY DEF Dithers
<1> HIDE DEF list
<1> QED BY <1>1, <1>2, CommonPieces, RunIntrDisciplined, DisciplineConcat

LEMMA MinSearchDisciplined == Disciplined(MinSearches)
<1> DEFINE N == DATA_SIZE("minsearch")
           delays == [i \in 1 .. 4 |-> SetPeDelayValue("minsearch", <<1, 7, 10, 13>>[i], N)]
<1> DEFINE list == <<Conf("minsearch"), Imn(0, "input", 0, N), Imn(2, "input", 0, N),
                     Omn(0, "output", 0, 1), Omn(1, "output", 1, 1),
                     Omn(2, "output", 3, 1), Omn(3, "output", 2, 1)>>
<1>1. Disciplined(list)
  <2>1. PICK a, b, c, d, e, f, g :
          /\ a = Conf("minsearch")
          /\ b = Imn(0, "input", 0, N)
          /\ c = Imn(2, "input", 0, N)
          /\ d = Omn(0, "output", 0, 1)
          /\ e = Omn(1, "output", 1, 1)
          /\ f = Omn(2, "output", 3, 1)
          /\ g = Omn(3, "output", 2, 1)
    OBVIOUS
  <2>2. \A x \in {a, b, c, d, e, f, g} : Harmless(x)
    BY <2>1, Names, HarmlessAccesses
  <2>3. list = <<a, b, c, d, e, f, g>>
    BY <2>1
  <2>4. list \in Seq({a, b, c, d, e, f, g})
    BY <2>3
  <2> QED BY <2>2, <2>4, HarmlessSet
<1>2. Disciplined(delays)
  <2>1. \A i \in 1 .. 4 : Harmless(delays[i])
    BY HarmlessAccesses DEF SetPeDelayValue
  <2> HIDE DEF delays
  <2>2. delays \in Seq({delays[i] : i \in 1 .. 4}) /\ Len(delays) = 4
    BY DEF delays
  <2> QED BY <2>1, <2>2, HarmlessList
<1>3. MinSearches = <<EnableInterrupts>> \o delays \o Tail(Begin) \o list \o RunIntr \o Finish({1})
  BY DEF MinSearches
<1> HIDE DEF list, delays
<1> QED BY <1>1, <1>2, <1>3, CommonPieces, RunIntrDisciplined, DisciplineConcat

LEMMA TestsDisciplined == Disciplined(Tests)
<1>1. Disciplined(TestStreams)
  <2>1. PICK a, b, c, d, e, f, g, h :
          /\ a = Imn(0, "a", 0, TEST)
          /\ b = Imn(1, "b", 0, TEST)
          /\ c = Imn(2, "c", 0, TEST)
          /\ d = Imn(3, "d", 0, TEST)
          /\ e = Omn(0, "e", 0, TEST)
          /\ f = Omn(1, "f", 0, TEST)
          /\ g = Omn(2, "g", 0, TEST)
          /\ h = Omn(3, "h", 0, TEST)
    OBVIOUS
  <2>2. \A x \in {a, b, c, d, e, f, g, h} : Harmless(x)
    BY <2>1, HarmlessAccesses
  <2>3. TestStreams = <<a, b, c, d, e, f, g, h>>
    BY <2>1 DEF TestStreams
  <2>4. TestStreams \in Seq({a, b, c, d, e, f, g, h})
    BY <2>3
  <2> QED BY <2>2, <2>4, HarmlessSet
<1>2. /\ Disciplined(<<Conf("bypass")>>) /\ Disciplined(<<Ctrl({"CLR"})>>)
      /\ Disciplined(<<Ctrl({"CLR_PARAM"})>>) /\ Disciplined(<<Mode({"INTR_EN"})>>)
      /\ Disciplined(<<Mode({"PERF_CTR_EN"})>>)
      /\ Disciplined(<<Mode({"PERF_CTR_EN", "INTR_EN"})>>)
  BY Names, HarmlessAccesses, HarmlessOne
<1>3. ASSUME NEW mode, Disciplined(mode) PROVE Disciplined(AfterClear(mode))
  BY <1>1, <1>2, <1>3, DisciplineConcat DEF AfterClear
<1>4. Disciplined(AfterClear(<<>>)) /\ Disciplined(AfterClear(ListenAgain))
  BY <1>2, <1>3, HarmlessNone DEF ListenAgain
<1>5. Disciplined(AfterParamClear)
  BY <1>1, <1>2, DisciplineConcat DEF AfterParamClear
<1>6. Disciplined(AfterConfClear)
  <2>1. PICK a, b : a = Ctrl({"CLR_CONF"}) /\ b = Conf("bypass")
    OBVIOUS
  <2>2. \A x \in {a, b} : Harmless(x)
    BY <2>1, Names, HarmlessAccesses
  <2>3. AfterConfClear \in Seq({a, b})
    BY <2>1 DEF AfterConfClear
  <2> QED BY <2>2, <2>3, HarmlessSet
<1>7. ASSUME NEW runs PROVE Disciplined(<<Mode({}), ReadCounters(runs)>>)
  <2>1. PICK a, b : a = Mode({}) /\ b = ReadCounters(runs)
    OBVIOUS
  <2>2. \A x \in {a, b} : Harmless(x)
    BY <2>1, HarmlessAccesses
  <2>3. <<a, b>> \in Seq({a, b})
    OBVIOUS
  <2> QED BY <2>1, <2>2, <2>3, HarmlessSet
<1>8. PICK p, q, r, t, u :
        /\ p = <<Mode({}), ReadCounters(5 .. 7)>> /\ q = <<Mode({}), ReadCounters(12 .. 14)>>
        /\ r = AfterClear(<<>>) /\ t = AfterClear(ListenAgain) /\ u = TestStreams
        /\ Disciplined(p) /\ Disciplined(q) /\ Disciplined(r) /\ Disciplined(t)
        /\ Disciplined(u)
  BY <1>1, <1>4, <1>7
<1>9. Disciplined(TestPolling)
  BY <1>2, <1>5, <1>6, <1>8, RunPollDisciplined, DisciplineConcat DEF TestPolling
<1>10. Disciplined(TestInterrupts)
  BY <1>2, <1>5, <1>6, <1>8, RunIntrDisciplined, DisciplineConcat DEF TestInterrupts
<1>11. PICK w : /\ w = <<EnableInterrupts, Store("a", Filled(1)), Store("b", Filled(2)),
                         Store("c", Filled(3)), Store("d", Filled(4))>>
                /\ Disciplined(w)
  <2>1. PICK a, b, c, d, e : /\ a = EnableInterrupts
                             /\ b = Store("a", Filled(1)) /\ c = Store("b", Filled(2))
                             /\ d = Store("c", Filled(3)) /\ e = Store("d", Filled(4))
    OBVIOUS
  <2>2. \A x \in {a, b, c, d, e} : Harmless(x)
    BY <2>1, HarmlessAccesses
  <2>3. <<a, b, c, d, e>> \in Seq({a, b, c, d, e})
    OBVIOUS
  <2>4. Disciplined(<<a, b, c, d, e>>)
    BY <2>2, <2>3, HarmlessSet
  <2> QED BY <2>1, <2>4
<1> QED BY <1>9, <1>10, <1>11, DisciplineConcat DEF Tests

\* Every application waits for each run that it starts.
LEMMA ProgramsDisciplined == \A a \in Apps : Disciplined(Program[a])
BY Conv2dDisciplined, ReluDisciplined, FftDisciplined, DitherDisciplined, MinSearchDisciplined,
   TestsDisciplined DEF Apps, Program

-----------------------------------------------------------------------------
(* What main has still to do                                               *)

\* The rest of a program while a run is under way.
Awaits(s) ==
    /\ s # <<>>
    /\ \/ Head(s).op \in {"poll", "wait"}
       \/ Head(s).op = "unflag" /\ Tail(s) # <<>> /\ Head(Tail(s)).op = "wait"

LEMMA HeadAndTail ==
  ASSUME NEW S, NEW s \in Seq(S), s # <<>>
  PROVE  /\ Head(s) = s[1] /\ Tail(s) \in Seq(S) /\ Len(s) \in Nat \ {0}
         /\ Len(Tail(s)) = Len(s) - 1
         /\ \A i \in 1 .. Len(s) - 1 : Tail(s)[i] = s[i + 1]
BY HeadTailProperties, LenProperties, EmptySeq

Rest(s, t, k) ==
    /\ t = Tail(s) /\ Len(s) = k + 1 /\ Len(t) = k
    /\ Head(s) = s[1] /\ \A i \in 1 .. k : t[i] = s[i + 1]

LEMMA OneLess ==
  ASSUME NEW S, NEW s \in Seq(S), s # <<>>
  PROVE  \E t \in Seq(S), k \in Nat : Rest(s, t, k)
<1>1. PICK n \in Nat \ {0} : n = Len(s)
  BY HeadAndTail
<1>2. PICK k \in Nat : k = n - 1 /\ n = k + 1
  OBVIOUS
<1>3. /\ Tail(s) \in Seq(S) /\ Len(Tail(s)) = n - 1 /\ Head(s) = s[1]
      /\ \A i \in 1 .. n - 1 : Tail(s)[i] = s[i + 1]
  BY <1>1, HeadAndTail
<1>4. Rest(s, Tail(s), k)
  BY <1>1, <1>2, <1>3, Zenon DEF Rest
<1> QED BY <1>3, <1>4, Zenon

LEMMA DisciplineTail ==
  ASSUME NEW s, Disciplined(s), s # <<>>
  PROVE  /\ Disciplined(Tail(s)) /\ IsAccess(Head(s))
         /\ Starts(Head(s)) => Awaits(Tail(s)) /\ Head(Tail(s)).op # "wait"
<1>1. PICK S : s \in Seq(S)
  BY DEF Disciplined
<1>2. PICK t \in Seq(S), k \in Nat : Rest(s, t, k)
  BY <1>1, OneLess, Zenon
<1>3. /\ t = Tail(s) /\ Len(s) = k + 1 /\ Len(t) = k
      /\ Head(s) = s[1] /\ \A i \in 1 .. k : t[i] = s[i + 1]
  BY <1>2, Zenon DEF Rest
<1>4. \A i \in 1 .. k + 1 : IsAccess(s[i]) /\ (Starts(s[i]) => WaitedFor(s, i))
  BY <1>3 DEF Disciplined
<1>5. ASSUME NEW i \in 1 .. k PROVE IsAccess(t[i]) /\ (Starts(t[i]) => WaitedFor(t, i))
  <2>1. i + 1 \in 1 .. k + 1 /\ t[i] = s[i + 1]
    BY <1>3
  <2>2. /\ i + 1 < k + 1 => i < k /\ t[i + 1] = s[(i + 1) + 1]
        /\ (i + 1) + 1 < k + 1 => /\ i + 1 < k /\ t[i + 1] = s[(i + 1) + 1]
                                  /\ t[i + 2] = s[(i + 1) + 2]
    <3>1. ASSUME NEW q \in 1 .. 2, i + q <= k PROVE t[i + q] = s[(i + 1) + q]
      <4>1. i + q \in 1 .. k /\ (i + q) + 1 = (i + 1) + q
        BY <3>1
      <4> QED BY <1>3, <4>1
    <3>2. /\ i + 1 < k + 1 => i < k /\ i + 1 <= k
          /\ (i + 1) + 1 < k + 1 => i + 1 < k /\ i + 1 <= k /\ i + 2 <= k
          /\ 1 \in 1 .. 2 /\ 2 \in 1 .. 2
      OBVIOUS
    <3> QED BY <3>1, <3>2, Zenon
  <2>3. WaitedFor(s, i + 1) => WaitedFor(t, i)
    BY <1>3, <2>2, Zenon DEF WaitedFor
  <2> QED BY <1>4, <2>1, <2>3, Zenon
<1>6. Disciplined(t)
  BY <1>3, <1>5 DEF Disciplined
<1>7. 1 \in 1 .. k + 1 /\ IsAccess(Head(s)) /\ (Starts(Head(s)) => WaitedFor(s, 1))
  BY <1>3, <1>4
<1>8. ASSUME WaitedFor(s, 1) PROVE Awaits(t) /\ Head(t).op # "wait"
  <2>1. k # 0 /\ t # <<>> /\ Head(t) = s[2]
    <3>1. k # 0
      BY <1>3, <1>8 DEF WaitedFor
    <3>2. t # <<>>
      BY <1>3, <3>1, EmptySeq
    <3>3. Head(t) = t[1] /\ 1 \in 1 .. k
      BY <1>3, <3>1, <3>2, HeadAndTail
    <3> QED BY <1>3, <3>1, <3>2, <3>3
  <2>2. CASE s[2].op = "poll"
    BY <2>1, <2>2 DEF Awaits
  <2>3. CASE 2 < k + 1 /\ s[2].op = "unflag" /\ s[3].op = "wait"
    <3>0. PICK u \in Seq(S), j \in Nat : Rest(t, u, j)
      BY <2>1, OneLess, Zenon
    <3>1. u = Tail(t) /\ k = j + 1 /\ Len(u) = j /\ \A i \in 1 .. j : u[i] = t[i + 1]
      BY <1>3, <3>0, Zenon DEF Rest
    <3>2. u # <<>> /\ Head(u) = t[2]
      <4>1. j # 0 /\ 1 \in 1 .. j /\ 1 + 1 = 2
        BY <2>3, <3>1
      <4>2. u # <<>>
        BY <3>1, <4>1, EmptySeq
      <4>3. Head(u) = u[1]
        BY <4>2, HeadAndTail
      <4> QED BY <3>1, <4>1, <4>2, <4>3
    <3>3. t[2] = s[3]
      BY <1>3, <2>3
    <3> QED BY <2>1, <2>3, <3>1, <3>2, <3>3 DEF Awaits
  <2>4. s[2].op = "poll" \/ (2 < k + 1 /\ s[2].op = "unflag" /\ s[3].op = "wait")
    BY <1>3, <1>8 DEF WaitedFor
  <2> QED BY <2>2, <2>3, <2>4, Zenon
<1> QED BY <1>3, <1>6, <1>7, <1>8, Zenon

\* The rest of a program is a suffix of it.
LEMMA Reversed ==
  ASSUME NEW S, NEW s \in Seq(S)
  PROVE  /\ Reverse(s) \in Seq(S) /\ Len(Reverse(s)) = Len(s)
         /\ \A i \in 1 .. Len(s) : Reverse(s)[i] = s[Len(s) - i + 1]
<1>1. PICK k \in Nat : k = Len(s)
  BY LenProperties
<1>2. \A i \in 1 .. k : s[i] \in S
  BY <1>1
<1>3. ASSUME NEW i \in 1 .. k PROVE s[(k - i) + 1] \in S
  BY <1>2, (k - i) + 1 \in 1 .. k
<1>4. Reverse(s) = [i \in 1 .. k |-> s[(k - i) + 1]]
  BY <1>1 DEF Reverse
<1> QED BY <1>1, <1>3, <1>4

LEMMA SuffixPlaces ==
  ASSUME NEW S, NEW s \in Seq(S), NEW t \in Seq(S)
  PROVE  IsSuffix(s, t) <=> /\ Len(s) <= Len(t)
                            /\ \A i \in 1 .. Len(s) :
                                 s[Len(s) - i + 1] = t[Len(t) - i + 1]
<1>1. PICK k \in Nat, m \in Nat : k = Len(s) /\ m = Len(t)
  BY LenProperties
<1>2. PICK r \in Seq(S), w \in Seq(S) :
        /\ r = Reverse(s) /\ w = Reverse(t) /\ Len(r) = k /\ Len(w) = m
        /\ \A i \in 1 .. k : r[i] = s[k - i + 1]
        /\ \A i \in 1 .. m : w[i] = t[m - i + 1]
  BY <1>1, Reversed
<1>3. ASSUME k <= m
      PROVE  SubSeq(r, 1, k) = SubSeq(w, 1, k) <=> \A i \in 1 .. k : r[i] = w[i]
  BY <1>2, <1>3, SMTT(30)
<1>4. IsSuffix(s, t) <=> k <= m /\ SubSeq(r, 1, k) = SubSeq(w, 1, k)
  BY <1>2 DEF IsSuffix, IsPrefix
<1>5. ASSUME k <= m
      PROVE  (\A i \in 1 .. k : r[i] = w[i]) <=> \A i \in 1 .. k : s[k - i + 1] = t[m - i + 1]
  <2>1. \A i \in 1 .. k : i \in 1 .. m
    BY <1>5
  <2>2. \A i \in 1 .. k : r[i] = s[k - i + 1] /\ w[i] = t[m - i + 1]
    BY <1>2, <2>1
  <2> QED BY <2>2, SMTT(30)
<1>6. IsSuffix(s, t) <=> k <= m /\ \A i \in 1 .. k : s[k - i + 1] = t[m - i + 1]
  BY <1>3, <1>4, <1>5, Zenon
<1> QED BY <1>1, <1>6, Zenon

LEMMA SuffixTail ==
  ASSUME NEW S, NEW s \in Seq(S), NEW t \in Seq(S), s # <<>>, IsSuffix(s, t)
  PROVE  IsSuffix(Tail(s), t)
<1>0. PICK m \in Nat : m = Len(t)
  BY LenProperties
<1>1. PICK u \in Seq(S), k \in Nat : Rest(s, u, k)
  BY OneLess, Zenon
<1>2. k + 1 <= m /\ \A i \in 1 .. k + 1 : s[(k + 1) - i + 1] = t[m - i + 1]
  <2>1. /\ Len(s) <= Len(t)
        /\ \A i \in 1 .. Len(s) : s[Len(s) - i + 1] = t[Len(t) - i + 1]
    BY SuffixPlaces
  <2> QED BY <1>0, <1>1, <2>1 DEF Rest
<1>3. ASSUME NEW i \in 1 .. k PROVE u[k - i + 1] = t[m - i + 1]
  <2>1. i \in 1 .. k + 1 /\ k - i + 1 \in 1 .. k /\ (k - i + 1) + 1 = (k + 1) - i + 1
    OBVIOUS
  <2> QED BY <1>1, <1>2, <2>1 DEF Rest
<1>4. k <= m
  BY <1>2
<1> QED BY <1>0, <1>1, <1>3, <1>4, SuffixPlaces DEF Rest

LEMMA SuffixItself ==
  ASSUME NEW S, NEW t \in Seq(S)
  PROVE  IsSuffix(t, t)
BY SuffixPlaces, LenProperties

-----------------------------------------------------------------------------
(* The inductive invariant                                                 *)

\* The registers that the properties read are fields of their records.
Fields ==
    /\ DOMAIN regs = {"mode", "done", "params"}
    /\ DOMAIN regs.params = {"conf_addr", "imn", "omn"}
    /\ DOMAIN conf = {"kernel", "words", "valid"}
    /\ DOMAIN acc = {"state", "run", "got", "put"}

\* While a run is under way main is in its wait for it, and neither sign that
\* could end the wait is left from a run before: START clears EXEC_DONE, and the
\* flag is reset before main looks at it.
InItsWait ==
    acc.state # "idle" =>
        /\ Awaits(todo) /\ ~regs.done /\ acc.run # 0
        /\ Head(todo).op = "wait" => ~flag

IInv == TypeOK /\ Fields /\ Disciplined(todo) /\ InItsWait

LEMMA InvInit == Init => IInv
<1> SUFFICES ASSUME Init PROVE IInv
  OBVIOUS
<1>1. app \in Apps /\ todo = Program[app]
  BY RunningAssumption DEF Init
<1>2. Disciplined(todo) /\ IsSuffix(todo, Program[app])
  <2>1. Disciplined(Program[app])
    BY <1>1, ProgramsDisciplined
  <2>2. PICK S : Program[app] \in Seq(S)
    BY <2>1 DEF Disciplined
  <2> QED BY <1>1, <2>1, <2>2, SuffixItself
<1>3. Fields
  BY DEF Init, Fields, NoParams, Idle
<1>4. TypeOK
  BY <1>2 DEF Init, TypeOK, NoParams, Idle
<1>5. InItsWait
  BY DEF Init, InItsWait, Idle
<1> QED BY <1>2, <1>3, <1>4, <1>5 DEF IInv

\* What every access of main has in common.
LEMMA MainStep ==
  ASSUME IInv, NEW op, Step(op)
  PROVE  /\ app' = app /\ app' \in Running /\ IsSuffix(todo', Program[app]')
         /\ Disciplined(todo') /\ IsAccess(Now) /\ Now.op = op
         /\ Starts(Now) => Awaits(todo') /\ Head(todo').op # "wait"
         /\ acc.state # "idle" => op \in {"poll", "wait", "unflag"}
         /\ acc.state # "idle" /\ op = "unflag" => Awaits(todo')
<1>1. todo # <<>> /\ todo' = Tail(todo) /\ Now = Head(todo) /\ Now.op = op /\ app' = app
  BY DEF Step, At, Done, Now
<1>2. app \in Running /\ IsSuffix(todo, Program[app]) /\ Disciplined(todo)
  BY DEF IInv, TypeOK
<1>3. IsSuffix(Tail(todo), Program[app])
  <2>1. Disciplined(Program[app])
    BY <1>2, ProgramsDisciplined, RunningAssumption
  <2>2. PICK S : todo \in Seq(S) /\ Program[app] \in Seq(S)
    BY <1>2, <2>1, SameSet DEF Disciplined
  <2> QED BY <1>1, <1>2, <2>2, SuffixTail
<1>4. /\ Disciplined(Tail(todo)) /\ IsAccess(Head(todo))
      /\ Starts(Head(todo)) => Awaits(Tail(todo)) /\ Head(Tail(todo)).op # "wait"
  BY <1>1, <1>2, DisciplineTail
<1>5. acc.state # "idle" =>
        /\ Head(todo).op \in {"poll", "wait", "unflag"}
        /\ Head(todo).op = "unflag" => Tail(todo) # <<>> /\ Head(Tail(todo)).op = "wait"
  BY DEF IInv, InItsWait, Awaits
<1> QED BY <1>1, <1>2, <1>3, <1>4, <1>5 DEF Awaits

LEMMA EnableStep == ASSUME IInv, Enable PROVE IInv'
<1>1. Step("enable")
  BY DEF Enable
<1>2. acc.state = "idle"
  BY <1>1, MainStep
<1> QED BY <1>1, <1>2, MainStep DEF Enable, IInv, TypeOK, Fields, InItsWait

LEMMA WriteCtrlStep == ASSUME IInv, WriteCtrl PROVE IInv'
<1>1. Step("ctrl")
  BY DEF WriteCtrl
<1>2. acc.state = "idle"
  BY <1>1, MainStep
<1>3. /\ regs'.mode = (IF "CLR" \in Now.bits THEN {} ELSE regs.mode)
      /\ regs'.done = (regs.done /\ ~ClearsDone(Now.bits))
      /\ regs'.params = (IF ClearsParams(Now.bits) THEN NoParams ELSE regs.params)
      /\ DOMAIN regs' = DOMAIN regs
  BY DEF WriteCtrl, IInv, Fields
<1>4. conf'.kernel = conf.kernel /\ conf'.valid \in BOOLEAN /\ DOMAIN conf' = DOMAIN conf
  BY DEF WriteCtrl, IInv, Fields, TypeOK
<1>5. /\ Starts(Now) => acc'.state = "started" /\ acc'.run = acc.run + 1
      /\ ~Starts(Now) => acc'.state = "idle" /\ acc'.run = acc.run
      /\ DOMAIN acc' = {"state", "run", "got", "put"}
  BY <1>1, <1>2, MainStep DEF WriteCtrl, IInv, Fields, Idle, Starts
<1>6. counted' \subseteq 1 .. acc'.run /\ acc'.run \in Nat
  BY <1>5 DEF WriteCtrl, IInv, TypeOK
<1>7. TypeOK'
  <2>1. regs'.mode \subseteq {"PERF_CTR_EN", "INTR_EN"} /\ regs'.done \in BOOLEAN
    BY <1>3 DEF IInv, TypeOK
  <2>2. regs'.params.conf_addr \in KernelNames \cup {NoKernel}
    BY <1>3 DEF IInv, TypeOK, NoParams
  <2> QED BY <1>1, <1>4, <1>5, <1>6, <2>1, <2>2, MainStep DEF WriteCtrl, IInv, TypeOK
<1>8. Fields'
  BY <1>3, <1>4, <1>5 DEF IInv, Fields, NoParams
<1>9. InItsWait'
  <2>1. CASE Starts(Now)
    <3>1. ~regs'.done
      BY <1>3, <2>1 DEF ClearsDone, Starts
    <3>2. acc'.run # 0
      BY <1>5, <2>1 DEF IInv, TypeOK
    <3> QED BY <1>1, <2>1, <3>1, <3>2, MainStep DEF InItsWait
  <2>2. CASE ~Starts(Now)
    BY <1>5, <2>2 DEF InItsWait
  <2> QED BY <2>1, <2>2
<1> QED BY <1>1, <1>7, <1>8, <1>9, MainStep DEF IInv

LEMMA WriteModeStep == ASSUME IInv, WriteMode PROVE IInv'
<1>1. Step("mode")
  BY DEF WriteMode
<1>2. acc.state = "idle" /\ Now.bits \subseteq {"PERF_CTR_EN", "INTR_EN"}
  BY <1>1, MainStep DEF IsAccess
<1>3. /\ regs'.mode = Now.bits /\ regs'.done = regs.done /\ regs'.params = regs.params
      /\ DOMAIN regs' = DOMAIN regs
  BY DEF WriteMode, IInv, Fields
<1> QED BY <1>1, <1>2, <1>3, MainStep DEF WriteMode, IInv, TypeOK, Fields, InItsWait

LEMMA WriteParamsStep == ASSUME IInv, WriteParams PROVE IInv'
<1>1. PICK op : Step(op) /\ op \in {"conf", "imn", "omn"}
  BY DEF WriteParams
<1>2. acc.state = "idle" /\ (Now.op = "conf" => Now.kernel \in KernelNames)
  BY <1>1, MainStep DEF IsAccess
<1>3. /\ regs'.mode = regs.mode /\ regs'.done = regs.done /\ DOMAIN regs' = DOMAIN regs
      /\ DOMAIN regs'.params = DOMAIN regs.params
      /\ regs'.params.conf_addr \in {regs.params.conf_addr} \cup KernelNames
  <2>1. CASE Step("conf") /\ regs' = [regs EXCEPT !.params.conf_addr = Now.kernel]
    BY <1>2, <2>1, MainStep DEF IInv, Fields
  <2>2. CASE regs' = [regs EXCEPT !.params.imn[Now.node] = Now.stream]
    BY <2>2 DEF IInv, Fields
  <2>3. CASE regs' = [regs EXCEPT !.params.omn[Now.node] = Now.stream]
    BY <2>3 DEF IInv, Fields
  <2> QED BY <2>1, <2>2, <2>3 DEF WriteParams
<1>4. TypeOK'
  BY <1>1, <1>3, MainStep DEF WriteParams, IInv, TypeOK
<1>5. Fields' /\ InItsWait'
  BY <1>2, <1>3 DEF WriteParams, IInv, Fields, InItsWait
<1> QED BY <1>1, <1>4, <1>5, MainStep DEF IInv

\* The accesses that change memory or nothing.
LEMMA QuietStep ==
  ASSUME IInv, StoreArray \/ PatchKernel \/ ReadReport
  PROVE  IInv'
<1>1. PICK op : Step(op) /\ op \in {"store", "patch", "read"}
  BY DEF StoreArray, PatchKernel, ReadReport
<1>2. acc.state = "idle"
  BY <1>1, MainStep
<1>3. UNCHANGED <<flag, irq, regs, conf, acc, counted>>
  BY DEF StoreArray, PatchKernel, ReadReport
<1> QED BY <1>1, <1>2, <1>3, MainStep DEF IInv, TypeOK, Fields, InItsWait

\* Neither wait ends while the run is under way.
LEMMA WaitEndsAfterRun ==
  /\ IInv /\ PollDone => acc.state = "idle"
  /\ IInv /\ WaitDone => acc.state = "idle"
BY DEF IInv, InItsWait, PollDone, WaitDone, At, Now

LEMMA WaitStep ==
  ASSUME IInv, PollDone \/ WaitDone \/ UnflagIntr
  PROVE  IInv'
<1>1. PICK op : Step(op) /\ op \in {"poll", "wait", "unflag"}
  BY DEF PollDone, WaitDone, UnflagIntr
<1>2. UNCHANGED <<irq, regs, conf, acc, counted>> /\ flag' \in BOOLEAN
  BY DEF PollDone, WaitDone, UnflagIntr, IInv, TypeOK
<1>3. TypeOK' /\ Fields'
  BY <1>1, <1>2, MainStep DEF IInv, TypeOK, Fields
<1>4. InItsWait'
  <2>1. CASE acc.state = "idle"
    BY <1>2, <2>1 DEF InItsWait
  <2>2. CASE acc.state # "idle"
    <3>1. UnflagIntr
      BY <2>2, WaitEndsAfterRun
    <3>2. Step("unflag") /\ flag' = FALSE
      BY <3>1 DEF UnflagIntr
    <3>3. Awaits(todo')
      BY <2>2, <3>2, MainStep
    <3> QED BY <1>2, <2>2, <3>2, <3>3 DEF IInv, InItsWait
  <2> QED BY <2>1, <2>2
<1> QED BY <1>1, <1>3, <1>4, MainStep DEF IInv

LEMMA MainKeeps == ASSUME IInv, Main PROVE IInv'
BY EnableStep, WriteCtrlStep, WriteModeStep, WriteParamsStep, QuietStep, WaitStep DEF Main

LEMMA ConfigureStep == ASSUME IInv, Configure PROVE IInv'
<1>1. acc'.state = "exec" /\ acc'.run = acc.run /\ DOMAIN acc' = DOMAIN acc
  BY DEF Configure, IInv, Fields
<1>2. /\ conf'.kernel \in KernelNames \cup {NoKernel} /\ conf'.valid \in BOOLEAN
      /\ DOMAIN conf' = DOMAIN conf
  BY DEF Configure, IInv, TypeOK, Fields
<1>3. TypeOK'
  BY <1>1, <1>2 DEF Configure, IInv, TypeOK
<1>4. Fields' /\ InItsWait'
  BY <1>1, <1>2 DEF Configure, IInv, Fields, InItsWait
<1> QED BY <1>3, <1>4 DEF Configure, IInv

\* A word that moves changes neither registers nor the state of the run.
LEMMA WordStep ==
  ASSUME IInv, NEW c \in Columns, Fetch(c) \/ StoreWord(c)
  PROVE  IInv'
<1>1. acc'.state = acc.state /\ acc'.run = acc.run /\ DOMAIN acc' = DOMAIN acc
  BY DEF Fetch, StoreWord, IInv, Fields
<1>2. UNCHANGED <<app, todo, flag, irq, regs, conf, counted>>
  BY DEF Fetch, StoreWord
<1> QED BY <1>1, <1>2 DEF IInv, TypeOK, Fields, InItsWait

LEMMA EndStep == ASSUME IInv, End PROVE IInv'
<1>1. acc'.state = "idle" /\ acc'.run = acc.run /\ DOMAIN acc' = DOMAIN acc
  BY DEF End, IInv, Fields
<1>2. /\ regs'.done = TRUE /\ regs'.mode = regs.mode /\ regs'.params = regs.params
      /\ DOMAIN regs' = DOMAIN regs
  BY DEF End, IInv, Fields
<1>3. counted' \subseteq 1 .. acc'.run
  <2>1. acc.run \in Nat /\ acc.run # 0 /\ counted \subseteq 1 .. acc.run
    BY DEF End, IInv, TypeOK, InItsWait
  <2> QED BY <1>1, <2>1 DEF End
<1>4. flag' \in BOOLEAN
  BY DEF End, IInv, TypeOK
<1>5. TypeOK'
  BY <1>1, <1>2, <1>3, <1>4 DEF End, IInv, TypeOK
<1>6. Fields' /\ InItsWait'
  BY <1>1, <1>2 DEF End, IInv, Fields, InItsWait
<1> QED BY <1>5, <1>6 DEF End, IInv

LEMMA InvStep == ASSUME IInv, [Next]_vars PROVE IInv'
<1>1. CASE Main
  BY <1>1, MainKeeps
<1>2. CASE Strela
  BY <1>2, ConfigureStep, WordStep, EndStep DEF Strela
<1>3. CASE UNCHANGED vars
  BY <1>3 DEF vars, IInv, TypeOK, Fields, InItsWait
<1> QED BY <1>1, <1>2, <1>3 DEF Next

LEMMA Invariant == Spec => []IInv
<1>1. IInv /\ [Next]_vars => IInv'
  BY InvStep
<1> QED BY <1>1, InvInit, PTL DEF Spec

\* Types of the executed applications: the rest of main is a suffix of its
\* program, every register holds what it can take (mmio_interface.sv), and the
\* counters cover runs that were made.
THEOREM AppsTypes == Spec => []TypeOK
<1>1. IInv => TypeOK
  BY DEF IInv
<1> QED BY <1>1, Invariant, PTL

\* No application touches a register, a table of kernels.h or an array while a
\* run is under way (the main.c of the six applications): what StrelaTop assumes
\* of the software that drives it.
THEOREM AppsHandsOff == Spec => HandsOffDuringRun
<1>1. ASSUME IInv, [Next]_vars, acc.state # "idle", todo' # todo
      PROVE  UNCHANGED <<regs, conf, tables, mem, acc, counted>>
  <2>1. Main
    BY <1>1 DEF Next, Strela, Configure, Fetch, StoreWord, End, vars
  <2>2. PICK op : Step(op)
    BY <2>1 DEF Main, Enable, WriteCtrl, WriteMode, WriteParams, StoreArray, PatchKernel,
                PollDone, UnflagIntr, WaitDone, ReadReport
  <2>3. op \in {"poll", "wait", "unflag"} /\ Now.op = op
    BY <1>1, <2>2, MainStep
  <2>4. PollDone \/ WaitDone \/ UnflagIntr
    BY <2>1, <2>3 DEF Main, Enable, WriteCtrl, WriteMode, WriteParams, StoreArray, PatchKernel,
                      ReadReport, Step, At
  <2> QED BY <2>4 DEF PollDone, WaitDone, UnflagIntr
<1>2. IInv /\ [Next]_vars =>
        [acc.state # "idle" /\ todo' # todo =>
           UNCHANGED <<regs, conf, tables, mem, acc, counted>>]_vars
  BY <1>1
<1> QED BY <1>2, Invariant, PTL DEF Spec, HandsOffDuringRun

-----------------------------------------------------------------------------
(* What main knows of the accelerator                                      *)

\* The application with the tables and the arrays it has in memory.
World(a, t, m) == [app |-> a, tables |-> t, mem |-> m]
Loaded(a)      == World(a, KernelWords, Data[a])

\* What main stores in memory itself.
Changed(world, kernel, word, to) ==
    World(world.app, [world.tables EXCEPT ![kernel][word] = to], world.mem)
Stored(world, array, values) ==
    World(world.app, world.tables, [world.mem EXCEPT ![array] = values])

\* The parameters as main wrote them, and the runs: the world they are made in,
\* the kernel that is held (NoKernel if the next START loads one, "stale" if its
\* table was patched since), whether cycles are counted, how many runs main has
\* started and which of them are counted.
Known(p, r) == [params |-> p, runs |-> r]

Params(k, i, o) == [conf_addr |-> k, imn |-> i, omn |-> o]

Runs(world, held, on, made, runs) ==
    [world |-> world, held |-> held, on |-> on, made |-> made, counted |-> runs]

\* A START goes on with the kernel that is held, or loads the one that is named.
Executes(x) == IF x.runs.held = NoKernel THEN x.params.conf_addr ELSE x.runs.held

Inside(a, s) ==
    s.n > 0 => s.array \in DOMAIN Data[a] /\ s.at + s.n - 1 \in DOMAIN Data[a][s.array]

WordsRead(p) == [d \in Columns |-> [i \in 1 .. p.imn[d].n |-> 0]]

\* Application a has given kernel k the vectors it needs.
Balances(a, k, p) ==
    /\ InputsOf[k] = {c \in Columns : p.imn[c].n > 0}
    /\ \A c \in Columns : Inside(a, p.imn[c]) /\ Inside(a, p.omn[c])
    /\ k # "minsearch" =>
         \A c \in Columns : \A w : p.omn[c].n = Len(Outputs(k, w, WordsRead(p))[c])

\* Streams of any words.
AreStreams(s) == \A c \in Columns : \E S : s[c] \in Seq(S)

Placed(s) == s.at \in Nat /\ s.n \in Nat

Apart(s, t) ==
    s.array = t.array => \A i \in 0 .. s.n - 1, j \in 0 .. t.n - 1 : s.at + i # t.at + j

\* Column c delivers a word only for a word that column d was given.
WaitsFor(k, c, d) == \A w, s : AreStreams(s) => Len(Outputs(k, w, s)[c]) <= Len(s[d])

\* A vector that is stored is none that is read, or is read ahead of the stores.
Spares(k, p) ==
    /\ \A c \in Columns : Placed(p.imn[c]) /\ Placed(p.omn[c])
    /\ \A c, d \in Columns :
         Apart(p.omn[c], p.imn[d]) \/ (p.omn[c] = p.imn[d] /\ WaitsFor(k, c, d))

Fits(a, k, p) == Balances(a, k, p) /\ Spares(k, p)

\* The data sets have a word for each vector that is made of them.
DataGiven ==
    /\ DATA_SIZE("relu") \in Nat \ {0, 1, 2} /\ DATA_SIZE("fft") \in Nat \ {0}
    /\ DATA_SIZE("dither") \in Nat \ {0} /\ DATA_SIZE("minsearch") \in Nat \ {0}

\* No two nodes store into the same words.
StoresApart(p) == \A c, d \in Columns : c # d => Apart(p.omn[c], p.omn[d])

MayRun(a, k, p) ==
    /\ DataGiven => Fits(a, k, p) /\ StoresApart(p)
    /\ k = "minsearch" => a = "minsearch"

\* The memory that a run of kernel k leaves: word j of vector c is the one the
\* kernel makes of the words that were there when it began.
Taken(s, m)          == [i \in 1 .. s.n |-> m[s.array][s.at + i - 1]]
Inputs(p, m)         == [c \in Columns |-> Taken(p.imn[c], m)]
Yield(k, p, world)   == Outputs(k, world.tables[k], Inputs(p, world.mem))
Covers(s, array, i)  == s.array = array /\ i \in s.at .. s.at + s.n - 1
Covered(p, array, i) == \E c \in Columns : Covers(p.omn[c], array, i)

Writer(p, array, i)  == CHOOSE c \in Columns : Covers(p.omn[c], array, i)
Word(k, p, world, array, i) ==
    IF Covered(p, array, i)
    THEN LET c == Writer(p, array, i) IN Yield(k, p, world)[c][i - p.omn[c].at + 1]
    ELSE world.mem[array][i]
Left(k, p, world) ==
    [array \in DOMAIN world.mem |->
       [i \in DOMAIN world.mem[array] |-> Word(k, p, world, array, i)]]

Ran(k, p, world) == World(world.app, world.tables, Left(k, p, world))

\* One access, from what main knows before it to what it knows once the run that
\* it may start is over.
Does(a, x, y) ==
    LET p == x.params
        r == x.runs
    IN \/ a.op \in {"enable", "unflag", "wait", "poll"} /\ y = x
       \/ a.op = "read" /\ r.counted = a.runs /\ y = x
       \/ /\ a.op = "store"
          /\ a.array \in DOMAIN Data[r.world.app]
          /\ DOMAIN a.values = DOMAIN Data[r.world.app][a.array]
          /\ a.values = [i \in DOMAIN a.values |-> a.values[i]]
          /\ y = Known(p, Runs(Stored(r.world, a.array, a.values), r.held, r.on, r.made, r.counted))
       \/ a.op = "conf" /\ y = Known(Params(a.kernel, p.imn, p.omn), r)
       \/ /\ a.op = "imn"
          /\ y = Known(Params(p.conf_addr, [p.imn EXCEPT ![a.node] = a.stream], p.omn), r)
       \/ /\ a.op = "omn"
          /\ y = Known(Params(p.conf_addr, p.imn, [p.omn EXCEPT ![a.node] = a.stream]), r)
       \/ /\ a.op = "mode"
          /\ y = Known(p, Runs(r.world, r.held, "PERF_CTR_EN" \in a.bits, r.made, r.counted))
       \/ /\ a.op = "patch"
          /\ DataGiven /\ a.kernel = "minsearch" => a.to \in Nat \ {0}
          /\ y = Known(p, Runs(Changed(r.world, a.kernel, a.word, a.to),
                               IF r.held = a.kernel THEN "stale" ELSE r.held,
                               r.on, r.made, r.counted))
       \/ /\ a.op = "ctrl" /\ ~Starts(a)
          /\ y = Known(IF ClearsParams(a.bits) THEN NoParams ELSE p,
                       Runs(r.world, IF ClearsConf(a.bits) THEN NoKernel ELSE r.held,
                            r.on /\ "CLR" \notin a.bits, r.made,
                            IF ClearsCounters(a.bits) THEN {} ELSE r.counted))
       \/ /\ a.op = "ctrl" /\ a.bits = {"START"}
          /\ Executes(x) \in KernelNames /\ p.conf_addr \in {NoKernel, Executes(x)}
          /\ MayRun(r.world.app, Executes(x), p)
          /\ y = Known(p, Runs(Ran(Executes(x), p, r.world), Executes(x), r.on, r.made + 1,
                               IF r.on THEN r.counted \cup {r.made + 1} ELSE r.counted))

\* The accesses s lead from x to y.
Leads(s, x, y) ==
    /\ \E S : s \in Seq(S)
    /\ \E f : /\ f[0] = x /\ f[Len(s)] = y
             /\ \A i \in 1 .. Len(s) : Does(s[i], f[i - 1], f[i])

LEMMA LeadsConcat ==
  ASSUME NEW s, NEW t, NEW x, NEW y, NEW z, Leads(s, x, y), Leads(t, y, z)
  PROVE  Leads(s \o t, x, z)
<1>1. PICK S : s \in Seq(S) /\ t \in Seq(S)
  BY SameSet DEF Leads
<1>2. PICK k \in Nat, m \in Nat : k = Len(s) /\ m = Len(t)
  BY <1>1, LenProperties
<1>3. /\ s \o t \in Seq(S) /\ Len(s \o t) = k + m
      /\ \A i \in 1 .. k + m : (s \o t)[i] = IF i <= k THEN s[i] ELSE t[i - k]
  BY <1>1, <1>2, ConcatProperties
<1>4. PICK f : f[0] = x /\ f[k] = y /\ \A i \in 1 .. k : Does(s[i], f[i - 1], f[i])
  BY <1>2 DEF Leads
<1>5. PICK g : g[0] = y /\ g[m] = z /\ \A i \in 1 .. m : Does(t[i], g[i - 1], g[i])
  BY <1>2 DEF Leads
<1>6. PICK h : \A i \in 0 .. k + m : h[i] = IF i <= k THEN f[i] ELSE g[i - k]
  <2> DEFINE h == [i \in 0 .. k + m |-> IF i <= k THEN f[i] ELSE g[i - k]]
  <2>1. \A i \in 0 .. k + m : h[i] = IF i <= k THEN f[i] ELSE g[i - k]
    OBVIOUS
  <2> QED BY <2>1
<1>7. h[0] = x /\ h[k + m] = z
  <2>1. h[0] = x
    BY <1>4, <1>6
  <2>2. CASE m = 0
    BY <1>4, <1>5, <1>6, <2>2
  <2>3. CASE m # 0
    <3>1. PICK n \in 0 .. k + m : n = k + m /\ ~(n <= k) /\ n - k = m
      BY <2>3
    <3>2. h[n] = g[n - k]
      BY <1>6, <3>1
    <3> QED BY <1>5, <2>1, <3>1, <3>2, Zenon
  <2> QED BY <2>1, <2>2, <2>3
<1>8. ASSUME NEW i \in 1 .. k + m PROVE Does((s \o t)[i], h[i - 1], h[i])
  <2>1. CASE i <= k
    <3>1. (s \o t)[i] = s[i] /\ h[i] = f[i] /\ h[i - 1] = f[i - 1] /\ i \in 1 .. k
      BY <1>3, <1>6, <2>1
    <3> QED BY <1>4, <3>1
  <2>2. CASE i > k
    <3>1. PICK j \in 1 .. m : j = i - k
      BY <2>2
    <3>2. (s \o t)[i] = t[j] /\ h[i] = g[j]
      BY <1>3, <1>6, <2>2, <3>1
    <3>3. h[i - 1] = g[j - 1]
      <4>1. CASE j = 1
        BY <1>4, <1>5, <1>6, <2>2, <3>1, <4>1
      <4>2. CASE j # 1
        <5>1. i - 1 \in 0 .. k + m /\ ~(i - 1 <= k) /\ (i - 1) - k = j - 1
          BY <2>2, <3>1, <4>2
        <5> QED BY <1>6, <5>1
      <4> QED BY <4>1, <4>2
    <3> QED BY <1>5, <3>2, <3>3
  <2>3. i <= k \/ i > k
    OBVIOUS
  <2> QED BY <2>1, <2>2, <2>3, Zenon
<1> QED BY <1>1, <1>3, <1>7, <1>8 DEF Leads

LEMMA LeadsOne ==
  ASSUME NEW a, NEW x, NEW y, Does(a, x, y)
  PROVE  Leads(<<a>>, x, y)
<1>1. <<a>> \in Seq({a}) /\ Len(<<a>>) = 1 /\ <<a>>[1] = a
  OBVIOUS
<1>2. PICK f : f[0] = x /\ f[1] = y
  <2> DEFINE f == [i \in 0 .. 1 |-> IF i = 0 THEN x ELSE y]
  <2>1. f[0] = x /\ f[1] = y
    OBVIOUS
  <2> QED BY <2>1
<1>3. \A i \in 1 .. 1 : i = 1 /\ i - 1 = 0
  OBVIOUS
<1> QED BY <1>1, <1>2, <1>3 DEF Leads

\* Accesses that change nothing of it.
LEMMA LeadsNowhere ==
  ASSUME NEW S, NEW s \in Seq(S), NEW x, \A a \in S : Does(a, x, x)
  PROVE  Leads(s, x, x)
<1>1. PICK k \in Nat : k = Len(s)
  BY LenProperties
<1>2. PICK f : \A i \in 0 .. k : f[i] = x
  <2> DEFINE f == [i \in 0 .. k |-> x]
  <2>1. \A i \in 0 .. k : f[i] = x
    OBVIOUS
  <2> QED BY <2>1
<1>3. ASSUME NEW i \in 1 .. k PROVE Does(s[i], f[i - 1], f[i])
  <2>1. s[i] \in S /\ f[i - 1] = x /\ f[i] = x
    BY <1>1, <1>2
  <2> QED BY <2>1
<1> QED BY <1>1, <1>2, <1>3 DEF Leads

\* The first access of the rest of a program.
LEMMA LeadsOn ==
  ASSUME NEW s, NEW x, NEW y, Leads(s, x, y), s # <<>>
  PROVE  \E w : Does(Head(s), x, w) /\ Leads(Tail(s), w, y)
<1>1. PICK S : s \in Seq(S)
  BY DEF Leads
<1>2. PICK t \in Seq(S), k \in Nat : Rest(s, t, k)
  BY <1>1, OneLess, Zenon
<1>3. /\ t = Tail(s) /\ Len(s) = k + 1 /\ Len(t) = k
      /\ Head(s) = s[1] /\ \A i \in 1 .. k : t[i] = s[i + 1]
  BY <1>2, Zenon DEF Rest
<1>4. PICK f : f[0] = x /\ f[k + 1] = y /\ \A i \in 1 .. k + 1 : Does(s[i], f[i - 1], f[i])
  BY <1>3 DEF Leads
<1>5. PICK g : \A i \in 0 .. k : g[i] = f[i + 1]
  <2> DEFINE g == [i \in 0 .. k |-> f[i + 1]]
  <2>1. \A i \in 0 .. k : g[i] = f[i + 1]
    OBVIOUS
  <2> QED BY <2>1
<1>6. g[0] = f[1] /\ g[k] = y
  BY <1>4, <1>5
<1>7. ASSUME NEW i \in 1 .. k PROVE Does(t[i], g[i - 1], g[i])
  <2>1. i + 1 \in 1 .. k + 1 /\ t[i] = s[i + 1] /\ g[i - 1] = f[(i + 1) - 1] /\ g[i] = f[i + 1]
    BY <1>3, <1>5
  <2> QED BY <1>4, <2>1
<1>8. Leads(t, g[0], y)
  BY <1>3, <1>6, <1>7 DEF Leads
<1>9. Does(Head(s), x, g[0])
  <2>1. 1 \in 1 .. k + 1 /\ 1 - 1 = 0
    OBVIOUS
  <2> QED BY <1>3, <1>4, <1>6, <2>1
<1> QED BY <1>3, <1>8, <1>9

LEMMA LeadsThen ==
  ASSUME NEW s, NEW a, NEW x, NEW y, NEW z, Leads(s, x, y), Does(a, y, z)
  PROVE  Leads(s \o <<a>>, x, z)
BY LeadsOne, LeadsConcat

LEMMA Leads2 ==
  ASSUME NEW a, NEW b, NEW x, NEW y, NEW z, Does(a, x, y), Does(b, y, z)
  PROVE  Leads(<<a, b>>, x, z)
<1>1. PICK S, s, t : /\ s = <<a>> /\ t = <<a, b>> /\ b \in S
                     /\ Len(s) = 1 /\ s[1] = a /\ Len(t) = 2 /\ t[1] = a /\ t[2] = b
                     /\ s \in Seq(S) /\ t \in Seq(S)
  <2>1. b \in {a, b} /\ <<a>> \in Seq({a, b}) /\ <<a, b>> \in Seq({a, b})
    OBVIOUS
  <2> QED BY <2>1
<1>2. /\ Append(s, b) \in Seq(S) /\ Len(Append(s, b)) = 2
      /\ Append(s, b)[1] = a /\ Append(s, b)[2] = b
  BY <1>1, AppendProperties
<1>3. t = Append(s, b)
  BY <1>1, <1>2, SeqEqual
<1>4. <<a, b>> = <<a>> \o <<b>>
  BY <1>1, <1>3, AppendIsConcat
<1> QED BY <1>4, LeadsOne, LeadsThen

LEMMA Leads3 ==
  ASSUME NEW a, NEW b, NEW c, NEW x, NEW y, NEW z, NEW w,
         Does(a, x, y), Does(b, y, z), Does(c, z, w)
  PROVE  Leads(<<a, b, c>>, x, w)
<1>1. <<a, b, c>> = <<a, b>> \o <<c>>
  OBVIOUS
<1> QED BY <1>1, Leads2, LeadsThen

LEMMA Leads4 ==
  ASSUME NEW a, NEW b, NEW c, NEW d, NEW x, NEW y, NEW z, NEW w, NEW v,
         Does(a, x, y), Does(b, y, z), Does(c, z, w), Does(d, w, v)
  PROVE  Leads(<<a, b, c, d>>, x, v)
<1>1. <<a, b, c, d>> = <<a, b, c>> \o <<d>>
  OBVIOUS
<1> QED BY <1>1, Leads3, LeadsThen

LEMMA Leads7 ==
  ASSUME NEW a1, NEW a2, NEW a3, NEW a4, NEW a5, NEW a6, NEW a7,
         NEW x0, NEW x1, NEW x2, NEW x3, NEW x4, NEW x5, NEW x6, NEW x7,
         Does(a1, x0, x1), Does(a2, x1, x2), Does(a3, x2, x3), Does(a4, x3, x4),
         Does(a5, x4, x5), Does(a6, x5, x6), Does(a7, x6, x7)
  PROVE  Leads(<<a1, a2, a3, a4, a5, a6, a7>>, x0, x7)
<1>1. <<a1, a2, a3, a4, a5, a6, a7>> = <<a1, a2, a3, a4>> \o <<a5, a6, a7>>
  OBVIOUS
<1>2. Leads(<<a1, a2, a3, a4>>, x0, x4)
  BY Leads4, Zenon
<1>3. Leads(<<a5, a6, a7>>, x4, x7)
  BY Leads3, Zenon
<1> QED BY <1>1, <1>2, <1>3, LeadsConcat, Zenon

LEMMA Leads8 ==
  ASSUME NEW a1, NEW a2, NEW a3, NEW a4, NEW a5, NEW a6, NEW a7, NEW a8,
         NEW x0, NEW x1, NEW x2, NEW x3, NEW x4, NEW x5, NEW x6, NEW x7, NEW x8,
         Does(a1, x0, x1), Does(a2, x1, x2), Does(a3, x2, x3), Does(a4, x3, x4),
         Does(a5, x4, x5), Does(a6, x5, x6), Does(a7, x6, x7), Does(a8, x7, x8)
  PROVE  Leads(<<a1, a2, a3, a4, a5, a6, a7, a8>>, x0, x8)
<1>1. <<a1, a2, a3, a4, a5, a6, a7, a8>> = <<a1, a2, a3, a4>> \o <<a5, a6, a7, a8>>
  OBVIOUS
<1>2. Leads(<<a1, a2, a3, a4>>, x0, x4)
  BY Leads4, Zenon
<1>3. Leads(<<a5, a6, a7, a8>>, x4, x8)
  BY Leads4, Zenon
<1> QED BY <1>1, <1>2, <1>3, LeadsConcat, Zenon

\* t is s with one more element.
OneMore(S, s, t, e) ==
    /\ s \in Seq(S) /\ t \in Seq(S) /\ e \in S /\ Len(t) = Len(s) + 1
    /\ \A i \in 1 .. Len(s) : t[i] = s[i]
    /\ t[Len(s) + 1] = e

LEMMA LastOne ==
  ASSUME NEW S, NEW s, NEW t, NEW e, OneMore(S, s, t, e)
  PROVE  t = s \o <<e>>
<1> USE DEF OneMore
<1>1. PICK k \in Nat : k = Len(s)
  BY LenProperties
<1>2. PICK u : u = Append(s, e)
  OBVIOUS
<1>3. u \in Seq(S) /\ Len(u) = k + 1 /\ (\A i \in 1 .. k : u[i] = s[i]) /\ u[k + 1] = e
  BY <1>1, <1>2, AppendProperties
<1>4. ASSUME NEW i \in 1 .. k + 1 PROVE t[i] = u[i]
  <2>1. i \in 1 .. k \/ i = k + 1
    BY <1>1
  <2> QED BY <1>1, <1>3, <2>1
<1>5. t = u
  BY <1>1, <1>3, <1>4, SeqEqual
<1> QED BY <1>2, <1>5, AppendIsConcat

LEMMA Leads9 ==
  ASSUME NEW a1, NEW a2, NEW a3, NEW a4, NEW a5, NEW a6, NEW a7, NEW a8, NEW a9,
         NEW x0, NEW x8, NEW x9,
         Leads(<<a1, a2, a3, a4, a5, a6, a7, a8>>, x0, x8), Does(a9, x8, x9)
  PROVE  Leads(<<a1, a2, a3, a4, a5, a6, a7, a8, a9>>, x0, x9)
<1>1. PICK S, s, t :
        /\ S = {a1, a2, a3, a4, a5, a6, a7, a8, a9}
        /\ s = <<a1, a2, a3, a4, a5, a6, a7, a8>>
        /\ t = <<a1, a2, a3, a4, a5, a6, a7, a8, a9>>
  OBVIOUS
<1>2. s \in Seq({a1, a2, a3, a4, a5, a6, a7, a8, a9})
  BY <1>1
<1>3. t \in Seq({a1, a2, a3, a4, a5, a6, a7, a8, a9})
  BY <1>1
<1>4. Len(s) = 8 /\ Len(t) = 8 + 1 /\ a9 \in S
  BY <1>1
<1>5. /\ t[1] = s[1] /\ t[2] = s[2] /\ t[3] = s[3] /\ t[4] = s[4] /\ t[5] = s[5]
      /\ t[6] = s[6] /\ t[7] = s[7] /\ t[8] = s[8] /\ t[8 + 1] = a9
  BY <1>1
<1>6. \A i \in 1 .. 8 : i = 1 \/ i = 2 \/ i = 3 \/ i = 4 \/ i = 5 \/ i = 6 \/ i = 7 \/ i = 8
  OBVIOUS
<1>7. \A i \in 1 .. Len(s) : t[i] = s[i]
  BY <1>4, <1>5, <1>6
<1>8. Len(t) = Len(s) + 1 /\ t[Len(s) + 1] = a9 /\ s \in Seq(S) /\ t \in Seq(S)
  BY <1>1, <1>2, <1>3, <1>4, <1>5
<1>9. t = s \o <<a9>>
  <2>1. OneMore(S, s, t, a9)
    BY <1>4, <1>7, <1>8 DEF OneMore
  <2> QED BY <2>1, LastOne, Zenon
<1> QED BY <1>1, <1>9, LeadsThen, Zenon

-----------------------------------------------------------------------------
(* What an access does                                                     *)

Nothing == ByColumn(NoStream, NoStream, NoStream, NoStream)

LEMMA ColumnChange ==
  ASSUME NEW p, NEW q, NEW r, NEW t, NEW s
  PROVE  /\ [ByColumn(p, q, r, t) EXCEPT ![0] = s] = ByColumn(s, q, r, t)
         /\ [ByColumn(p, q, r, t) EXCEPT ![1] = s] = ByColumn(p, s, r, t)
         /\ [ByColumn(p, q, r, t) EXCEPT ![2] = s] = ByColumn(p, q, s, t)
         /\ [ByColumn(p, q, r, t) EXCEPT ![3] = s] = ByColumn(p, q, r, s)
<1>1. ASSUME NEW c \in Columns, NEW f, DOMAIN f = Columns,
             f = [[d \in Columns |-> ByColumn(p, q, r, t)[d]] EXCEPT ![c] = s]
      PROVE  f = [d \in Columns |-> IF d = c THEN s ELSE ByColumn(p, q, r, t)[d]]
  BY <1>1
<1>2. [d \in Columns |-> ByColumn(p, q, r, t)[d]] = ByColumn(p, q, r, t)
  BY DEF ByColumn
<1>3. \A c \in Columns : [ByColumn(p, q, r, t) EXCEPT ![c] = s] =
                           [d \in Columns |-> IF d = c THEN s ELSE ByColumn(p, q, r, t)[d]]
  BY <1>1, <1>2
<1>4. /\ 0 \in Columns /\ 1 \in Columns /\ 2 \in Columns /\ 3 \in Columns
      /\ \A d \in Columns : d = 0 \/ d = 1 \/ d = 2 \/ d = 3
  BY DEF Columns
<1>5. /\ [d \in Columns |-> IF d = 0 THEN s ELSE ByColumn(p, q, r, t)[d]] = ByColumn(s, q, r, t)
      /\ [d \in Columns |-> IF d = 1 THEN s ELSE ByColumn(p, q, r, t)[d]] = ByColumn(p, s, r, t)
      /\ [d \in Columns |-> IF d = 2 THEN s ELSE ByColumn(p, q, r, t)[d]] = ByColumn(p, q, s, t)
      /\ [d \in Columns |-> IF d = 3 THEN s ELSE ByColumn(p, q, r, t)[d]] = ByColumn(p, q, r, s)
  BY <1>4 DEF ByColumn
<1> QED BY <1>3, <1>4, <1>5

LEMMA ColumnPlaces ==
  ASSUME NEW p, NEW q, NEW r, NEW t
  PROVE  /\ ByColumn(p, q, r, t)[0] = p /\ ByColumn(p, q, r, t)[1] = q
         /\ ByColumn(p, q, r, t)[2] = r /\ ByColumn(p, q, r, t)[3] = t
         /\ \A c \in Columns : c = 0 \/ c = 1 \/ c = 2 \/ c = 3
BY DEF ByColumn, Columns

LEMMA DoesConf ==
  ASSUME NEW k, NEW j, NEW i, NEW o, NEW r
  PROVE  Does(Conf(k), Known(Params(j, i, o), r), Known(Params(k, i, o), r))
BY DEF Does, Conf, Known, Params

LEMMA DoesImn ==
  ASSUME NEW c, NEW array, NEW at, NEW n, NEW k, NEW i, NEW o, NEW r,
         NEW j, j = [i EXCEPT ![c] = Stream(array, at, n)]
  PROVE  Does(Imn(c, array, at, n), Known(Params(k, i, o), r), Known(Params(k, j, o), r))
BY DEF Does, Imn, Known, Params

LEMMA DoesOmn ==
  ASSUME NEW c, NEW array, NEW at, NEW n, NEW k, NEW i, NEW o, NEW r,
         NEW j, j = [o EXCEPT ![c] = Stream(array, at, n)]
  PROVE  Does(Omn(c, array, at, n), Known(Params(k, i, o), r), Known(Params(k, i, j), r))
BY DEF Does, Omn, Known, Params

LEMMA DoesMode ==
  ASSUME NEW bits, NEW p, NEW world, NEW held, NEW on, NEW made, NEW runs
  PROVE  Does(Mode(bits), Known(p, Runs(world, held, on, made, runs)),
              Known(p, Runs(world, held, "PERF_CTR_EN" \in bits, made, runs)))
BY DEF Does, Mode, Known, Runs

LEMMA DoesCtrl ==
  ASSUME NEW p, NEW world, NEW held, NEW on \in BOOLEAN, NEW made, NEW runs
  PROVE  /\ Does(Ctrl({"CLR"}), Known(p, Runs(world, held, on, made, runs)),
                 Known(NoParams, Runs(world, NoKernel, FALSE, made, {})))
         /\ Does(Ctrl({"CLR_PARAM"}), Known(p, Runs(world, held, on, made, runs)),
                 Known(NoParams, Runs(world, held, on, made, runs)))
         /\ Does(Ctrl({"CLR_CONF"}), Known(p, Runs(world, held, on, made, runs)),
                 Known(p, Runs(world, NoKernel, on, made, runs)))
         /\ Does(Ctrl({"CLR_PARAM", "CLR_CONF"}), Known(p, Runs(world, held, on, made, runs)),
                 Known(NoParams, Runs(world, NoKernel, on, made, runs)))
<1>1. PICK x : x = Known(p, Runs(world, held, on, made, runs))
  OBVIOUS
<1>2. /\ x.params = p /\ x.runs.world = world /\ x.runs.held = held /\ x.runs.on = on
      /\ x.runs.made = made /\ x.runs.counted = runs
  BY <1>1 DEF Known, Runs
<1>3. ASSUME NEW bits, "START" \notin bits
      PROVE  Does(Ctrl(bits), x,
                  Known(IF ClearsParams(bits) THEN NoParams ELSE p,
                        Runs(world, IF ClearsConf(bits) THEN NoKernel ELSE held,
                             on /\ "CLR" \notin bits, made,
                             IF ClearsCounters(bits) THEN {} ELSE runs)))
  BY <1>2, <1>3 DEF Does, Ctrl, Starts
<1>4. /\ ClearsParams({"CLR"}) /\ ClearsConf({"CLR"}) /\ ClearsCounters({"CLR"})
      /\ ClearsParams({"CLR_PARAM"}) /\ ~ClearsConf({"CLR_PARAM"})
      /\ ~ClearsCounters({"CLR_PARAM"})
      /\ ~ClearsParams({"CLR_CONF"}) /\ ClearsConf({"CLR_CONF"})
      /\ ~ClearsCounters({"CLR_CONF"})
      /\ ClearsParams({"CLR_PARAM", "CLR_CONF"}) /\ ClearsConf({"CLR_PARAM", "CLR_CONF"})
      /\ ~ClearsCounters({"CLR_PARAM", "CLR_CONF"})
  BY DEF ClearsParams, ClearsConf, ClearsCounters
<1>5. /\ (on /\ "CLR" \notin {"CLR"}) = FALSE /\ (on /\ "CLR" \notin {"CLR_PARAM"}) = on
      /\ (on /\ "CLR" \notin {"CLR_CONF"}) = on
      /\ (on /\ "CLR" \notin {"CLR_PARAM", "CLR_CONF"}) = on
  OBVIOUS
<1>6. Does(Ctrl({"CLR"}), x, Known(NoParams, Runs(world, NoKernel, FALSE, made, {})))
  BY <1>3, <1>4, <1>5
<1>7. Does(Ctrl({"CLR_PARAM"}), x, Known(NoParams, Runs(world, held, on, made, runs)))
  BY <1>3, <1>4, <1>5
<1>8. Does(Ctrl({"CLR_CONF"}), x, Known(p, Runs(world, NoKernel, on, made, runs)))
  BY <1>3, <1>4, <1>5
<1>9. Does(Ctrl({"CLR_PARAM", "CLR_CONF"}), x, Known(NoParams, Runs(world, NoKernel, on, made, runs)))
  BY <1>3, <1>4, <1>5
<1> QED BY <1>1, <1>6, <1>7, <1>8, <1>9

LEMMA NoParamsByColumn == NoParams = Params(NoKernel, Nothing, Nothing)
BY DEF NoParams, Params, Nothing, ByColumn

LEMMA SetImn ==
  ASSUME NEW array, NEW at, NEW n, NEW k, NEW o, NEW r, NEW p, NEW q, NEW u, NEW t
  PROVE  /\ Does(Imn(0, array, at, n), Known(Params(k, ByColumn(p, q, u, t), o), r),
                 Known(Params(k, ByColumn(Stream(array, at, n), q, u, t), o), r))
         /\ Does(Imn(1, array, at, n), Known(Params(k, ByColumn(p, q, u, t), o), r),
                 Known(Params(k, ByColumn(p, Stream(array, at, n), u, t), o), r))
         /\ Does(Imn(2, array, at, n), Known(Params(k, ByColumn(p, q, u, t), o), r),
                 Known(Params(k, ByColumn(p, q, Stream(array, at, n), t), o), r))
         /\ Does(Imn(3, array, at, n), Known(Params(k, ByColumn(p, q, u, t), o), r),
                 Known(Params(k, ByColumn(p, q, u, Stream(array, at, n)), o), r))
<1>1. PICK s : s = Stream(array, at, n)
  OBVIOUS
<1>2. PICK i0, i1, i2, i3 : /\ i0 = ByColumn(s, q, u, t) /\ i1 = ByColumn(p, s, u, t)
                            /\ i2 = ByColumn(p, q, s, t) /\ i3 = ByColumn(p, q, u, s)
  OBVIOUS
<1>3. PICK f : /\ f = ByColumn(p, q, u, t)
               /\ i0 = [f EXCEPT ![0] = s] /\ i1 = [f EXCEPT ![1] = s]
               /\ i2 = [f EXCEPT ![2] = s] /\ i3 = [f EXCEPT ![3] = s]
  BY <1>2, ColumnChange
<1> QED BY <1>1, <1>2, <1>3, DoesImn, ZenonT(60)

LEMMA SetOmn ==
  ASSUME NEW array, NEW at, NEW n, NEW k, NEW i, NEW r, NEW p, NEW q, NEW u, NEW t
  PROVE  /\ Does(Omn(0, array, at, n), Known(Params(k, i, ByColumn(p, q, u, t)), r),
                 Known(Params(k, i, ByColumn(Stream(array, at, n), q, u, t)), r))
         /\ Does(Omn(1, array, at, n), Known(Params(k, i, ByColumn(p, q, u, t)), r),
                 Known(Params(k, i, ByColumn(p, Stream(array, at, n), u, t)), r))
         /\ Does(Omn(2, array, at, n), Known(Params(k, i, ByColumn(p, q, u, t)), r),
                 Known(Params(k, i, ByColumn(p, q, Stream(array, at, n), t)), r))
         /\ Does(Omn(3, array, at, n), Known(Params(k, i, ByColumn(p, q, u, t)), r),
                 Known(Params(k, i, ByColumn(p, q, u, Stream(array, at, n))), r))
<1>1. PICK s : s = Stream(array, at, n)
  OBVIOUS
<1>2. PICK i0, i1, i2, i3 : /\ i0 = ByColumn(s, q, u, t) /\ i1 = ByColumn(p, s, u, t)
                            /\ i2 = ByColumn(p, q, s, t) /\ i3 = ByColumn(p, q, u, s)
  OBVIOUS
<1>3. PICK f : /\ f = ByColumn(p, q, u, t)
               /\ i0 = [f EXCEPT ![0] = s] /\ i1 = [f EXCEPT ![1] = s]
               /\ i2 = [f EXCEPT ![2] = s] /\ i3 = [f EXCEPT ![3] = s]
  BY <1>2, ColumnChange
<1> QED BY <1>1, <1>2, <1>3, DoesOmn, ZenonT(60)

\* A run, waited for by interrupt or by polling.
LEMMA RunLeads ==
  ASSUME NEW world, NEW p, NEW k \in KernelNames, NEW held \in {NoKernel, k},
         p.conf_addr \in {NoKernel, k}, held = NoKernel => p.conf_addr = k,
         MayRun(world.app, k, p), NEW v, v = Ran(k, p, world),
         NEW on, NEW made, NEW n, n = made + 1, NEW runs, NEW more,
         more = (IF on THEN runs \cup {n} ELSE runs)
  PROVE  /\ Leads(RunIntr, Known(p, Runs(world, held, on, made, runs)),
                  Known(p, Runs(v, k, on, n, more)))
         /\ Leads(RunPoll, Known(p, Runs(world, held, on, made, runs)),
                  Known(p, Runs(v, k, on, n, more)))
<1> DEFINE x == Known(p, Runs(world, held, on, made, runs))
           y == Known(p, Runs(v, k, on, n, more))
<1>1. Executes(x) = k
  BY DEF Executes, Known, Runs
<1>2. Does(Ctrl({"START"}), x, y)
  <2>1. Ctrl({"START"}).op = "ctrl" /\ Ctrl({"START"}).bits = {"START"}
    BY DEF Ctrl
  <2>2. /\ x.params = p /\ x.runs.world = world /\ x.runs.on = on /\ x.runs.made = made
        /\ x.runs.counted = runs
    BY DEF Known, Runs
  <2> HIDE DEF x
  <2> QED BY <1>1, <2>1, <2>2 DEF Does
<1>3. Does(Unflag, y, y) /\ Does(WaitIntr, y, y) /\ Does(Poll, y, y)
  BY DEF Does, Unflag, WaitIntr, Poll
<1> HIDE DEF x, y
<1>4. Leads(RunIntr, x, y)
  BY <1>2, <1>3, Leads3 DEF RunIntr
<1>5. Leads(RunPoll, x, y)
  BY <1>2, <1>3, Leads2 DEF RunPoll
<1> QED BY <1>4, <1>5 DEF x, y

\* What main knows when it begins.
Fresh(a) == Known(NoParams, Runs(Loaded(a), NoKernel, FALSE, 0, {}))

LEMMA BeginLeads ==
  ASSUME NEW world
  PROVE  /\ Leads(Begin, Known(NoParams, Runs(world, NoKernel, FALSE, 0, {})),
                  Known(NoParams, Runs(world, NoKernel, TRUE, 0, {})))
         /\ Leads(Tail(Begin), Known(NoParams, Runs(world, NoKernel, FALSE, 0, {})),
                  Known(NoParams, Runs(world, NoKernel, TRUE, 0, {})))
<1> DEFINE x == Known(NoParams, Runs(world, NoKernel, FALSE, 0, {}))
           y == Known(NoParams, Runs(world, NoKernel, TRUE, 0, {}))
<1>1. Does(EnableInterrupts, x, x)
  BY DEF Does, EnableInterrupts
<1>2. Does(Ctrl({"CLR"}), x, x)
  BY DoesCtrl
<1>3. Does(Mode({"PERF_CTR_EN", "INTR_EN"}), x, y)
  <2>1. ("PERF_CTR_EN" \in {"PERF_CTR_EN", "INTR_EN"}) = TRUE
    OBVIOUS
  <2> QED BY <2>1, DoesMode
<1> HIDE DEF x, y
<1>4. Leads(Begin, x, y)
  BY <1>1, <1>2, <1>3, Leads3 DEF Begin
<1>5. Tail(Begin) = <<Ctrl({"CLR"}), Mode({"PERF_CTR_EN", "INTR_EN"})>>
  <2>1. PICK e, c, m : /\ e = EnableInterrupts /\ c = Ctrl({"CLR"})
                       /\ m = Mode({"PERF_CTR_EN", "INTR_EN"})
    OBVIOUS
  <2>2. Tail(<<e, c, m>>) = <<c, m>>
    OBVIOUS
  <2> QED BY <2>1, <2>2 DEF Begin
<1>6. Leads(Tail(Begin), x, y)
  BY <1>2, <1>3, <1>5, Leads2
<1> QED BY <1>4, <1>6 DEF x, y

\* What main knows when it ends.
Ended(world, n) == Known(NoParams, Runs(world, NoKernel, FALSE, n, {}))

LEMMA FinishLeads ==
  ASSUME NEW world, NEW p, NEW k, NEW on, NEW n, NEW runs
  PROVE  Leads(Finish(runs), Known(p, Runs(world, k, on, n, runs)), Ended(world, n))
<1> DEFINE x == Known(p, Runs(world, k, on, n, runs))
           y == Known(p, Runs(world, k, FALSE, n, runs))
           z == Ended(world, n)
<1>1. Does(Mode({}), x, y)
  <2>1. ("PERF_CTR_EN" \in {}) = FALSE
    OBVIOUS
  <2> QED BY <2>1, DoesMode
<1>2. Does(ReadCounters(runs), y, y)
  BY DEF Does, ReadCounters, Known, Runs
<1>3. Does(Ctrl({"CLR"}), y, z)
  BY DoesCtrl DEF Ended
<1> HIDE DEF x, y, z
<1>4. Leads(Finish(runs), x, z)
  BY <1>1, <1>2, <1>3, Leads3 DEF Finish
<1> QED BY <1>4 DEF x, z

-----------------------------------------------------------------------------
(* The memory that a run leaves                                            *)

AllPlaced(p) == \A c \in Columns : Placed(p.omn[c])

Tabulated(f) == f = [i \in DOMAIN f |-> f[i]]

LEMMA SameTable ==
  ASSUME NEW f, NEW g, Tabulated(f), Tabulated(g), DOMAIN f = DOMAIN g,
         \A i \in DOMAIN f : f[i] = g[i]
  PROVE  f = g
BY DEF Tabulated

LEMMA LeftDomains ==
  ASSUME NEW k, NEW p, NEW world
  PROVE  /\ DOMAIN Left(k, p, world) = DOMAIN world.mem /\ Tabulated(Left(k, p, world))
         /\ \A x \in DOMAIN world.mem :
              DOMAIN Left(k, p, world)[x] = DOMAIN world.mem[x] /\ Tabulated(Left(k, p, world)[x])
BY DEF Left, Tabulated

LEMMA LeftElse ==
  ASSUME NEW k, NEW p, NEW world, NEW x \in DOMAIN world.mem, NEW i \in DOMAIN world.mem[x],
         ~Covered(p, x, i)
  PROVE  Left(k, p, world)[x][i] = world.mem[x][i]
BY DEF Left, Word

LEMMA LeftAt ==
  ASSUME NEW k, NEW p, NEW world, StoresApart(p), AllPlaced(p), NEW c \in Columns,
         NEW x \in DOMAIN world.mem, p.omn[c].array = x, NEW j \in 0 .. p.omn[c].n - 1,
         NEW i \in DOMAIN world.mem[x], i = p.omn[c].at + j
  PROVE  Left(k, p, world)[x][i] = Yield(k, p, world)[c][j + 1]
<1>1. PICK at \in Nat, n \in Nat : at = p.omn[c].at /\ n = p.omn[c].n
  BY DEF AllPlaced, Placed
<1>2. Covers(p.omn[c], x, at + j)
  BY <1>1 DEF Covers
<1>3. ASSUME NEW d \in Columns, Covers(p.omn[d], x, at + j) PROVE d = c
  <2>1. PICK at2 \in Nat, n2 \in Nat : at2 = p.omn[d].at /\ n2 = p.omn[d].n
    BY DEF AllPlaced, Placed
  <2>2. p.omn[d].array = x /\ at + j - at2 \in 0 .. n2 - 1
    BY <1>1, <1>3, <2>1 DEF Covers
  <2>3. at2 + (at + j - at2) = at + j
    BY <1>1, <2>1
  <2> QED BY <1>1, <2>1, <2>2, <2>3 DEF StoresApart, Apart
<1>4. Writer(p, x, at + j) = c
  BY <1>2, <1>3 DEF Writer
<1>5. Covered(p, x, at + j)
  BY <1>2 DEF Covered
<1>6. (at + j) - p.omn[c].at + 1 = j + 1
  BY <1>1
<1> QED BY <1>1, <1>4, <1>5, <1>6 DEF Left, Word

-----------------------------------------------------------------------------
(* What the kernels yield                                                  *)

LEMMA LeastOfThree ==
  ASSUME NEW a \in Nat, NEW b \in Nat, NEW c \in Nat
  PROVE  /\ Min({a, b, c}) \in {a, b, c}
         /\ \A x \in {a, b, c} : Min({a, b, c}) <= x
<1>1. \E x \in {a, b, c} : \A y \in {a, b, c} : x <= y
  OBVIOUS
<1> QED BY <1>1 DEF Min

LEMMA LeastOfFour ==
  ASSUME NEW a \in Nat, NEW b \in Nat, NEW c \in Nat, NEW d \in Nat
  PROVE  /\ Min({a, b, c, d}) \in {a, b, c, d}
         /\ \A x \in {a, b, c, d} : Min({a, b, c, d}) <= x
<1>1. \E x \in {a, b, c, d} : \A y \in {a, b, c, d} : x <= y
  OBVIOUS
<1> QED BY <1>1 DEF Min

\* Streams of any length.
Lengths(s) == \A c \in Columns : Len(s[c]) \in Nat
LEMMA PairedBound ==
  ASSUME NEW s, Lengths(s), NEW C,
         C = Columns \/ C = {0, 1, 2} \/ C = {0, 1, 3} \/ C = {0, 2, 3}
  PROVE  /\ Paired(C, s) \in Nat
         /\ \A c \in C : Paired(C, s) <= Len(s[c])
         /\ \A n \in Nat : (\A c \in C : Len(s[c]) = n) => Paired(C, s) = n
<1>1. Columns = {0, 1, 2, 3}
  BY DEF Columns
<1>2. PICK a \in Nat, b \in Nat, c \in Nat :
         a = Len(s[0]) /\ b = Len(s[1]) /\ c = Len(s[2])
  BY <1>1 DEF Lengths
<1>3. CASE C = {0, 1, 2} \/ C = {0, 1, 3} \/ C = {0, 2, 3}
  <2>1. PICK p \in Columns, q \in Columns : C = {0, p, q}
    BY <1>1, <1>3
  <2>2. PICK f \in Nat, g \in Nat : f = Len(s[p]) /\ g = Len(s[q])
    BY DEF Lengths
  <2>3. {Len(s[d]) : d \in C} = {a, f, g}
    BY <1>2, <2>1, <2>2
  <2>4. Paired(C, s) = Min({a, f, g})
    BY <2>3 DEF Paired
  <2>5. PICK m : m = Min({a, f, g}) /\ m \in {a, f, g} /\ \A x \in {a, f, g} : m <= x
    BY LeastOfThree
  <2> QED BY <1>2, <2>1, <2>2, <2>4, <2>5
<1>4. CASE C = Columns
  <2>0. PICK d \in Nat : d = Len(s[3])
    BY <1>1 DEF Lengths
  <2>1. {Len(s[e]) : e \in C} = {a, b, c, d}
    BY <1>1, <1>2, <1>4, <2>0
  <2>2. Paired(C, s) = Min({a, b, c, d})
    BY <2>1 DEF Paired
  <2>3. PICK m : m = Min({a, b, c, d}) /\ m \in {a, b, c, d} /\ \A x \in {a, b, c, d} : m <= x
    BY LeastOfFour
  <2> QED BY <1>1, <1>2, <1>4, <2>0, <2>2, <2>3
<1> QED BY <1>3, <1>4

LEMMA StreamLength ==
  ASSUME NEW S, NEW x \in Seq(S)
  PROVE  Len(x) \in Nat /\ DOMAIN x = 1 .. Len(x) /\ Len(Positive(x)) = Len(x)
<1>1. PICK n \in Nat : n = Len(x) /\ DOMAIN x = 1 .. n
  BY LenProperties
<1> QED BY <1>1 DEF Positive

LEMMA Yields ==
  ASSUME NEW s, AreStreams(s), NEW w
  PROVE  /\ Lengths(s)
         /\ Outputs("bypass", w, s) = s
         /\ LET y == Outputs("relu", w, s)
            IN  /\ Len(y[0]) = Len(s[0]) /\ Len(y[1]) = 0
                /\ Len(y[2]) = Len(s[1]) /\ Len(y[3]) = Len(s[3])
         /\ LET y == Outputs("fft", w, s)
            IN  /\ Len(y[0]) = Paired({0, 1, 3}, s) /\ Len(y[1]) = Paired({0, 1, 3}, s)
                /\ Len(y[2]) = Paired({0, 2, 3}, s) /\ Len(y[3]) = Paired({0, 2, 3}, s)
         /\ LET y == Outputs("conv2d_1", w, s)
            IN  Len(y[0]) = 0 /\ Len(y[1]) = 0 /\ Len(y[2]) = Paired({0, 1, 2}, s) /\ Len(y[3]) = 0
         /\ LET y == Outputs("conv2d_2", w, s)
            IN  Len(y[0]) = 0 /\ Len(y[1]) = 0 /\ Len(y[2]) = 0 /\ Len(y[3]) = Paired(Columns, s)
         /\ LET y == Outputs("dither", w, s)
            IN  Len(y[0]) = Len(s[0]) /\ Len(y[1]) = 0 /\ Len(y[2]) = 0 /\ Len(y[3]) = 0
<1>1. Lengths(s) /\ \A c \in Columns : DOMAIN s[c] = 1 .. Len(s[c]) /\ Len(Positive(s[c])) = Len(s[c])
  BY StreamLength DEF Lengths, AreStreams
<1>2. PICK m \in Nat, n \in Nat : m = Paired(Columns, s) /\ n = Paired({0, 1, 2}, s)
  BY <1>1, PairedBound
<1>3. 0 \in Columns /\ 1 \in Columns /\ 2 \in Columns /\ 3 \in Columns /\ Len(<<>>) = 0
  BY DEF Columns
<1>4. Outputs("bypass", w, s) = s
  BY DEF Outputs
<1>5. LET y == Outputs("relu", w, s)
      IN  /\ Len(y[0]) = Len(s[0]) /\ Len(y[1]) = 0
          /\ Len(y[2]) = Len(s[1]) /\ Len(y[3]) = Len(s[3])
  BY <1>1, <1>3, ColumnPlaces DEF Outputs, Relu
<1>6. LET y == Outputs("fft", w, s)
      IN  /\ Len(y[0]) = Paired({0, 1, 3}, s) /\ Len(y[1]) = Paired({0, 1, 3}, s)
          /\ Len(y[2]) = Paired({0, 2, 3}, s) /\ Len(y[3]) = Paired({0, 2, 3}, s)
  <2>1. PICK re \in Nat, im \in Nat : re = Paired({0, 1, 3}, s) /\ im = Paired({0, 2, 3}, s)
    BY <1>1, <1>3, PairedBound
  <2>2. Outputs("fft", w, s) = Fft(s)
    BY DEF Outputs
  <2>3. /\ Len(Fft(s)[0]) = re /\ Len(Fft(s)[1]) = re
        /\ Len(Fft(s)[2]) = im /\ Len(Fft(s)[3]) = im
    BY <2>1, ColumnPlaces DEF Fft
  <2> QED BY <2>1, <2>2, <2>3
<1>7. LET y == Outputs("conv2d_1", w, s)
      IN  Len(y[0]) = 0 /\ Len(y[1]) = 0 /\ Len(y[2]) = n /\ Len(y[3]) = 0
  BY <1>2, <1>3, ColumnPlaces DEF Outputs, Conv2d1
<1>8. LET y == Outputs("conv2d_2", w, s)
      IN  Len(y[0]) = 0 /\ Len(y[1]) = 0 /\ Len(y[2]) = 0 /\ Len(y[3]) = m
  BY <1>2, <1>3, ColumnPlaces DEF Outputs, Conv2d2
<1>9. LET y == Outputs("dither", w, s)
      IN  Len(y[0]) = Len(s[0]) /\ Len(y[1]) = 0 /\ Len(y[2]) = 0 /\ Len(y[3]) = 0
  <2>1. Outputs("dither", w, s) = Dither(s)
    BY DEF Outputs
  <2>2. PICK x : Dither(s) = ByColumn(x, <<>>, <<>>, <<>>) /\ Len(x) = Len(s[0])
    <3>1. PICK len \in Nat : len = Len(s[0]) /\ DOMAIN s[0] = 1 .. len
      BY <1>1, <1>3
    <3>2. \A f : Len([i \in 1 .. len |-> IF s[0][i] + f[i - 1] > 127 THEN 255 ELSE 0]) = len
      BY <3>1
    <3>3. \E f : Dither(s) =
             ByColumn([i \in 1 .. len |-> IF s[0][i] + f[i - 1] > 127 THEN 255 ELSE 0],
                      <<>>, <<>>, <<>>)
      BY <3>1, Zenon DEF Dither
    <3> QED BY <3>1, <3>2, <3>3
  <2> QED BY <1>3, <2>1, <2>2, ColumnPlaces
<1> QED BY <1>1, <1>2, <1>4, <1>5, <1>6, <1>7, <1>8, <1>9

LEMMA YieldLengths ==
  ASSUME NEW k \in KernelNames, k # "minsearch", NEW s, AreStreams(s), NEW w
  PROVE  Lengths(Outputs(k, w, s))
<1>1. Lengths(s) /\ 0 \in Columns /\ 1 \in Columns /\ 2 \in Columns /\ 3 \in Columns
  BY Yields DEF Columns
<1>2. \A C : C = Columns \/ C = {0, 1, 2} \/ C = {0, 1, 3} \/ C = {0, 2, 3} => Paired(C, s) \in Nat
  BY <1>1, PairedBound
<1>3. \A c \in Columns : c = 0 \/ c = 1 \/ c = 2 \/ c = 3
  BY DEF Columns
<1> DEFINE Numbers(y) == /\ Len(y[0]) \in Nat /\ Len(y[1]) \in Nat
                        /\ Len(y[2]) \in Nat /\ Len(y[3]) \in Nat
<1>4. k # "bypass" => Numbers(Outputs(k, w, s))
  BY <1>1, <1>2, Names, Yields DEF Lengths
<1>5. k # "bypass" => Lengths(Outputs(k, w, s))
  BY <1>3, <1>4 DEF Lengths
<1> QED BY <1>1, <1>5, Yields

LEMMA Asked ==
  ASSUME NEW k, NEW i, NEW o, \A c \in Columns : i[c].n \in Nat
  PROVE  /\ AreStreams(WordsRead(Params(k, i, o))) /\ Lengths(WordsRead(Params(k, i, o)))
         /\ \A c \in Columns : Len(WordsRead(Params(k, i, o))[c]) = i[c].n
<1>1. ASSUME NEW n \in Nat PROVE [j \in 1 .. n |-> 0] \in Seq({0}) /\ Len([j \in 1 .. n |-> 0]) = n
  OBVIOUS
<1>2. \A c \in Columns : WordsRead(Params(k, i, o))[c] = [j \in 1 .. i[c].n |-> 0]
  BY DEF WordsRead, Params
<1> QED BY <1>1, <1>2 DEF AreStreams, Lengths

-----------------------------------------------------------------------------
(* What the applications give the kernels                                  *)

LEMMA Arrays ==
  /\ Data["conv2d"] = Conv2dData /\ Data["relu"] = ReluData /\ Data["fft"] = FftData
  /\ Data["dither"] = DitherData /\ Data["minsearch"] = MinSearchData /\ Data["test"] = TestData
BY DEF Data

LEMMA InputArrays ==
  ASSUME NEW a \in {"conv2d", "relu", "dither", "minsearch"}, NEW n, n = DATA_SIZE(a)
  PROVE  /\ DOMAIN Data[a] = {"input", "output"}
         /\ DOMAIN Data[a]["input"] = 0 .. n - 1
         /\ DOMAIN Data[a]["output"] = 0 .. (IF a = "minsearch" THEN 4 ELSE n) - 1
<1> DEFINE m == IF a = "minsearch" THEN 4 ELSE n
<1>1. Data[a] = InputAndZeros(a, m)
  BY Arrays DEF Conv2dData, ReluData, DitherData, MinSearchData
<1>2. DOMAIN Array(Given[a][1]) = 0 .. n - 1 /\ DOMAIN Zeros(m) = 0 .. m - 1
  BY DEF Array, Zeros, DATA_SIZE
<1> HIDE DEF m
<1>3. /\ DOMAIN InputAndZeros(a, m) = {"input", "output"}
      /\ InputAndZeros(a, m)["input"] = Array(Given[a][1])
      /\ InputAndZeros(a, m)["output"] = Zeros(m)
  BY DEF InputAndZeros
<1>4. m = IF a = "minsearch" THEN 4 ELSE n
  BY DEF m
<1> QED BY <1>1, <1>2, <1>3, <1>4

LEMMA InsideNone == \A a : Inside(a, NoStream) /\ NoStream.n = 0
BY DEF Inside, NoStream, Stream

\* What is stored lies in other arrays than what is read.
LEMMA SparesOther ==
  ASSUME NEW k, NEW j, NEW i, NEW o, NEW A, NEW B,
         \A c \in Columns : Placed(i[c]) /\ Placed(o[c]),
         \A c \in Columns : i[c] = NoStream \/ i[c].array \in A,
         \A c \in Columns : o[c] = NoStream \/ o[c].array \in B,
         A \cap B = {}
  PROVE  Spares(k, Params(j, i, o))
<1>1. ASSUME NEW c \in Columns, NEW d \in Columns PROVE Apart(o[c], i[d])
  BY InsideNone DEF Apart
<1> QED BY <1>1 DEF Spares, Params

LEMMA BypassFits ==
  ASSUME NEW k
  PROVE  Fits("test", "bypass",
              Params(k, ByColumn(Stream("a", 0, TEST), Stream("b", 0, TEST),
                                 Stream("c", 0, TEST), Stream("d", 0, TEST)),
                        ByColumn(Stream("e", 0, TEST), Stream("f", 0, TEST),
                                 Stream("g", 0, TEST), Stream("h", 0, TEST))))
<1>1. PICK i : i = ByColumn(Stream("a", 0, TEST), Stream("b", 0, TEST),
                            Stream("c", 0, TEST), Stream("d", 0, TEST))
  OBVIOUS
<1>2. PICK o : o = ByColumn(Stream("e", 0, TEST), Stream("f", 0, TEST),
                            Stream("g", 0, TEST), Stream("h", 0, TEST))
  OBVIOUS
<1>3. TEST \in Nat \ {0}
  BY GivenAssumption
<1>4. \A c \in Columns : i[c].n = TEST /\ o[c].n = TEST
  BY <1>1, <1>2, ColumnPlaces DEF Stream
<1>5. \A x \in {"a", "b", "c", "d", "e", "f", "g", "h"} : Inside("test", Stream(x, 0, TEST))
  BY <1>3, Arrays DEF Inside, Stream, TestData, Zeros
<1>6. \A c \in Columns : Inside("test", i[c]) /\ Inside("test", o[c])
  BY <1>1, <1>2, <1>5, ColumnPlaces
<1>7. PICK s : s = WordsRead(Params(k, i, o))
  OBVIOUS
<1>8. \A c \in Columns : \A w : Len(Outputs("bypass", w, s)[c]) = TEST
  BY <1>3, <1>4, <1>7, Asked, Yields
<1>9. InputsOf["bypass"] = {c \in Columns : i[c].n > 0}
  BY <1>3, <1>4 DEF InputsOf
<1>10. Balances("test", "bypass", Params(k, i, o))
  BY <1>4, <1>6, <1>7, <1>8, <1>9 DEF Balances, Params
<1>11. Spares("bypass", Params(k, i, o))
  <2> DEFINE A == {"a", "b", "c", "d"}
             B == {"e", "f", "g", "h"}
  <2>1. \A c \in Columns : i[c] = NoStream \/ i[c].array \in A
    BY <1>1, ColumnPlaces DEF Stream
  <2>2. \A c \in Columns : o[c] = NoStream \/ o[c].array \in B
    BY <1>2, ColumnPlaces DEF Stream
  <2>3. \A c \in Columns : Placed(i[c]) /\ Placed(o[c])
    BY <1>1, <1>2, <1>3, ColumnPlaces DEF Stream, Placed
  <2>4. A \cap B = {}
    OBVIOUS
  <2> HIDE DEF A, B
  <2> QED BY <2>1, <2>2, <2>3, <2>4, SparesOther
<1> QED BY <1>1, <1>2, <1>10, <1>11 DEF Fits

LEMMA Conv2dSizes ==
  /\ SIZE \in Nat \ {0, 1, 2} /\ DATA_SIZE("conv2d") \in Nat
  /\ Conv2dWords \in Nat \ {0}
  /\ 2 * SIZE + 2 + Conv2dWords = DATA_SIZE("conv2d")
<1>1. SIZE \in Nat \ {0, 1, 2} /\ DATA_SIZE("conv2d") = SIZE * SIZE
  BY GivenAssumption
<1>2. ASSUME NEW n \in Nat, n >= 3 PROVE n * n \in Nat /\ n * n - 2 * n - 2 > 0
  <2>1. n * n >= 3 * n
    BY <1>2
  <2> QED BY <1>2, <2>1
<1> QED BY <1>1, <1>2 DEF Conv2dWords

LEMMA RowInside ==
  ASSUME NEW from \in {0, SIZE, 2 * SIZE}, NEW i \in 0 .. 2
  PROVE  Inside("conv2d", Stream("input", from + i, Conv2dWords))
<1>1. PICK n \in Nat, m \in Nat, d \in Nat :
        n = SIZE /\ m = Conv2dWords /\ d = DATA_SIZE("conv2d") /\ m # 0 /\ 2 * n + 2 + m = d
  BY Conv2dSizes
<1>2. from + i + m - 1 \in 0 .. d - 1
  BY <1>1
<1> QED BY <1>1, <1>2, InputArrays DEF Inside, Stream

LEMMA SumsInside == Inside("conv2d", Stream("output", SIZE + 1, Conv2dWords))
<1>1. PICK n \in Nat, m \in Nat, d \in Nat :
        n = SIZE /\ m = Conv2dWords /\ d = DATA_SIZE("conv2d") /\ m # 0 /\ 2 * n + 2 + m = d
  BY Conv2dSizes
<1>2. n + 1 + m - 1 \in 0 .. d - 1
  BY <1>1
<1> QED BY <1>1, <1>2, InputArrays DEF Inside, Stream

\* The vectors of one row of the filter.
RowStreams(from, sums) ==
    ByColumn(Stream("input", from, Conv2dWords), Stream("input", from + 1, Conv2dWords),
             Stream("input", from + 2, Conv2dWords), sums)

Sums == Stream("output", SIZE + 1, Conv2dWords)

FirstParams ==
    Params("conv2d_1", RowStreams(0, NoStream), ByColumn(NoStream, NoStream, Sums, NoStream))
RowParams(from) ==
    Params("conv2d_2", RowStreams(from, Sums), ByColumn(NoStream, NoStream, NoStream, Sums))

LEMMA FirstRowFits ==
  Fits("conv2d", "conv2d_1",
       Params("conv2d_1", RowStreams(0, NoStream), ByColumn(NoStream, NoStream, Sums, NoStream)))
<1>1. PICK i, o : /\ i = RowStreams(0, NoStream)
                  /\ o = ByColumn(NoStream, NoStream, Sums, NoStream)
  OBVIOUS
<1>2. PICK m \in Nat \ {0} : m = Conv2dWords
  BY Conv2dSizes
<1>3. /\ i[0].n = m /\ i[1].n = m /\ i[2].n = m /\ i[3].n = 0
      /\ o[0].n = 0 /\ o[1].n = 0 /\ o[2].n = m /\ o[3].n = 0
  BY <1>1, <1>2, ColumnPlaces DEF RowStreams, Stream, Sums, NoStream
<1>4. \A c \in Columns : Inside("conv2d", i[c]) /\ Inside("conv2d", o[c])
  <2>1. Inside("conv2d", NoStream)
    BY InsideNone
  <2>2. \A c \in Columns : Inside("conv2d", o[c])
    BY <1>1, <2>1, SumsInside, ColumnPlaces DEF Sums
  <2>3. /\ Inside("conv2d", Stream("input", 0, Conv2dWords))
        /\ Inside("conv2d", Stream("input", 0 + 1, Conv2dWords))
        /\ Inside("conv2d", Stream("input", 0 + 2, Conv2dWords))
    BY RowInside
  <2>4. \A c \in Columns : Inside("conv2d", i[c])
    BY <1>1, <2>1, <2>3, ColumnPlaces DEF RowStreams
  <2> QED BY <2>2, <2>4
<1>5. \A c \in Columns : c = 0 \/ c = 1 \/ c = 2 \/ c = 3
  BY DEF Columns
<1>6. InputsOf["conv2d_1"] = {c \in Columns : i[c].n > 0}
  BY <1>2, <1>3, <1>5 DEF InputsOf, Columns
<1>7. PICK s : s = WordsRead(Params("conv2d_1", i, o))
  OBVIOUS
<1>8. AreStreams(s) /\ Lengths(s) /\ \A c \in Columns : Len(s[c]) = i[c].n
  <2>1. \A c \in Columns : i[c].n \in Nat
    BY <1>2, <1>3, <1>5
  <2> QED BY <1>7, <2>1, Asked
<1>9. Paired({0, 1, 2}, s) = m
  <2>1. \A c \in {0, 1, 2} : Len(s[c]) = m
    BY <1>3, <1>8 DEF Columns
  <2> QED BY <1>2, <1>8, <2>1, PairedBound
<1>10. ASSUME NEW c \in Columns, NEW w PROVE o[c].n = Len(Outputs("conv2d_1", w, s)[c])
  BY <1>3, <1>5, <1>8, <1>9, Yields, SMTT(30)
<1>11. Balances("conv2d", "conv2d_1", Params("conv2d_1", i, o))
  BY <1>4, <1>6, <1>7, <1>10 DEF Balances, Params
<1>12. Spares("conv2d_1", Params("conv2d_1", i, o))
  <2>1. \A c \in Columns : i[c] = NoStream \/ i[c].array \in {"input"}
    BY <1>1, ColumnPlaces DEF Stream, RowStreams
  <2>2. \A c \in Columns : o[c] = NoStream \/ o[c].array \in {"output"}
    BY <1>1, ColumnPlaces DEF Stream, Sums
  <2>3. \A c \in Columns : Placed(i[c]) /\ Placed(o[c])
    BY <1>1, <1>2, Conv2dSizes, ColumnPlaces DEF Stream, NoStream, Placed, RowStreams, Sums
  <2> QED BY <2>1, <2>2, <2>3, SparesOther
<1> QED BY <1>1, <1>11, <1>12 DEF Fits

LEMMA NextRowFits ==
  ASSUME NEW from \in {SIZE, 2 * SIZE}
  PROVE  Fits("conv2d", "conv2d_2",
              Params("conv2d_2", RowStreams(from, Sums),
                     ByColumn(NoStream, NoStream, NoStream, Sums)))
<1>1. PICK i, o : /\ i = RowStreams(from, Sums)
                  /\ o = ByColumn(NoStream, NoStream, NoStream, Sums)
  OBVIOUS
<1>2. PICK m \in Nat \ {0} : m = Conv2dWords
  BY Conv2dSizes
<1>3. /\ i[0].n = m /\ i[1].n = m /\ i[2].n = m /\ i[3].n = m
      /\ o[0].n = 0 /\ o[1].n = 0 /\ o[2].n = 0 /\ o[3].n = m
  BY <1>1, <1>2, ColumnPlaces DEF RowStreams, Stream, Sums, NoStream
<1>4. \A c \in Columns : Inside("conv2d", i[c]) /\ Inside("conv2d", o[c])
  <2>1. Inside("conv2d", NoStream) /\ Inside("conv2d", Sums)
    BY InsideNone, SumsInside DEF Sums
  <2>2. \A c \in Columns : Inside("conv2d", o[c])
    BY <1>1, <2>1, ColumnPlaces
  <2>3. /\ Inside("conv2d", Stream("input", from, Conv2dWords))
        /\ Inside("conv2d", Stream("input", from + 1, Conv2dWords))
        /\ Inside("conv2d", Stream("input", from + 2, Conv2dWords))
    <3>1. from + 0 = from
      BY Conv2dSizes
    <3>2. Inside("conv2d", Stream("input", from + 0, Conv2dWords))
      BY RowInside
    <3> QED BY <3>1, <3>2, RowInside
  <2>4. \A c \in Columns : Inside("conv2d", i[c])
    BY <1>1, <2>1, <2>3, ColumnPlaces DEF RowStreams
  <2> QED BY <2>2, <2>4
<1>5. \A c \in Columns : c = 0 \/ c = 1 \/ c = 2 \/ c = 3
  BY DEF Columns
<1>6. InputsOf["conv2d_2"] = {c \in Columns : i[c].n > 0}
  BY <1>2, <1>3, <1>5 DEF InputsOf
<1>7. PICK s : s = WordsRead(Params("conv2d_2", i, o))
  OBVIOUS
<1>8. AreStreams(s) /\ Lengths(s) /\ \A c \in Columns : Len(s[c]) = i[c].n
  <2>1. \A c \in Columns : i[c].n \in Nat
    BY <1>2, <1>3, <1>5
  <2> QED BY <1>7, <2>1, Asked
<1>9. Paired(Columns, s) = m
  BY <1>2, <1>3, <1>5, <1>8, PairedBound
<1>10. ASSUME NEW c \in Columns, NEW w PROVE o[c].n = Len(Outputs("conv2d_2", w, s)[c])
  BY <1>3, <1>5, <1>8, <1>9, Yields, SMTT(30)
<1>11. Balances("conv2d", "conv2d_2", Params("conv2d_2", i, o))
  BY <1>4, <1>6, <1>7, <1>10 DEF Balances, Params
<1>12. Spares("conv2d_2", Params("conv2d_2", i, o))
  <2>1. \A c \in Columns : Placed(i[c]) /\ Placed(o[c])
    BY <1>1, <1>2, Conv2dSizes, ColumnPlaces DEF RowStreams, Sums, Stream, NoStream, Placed
  <2>2. /\ i[0].array = "input" /\ i[1].array = "input" /\ i[2].array = "input"
        /\ i[3] = Sums /\ o[3] = Sums /\ Sums.array = "output"
    <3>1. i[3] = Sums /\ o[3] = Sums
      BY <1>1, ColumnPlaces DEF RowStreams
    <3> QED BY <1>1, <3>1, ColumnPlaces DEF RowStreams, Stream, Sums
  <2>3. /\ \A c \in Columns : o[c].n = 0 \/ c = 3
        /\ \A d \in Columns : i[d].array = "input" \/ d = 3
    BY <1>3, <1>5, <2>2
  <2>4. WaitsFor("conv2d_2", 3, 3)
    BY <1>5, Yields, PairedBound DEF WaitsFor, Columns
  <2>5. ASSUME NEW c \in Columns, NEW d \in Columns
        PROVE  Apart(o[c], i[d]) \/ (o[c] = i[d] /\ WaitsFor("conv2d_2", c, d))
    BY <2>2, <2>3, <2>4 DEF Apart
  <2> QED BY <2>1, <2>5 DEF Spares, Params
<1> QED BY <1>1, <1>11, <1>12 DEF Fits

\* Three parts of the input, as of the output.
ReluStreams(c, l) ==
    /\ c = DATA_SIZE("relu") \div 3
    /\ l = c + (DATA_SIZE("relu") % 3)

LEMMA ReluFits ==
  ASSUME NEW c, NEW l, ReluStreams(c, l), DataGiven
  PROVE  Fits("relu", "relu",
              Params("relu", ByColumn(Stream("input", 0, c), Stream("input", c, c), NoStream,
                                      Stream("input", 2 * c, l)),
                             ByColumn(Stream("output", 0, c), NoStream, Stream("output", c, c),
                                      Stream("output", 2 * c, l))))
<1>1. PICK i, o : /\ i = ByColumn(Stream("input", 0, c), Stream("input", c, c), NoStream,
                                  Stream("input", 2 * c, l))
                  /\ o = ByColumn(Stream("output", 0, c), NoStream, Stream("output", c, c),
                                  Stream("output", 2 * c, l))
  OBVIOUS
<1>2. PICK d \in Nat : d = DATA_SIZE("relu") /\ d >= 3
  BY DEF DataGiven
<1>3. c \in Nat \ {0} /\ l \in Nat \ {0} /\ 2 * c + l = d
  <2>1. PICK r \in 0 .. 2 : r = d % 3
    BY <1>2
  <2>2. c = d \div 3 /\ l = c + r
    BY <1>2, <2>1 DEF ReluStreams
  <2>3. c \in Nat /\ d = 3 * c + r
    BY <2>1, <2>2
  <2>4. c # 0 /\ l = c + r
    BY <1>2, <2>1, <2>2, <2>3
  <2> QED BY <2>1, <2>3, <2>4
<1>4. /\ i[0].n = c /\ i[1].n = c /\ i[2].n = 0 /\ i[3].n = l
      /\ o[0].n = c /\ o[1].n = 0 /\ o[2].n = c /\ o[3].n = l
  BY <1>1, ColumnPlaces DEF Stream, NoStream
<1>5. \A e \in Columns : e = 0 \/ e = 1 \/ e = 2 \/ e = 3
  BY DEF Columns
<1>6. \A e \in Columns : Inside("relu", i[e]) /\ Inside("relu", o[e])
  <2>1. /\ 0 + c - 1 \in 0 .. d - 1 /\ c + c - 1 \in 0 .. d - 1 /\ 2 * c + l - 1 \in 0 .. d - 1
    BY <1>3
  <2>2. \A x \in {"input", "output"} :
          /\ Inside("relu", Stream(x, 0, c)) /\ Inside("relu", Stream(x, c, c))
          /\ Inside("relu", Stream(x, 2 * c, l))
    BY <1>2, <2>1, InputArrays DEF Inside, Stream
  <2> QED BY <1>1, <1>5, <2>2, InsideNone, ColumnPlaces
<1>7. InputsOf["relu"] = {e \in Columns : i[e].n > 0}
  BY <1>3, <1>4, <1>5 DEF InputsOf, Columns
<1>8. PICK s : s = WordsRead(Params("relu", i, o))
  OBVIOUS
<1>9. AreStreams(s) /\ Lengths(s) /\ \A e \in Columns : Len(s[e]) = i[e].n
  <2>1. \A e \in Columns : i[e].n \in Nat
    BY <1>3, <1>4, <1>5
  <2> QED BY <1>8, <2>1, Asked
<1>10. ASSUME NEW e \in Columns, NEW w PROVE o[e].n = Len(Outputs("relu", w, s)[e])
  <2>1. Len(s[0]) = c /\ Len(s[1]) = c /\ Len(s[3]) = l
    BY <1>4, <1>9 DEF Columns
  <2> QED BY <1>4, <1>5, <1>9, <2>1, Yields, SMTT(30)
<1>11. Balances("relu", "relu", Params("relu", i, o))
  BY <1>6, <1>7, <1>8, <1>10 DEF Balances, Params
<1>12. Spares("relu", Params("relu", i, o))
  <2>1. \A e \in Columns : i[e] = NoStream \/ i[e].array \in {"input"}
    BY <1>1, ColumnPlaces DEF Stream
  <2>2. \A e \in Columns : o[e] = NoStream \/ o[e].array \in {"output"}
    BY <1>1, ColumnPlaces DEF Stream
  <2>3. \A e \in Columns : Placed(i[e]) /\ Placed(o[e])
    BY <1>1, <1>3, ColumnPlaces DEF Stream, NoStream, Placed
  <2> QED BY <2>1, <2>2, <2>3, SparesOther
<1> QED BY <1>1, <1>11, <1>12 DEF Fits

LEMMA FftFits ==
  ASSUME NEW G, G = DATA_SIZE("fft") \div 2, DataGiven
  PROVE  Fits("fft", "fft",
              Params("fft", ByColumn(Stream("real", G, G), Stream("real", 0, G),
                                     Stream("imag", 0, G), Stream("imag", G, G)),
                            ByColumn(Stream("real", G, G), Stream("real", 0, G),
                                     Stream("imag", G, G), Stream("imag", 0, G))))
<1>1. PICK i, o : /\ i = ByColumn(Stream("real", G, G), Stream("real", 0, G),
                                  Stream("imag", 0, G), Stream("imag", G, G))
                  /\ o = ByColumn(Stream("real", G, G), Stream("real", 0, G),
                                  Stream("imag", G, G), Stream("imag", 0, G))
  OBVIOUS
<1>2. PICK d \in Nat : d = DATA_SIZE("fft") /\ d # 0 /\ d % 2 = 0 /\ d = Len(Given["fft"][2])
  BY GivenAssumption DEF DataGiven
<1>3. G \in Nat \ {0} /\ 2 * G = d
  BY <1>2
<1>4. \A c \in Columns : i[c].n = G /\ o[c].n = G
  BY <1>1, ColumnPlaces DEF Stream
<1>5. \A c \in Columns : c = 0 \/ c = 1 \/ c = 2 \/ c = 3
  BY DEF Columns
<1>6. \A c \in Columns : Inside("fft", i[c]) /\ Inside("fft", o[c])
  <2>1. 0 + G - 1 \in 0 .. d - 1 /\ G + G - 1 \in 0 .. d - 1
    BY <1>3
  <2>2. /\ DOMAIN Data["fft"] = {"real", "imag"}
        /\ \A x \in {"real", "imag"} : DOMAIN Data["fft"][x] = 0 .. d - 1
    <3>1. /\ DOMAIN Array(Given["fft"][1]) = 0 .. d - 1
          /\ DOMAIN Array(Given["fft"][2]) = 0 .. d - 1
      BY <1>2 DEF Array, DATA_SIZE
    <3> QED BY <3>1, Arrays DEF FftData
  <2>3. \A x \in {"real", "imag"} :
          Inside("fft", Stream(x, 0, G)) /\ Inside("fft", Stream(x, G, G))
    BY <2>1, <2>2 DEF Inside, Stream
  <2> QED BY <1>1, <1>5, <2>3, ColumnPlaces
<1>7. InputsOf["fft"] = {c \in Columns : i[c].n > 0}
  BY <1>3, <1>4 DEF InputsOf
<1>8. PICK s : s = WordsRead(Params("fft", i, o))
  OBVIOUS
<1>9. AreStreams(s) /\ Lengths(s) /\ \A c \in Columns : Len(s[c]) = i[c].n
  <2>1. \A c \in Columns : i[c].n \in Nat
    BY <1>3, <1>4
  <2> QED BY <1>8, <2>1, Asked
<1>10. Paired({0, 1, 3}, s) = G /\ Paired({0, 2, 3}, s) = G
  <2>1. 0 \in Columns /\ 1 \in Columns /\ 2 \in Columns /\ 3 \in Columns
    BY DEF Columns
  <2>2. G \in Nat /\ \A c \in Columns : Len(s[c]) = G
    BY <1>3, <1>4, <1>9
  <2>3. /\ \A c \in {0, 1, 3} : Len(s[c]) = G
        /\ \A c \in {0, 2, 3} : Len(s[c]) = G
    BY <2>1, <2>2
  <2>4. Lengths(s)
    BY <1>9
  <2>5. Paired({0, 1, 3}, s) = G
    BY <2>2, <2>3, <2>4, PairedBound
  <2>6. Paired({0, 2, 3}, s) = G
    BY <2>2, <2>3, <2>4, PairedBound
  <2> QED BY <2>5, <2>6
<1>11. ASSUME NEW c \in Columns, NEW w PROVE o[c].n = Len(Outputs("fft", w, s)[c])
  BY <1>4, <1>5, <1>9, <1>10, Yields
<1>12. Balances("fft", "fft", Params("fft", i, o))
  BY <1>6, <1>7, <1>8, <1>11 DEF Balances, Params
<1>13. Spares("fft", Params("fft", i, o))
  <2>1. /\ i[0] = Stream("real", G, G) /\ i[1] = Stream("real", 0, G)
        /\ i[2] = Stream("imag", 0, G) /\ i[3] = Stream("imag", G, G)
        /\ o[0] = i[0] /\ o[1] = i[1] /\ o[2] = i[3] /\ o[3] = i[2]
    BY <1>1, ColumnPlaces
  <2>2. \A k, j \in 0 .. G - 1 : 0 + k # G + j /\ G + k # 0 + j
    BY <1>3
  <2>3. \A c, e \in Columns : c = e \/ Apart(i[c], i[e])
    <3>1. /\ Apart(i[0], i[1]) /\ Apart(i[1], i[0]) /\ Apart(i[2], i[3]) /\ Apart(i[3], i[2])
          /\ Apart(i[0], i[2]) /\ Apart(i[0], i[3]) /\ Apart(i[1], i[2]) /\ Apart(i[1], i[3])
          /\ Apart(i[2], i[0]) /\ Apart(i[2], i[1]) /\ Apart(i[3], i[0]) /\ Apart(i[3], i[1])
      BY <2>1, <2>2 DEF Apart, Stream
    <3> QED BY <1>5, <3>1
  <2>4. \A c \in Columns : Placed(i[c]) /\ Placed(o[c])
    BY <1>1, <1>3, <1>5, ColumnPlaces DEF Stream, Placed
  <2>5. ASSUME NEW w, NEW x, AreStreams(x)
        PROVE  /\ Len(Outputs("fft", w, x)[0]) <= Len(x[0])
               /\ Len(Outputs("fft", w, x)[1]) <= Len(x[1])
               /\ Len(Outputs("fft", w, x)[2]) <= Len(x[3])
               /\ Len(Outputs("fft", w, x)[3]) <= Len(x[2])
    <3>1. Lengths(x)
      BY <2>5, Yields
    <3>2. /\ \A c \in {0, 1, 3} : Paired({0, 1, 3}, x) <= Len(x[c])
          /\ \A c \in {0, 2, 3} : Paired({0, 2, 3}, x) <= Len(x[c])
      BY <3>1, PairedBound DEF Columns
    <3> QED BY <2>5, <3>2, Yields
  <2>6. /\ WaitsFor("fft", 0, 0) /\ WaitsFor("fft", 1, 1)
        /\ WaitsFor("fft", 2, 3) /\ WaitsFor("fft", 3, 2)
    BY <2>5 DEF WaitsFor
  <2>7. \A c, e \in Columns : Apart(o[c], i[e]) \/ (o[c] = i[e] /\ WaitsFor("fft", c, e))
    <3>1. /\ 0 \in Columns /\ 1 \in Columns /\ 2 \in Columns /\ 3 \in Columns
          /\ \A e \in Columns : e # 3 => Apart(i[3], i[e])
          /\ \A e \in Columns : e # 2 => Apart(i[2], i[e])
          /\ \A e \in Columns : e # 1 => Apart(i[1], i[e])
          /\ \A e \in Columns : e # 0 => Apart(i[0], i[e])
      BY <2>3 DEF Columns
    <3>2. \A e \in Columns : Apart(o[0], i[e]) \/ (o[0] = i[e] /\ WaitsFor("fft", 0, e))
      BY <2>1, <2>6, <3>1
    <3>3. \A e \in Columns : Apart(o[1], i[e]) \/ (o[1] = i[e] /\ WaitsFor("fft", 1, e))
      BY <2>1, <2>6, <3>1
    <3>4. \A e \in Columns : Apart(o[2], i[e]) \/ (o[2] = i[e] /\ WaitsFor("fft", 2, e))
      BY <2>1, <2>6, <3>1
    <3>5. \A e \in Columns : Apart(o[3], i[e]) \/ (o[3] = i[e] /\ WaitsFor("fft", 3, e))
      BY <2>1, <2>6, <3>1
    <3> QED BY <1>5, <3>2, <3>3, <3>4, <3>5
  <2> QED BY <2>4, <2>7 DEF Spares, Params
<1> QED BY <1>1, <1>12, <1>13 DEF Fits

LEMMA DitherFits ==
  ASSUME NEW N, N = DATA_SIZE("dither"), DataGiven
  PROVE  Fits("dither", "dither",
              Params("dither", ByColumn(Stream("input", 0, N), NoStream, NoStream, NoStream),
                               ByColumn(Stream("output", 0, N), NoStream, NoStream, NoStream)))
<1>1. PICK i, o : /\ i = ByColumn(Stream("input", 0, N), NoStream, NoStream, NoStream)
                  /\ o = ByColumn(Stream("output", 0, N), NoStream, NoStream, NoStream)
  OBVIOUS
<1>2. N \in Nat \ {0}
  BY DEF DataGiven
<1>3. /\ i[0].n = N /\ i[1].n = 0 /\ i[2].n = 0 /\ i[3].n = 0
      /\ o[0].n = N /\ o[1].n = 0 /\ o[2].n = 0 /\ o[3].n = 0
  BY <1>1, ColumnPlaces DEF Stream, NoStream
<1>4. \A c \in Columns : c = 0 \/ c = 1 \/ c = 2 \/ c = 3
  BY DEF Columns
<1>5. \A c \in Columns : Inside("dither", i[c]) /\ Inside("dither", o[c])
  <2>1. 0 + N - 1 \in 0 .. N - 1
    BY <1>2
  <2>2. \A x \in {"input", "output"} : Inside("dither", Stream(x, 0, N))
    BY <2>1, InputArrays DEF Inside, Stream
  <2> QED BY <1>1, <1>4, <2>2, InsideNone, ColumnPlaces
<1>6. InputsOf["dither"] = {c \in Columns : i[c].n > 0}
  BY <1>2, <1>3, <1>4 DEF InputsOf, Columns
<1>7. PICK s : s = WordsRead(Params("dither", i, o))
  OBVIOUS
<1>8. AreStreams(s) /\ Lengths(s) /\ \A c \in Columns : Len(s[c]) = i[c].n
  <2>1. \A c \in Columns : i[c].n \in Nat
    BY <1>2, <1>3, <1>4
  <2> QED BY <1>7, <2>1, Asked
<1>9. ASSUME NEW c \in Columns, NEW w PROVE o[c].n = Len(Outputs("dither", w, s)[c])
  <2>1. Len(s[0]) = N
    BY <1>3, <1>8 DEF Columns
  <2> QED BY <1>3, <1>4, <1>8, <2>1, Yields
<1>10. Balances("dither", "dither", Params("dither", i, o))
  BY <1>5, <1>6, <1>7, <1>9 DEF Balances, Params
<1>11. Spares("dither", Params("dither", i, o))
  <2>1. \A c \in Columns : i[c] = NoStream \/ i[c].array \in {"input"}
    BY <1>1, ColumnPlaces DEF Stream
  <2>2. \A c \in Columns : o[c] = NoStream \/ o[c].array \in {"output"}
    BY <1>1, ColumnPlaces DEF Stream
  <2>3. \A c \in Columns : Placed(i[c]) /\ Placed(o[c])
    BY <1>1, <1>2, ColumnPlaces DEF Stream, NoStream, Placed
  <2> QED BY <2>1, <2>2, <2>3, SparesOther
<1> QED BY <1>1, <1>10, <1>11 DEF Fits

LEMMA MinSearchFits ==
  ASSUME NEW N, N = DATA_SIZE("minsearch"), DataGiven
  PROVE  Fits("minsearch", "minsearch",
              Params("minsearch",
                     ByColumn(Stream("input", 0, N), NoStream, Stream("input", 0, N), NoStream),
                     ByColumn(Stream("output", 0, 1), Stream("output", 1, 1),
                              Stream("output", 3, 1), Stream("output", 2, 1))))
<1>1. PICK i, o :
        /\ i = ByColumn(Stream("input", 0, N), NoStream, Stream("input", 0, N), NoStream)
        /\ o = ByColumn(Stream("output", 0, 1), Stream("output", 1, 1),
                        Stream("output", 3, 1), Stream("output", 2, 1))
  OBVIOUS
<1>2. N \in Nat \ {0}
  BY DEF DataGiven
<1>3. i[0].n = N /\ i[1].n = 0 /\ i[2].n = N /\ i[3].n = 0
  BY <1>1, ColumnPlaces DEF Stream, NoStream
<1>4. \A c \in Columns : c = 0 \/ c = 1 \/ c = 2 \/ c = 3
  BY DEF Columns
<1>5. \A c \in Columns : Inside("minsearch", i[c]) /\ Inside("minsearch", o[c])
  <2>1. 0 + N - 1 \in 0 .. N - 1
    BY <1>2
  <2>2. Inside("minsearch", Stream("input", 0, N))
    BY <2>1, InputArrays DEF Inside, Stream
  <2>3. \A n \in 0 .. 3 : n + 1 - 1 \in 0 .. 4 - 1
    OBVIOUS
  <2>4. \A n \in 0 .. 3 : Inside("minsearch", Stream("output", n, 1))
    BY <2>3, InputArrays DEF Inside, Stream
  <2> QED BY <1>1, <1>4, <2>2, <2>4, InsideNone, ColumnPlaces
<1>6. InputsOf["minsearch"] = {c \in Columns : i[c].n > 0}
  BY <1>2, <1>3, <1>4 DEF InputsOf, Columns
<1>7. Balances("minsearch", "minsearch", Params("minsearch", i, o))
  BY <1>5, <1>6 DEF Balances, Params
<1>8. Spares("minsearch", Params("minsearch", i, o))
  <2>1. \A c \in Columns : i[c] = NoStream \/ i[c].array \in {"input"}
    BY <1>1, ColumnPlaces DEF Stream
  <2>2. \A c \in Columns : o[c] = NoStream \/ o[c].array \in {"output"}
    BY <1>1, ColumnPlaces DEF Stream
  <2>3. \A c \in Columns : Placed(i[c]) /\ Placed(o[c])
    BY <1>1, <1>2, ColumnPlaces DEF Stream, NoStream, Placed
  <2> QED BY <2>1, <2>2, <2>3, SparesOther
<1> QED BY <1>1, <1>7, <1>8 DEF Fits

-----------------------------------------------------------------------------
(* No two nodes store into the same words                                  *)

LEMMA ApartNone == \A s : Apart(NoStream, s) /\ Apart(s, NoStream)
BY InsideNone DEF Apart

LEMMA ApartStores ==
  ASSUME NEW k, NEW i, NEW p, NEW q, NEW r, NEW t,
         Apart(p, q), Apart(p, r), Apart(p, t), Apart(q, r), Apart(q, t), Apart(r, t)
  PROVE  StoresApart(Params(k, i, ByColumn(p, q, r, t)))
<1>1. PICK o : o = ByColumn(p, q, r, t) /\ o[0] = p /\ o[1] = q /\ o[2] = r /\ o[3] = t
  BY ColumnPlaces
<1>2. /\ Apart(q, p) /\ Apart(r, p) /\ Apart(t, p) /\ Apart(r, q) /\ Apart(t, q) /\ Apart(t, r)
  BY DEF Apart
<1>3. ASSUME NEW c \in Columns, NEW d \in Columns, c # d PROVE Apart(o[c], o[d])
  BY <1>1, <1>2, <1>3, ColumnPlaces
<1> QED BY <1>1, <1>3 DEF StoresApart, Params

LEMMA Conv2dMayRun ==
  /\ MayRun("conv2d", "conv2d_1", FirstParams)
  /\ \A from \in {SIZE, 2 * SIZE} : MayRun("conv2d", "conv2d_2", RowParams(from))
BY FirstRowFits, NextRowFits, ApartNone, ApartStores DEF MayRun, FirstParams, RowParams

-----------------------------------------------------------------------------
(* What main knows while it goes through its program                       *)

LEMMA LeadsBy2 ==
  ASSUME NEW s, NEW a, NEW b, NEW x0, NEW x1, NEW x2, NEW x3,
         Leads(s, x0, x1), Leads(a, x1, x2), Leads(b, x2, x3)
  PROVE  Leads(s \o a \o b, x0, x3)
<1>1. Leads(s \o a, x0, x2)
  BY LeadsConcat, Zenon
<1> QED BY <1>1, LeadsConcat, Zenon

LEMMA LeadsBy4 ==
  ASSUME NEW s, NEW a, NEW b, NEW c, NEW d,
         NEW x0, NEW x1, NEW x2, NEW x3, NEW x4, NEW x5,
         Leads(s, x0, x1), Leads(a, x1, x2), Leads(b, x2, x3), Leads(c, x3, x4), Leads(d, x4, x5)
  PROVE  Leads(s \o a \o b \o c \o d, x0, x5)
<1>1. Leads(s \o a \o b, x0, x3)
  BY LeadsBy2, Zenon
<1> QED BY <1>1, LeadsBy2, Zenon

LEMMA RowLeads ==
  ASSUME NEW k, NEW from, NEW r
  PROVE  Leads(Row(k, from), Known(NoParams, r),
               Known(Params(k, RowStreams(from, NoStream), Nothing), r))
<1> DEFINE s0 == Stream("input", from, Conv2dWords)
           s1 == Stream("input", from + 1, Conv2dWords)
           s2 == Stream("input", from + 2, Conv2dWords)
           x1 == Known(Params(k, Nothing, Nothing), r)
           x2 == Known(Params(k, ByColumn(s0, NoStream, NoStream, NoStream), Nothing), r)
           x3 == Known(Params(k, ByColumn(s0, s1, NoStream, NoStream), Nothing), r)
           x4 == Known(Params(k, ByColumn(s0, s1, s2, NoStream), Nothing), r)
<1>1. Does(Conf(k), Known(NoParams, r), x1)
  BY DoesConf, NoParamsByColumn
<1>2. Does(Imn(0, "input", from, Conv2dWords), x1, x2)
  BY SetImn DEF Nothing
<1>3. Does(Imn(1, "input", from + 1, Conv2dWords), x2, x3)
  BY SetImn
<1>4. Does(Imn(2, "input", from + 2, Conv2dWords), x3, x4)
  BY SetImn
<1>5. x4 = Known(Params(k, RowStreams(from, NoStream), Nothing), r)
  BY DEF RowStreams
<1> HIDE DEF x1, x2, x3, x4
<1> QED BY <1>1, <1>2, <1>3, <1>4, <1>5, Leads4 DEF Row

LEMMA AccumulateLeads ==
  ASSUME NEW k, NEW from, NEW r
  PROVE  Leads(Accumulate, Known(Params(k, RowStreams(from, NoStream), Nothing), r),
               Known(Params(k, RowStreams(from, Sums),
                            ByColumn(NoStream, NoStream, NoStream, Sums)), r))
<1> DEFINE x == Known(Params(k, RowStreams(from, NoStream), Nothing), r)
           y == Known(Params(k, RowStreams(from, Sums), Nothing), r)
           z == Known(Params(k, RowStreams(from, Sums),
                             ByColumn(NoStream, NoStream, NoStream, Sums)), r)
<1>1. Does(Imn(3, "output", SIZE + 1, Conv2dWords), x, y)
  BY SetImn DEF RowStreams, Sums
<1>2. Does(Omn(3, "output", SIZE + 1, Conv2dWords), y, z)
  BY SetOmn DEF Nothing, Sums
<1> HIDE DEF x, y, z
<1>3. Leads(Accumulate, x, z)
  BY <1>1, <1>2, Leads2 DEF Accumulate
<1> QED BY <1>3 DEF x, z

LEMMA NewRowLeads ==
  ASSUME NEW p, NEW world, NEW held, NEW made, NEW runs
  PROVE  Leads(NewRow, Known(p, Runs(world, held, TRUE, made, runs)),
               Known(NoParams, Runs(world, NoKernel, TRUE, made, runs)))
BY DoesCtrl, LeadsOne DEF NewRow

\* The table of conv2d_2 with the third row of the filter.
Patched(world) ==
    Changed(Changed(Changed(world, "conv2d_2", 3, 0), "conv2d_2", 23, -1), "conv2d_2", 43, 0)

LEMMA ThirdRowLeads ==
  ASSUME NEW p, NEW world, NEW on, NEW made, NEW runs
  PROVE  Leads(ThirdRow, Known(p, Runs(world, "conv2d_2", on, made, runs)),
               Known(p, Runs(Patched(world), "stale", on, made, runs)))
<1>1. ASSUME NEW w, NEW word, NEW to, NEW held \in {"conv2d_2", "stale"}
      PROVE  Does(Patch("conv2d_2", word, to), Known(p, Runs(w, held, on, made, runs)),
                  Known(p, Runs(Changed(w, "conv2d_2", word, to), "stale", on, made, runs)))
  <2>1. "stale" = IF held = "conv2d_2" THEN "stale" ELSE held
    OBVIOUS
  <2>2. PICK x : x = Known(p, Runs(w, held, on, made, runs))
    OBVIOUS
  <2>3. /\ x.params = p /\ x.runs.world = w /\ x.runs.held = held
        /\ x.runs.on = on /\ x.runs.made = made /\ x.runs.counted = runs
    BY <2>2 DEF Known, Runs
  <2> QED BY <2>1, <2>2, <2>3 DEF Does, Patch
<1>2. PICK w1, w2 : /\ w1 = Changed(world, "conv2d_2", 3, 0)
                    /\ w2 = Changed(w1, "conv2d_2", 23, -1)
  OBVIOUS
<1>3. PICK x, y, z, u :
        /\ x = Known(p, Runs(world, "conv2d_2", on, made, runs))
        /\ y = Known(p, Runs(w1, "stale", on, made, runs))
        /\ z = Known(p, Runs(w2, "stale", on, made, runs))
        /\ u = Known(p, Runs(Changed(w2, "conv2d_2", 43, 0), "stale", on, made, runs))
  OBVIOUS
<1>4. /\ Does(Patch("conv2d_2", 3, 0), x, y) /\ Does(Patch("conv2d_2", 23, -1), y, z)
      /\ Does(Patch("conv2d_2", 43, 0), z, u)
  BY <1>1, <1>2, <1>3
<1>5. Leads(ThirdRow, x, u)
  BY <1>4, Leads3 DEF ThirdRow
<1> QED BY <1>2, <1>3, <1>5 DEF Patched

Conv2dRuns(world, held, made, runs) == Runs(world, held, TRUE, made, runs)

LEMMA FirstRowLeads ==
  Leads(Begin \o Row("conv2d_1", 0) \o <<Omn(2, "output", SIZE + 1, Conv2dWords)>>
               \o RunIntr,
        Fresh("conv2d"),
        Known(FirstParams,
              Conv2dRuns(Ran("conv2d_1", FirstParams, Loaded("conv2d")), "conv2d_1", 1, {1})))
<1> DEFINE p0 == Params("conv2d_1", RowStreams(0, NoStream), Nothing)
           p1 == FirstParams
           w0 == Loaded("conv2d")
           w1 == Ran("conv2d_1", p1, w0)
           r0 == Conv2dRuns(w0, NoKernel, 0, {})
           r1 == Conv2dRuns(w1, "conv2d_1", 1, {1})
           omn == <<Omn(2, "output", SIZE + 1, Conv2dWords)>>
           row == Row("conv2d_1", 0)
<1>1. Leads(Begin, Fresh("conv2d"), Known(NoParams, r0))
  BY BeginLeads DEF Conv2dRuns, Fresh
<1>2. Leads(row, Known(NoParams, r0), Known(p0, r0))
  BY RowLeads
<1>3. Leads(omn, Known(p0, r0), Known(p1, r0))
  BY SetOmn, LeadsOne DEF Nothing, Sums, FirstParams
<1>4. Leads(RunIntr, Known(p1, r0), Known(p1, r1))
  <2>1. /\ p1.conf_addr = "conv2d_1" /\ "conv2d_1" \in KernelNames /\ 1 = 0 + 1
        /\ {1} = (IF TRUE THEN {} \cup {1} ELSE {}) /\ MayRun(w0.app, "conv2d_1", p1)
    BY Names, Conv2dMayRun DEF Params, FirstParams, Loaded, World
  <2> HIDE DEF p1, w0
  <2> QED BY <2>1, RunLeads DEF Conv2dRuns
<1> HIDE DEF p0, p1, r0, r1, omn, row
<1>5. Leads(Begin \o row, Fresh("conv2d"), Known(p0, r0))
  BY <1>1, <1>2, LeadsConcat, Zenon
<1>6. Leads(Begin \o row \o omn \o RunIntr, Fresh("conv2d"), Known(p1, r1))
  BY <1>3, <1>4, <1>5, LeadsBy2, Zenon
<1> QED BY <1>6 DEF omn, row, p1, r1

LEMMA NextRowLeads ==
  ASSUME NEW s, NEW from \in {SIZE, 2 * SIZE}, NEW x, NEW q, NEW held, NEW made, NEW runs,
         NEW n, n = made + 1, NEW world, world.app = "conv2d",
         Leads(s, x, Known(q, Conv2dRuns(world, held, made, runs)))
  PROVE  Leads(s \o NewRow \o Row("conv2d_2", from) \o Accumulate \o RunIntr, x,
               Known(RowParams(from), Conv2dRuns(Ran("conv2d_2", RowParams(from), world),
                                                 "conv2d_2", n, runs \cup {n})))
<1> DEFINE p0 == Params("conv2d_2", RowStreams(from, NoStream), Nothing)
           p1 == RowParams(from)
           w1 == Ran("conv2d_2", p1, world)
           r0 == Conv2dRuns(world, NoKernel, made, runs)
           r1 == Conv2dRuns(w1, "conv2d_2", n, runs \cup {n})
<1>1. Leads(NewRow, Known(q, Conv2dRuns(world, held, made, runs)), Known(NoParams, r0))
  BY NewRowLeads DEF Conv2dRuns
<1>2. Leads(Row("conv2d_2", from), Known(NoParams, r0), Known(p0, r0))
  BY RowLeads
<1>3. Leads(Accumulate, Known(p0, r0), Known(p1, r0))
  BY AccumulateLeads DEF RowParams
<1>4. Leads(RunIntr, Known(p1, r0), Known(p1, r1))
  <2>1. /\ p1.conf_addr = "conv2d_2" /\ "conv2d_2" \in KernelNames
        /\ runs \cup {n} = (IF TRUE THEN runs \cup {n} ELSE runs)
        /\ MayRun(world.app, "conv2d_2", p1)
    BY Names, Conv2dMayRun DEF Params, RowParams
  <2> HIDE DEF p1
  <2> QED BY <2>1, RunLeads DEF Conv2dRuns
<1> HIDE DEF p0, p1, r0, r1
<1>5. Leads(s \o NewRow \o Row("conv2d_2", from) \o Accumulate \o RunIntr, x, Known(p1, r1))
  BY <1>1, <1>2, <1>3, <1>4, LeadsBy4, Zenon
<1> QED BY <1>5 DEF p1, r1

\* Memory after each row of the filter.
FirstRowLeft == Ran("conv2d_1", FirstParams, Loaded("conv2d"))
SecondRowLeft == Ran("conv2d_2", RowParams(SIZE), FirstRowLeft)
ThirdRowLeft == Ran("conv2d_2", RowParams(2 * SIZE), Patched(SecondRowLeft))

LEMMA Conv2dLeads == Leads(Conv2d, Fresh("conv2d"), Ended(ThirdRowLeft, 3))
<1>0. /\ FirstRowLeft.app = "conv2d" /\ SecondRowLeft.app = "conv2d"
      /\ Patched(SecondRowLeft).app = "conv2d"
  BY DEF FirstRowLeft, SecondRowLeft, Patched, Changed, Ran, World, Loaded
<1>1. PICK first :
        /\ first = Begin \o Row("conv2d_1", 0) \o <<Omn(2, "output", SIZE + 1, Conv2dWords)>>
                   \o RunIntr
        /\ Leads(first, Fresh("conv2d"),
                 Known(FirstParams, Conv2dRuns(FirstRowLeft, "conv2d_1", 1, {1})))
  BY FirstRowLeads DEF FirstRowLeft
<1>2. PICK second, p2 :
        /\ second = first \o NewRow \o Row("conv2d_2", SIZE) \o Accumulate \o RunIntr
        /\ Leads(second, Fresh("conv2d"),
                 Known(p2, Conv2dRuns(SecondRowLeft, "conv2d_2", 2, {1} \cup {2})))
  <2>1. PICK from \in {SIZE, 2 * SIZE} : from = SIZE
    OBVIOUS
  <2>2. PICK runs : runs = {1}
    OBVIOUS
  <2>3. 2 = 1 + 1
    OBVIOUS
  <2>4. Leads(first, Fresh("conv2d"), Known(FirstParams, Conv2dRuns(FirstRowLeft, "conv2d_1", 1, runs)))
    BY <1>1, <2>2
  <2>5. Leads(first \o NewRow \o Row("conv2d_2", from) \o Accumulate \o RunIntr, Fresh("conv2d"),
              Known(RowParams(from),
                    Conv2dRuns(Ran("conv2d_2", RowParams(from), FirstRowLeft),
                               "conv2d_2", 2, runs \cup {2})))
    BY <1>0, <2>3, <2>4, NextRowLeads
  <2> QED BY <2>1, <2>5, <2>2 DEF SecondRowLeft
<1>3. Leads(second \o ThirdRow, Fresh("conv2d"),
            Known(p2, Conv2dRuns(Patched(SecondRowLeft), "stale", 2, {1} \cup {2})))
  BY <1>2, ThirdRowLeads, LeadsConcat DEF Conv2dRuns
<1>4. PICK third, p3 :
        /\ third = (second \o ThirdRow) \o NewRow \o Row("conv2d_2", 2 * SIZE) \o Accumulate
                   \o RunIntr
        /\ Leads(third, Fresh("conv2d"),
                 Known(p3, Conv2dRuns(ThirdRowLeft, "conv2d_2", 3, {1} \cup {2} \cup {3})))
  <2>0. PICK s, runs : s = second \o ThirdRow /\ runs = {1} \cup {2}
    OBVIOUS
  <2>1. PICK from \in {SIZE, 2 * SIZE} : from = 2 * SIZE
    OBVIOUS
  <2>2. Leads(s, Fresh("conv2d"), Known(p2, Conv2dRuns(Patched(SecondRowLeft), "stale", 2, runs)))
    BY <1>3, <2>0
  <2>3. 3 = 2 + 1
    OBVIOUS
  <2>4. Leads(s \o NewRow \o Row("conv2d_2", from) \o Accumulate \o RunIntr, Fresh("conv2d"),
              Known(RowParams(from),
                    Conv2dRuns(Ran("conv2d_2", RowParams(from), Patched(SecondRowLeft)),
                               "conv2d_2", 3, runs \cup {3})))
    BY <1>0, <2>2, <2>3, NextRowLeads
  <2> QED BY <2>0, <2>1, <2>4 DEF ThirdRowLeft
<1>5. {1} \cup {2} \cup {3} = 1 .. 3
  OBVIOUS
<1>6. Leads(Finish(1 .. 3), Known(p3, Conv2dRuns(ThirdRowLeft, "conv2d_2", 3, 1 .. 3)),
            Ended(ThirdRowLeft, 3))
  BY FinishLeads DEF Conv2dRuns
<1>7. Leads(third \o Finish(1 .. 3), Fresh("conv2d"), Ended(ThirdRowLeft, 3))
  BY <1>4, <1>5, <1>6, LeadsConcat
<1> QED BY <1>1, <1>2, <1>4, <1>7 DEF Conv2d

\* The applications that make one run.
LEMMA OneRunLeads ==
  ASSUME NEW a, NEW w, NEW k \in KernelNames, NEW p, p.conf_addr = k, MayRun(w.app, k, p),
         NEW s, NEW list,
         Leads(s, Fresh(a), Known(NoParams, Runs(w, NoKernel, TRUE, 0, {}))),
         Leads(list, Known(NoParams, Runs(w, NoKernel, TRUE, 0, {})),
               Known(p, Runs(w, NoKernel, TRUE, 0, {})))
  PROVE  Leads(s \o list \o RunIntr \o Finish({1}), Fresh(a), Ended(Ran(k, p, w), 1))
<1>0. PICK v : v = Ran(k, p, w)
  OBVIOUS
<1>1. Leads(RunIntr, Known(p, Runs(w, NoKernel, TRUE, 0, {})), Known(p, Runs(v, k, TRUE, 1, {1})))
  <2>1. 1 = 0 + 1 /\ {1} = IF TRUE THEN {} \cup {1} ELSE {}
    OBVIOUS
  <2> QED BY <1>0, <2>1, RunLeads
<1>2. Leads(Finish({1}), Known(p, Runs(v, k, TRUE, 1, {1})), Ended(v, 1))
  BY FinishLeads
<1>3. Leads(s \o list \o RunIntr, Fresh(a), Known(p, Runs(v, k, TRUE, 1, {1})))
  BY <1>1, LeadsBy2, Zenon
<1>4. Leads(s \o list \o RunIntr \o Finish({1}), Fresh(a), Ended(v, 1))
  BY <1>2, <1>3, LeadsConcat, Zenon
<1> QED BY <1>0, <1>4

ReluParams ==
    LET c == DATA_SIZE("relu") \div 3
        l == c + (DATA_SIZE("relu") % 3)
    IN  Params("relu",
               ByColumn(Stream("input", 0, c), Stream("input", c, c), NoStream,
                        Stream("input", 2 * c, l)),
               ByColumn(Stream("output", 0, c), NoStream, Stream("output", c, c),
                        Stream("output", 2 * c, l)))

LEMMA ReluMayRun == MayRun("relu", "relu", ReluParams)
<1>1. PICK c, l, p : /\ c = DATA_SIZE("relu") \div 3 /\ l = c + (DATA_SIZE("relu") % 3)
                     /\ p = ReluParams
  OBVIOUS
<1>2. p = Params("relu",
                 ByColumn(Stream("input", 0, c), Stream("input", c, c), NoStream,
                          Stream("input", 2 * c, l)),
                 ByColumn(Stream("output", 0, c), NoStream, Stream("output", c, c),
                          Stream("output", 2 * c, l)))
  BY <1>1 DEF ReluParams
<1>3. DataGiven => Fits("relu", "relu", p)
  BY <1>1, <1>2, ReluFits DEF ReluStreams
<1>4. DataGiven => StoresApart(p)
  <2>1. DataGiven => c \in Nat
    BY <1>1 DEF DataGiven
  <2>2. DataGiven => /\ Apart(Stream("output", 0, c), Stream("output", c, c))
                     /\ Apart(Stream("output", 0, c), Stream("output", 2 * c, l))
                     /\ Apart(Stream("output", c, c), Stream("output", 2 * c, l))
    BY <2>1 DEF Apart, Stream
  <2> QED BY <1>2, <2>2, ApartNone, ApartStores
<1> QED BY <1>1, <1>3, <1>4 DEF MayRun

LEMMA ReluLeads ==
  Leads(Relus, Fresh("relu"), Ended(Ran("relu", ReluParams, Loaded("relu")), 1))
<1> DEFINE c == DATA_SIZE("relu") \div 3
           l == c + (DATA_SIZE("relu") % 3)
           N == NoStream
           w == Loaded("relu")
           r == Runs(w, NoKernel, TRUE, 0, {})
           i == ByColumn(Stream("input", 0, c), Stream("input", c, c), N, Stream("input", 2 * c, l))
           o == ByColumn(Stream("output", 0, c), N, Stream("output", c, c),
                         Stream("output", 2 * c, l))
           p == Params("relu", i, o)
           list == <<Conf("relu"), Imn(0, "input", 0, c), Imn(1, "input", c, c),
                     Imn(3, "input", 2 * c, l), Omn(0, "output", 0, c),
                     Omn(2, "output", c, c), Omn(3, "output", 2 * c, l)>>
<1>1. Leads(list, Known(NoParams, r), Known(p, r))
  <2> DEFINE x1 == Known(Params("relu", Nothing, Nothing), r)
             x2 == Known(Params("relu", ByColumn(Stream("input", 0, c), N, N, N), Nothing), r)
             x3 == Known(Params("relu", ByColumn(Stream("input", 0, c), Stream("input", c, c), N, N),
                                Nothing), r)
             x4 == Known(Params("relu", i, Nothing), r)
             x5 == Known(Params("relu", i, ByColumn(Stream("output", 0, c), N, N, N)), r)
             x6 == Known(Params("relu", i, ByColumn(Stream("output", 0, c), N,
                                                    Stream("output", c, c), N)), r)
  <2>1. Does(Conf("relu"), Known(NoParams, r), x1)
    BY DoesConf, NoParamsByColumn
  <2>2. Does(Imn(0, "input", 0, c), x1, x2) /\ Does(Imn(1, "input", c, c), x2, x3)
    BY SetImn DEF Nothing
  <2>3. Does(Imn(3, "input", 2 * c, l), x3, x4)
    BY SetImn
  <2>4. Does(Omn(0, "output", 0, c), x4, x5) /\ Does(Omn(2, "output", c, c), x5, x6)
    BY SetOmn, ZenonT(60) DEF Nothing
  <2>5. Does(Omn(3, "output", 2 * c, l), x6, Known(p, r))
    BY SetOmn, ZenonT(60)
  <2> HIDE DEF c, l, r, p, x1, x2, x3, x4, x5, x6
  <2> QED BY <2>1, <2>2, <2>3, <2>4, <2>5, Leads7
<1>2. p.conf_addr = "relu" /\ "relu" \in KernelNames /\ MayRun(w.app, "relu", p)
  <2>1. p = ReluParams
    BY DEF ReluParams
  <2>2. w.app = "relu" /\ p.conf_addr = "relu"
    BY DEF Loaded, World, Params
  <2> HIDE DEF p, w
  <2> QED BY <2>1, <2>2, Names, ReluMayRun
<1>3. Leads(Begin, Fresh("relu"), Known(NoParams, r))
  BY BeginLeads DEF Fresh
<1>4. Relus = Begin \o list \o RunIntr \o Finish({1})
  BY DEF Relus
<1>5. p = ReluParams
  BY DEF ReluParams
<1> HIDE DEF list, p, w, r
<1>6. Leads(Begin \o list \o RunIntr \o Finish({1}), Fresh("relu"),
            Ended(Ran("relu", p, w), 1))
  BY <1>1, <1>2, <1>3, OneRunLeads DEF r
<1> QED BY <1>4, <1>5, <1>6 DEF w

DitherParams ==
    Params("dither", ByColumn(Stream("input", 0, DATA_SIZE("dither")), NoStream, NoStream, NoStream),
                     ByColumn(Stream("output", 0, DATA_SIZE("dither")), NoStream, NoStream, NoStream))

LEMMA DitherMayRun == MayRun("dither", "dither", DitherParams)
<1>1. DataGiven => Fits("dither", "dither", DitherParams)
  BY DitherFits DEF DitherParams
<1>2. StoresApart(DitherParams)
  BY ApartNone, ApartStores DEF DitherParams
<1> QED BY <1>1, <1>2 DEF MayRun

LEMMA DitherLeads ==
  Leads(Dithers, Fresh("dither"), Ended(Ran("dither", DitherParams, Loaded("dither")), 1))
<1> DEFINE N == DATA_SIZE("dither")
           none == NoStream
           w == Loaded("dither")
           r == Runs(w, NoKernel, TRUE, 0, {})
           i == ByColumn(Stream("input", 0, N), none, none, none)
           p == Params("dither", i, ByColumn(Stream("output", 0, N), none, none, none))
           list == <<Conf("dither"), Imn(0, "input", 0, N), Omn(0, "output", 0, N)>>
<1>1. Leads(list, Known(NoParams, r), Known(p, r))
  <2> DEFINE x1 == Known(Params("dither", Nothing, Nothing), r)
             x2 == Known(Params("dither", i, Nothing), r)
  <2>1. Does(Conf("dither"), Known(NoParams, r), x1)
    BY DoesConf, NoParamsByColumn
  <2>2. Does(Imn(0, "input", 0, N), x1, x2)
    BY SetImn DEF Nothing
  <2>3. Does(Omn(0, "output", 0, N), x2, Known(p, r))
    BY SetOmn DEF Nothing
  <2> HIDE DEF r, p, x1, x2
  <2> QED BY <2>1, <2>2, <2>3, Leads3
<1>2. p.conf_addr = "dither" /\ "dither" \in KernelNames /\ MayRun(w.app, "dither", p)
  <2>1. p = DitherParams
    BY DEF DitherParams
  <2>2. w.app = "dither" /\ p.conf_addr = "dither"
    BY DEF Loaded, World, Params
  <2> HIDE DEF p, w
  <2> QED BY <2>1, <2>2, Names, DitherMayRun
<1>3. Leads(Begin, Fresh("dither"), Known(NoParams, r))
  BY BeginLeads DEF Fresh
<1>4. Dithers = Begin \o list \o RunIntr \o Finish({1})
  BY DEF Dithers
<1>5. p = DitherParams
  BY DEF DitherParams
<1> HIDE DEF list, p, w, r
<1>6. Leads(Begin \o list \o RunIntr \o Finish({1}), Fresh("dither"),
            Ended(Ran("dither", p, w), 1))
  BY <1>1, <1>2, <1>3, OneRunLeads DEF r
<1> QED BY <1>4, <1>5, <1>6 DEF w

FftParams ==
    LET G == DATA_SIZE("fft") \div 2
    IN  Params("fft",
               ByColumn(Stream("real", G, G), Stream("real", 0, G), Stream("imag", 0, G),
                        Stream("imag", G, G)),
               ByColumn(Stream("real", G, G), Stream("real", 0, G), Stream("imag", G, G),
                        Stream("imag", 0, G)))

LEMMA FftMayRun == MayRun("fft", "fft", FftParams)
<1>1. PICK G, p, i1, i2, i3, i4 :
        /\ G = DATA_SIZE("fft") \div 2 /\ p = FftParams
        /\ i1 = Stream("real", G, G) /\ i2 = Stream("real", 0, G)
        /\ i3 = Stream("imag", 0, G) /\ i4 = Stream("imag", G, G)
  OBVIOUS
<1>2. p = Params("fft", ByColumn(i1, i2, i3, i4), ByColumn(i1, i2, i4, i3))
  BY <1>1 DEF FftParams
<1>3. DataGiven => Fits("fft", "fft", p)
  BY <1>1, <1>2, FftFits
<1>4. DataGiven => StoresApart(p)
  <2>1. DataGiven => G \in Nat
    BY <1>1 DEF DataGiven
  <2>2. DataGiven => /\ Apart(i1, i2) /\ Apart(i1, i4) /\ Apart(i1, i3)
                     /\ Apart(i2, i4) /\ Apart(i2, i3) /\ Apart(i4, i3)
    BY <1>1, <2>1 DEF Apart, Stream
  <2> QED BY <1>2, <2>2, ApartStores
<1> QED BY <1>1, <1>3, <1>4 DEF MayRun

LEMMA FftLeads ==
  Leads(Ffts, Fresh("fft"), Ended(Ran("fft", FftParams, Loaded("fft")), 1))
<1> DEFINE G == DATA_SIZE("fft") \div 2
           N == NoStream
           w == Loaded("fft")
           r == Runs(w, NoKernel, TRUE, 0, {})
           i1 == Stream("real", G, G)
           i2 == Stream("real", 0, G)
           i3 == Stream("imag", 0, G)
           i4 == Stream("imag", G, G)
           i == ByColumn(i1, i2, i3, i4)
           p == Params("fft", i, ByColumn(i1, i2, i4, i3))
           list == <<Conf("fft"), Imn(0, "real", G, G), Imn(1, "real", 0, G),
                     Imn(2, "imag", 0, G), Imn(3, "imag", G, G), Omn(0, "real", G, G),
                     Omn(1, "real", 0, G), Omn(2, "imag", G, G), Omn(3, "imag", 0, G)>>
<1>1. Leads(list, Known(NoParams, r), Known(p, r))
  <2> DEFINE x1 == Known(Params("fft", Nothing, Nothing), r)
             x2 == Known(Params("fft", ByColumn(i1, N, N, N), Nothing), r)
             x3 == Known(Params("fft", ByColumn(i1, i2, N, N), Nothing), r)
             x4 == Known(Params("fft", ByColumn(i1, i2, i3, N), Nothing), r)
             x5 == Known(Params("fft", i, Nothing), r)
             x6 == Known(Params("fft", i, ByColumn(i1, N, N, N)), r)
             x7 == Known(Params("fft", i, ByColumn(i1, i2, N, N)), r)
             x8 == Known(Params("fft", i, ByColumn(i1, i2, i4, N)), r)
  <2>1. Does(Conf("fft"), Known(NoParams, r), x1)
    BY DoesConf, NoParamsByColumn
  <2>2. Does(Imn(0, "real", G, G), x1, x2) /\ Does(Imn(1, "real", 0, G), x2, x3)
    BY SetImn DEF Nothing
  <2>3. Does(Imn(2, "imag", 0, G), x3, x4) /\ Does(Imn(3, "imag", G, G), x4, x5)
    BY SetImn, ZenonT(60)
  <2>4. Does(Omn(0, "real", G, G), x5, x6) /\ Does(Omn(1, "real", 0, G), x6, x7)
    BY SetOmn, ZenonT(60) DEF Nothing
  <2>5. Does(Omn(2, "imag", G, G), x7, x8) /\ Does(Omn(3, "imag", 0, G), x8, Known(p, r))
    BY SetOmn, ZenonT(60)
  <2> HIDE DEF G, r, p, x1, x2, x3, x4, x5, x6, x7, x8
  <2>6. PICK a1, a2, a3, a4, a5, a6, a7, a8, a9 :
          /\ a1 = Conf("fft") /\ a2 = Imn(0, "real", G, G) /\ a3 = Imn(1, "real", 0, G)
          /\ a4 = Imn(2, "imag", 0, G) /\ a5 = Imn(3, "imag", G, G)
          /\ a6 = Omn(0, "real", G, G) /\ a7 = Omn(1, "real", 0, G)
          /\ a8 = Omn(2, "imag", G, G) /\ a9 = Omn(3, "imag", 0, G)
    OBVIOUS
  <2>7. Leads(<<a1, a2, a3, a4, a5, a6, a7, a8>>, Known(NoParams, r), x8)
    BY <2>1, <2>2, <2>3, <2>4, <2>5, <2>6, Leads8
  <2>8. Leads(<<a1, a2, a3, a4, a5, a6, a7, a8, a9>>, Known(NoParams, r), Known(p, r))
    BY <2>5, <2>6, <2>7, Leads9, Zenon
  <2> QED BY <2>6, <2>8
<1>2. p.conf_addr = "fft" /\ "fft" \in KernelNames /\ MayRun(w.app, "fft", p)
  <2>1. p = FftParams
    BY DEF FftParams
  <2>2. w.app = "fft" /\ p.conf_addr = "fft"
    BY DEF Loaded, World, Params
  <2> HIDE DEF p, w
  <2> QED BY <2>1, <2>2, Names, FftMayRun
<1>3. Leads(Begin, Fresh("fft"), Known(NoParams, r))
  BY BeginLeads DEF Fresh
<1>4. Ffts = Begin \o list \o RunIntr \o Finish({1})
  BY DEF Ffts
<1>5. p = FftParams
  BY DEF FftParams
<1> HIDE DEF list, p, w, r
<1>6. Leads(Begin \o list \o RunIntr \o Finish({1}), Fresh("fft"),
            Ended(Ran("fft", p, w), 1))
  BY <1>1, <1>2, <1>3, OneRunLeads DEF r
<1> QED BY <1>4, <1>5, <1>6 DEF w

\* The delays that are written into the table of minsearch, words S of it so far.
DelayWords == {24, 39, 54, 69}
Delays(w, S) ==
    /\ w.app = "minsearch" /\ w.mem = Data["minsearch"]
    /\ "minsearch" \in DOMAIN w.tables /\ DOMAIN w.tables["minsearch"] = DelayWords
    /\ \A i \in S : w.tables["minsearch"][i] = DATA_SIZE("minsearch")

LEMMA DelayLeads ==
  ASSUME NEW w, NEW S, Delays(w, S), NEW word \in DelayWords, NEW T, T = S \cup {word}
  PROVE  \E v : /\ Delays(v, T)
                /\ Does(Patch("minsearch", word, DATA_SIZE("minsearch")),
                        Known(NoParams, Runs(w, NoKernel, FALSE, 0, {})),
                        Known(NoParams, Runs(v, NoKernel, FALSE, 0, {})))
<1>1. PICK N, k : N = DATA_SIZE("minsearch") /\ k = "minsearch"
  OBVIOUS
<1>2. PICK v : v = Changed(w, k, word, N)
  OBVIOUS
<1>3. /\ v.app = w.app /\ v.mem = w.mem
      /\ v.tables = [w.tables EXCEPT ![k] = [w.tables[k] EXCEPT ![word] = N]]
  BY <1>2 DEF Changed, World
<1>4. k \in DOMAIN v.tables /\ v.tables[k] = [w.tables[k] EXCEPT ![word] = N]
  BY <1>1, <1>3 DEF Delays
<1>5. /\ DOMAIN v.tables[k] = DelayWords /\ v.tables[k][word] = N
      /\ \A i \in DelayWords : i # word => v.tables[k][i] = w.tables[k][i]
  BY <1>1, <1>4 DEF Delays
<1>6. \A i \in T : v.tables[k][i] = N
  <2>1. ASSUME NEW i \in S, i # word PROVE v.tables[k][i] = N
    <3>1. w.tables[k][i] = N
      BY <1>1, <2>1 DEF Delays
    <3> QED BY <1>4, <2>1, <3>1
  <2> QED BY <1>5, <2>1
<1>7. Delays(v, T)
  BY <1>1, <1>3, <1>4, <1>5, <1>6 DEF Delays
<1>8. Does(Patch("minsearch", word, N), Known(NoParams, Runs(w, NoKernel, FALSE, 0, {})),
           Known(NoParams, Runs(v, NoKernel, FALSE, 0, {})))
  <2>1. NoKernel # "minsearch" /\ (DataGiven => N \in Nat \ {0})
    BY <1>1 DEF NoKernel, DataGiven
  <2> QED BY <1>1, <1>2, <2>1 DEF Does, Patch, Known, Runs
<1> QED BY <1>1, <1>7, <1>8

LEMMA DelaysLead ==
  \E w : /\ Delays(w, DelayWords)
         /\ Leads([j \in 1 .. 4 |-> SetPeDelayValue("minsearch", <<1, 7, 10, 13>>[j],
                                                     DATA_SIZE("minsearch"))],
                  Fresh("minsearch"), Known(NoParams, Runs(w, NoKernel, FALSE, 0, {})))
<1> DEFINE N == DATA_SIZE("minsearch")
           d == [j \in 1 .. 4 |-> SetPeDelayValue("minsearch", <<1, 7, 10, 13>>[j], N)]
           K(w) == Known(NoParams, Runs(w, NoKernel, FALSE, 0, {}))
           P(word) == Patch("minsearch", word, N)
<1>1. d[1] = P(24) /\ d[2] = P(69) /\ d[3] = P(54) /\ d[4] = P(39)
  <2>1. <<1, 7, 10, 13>>[1] = 1 /\ <<1, 7, 10, 13>>[2] = 7
        /\ <<1, 7, 10, 13>>[3] = 10 /\ <<1, 7, 10, 13>>[4] = 13
    OBVIOUS
  <2>2. PE_POSITION[2] = 4 /\ PE_POSITION[8] = 13 /\ PE_POSITION[11] = 10 /\ PE_POSITION[14] = 7
    BY DEF PE_POSITION
  <2>3. /\ SetPeDelayValue("minsearch", 1, N) = P(24)
        /\ SetPeDelayValue("minsearch", 7, N) = P(69)
        /\ SetPeDelayValue("minsearch", 10, N) = P(54)
        /\ SetPeDelayValue("minsearch", 13, N) = P(39)
    <3> HIDE DEF N
    <3>1. 1 + 1 = 2 /\ 7 + 1 = 8 /\ 10 + 1 = 11 /\ 13 + 1 = 14
          /\ 4 * 5 + 4 = 24 /\ 13 * 5 + 4 = 69 /\ 10 * 5 + 4 = 54 /\ 7 * 5 + 4 = 39
      OBVIOUS
    <3> QED BY <2>2, <3>1 DEF SetPeDelayValue
  <2> HIDE DEF P
  <2> QED BY <2>1, <2>3
<1>2. d = <<d[1], d[2], d[3], d[4]>>
  <2>1. DOMAIN d = 1 .. 4 /\ d = [j \in 1 .. 4 |-> d[j]]
    OBVIOUS
  <2> HIDE DEF d
  <2> QED BY <2>1
<1>3. PICK w0 : w0 = Loaded("minsearch") /\ Delays(w0, {}) /\ K(w0) = Fresh("minsearch")
  <2>1. PICK w0 : w0 = Loaded("minsearch")
    OBVIOUS
  <2>2. w0.app = "minsearch" /\ w0.mem = Data["minsearch"] /\ w0.tables = KernelWords
    BY <2>1 DEF Loaded, World
  <2>3. "minsearch" \in DOMAIN KernelWords /\ DOMAIN KernelWords["minsearch"] = DelayWords
    BY DEF KernelWords, DelayWords
  <2>4. Delays(w0, {})
    BY <2>2, <2>3 DEF Delays
  <2>5. K(w0) = Fresh("minsearch")
    BY <2>1 DEF Fresh
  <2> QED BY <2>1, <2>4, <2>5
<1>4. PICK a \in DelayWords, b \in DelayWords, e \in DelayWords, f \in DelayWords :
        /\ a = 24 /\ b = 69 /\ e = 54 /\ f = 39
        /\ DelayWords = {} \cup {a} \cup {b} \cup {e} \cup {f}
  BY DEF DelayWords
<1>5. d[1] = P(a) /\ d[2] = P(b) /\ d[3] = P(e) /\ d[4] = P(f)
  BY <1>1, <1>4
<1>6. ASSUME NEW w, NEW S, Delays(w, S), NEW word \in DelayWords
      PROVE  \E v : Delays(v, S \cup {word}) /\ Does(P(word), K(w), K(v))
  BY <1>6, DelayLeads
<1> HIDE DEF d, K, P
<1>7. PICK w1 : Delays(w1, {} \cup {a}) /\ Does(P(a), K(w0), K(w1))
  BY <1>3, <1>6
<1>8. PICK w2 : Delays(w2, {} \cup {a} \cup {b}) /\ Does(P(b), K(w1), K(w2))
  BY <1>6, <1>7
<1>9. PICK w3 : Delays(w3, {} \cup {a} \cup {b} \cup {e}) /\ Does(P(e), K(w2), K(w3))
  BY <1>6, <1>8
<1>10. PICK w4 : Delays(w4, DelayWords) /\ Does(P(f), K(w3), K(w4))
  BY <1>4, <1>6, <1>9
<1>11. Leads(d, K(w0), K(w4))
  BY <1>2, <1>5, <1>7, <1>8, <1>9, <1>10, Leads4
<1> QED BY <1>3, <1>10, <1>11 DEF d, K

SearchParams ==
    LET N == DATA_SIZE("minsearch")
    IN  Params("minsearch",
               ByColumn(Stream("input", 0, N), NoStream, Stream("input", 0, N), NoStream),
               ByColumn(Stream("output", 0, 1), Stream("output", 1, 1),
                        Stream("output", 3, 1), Stream("output", 2, 1)))

LEMMA MinSearchLeads ==
  \E w : /\ Delays(w, DelayWords)
         /\ Leads(MinSearches, Fresh("minsearch"), Ended(Ran("minsearch", SearchParams, w), 1))
<1>0. PICK w : /\ Delays(w, DelayWords)
               /\ Leads([j \in 1 .. 4 |-> SetPeDelayValue("minsearch", <<1, 7, 10, 13>>[j],
                                                           DATA_SIZE("minsearch"))],
                        Fresh("minsearch"), Known(NoParams, Runs(w, NoKernel, FALSE, 0, {})))
  BY DelaysLead
<1> DEFINE N == DATA_SIZE("minsearch")
           none == NoStream
           a == "minsearch"
           r == Runs(w, NoKernel, TRUE, 0, {})
           in == Stream("input", 0, N)
           i == ByColumn(in, none, in, none)
           o0 == Stream("output", 0, 1)
           o1 == Stream("output", 1, 1)
           o2 == Stream("output", 3, 1)
           o3 == Stream("output", 2, 1)
           p == Params(a, i, ByColumn(o0, o1, o2, o3))
           delays == [j \in 1 .. 4 |-> SetPeDelayValue("minsearch", <<1, 7, 10, 13>>[j], N)]
           list == <<Conf("minsearch"), Imn(0, "input", 0, N), Imn(2, "input", 0, N),
                     Omn(0, "output", 0, 1), Omn(1, "output", 1, 1), Omn(2, "output", 3, 1),
                     Omn(3, "output", 2, 1)>>
<1>1. Leads(list, Known(NoParams, r), Known(p, r))
  <2> DEFINE x1 == Known(Params(a, Nothing, Nothing), r)
             x2 == Known(Params(a, ByColumn(in, none, none, none), Nothing), r)
             x3 == Known(Params(a, i, Nothing), r)
             x4 == Known(Params(a, i, ByColumn(o0, none, none, none)), r)
             x5 == Known(Params(a, i, ByColumn(o0, o1, none, none)), r)
             x6 == Known(Params(a, i, ByColumn(o0, o1, o2, none)), r)
  <2>1. Does(Conf("minsearch"), Known(NoParams, r), x1)
    BY DoesConf, NoParamsByColumn
  <2>2. Does(Imn(0, "input", 0, N), x1, x2) /\ Does(Imn(2, "input", 0, N), x2, x3)
    BY SetImn DEF Nothing
  <2>3. Does(Omn(0, "output", 0, 1), x3, x4) /\ Does(Omn(1, "output", 1, 1), x4, x5)
    BY SetOmn DEF Nothing
  <2>4. Does(Omn(2, "output", 3, 1), x5, x6) /\ Does(Omn(3, "output", 2, 1), x6, Known(p, r))
    BY SetOmn, ZenonT(60)
  <2> HIDE DEF N, r, p, x1, x2, x3, x4, x5, x6
  <2> QED BY <2>1, <2>2, <2>3, <2>4, Leads7
<1>2. p.conf_addr = a /\ a \in KernelNames /\ MayRun(w.app, a, p)
  <2>1. DataGiven => Fits(a, a, p)
    BY MinSearchFits
  <2>2. StoresApart(p)
    <3>1. /\ Apart(o0, o1) /\ Apart(o0, o2) /\ Apart(o0, o3)
          /\ Apart(o1, o2) /\ Apart(o1, o3) /\ Apart(o2, o3)
      BY DEF Apart, Stream
    <3> QED BY <3>1, ApartStores
  <2>3. p.conf_addr = a
    BY DEF Params
  <2> HIDE DEF p
  <2> QED BY <1>0, <2>1, <2>2, <2>3, Names DEF MayRun, Delays
<1>3. Leads(Tail(Begin), Known(NoParams, Runs(w, NoKernel, FALSE, 0, {})), Known(NoParams, r))
  BY BeginLeads
<1>4. Leads(<<EnableInterrupts>>, Fresh(a), Fresh(a))
  <2>1. Does(EnableInterrupts, Fresh(a), Fresh(a))
    BY DEF Does, EnableInterrupts
  <2> QED BY <2>1, LeadsOne
<1>5. Leads(delays, Fresh(a), Known(NoParams, Runs(w, NoKernel, FALSE, 0, {})))
  BY <1>0
<1>6. Leads(<<EnableInterrupts>> \o delays \o Tail(Begin), Fresh(a), Known(NoParams, r))
  <2> HIDE DEF delays, r, a
  <2> QED BY <1>3, <1>4, <1>5, LeadsBy2, Zenon
<1>7. MinSearches = <<EnableInterrupts>> \o delays \o Tail(Begin) \o list \o RunIntr \o Finish({1})
  BY DEF MinSearches
<1>8. p = SearchParams
  BY DEF SearchParams
<1> HIDE DEF list, p, delays, r
<1>9. Leads(<<EnableInterrupts>> \o delays \o Tail(Begin) \o list \o RunIntr \o Finish({1}),
            Fresh(a), Ended(Ran(a, p, w), 1))
  BY <1>1, <1>2, <1>6, OneRunLeads DEF r
<1> QED BY <1>0, <1>7, <1>8, <1>9

\* strela_test with all its vectors given and kernel k named.
TestParams(k) ==
    Params(k, ByColumn(Stream("a", 0, TEST), Stream("b", 0, TEST),
                       Stream("c", 0, TEST), Stream("d", 0, TEST)),
              ByColumn(Stream("e", 0, TEST), Stream("f", 0, TEST),
                       Stream("g", 0, TEST), Stream("h", 0, TEST)))
TestKnown(world, k, held, on, made, runs) ==
    Known(TestParams(k), Runs(world, held, on, made, runs))

\* Its runs after the first store what is there already.
Settled(world) ==
    world.app = "test" /\ \A k : Ran("bypass", TestParams(k), world) = world

LEMMA TestStreamsLead ==
  ASSUME NEW world, NEW k, NEW held, NEW on, NEW made, NEW runs
  PROVE  Leads(TestStreams, Known(Params(k, Nothing, Nothing), Runs(world, held, on, made, runs)),
               TestKnown(world, k, held, on, made, runs))
<1> DEFINE N == NoStream
           r == Runs(world, held, on, made, runs)
           a == Stream("a", 0, TEST)
           b == Stream("b", 0, TEST)
           c == Stream("c", 0, TEST)
           d == Stream("d", 0, TEST)
           e == Stream("e", 0, TEST)
           f == Stream("f", 0, TEST)
           g == Stream("g", 0, TEST)
           h == Stream("h", 0, TEST)
           i == ByColumn(a, b, c, d)
           x0 == Known(Params(k, Nothing, Nothing), r)
           x1 == Known(Params(k, ByColumn(a, N, N, N), Nothing), r)
           x2 == Known(Params(k, ByColumn(a, b, N, N), Nothing), r)
           x3 == Known(Params(k, ByColumn(a, b, c, N), Nothing), r)
           x4 == Known(Params(k, i, Nothing), r)
           x5 == Known(Params(k, i, ByColumn(e, N, N, N)), r)
           x6 == Known(Params(k, i, ByColumn(e, f, N, N)), r)
           x7 == Known(Params(k, i, ByColumn(e, f, g, N)), r)
           x8 == Known(Params(k, i, ByColumn(e, f, g, h)), r)
<1>1. Does(Imn(0, "a", 0, TEST), x0, x1) /\ Does(Imn(1, "b", 0, TEST), x1, x2)
  BY SetImn DEF Nothing
<1>2. Does(Imn(2, "c", 0, TEST), x2, x3) /\ Does(Imn(3, "d", 0, TEST), x3, x4)
  BY SetImn
<1>3. Does(Omn(0, "e", 0, TEST), x4, x5) /\ Does(Omn(1, "f", 0, TEST), x5, x6)
  BY SetOmn DEF Nothing
<1>4. Does(Omn(2, "g", 0, TEST), x6, x7) /\ Does(Omn(3, "h", 0, TEST), x7, x8)
  BY SetOmn
<1>5. x8 = TestKnown(world, k, held, on, made, runs)
  BY DEF TestKnown, TestParams
<1> HIDE DEF x0, x1, x2, x3, x4, x5, x6, x7, x8
<1>6. Leads(TestStreams, x0, x8)
  BY <1>1, <1>2, <1>3, <1>4, Leads8 DEF TestStreams
<1> QED BY <1>5, <1>6 DEF x0

LEMMA TestMayRun == \A k : MayRun("test", "bypass", TestParams(k))
<1>1. /\ \A x, y \in {"e", "f", "g", "h"} : x # y => Apart(Stream(x, 0, TEST), Stream(y, 0, TEST))
  BY DEF Apart, Stream
<1>2. \A k : StoresApart(TestParams(k))
  BY <1>1, ApartStores DEF TestParams
<1> QED BY <1>2, BypassFits DEF MayRun, TestParams

LEMMA FirstTestRunLeads ==
  ASSUME NEW world, world.app = "test", NEW k \in {NoKernel, "bypass"},
         NEW held \in {NoKernel, "bypass"}, held = NoKernel => k = "bypass",
         NEW on, NEW made, NEW n, n = made + 1, NEW runs,
         NEW more, more = (IF on THEN runs \cup {n} ELSE runs), NEW w \in {RunPoll, RunIntr}
  PROVE  Leads(w, TestKnown(world, k, held, on, made, runs),
               TestKnown(Ran("bypass", TestParams(k), world), k, "bypass", on, n, more))
<1>1. PICK p : p = TestParams(k) /\ p.conf_addr = k /\ MayRun(world.app, "bypass", p)
  BY TestMayRun DEF TestParams, Params
<1>2. "bypass" \in KernelNames
  BY Names
<1>3. PICK v : v = Ran("bypass", p, world)
  OBVIOUS
<1>4. /\ Leads(RunIntr, Known(p, Runs(world, held, on, made, runs)),
               Known(p, Runs(v, "bypass", on, n, more)))
      /\ Leads(RunPoll, Known(p, Runs(world, held, on, made, runs)),
               Known(p, Runs(v, "bypass", on, n, more)))
  BY <1>1, <1>2, <1>3, RunLeads
<1> QED BY <1>1, <1>3, <1>4 DEF TestKnown

LEMMA TestRunLeads ==
  ASSUME NEW world, Settled(world), NEW k \in {NoKernel, "bypass"},
         NEW held \in {NoKernel, "bypass"}, held = NoKernel => k = "bypass",
         NEW on, NEW made, NEW n, n = made + 1, NEW runs,
         NEW more, more = (IF on THEN runs \cup {n} ELSE runs), NEW w \in {RunPoll, RunIntr}
  PROVE  Leads(w, TestKnown(world, k, held, on, made, runs),
               TestKnown(world, k, "bypass", on, n, more))
<1>1. Ran("bypass", TestParams(k), world) = world /\ world.app = "test"
  BY DEF Settled
<1> QED BY <1>1, FirstTestRunLeads

\* One run more, counted if cycles are.
OneRunMore(on, made, n, runs, more) ==
    on \in BOOLEAN /\ n = made + 1 /\ more = (IF on THEN runs \cup {n} ELSE runs)

\* The rounds of the test: something is cleared and written again, then a run.
LEMMA ClearRoundLeads ==
  ASSUME NEW world, Settled(world), NEW s, NEW x, NEW p, NEW held, NEW on, NEW made, NEW n, NEW runs,
         OneRunMore(FALSE, made, n, {}, {}), Leads(s, x, Known(p, Runs(world, held, on, made, runs))),
         NEW mode \in {<<>>, ListenAgain}, NEW w \in {RunPoll, RunIntr}
  PROVE  Leads(s \o AfterClear(mode) \o w, x, TestKnown(world, "bypass", "bypass", FALSE, n, {}))
<1> DEFINE y == Known(p, Runs(world, held, on, made, runs))
           r == Runs(world, NoKernel, FALSE, made, {})
           q == Known(NoParams, r)
           z == Known(Params("bypass", Nothing, Nothing), r)
           u == TestKnown(world, "bypass", NoKernel, FALSE, made, {})
<1>1. Leads(<<Ctrl({"CLR"})>>, y, q)
  <2>1. Does(Ctrl({"CLR"}), y, q)
    BY DEF Does, Ctrl, Starts, Known, Runs, ClearsParams, ClearsConf, ClearsCounters
  <2> QED BY <2>1, LeadsOne
<1>2. Leads(mode, q, q)
  <2>1. CASE mode = <<>>
    <3>1. PICK S, t : S = {} /\ t = <<>> /\ t \in Seq(S)
      <4>1. <<>> \in Seq({})
        OBVIOUS
      <4> QED BY <4>1
    <3>2. \A a \in S : Does(a, q, q)
      BY <3>1
    <3> HIDE DEF q
    <3>3. Leads(t, q, q)
      BY <3>1, <3>2, LeadsNowhere
    <3> QED BY <2>1, <3>1, <3>3
  <2>2. CASE mode = ListenAgain
    <3>1. ("PERF_CTR_EN" \in {"INTR_EN"}) = FALSE
      OBVIOUS
    <3>2. Does(Mode({"INTR_EN"}), q, q)
      BY <3>1, DoesMode
    <3> QED BY <2>2, <3>2, LeadsOne DEF ListenAgain
  <2> QED BY <2>1, <2>2
<1>3. Leads(<<Conf("bypass")>>, q, z)
  BY DoesConf, NoParamsByColumn, LeadsOne
<1>4. Leads(TestStreams, z, u)
  BY TestStreamsLead
<1>5. Leads(w, u, TestKnown(world, "bypass", "bypass", FALSE, n, {}))
  BY TestRunLeads DEF OneRunMore
<1> HIDE DEF y, q, z, u
<1>6. Leads(AfterClear(mode), y, u)
  <2>1. PICK a, b, c : a = <<Ctrl({"CLR"})>> /\ b = <<Conf("bypass")>> /\ c = TestStreams
    OBVIOUS
  <2>2. Leads(a \o mode \o b, y, z)
    BY <1>1, <1>2, <1>3, <2>1, LeadsBy2, Zenon
  <2>3. Leads(a \o mode \o b \o c, y, u)
    BY <1>4, <2>1, <2>2, LeadsConcat, Zenon
  <2> QED BY <2>1, <2>3 DEF AfterClear
<1>7. Leads(s, x, y)
  BY DEF y
<1> QED BY <1>5, <1>6, <1>7, LeadsBy2, Zenon

LEMMA ParamRoundLeads ==
  ASSUME NEW world, Settled(world), NEW s, NEW x, NEW k, NEW on, NEW made, NEW n, NEW runs, NEW more,
         OneRunMore(on, made, n, runs, more), NEW w \in {RunPoll, RunIntr},
         Leads(s, x, TestKnown(world, k, "bypass", on, made, runs))
  PROVE  Leads(s \o AfterParamClear \o w, x, TestKnown(world, NoKernel, "bypass", on, n, more))
<1> DEFINE y == TestKnown(world, k, "bypass", on, made, runs)
           z == Known(Params(NoKernel, Nothing, Nothing), Runs(world, "bypass", on, made, runs))
           u == TestKnown(world, NoKernel, "bypass", on, made, runs)
<1>1. Leads(<<Ctrl({"CLR_PARAM"})>>, y, z)
  BY DoesCtrl, NoParamsByColumn, LeadsOne DEF TestKnown, OneRunMore
<1>2. Leads(TestStreams, z, u)
  BY TestStreamsLead
<1>3. Leads(w, u, TestKnown(world, NoKernel, "bypass", on, n, more))
  <2>1. "bypass" # NoKernel
    BY DEF NoKernel
  <2> QED BY <2>1, TestRunLeads DEF OneRunMore
<1>4. Leads(s, x, y)
  OBVIOUS
<1> HIDE DEF y, z, u
<1>5. Leads(AfterParamClear, y, u)
  BY <1>1, <1>2, LeadsConcat DEF AfterParamClear
<1> QED BY <1>3, <1>4, <1>5, LeadsBy2, Zenon

LEMMA ConfRoundLeads ==
  ASSUME NEW world, Settled(world), NEW s, NEW x, NEW k, NEW held,
         NEW on, NEW made, NEW n, NEW runs, NEW more, OneRunMore(on, made, n, runs, more),
         NEW w \in {RunPoll, RunIntr}, Leads(s, x, TestKnown(world, k, held, on, made, runs))
  PROVE  Leads(s \o AfterConfClear \o w, x, TestKnown(world, "bypass", "bypass", on, n, more))
<1> DEFINE y == TestKnown(world, k, held, on, made, runs)
           z == TestKnown(world, k, NoKernel, on, made, runs)
           u == TestKnown(world, "bypass", NoKernel, on, made, runs)
<1>1. Does(Ctrl({"CLR_CONF"}), y, z)
  BY DoesCtrl DEF TestKnown, OneRunMore
<1>2. Does(Conf("bypass"), z, u)
  <2>1. PICK i, o : \A j : TestParams(j) = Params(j, i, o)
    BY DEF TestParams
  <2> QED BY <2>1, DoesConf DEF TestKnown
<1>3. Leads(w, u, TestKnown(world, "bypass", "bypass", on, n, more))
  BY TestRunLeads DEF OneRunMore
<1>4. Leads(s, x, y)
  OBVIOUS
<1> HIDE DEF y, z, u
<1>5. Leads(AfterConfClear, y, u)
  BY <1>1, <1>2, Leads2 DEF AfterConfClear
<1> QED BY <1>3, <1>4, <1>5, LeadsBy2, Zenon

LEMMA ModeRoundLeads ==
  ASSUME NEW world, Settled(world), NEW s, NEW x, NEW k \in {NoKernel, "bypass"}, NEW was,
         NEW on, NEW made, NEW n, NEW runs, NEW more, OneRunMore(on, made, n, runs, more),
         NEW bits, on = ("PERF_CTR_EN" \in bits), NEW w \in {RunPoll, RunIntr},
         Leads(s, x, TestKnown(world, k, "bypass", was, made, runs))
  PROVE  Leads(s \o <<Mode(bits)>> \o w, x, TestKnown(world, k, "bypass", on, n, more))
<1> DEFINE y == TestKnown(world, k, "bypass", was, made, runs)
           z == TestKnown(world, k, "bypass", on, made, runs)
<1>1. Leads(<<Mode(bits)>>, y, z)
  BY DoesMode, LeadsOne DEF TestKnown
<1>2. Leads(w, z, TestKnown(world, k, "bypass", on, n, more))
  <2>1. "bypass" # NoKernel
    BY DEF NoKernel
  <2> QED BY <2>1, TestRunLeads DEF OneRunMore
<1> HIDE DEF y, z
<1>3. Leads(s, x, y)
  BY DEF y
<1> QED BY <1>1, <1>2, <1>3, LeadsBy2, Zenon

\* Finish of either half: the counters are stopped and read.
LEMMA TestReadLeads ==
  ASSUME NEW world, Settled(world), NEW s, NEW x, NEW k, NEW held, NEW on, NEW made, NEW runs,
         Leads(s, x, TestKnown(world, k, held, on, made, runs))
  PROVE  Leads(s \o <<Mode({}), ReadCounters(runs)>>, x, TestKnown(world, k, held, FALSE, made, runs))
<1> DEFINE y == TestKnown(world, k, held, on, made, runs)
           z == TestKnown(world, k, held, FALSE, made, runs)
<1>1. Does(Mode({}), y, z)
  <2>1. ("PERF_CTR_EN" \in {}) = FALSE
    OBVIOUS
  <2> QED BY <2>1, DoesMode DEF TestKnown
<1>2. Does(ReadCounters(runs), z, z)
  BY DEF Does, ReadCounters, TestKnown, Known, Runs
<1> HIDE DEF y, z
<1>3. Leads(<<Mode({}), ReadCounters(runs)>>, y, z)
  BY <1>1, <1>2, Leads2
<1>4. Leads(s, x, y)
  BY DEF y
<1> QED BY <1>3, <1>4, LeadsConcat DEF z

\* A half of the test after its first run.
LEMMA TestRoundsLead ==
  ASSUME NEW world, Settled(world), NEW m \in Nat, NEW s1, NEW x, NEW runs, NEW mode \in {<<>>, ListenAgain},
         NEW bits, TRUE = ("PERF_CTR_EN" \in bits), NEW w \in {RunPoll, RunIntr},
         Leads(s1, x, TestKnown(world, "bypass", "bypass", FALSE, m, runs))
  PROVE  Leads(s1 \o AfterClear(mode) \o w \o AfterParamClear \o w \o AfterConfClear \o w
               \o <<Mode(bits)>> \o w \o AfterParamClear \o w \o AfterConfClear \o w
               \o <<Mode({}), ReadCounters(m + 4 .. m + 6)>>,
               x, TestKnown(world, "bypass", "bypass", FALSE, m + 6, m + 4 .. m + 6))
<1> DEFINE s2 == s1 \o AfterClear(mode) \o w
           s3 == s2 \o AfterParamClear \o w
           s4 == s3 \o AfterConfClear \o w
           s5 == s4 \o <<Mode(bits)>> \o w
           s6 == s5 \o AfterParamClear \o w
           s7 == s6 \o AfterConfClear \o w
<1> HIDE DEF s2, s3, s4, s5, s6, s7
<1>1. /\ OneRunMore(FALSE, m, m + 1, {}, {}) /\ OneRunMore(FALSE, m + 1, m + 2, {}, {})
      /\ OneRunMore(FALSE, m + 2, m + 3, {}, {})
      /\ OneRunMore(TRUE, m + 3, m + 4, {}, {m + 4})
      /\ OneRunMore(TRUE, m + 4, m + 5, {m + 4}, m + 4 .. m + 5)
      /\ OneRunMore(TRUE, m + 5, m + 6, m + 4 .. m + 5, m + 4 .. m + 6)
  BY DEF OneRunMore
<1>2. Leads(s2, x, TestKnown(world, "bypass", "bypass", FALSE, m + 1, {}))
  <2>1. PICK p : TestKnown(world, "bypass", "bypass", FALSE, m, runs) =
                   Known(p, Runs(world, "bypass", FALSE, m, runs))
    BY DEF TestKnown
  <2>2. Leads(s1, x, Known(p, Runs(world, "bypass", FALSE, m, runs)))
    BY <2>1
  <2> QED BY <1>1, <2>2, ClearRoundLeads, Zenon DEF s2
<1>3. Leads(s3, x, TestKnown(world, NoKernel, "bypass", FALSE, m + 2, {}))
  BY <1>1, <1>2, ParamRoundLeads, Zenon DEF s3
<1>4. Leads(s4, x, TestKnown(world, "bypass", "bypass", FALSE, m + 3, {}))
  BY <1>1, <1>3, ConfRoundLeads, Zenon DEF s4
<1>5. Leads(s5, x, TestKnown(world, "bypass", "bypass", TRUE, m + 4, {m + 4}))
  BY <1>1, <1>4, ModeRoundLeads, Zenon DEF s5
<1>6. Leads(s6, x, TestKnown(world, NoKernel, "bypass", TRUE, m + 5, m + 4 .. m + 5))
  BY <1>1, <1>5, ParamRoundLeads, Zenon DEF s6
<1>7. Leads(s7, x, TestKnown(world, "bypass", "bypass", TRUE, m + 6, m + 4 .. m + 6))
  BY <1>1, <1>6, ConfRoundLeads, Zenon DEF s7
<1>8. Leads(s7 \o <<Mode({}), ReadCounters(m + 4 .. m + 6)>>, x,
            TestKnown(world, "bypass", "bypass", FALSE, m + 6, m + 4 .. m + 6))
  BY <1>7, TestReadLeads, Zenon
<1> QED BY <1>8 DEF s2, s3, s4, s5, s6, s7

LEMMA TestPollingLeads ==
  ASSUME NEW first, first.app = "test",
         NEW world, world = Ran("bypass", TestParams("bypass"), first), Settled(world)
  PROVE  Leads(TestPolling, Known(NoParams, Runs(first, NoKernel, FALSE, 0, {})),
               TestKnown(world, "bypass", "bypass", FALSE, 7, 5 .. 7))
<1> DEFINE x == Known(NoParams, Runs(first, NoKernel, FALSE, 0, {}))
           y == Known(Params("bypass", Nothing, Nothing), Runs(first, NoKernel, FALSE, 0, {}))
           z == TestKnown(first, "bypass", NoKernel, FALSE, 0, {})
           u == TestKnown(world, "bypass", "bypass", FALSE, 1, {})
           s == <<Conf("bypass")>> \o TestStreams \o RunPoll
           bits == {"PERF_CTR_EN"}
<1>1. Leads(<<Conf("bypass")>>, x, y)
  BY DoesConf, NoParamsByColumn, LeadsOne
<1>2. Leads(TestStreams, y, z)
  BY TestStreamsLead
<1>3. Leads(RunPoll, z, u)
  <2>1. 1 = 0 + 1
    OBVIOUS
  <2> QED BY <2>1, FirstTestRunLeads
<1>4. TRUE = ("PERF_CTR_EN" \in bits) /\ 1 + 4 = 5 /\ 1 + 6 = 7
  OBVIOUS
<1> HIDE DEF x, y, z
<1>5. Leads(s, x, u)
  BY <1>1, <1>2, <1>3, LeadsBy2, Zenon
<1> HIDE DEF s, bits
<1>6. Leads(s \o AfterClear(<<>>) \o RunPoll \o AfterParamClear \o RunPoll \o AfterConfClear
            \o RunPoll \o <<Mode(bits)>> \o RunPoll \o AfterParamClear \o RunPoll
            \o AfterConfClear \o RunPoll \o <<Mode({}), ReadCounters(1 + 4 .. 1 + 6)>>,
            x, TestKnown(world, "bypass", "bypass", FALSE, 1 + 6, 1 + 4 .. 1 + 6))
  <2>1. PICK m \in Nat : m = 1
    OBVIOUS
  <2>2. Leads(s, x, TestKnown(world, "bypass", "bypass", FALSE, m, {}))
    BY <1>5, <2>1
  <2> QED BY <1>4, <2>1, <2>2, TestRoundsLead, Zenon
<1> QED BY <1>4, <1>6 DEF TestPolling, s, bits, x

LEMMA TestInterruptsLead ==
  ASSUME NEW world, Settled(world)
  PROVE  \E y : /\ Leads(TestInterrupts, TestKnown(world, "bypass", "bypass", FALSE, 7, 5 .. 7), y)
                /\ y.runs.world = world
<1> DEFINE x == TestKnown(world, "bypass", "bypass", FALSE, 7, 5 .. 7)
           u == TestKnown(world, "bypass", "bypass", FALSE, 8, 5 .. 7)
           s == <<Mode({"INTR_EN"})>> \o RunIntr
           bits == {"PERF_CTR_EN", "INTR_EN"}
<1>1. Leads(<<Mode({"INTR_EN"})>>, x, x)
  <2>1. ("PERF_CTR_EN" \in {"INTR_EN"}) = FALSE
    OBVIOUS
  <2> QED BY <2>1, DoesMode, LeadsOne DEF TestKnown
<1>2. Leads(RunIntr, x, u)
  <2>1. 8 = 7 + 1
    OBVIOUS
  <2> QED BY <2>1, TestRunLeads
<1>3. TRUE = ("PERF_CTR_EN" \in bits) /\ 8 + 4 = 12 /\ 8 + 6 = 14
  OBVIOUS
<1> HIDE DEF x
<1>4. Leads(s, x, u)
  BY <1>1, <1>2, LeadsConcat, Zenon
<1> HIDE DEF s, bits
<1>5. PICK m \in Nat : m = 8
  OBVIOUS
<1>6. Leads(s, x, TestKnown(world, "bypass", "bypass", FALSE, m, 5 .. 7))
  BY <1>4, <1>5
<1>7. PICK y : y = TestKnown(world, "bypass", "bypass", FALSE, m + 6, m + 4 .. m + 6)
  OBVIOUS
<1>8. Leads(s \o AfterClear(ListenAgain) \o RunIntr \o AfterParamClear \o RunIntr
            \o AfterConfClear \o RunIntr \o <<Mode(bits)>> \o RunIntr
            \o AfterParamClear \o RunIntr \o AfterConfClear \o RunIntr
            \o <<Mode({}), ReadCounters(m + 4 .. m + 6)>>, x, y)
  BY <1>3, <1>6, <1>7, TestRoundsLead, Zenon
<1>9. y.runs.world = world
  BY <1>7 DEF TestKnown, Known, Runs
<1> QED BY <1>3, <1>5, <1>8, <1>9 DEF TestInterrupts, s, bits, x

\* Memory when strela_test starts its first run, and after it.
TestFilled ==
    Stored(Stored(Stored(Stored(Loaded("test"), "a", Filled(1)), "b", Filled(2)),
                  "c", Filled(3)), "d", Filled(4))
TestLeft == Ran("bypass", TestParams("bypass"), TestFilled)

\* Column c copies from the array it reads to the one it writes.
TestDomains(m) ==
    /\ DOMAIN m = {"a", "b", "c", "d", "e", "f", "g", "h"} /\ Tabulated(m)
    /\ \A x \in DOMAIN m : DOMAIN m[x] = 0 .. TEST - 1 /\ Tabulated(m[x])
Copied(m, from) ==
    /\ \A x \in {"a", "b", "c", "d"} : \A i \in 0 .. TEST - 1 : m[x][i] = from[x][i]
    /\ \A i \in 0 .. TEST - 1 : /\ m["e"][i] = from["a"][i] /\ m["f"][i] = from["b"][i]
                               /\ m["g"][i] = from["c"][i] /\ m["h"][i] = from["d"][i]

LEMMA TestArrays ==
  /\ TestFilled.app = "test" /\ TestDomains(TestFilled.mem)
  /\ TestFilled.mem["a"] = Filled(1) /\ TestFilled.mem["b"] = Filled(2)
  /\ TestFilled.mem["c"] = Filled(3) /\ TestFilled.mem["d"] = Filled(4)
<1>1. PICK m, n : /\ m = TestData /\ Data["test"] = m
                  /\ n = [[[[m EXCEPT !["a"] = Filled(1)] EXCEPT !["b"] = Filled(2)]
                            EXCEPT !["c"] = Filled(3)] EXCEPT !["d"] = Filled(4)]
  BY DEF Data
<1>2. TestFilled.app = "test" /\ TestFilled.mem = n
  BY <1>1 DEF TestFilled, Stored, Loaded, World
<1>3. DOMAIN m = {"a", "b", "c", "d", "e", "f", "g", "h"} /\ \A x \in DOMAIN m : m[x] = Zeros(TEST)
  BY <1>1 DEF TestData
<1>4. /\ DOMAIN n = {"a", "b", "c", "d", "e", "f", "g", "h"} /\ Tabulated(n)
      /\ n["a"] = Filled(1) /\ n["b"] = Filled(2) /\ n["c"] = Filled(3) /\ n["d"] = Filled(4)
      /\ \A x \in {"e", "f", "g", "h"} : n[x] = Zeros(TEST)
  BY <1>1, <1>3 DEF Tabulated
<1>5. /\ \A k : DOMAIN Filled(k) = 0 .. TEST - 1 /\ Tabulated(Filled(k))
      /\ DOMAIN Zeros(TEST) = 0 .. TEST - 1 /\ Tabulated(Zeros(TEST))
  BY DEF Filled, Zeros, Tabulated
<1>6. ASSUME NEW x \in DOMAIN n PROVE DOMAIN n[x] = 0 .. TEST - 1 /\ Tabulated(n[x])
  <2>1. \/ x = "a" \/ x = "b" \/ x = "c" \/ x = "d"
        \/ x \in {"e", "f", "g", "h"}
    BY <1>4
  <2> QED BY <1>4, <1>5, <2>1
<1> QED BY <1>2, <1>4, <1>6 DEF TestDomains

LEMMA TestCopies ==
  ASSUME NEW k, NEW world, TestDomains(world.mem), NEW m, m = Ran("bypass", TestParams(k), world).mem
  PROVE  TestDomains(m) /\ Copied(m, world.mem)
<1> DEFINE p == TestParams(k)
<1>1. m = Left("bypass", p, world) /\ TEST \in Nat
  BY GivenAssumption DEF Ran, World
<1>2. /\ p.imn[0] = Stream("a", 0, TEST) /\ p.omn[0] = Stream("e", 0, TEST)
      /\ p.imn[1] = Stream("b", 0, TEST) /\ p.omn[1] = Stream("f", 0, TEST)
      /\ p.imn[2] = Stream("c", 0, TEST) /\ p.omn[2] = Stream("g", 0, TEST)
      /\ p.imn[3] = Stream("d", 0, TEST) /\ p.omn[3] = Stream("h", 0, TEST)
  BY ColumnPlaces DEF TestParams, Params
<1>3. StoresApart(p) /\ AllPlaced(p)
  <2>1. \A x : Placed(Stream(x, 0, TEST))
    BY <1>1 DEF Placed, Stream
  <2>2. AllPlaced(p)
    BY <1>2, <2>1, ColumnPlaces DEF AllPlaced
  <2>3. \A x, y \in {"e", "f", "g", "h"} : x # y => Apart(Stream(x, 0, TEST), Stream(y, 0, TEST))
    BY DEF Apart, Stream
  <2> QED BY <2>2, <2>3, ApartStores DEF TestParams
<1> HIDE DEF p
<1>4. TestDomains(m)
  BY <1>1, LeftDomains DEF TestDomains
<1>5. ASSUME NEW x \in {"a", "b", "c", "d"}, NEW i \in 0 .. TEST - 1
      PROVE  m[x][i] = world.mem[x][i]
  <2>1. ~Covered(p, x, i)
    BY <1>2, ColumnPlaces DEF Covered, Covers, Stream
  <2>2. x \in DOMAIN world.mem /\ i \in DOMAIN world.mem[x]
    BY DEF TestDomains
  <2> QED BY <1>1, <2>1, <2>2, LeftElse
<1>6. ASSUME NEW i \in 0 .. TEST - 1, NEW c \in Columns, NEW x,
             p.imn[c] = Stream(x, 0, TEST), NEW y \in {"e", "f", "g", "h"},
             p.omn[c] = Stream(y, 0, TEST)
      PROVE  m[y][i] = world.mem[x][i]
  <2>1. m[y][i] = Yield("bypass", p, world)[c][i + 1]
    <3>1. p.omn[c].array = y /\ i = p.omn[c].at + i /\ i \in 0 .. p.omn[c].n - 1
      BY <1>6 DEF Stream
    <3>2. y \in DOMAIN world.mem /\ i \in DOMAIN world.mem[y]
      BY DEF TestDomains
    <3> QED BY <1>1, <1>3, <3>1, <3>2, LeftAt
  <2>2. Yield("bypass", p, world)[c] = Taken(Stream(x, 0, TEST), world.mem)
    BY <1>6 DEF Yield, Outputs, Inputs
  <2>3. Taken(Stream(x, 0, TEST), world.mem)[i + 1] = world.mem[x][i]
    <3>1. i + 1 \in 1 .. TEST /\ 0 + (i + 1) - 1 = i
      BY <1>1
    <3> QED BY <3>1 DEF Taken, Stream
  <2> QED BY <2>1, <2>2, <2>3
<1>7. ASSUME NEW i \in 0 .. TEST - 1
      PROVE  /\ m["e"][i] = world.mem["a"][i] /\ m["f"][i] = world.mem["b"][i]
             /\ m["g"][i] = world.mem["c"][i] /\ m["h"][i] = world.mem["d"][i]
  <2>1. 0 \in Columns /\ 1 \in Columns /\ 2 \in Columns /\ 3 \in Columns
    BY DEF Columns
  <2> QED BY <1>2, <1>6, <2>1
<1> QED BY <1>4, <1>5, <1>7 DEF Copied

LEMMA TestSettled == Settled(TestLeft)
<1>1. TestLeft.app = "test"
  BY TestArrays DEF TestLeft, Ran, World
<1>2. ASSUME NEW k PROVE Ran("bypass", TestParams(k), TestLeft) = TestLeft
  <2>1. PICK m, l : m = TestLeft.mem /\ l = Ran("bypass", TestParams(k), TestLeft).mem
    OBVIOUS
  <2>2. TestDomains(m) /\ Copied(m, TestFilled.mem)
    BY <2>1, TestArrays, TestCopies DEF TestLeft
  <2>3. TestDomains(l) /\ Copied(l, m)
    BY <2>1, <2>2, TestCopies
  <2>4. ASSUME NEW x \in DOMAIN m, NEW i \in 0 .. TEST - 1 PROVE l[x][i] = m[x][i]
    <3>1. x \in {"a", "b", "c", "d"} \/ x = "e" \/ x = "f" \/ x = "g" \/ x = "h"
      BY <2>2 DEF TestDomains
    <3> QED BY <2>2, <2>3, <3>1 DEF Copied
  <2>5. ASSUME NEW x \in DOMAIN m PROVE l[x] = m[x]
    <3>1. /\ Tabulated(m[x]) /\ Tabulated(l[x])
          /\ DOMAIN m[x] = 0 .. TEST - 1 /\ DOMAIN l[x] = 0 .. TEST - 1
      BY <2>2, <2>3 DEF TestDomains
    <3> QED BY <2>4, <3>1, SameTable
  <2>6. l = m
    BY <2>2, <2>3, <2>5, SameTable DEF TestDomains
  <2>7. TestLeft = World(TestLeft.app, TestLeft.tables, m)
    BY <2>1 DEF TestLeft, Ran, World
  <2>8. Ran("bypass", TestParams(k), TestLeft) = World(TestLeft.app, TestLeft.tables, l)
    BY <2>1 DEF Ran, World
  <2> QED BY <2>6, <2>7, <2>8
<1> QED BY <1>1, <1>2 DEF Settled

LEMMA TestsLead == \E y : Leads(Tests, Fresh("test"), y) /\ y.runs.world = TestLeft
<1> DEFINE K(w) == Known(NoParams, Runs(w, NoKernel, FALSE, 0, {}))
           w0 == Loaded("test")
           w1 == Stored(w0, "a", Filled(1))
           w2 == Stored(w1, "b", Filled(2))
           w3 == Stored(w2, "c", Filled(3))
<1>1. PICK a, b, c, d, e :
        /\ a = EnableInterrupts /\ b = Store("a", Filled(1)) /\ c = Store("b", Filled(2))
        /\ d = Store("c", Filled(3)) /\ e = Store("d", Filled(4))
  OBVIOUS
<1>2. ASSUME NEW w, w.app = "test", NEW array \in {"a", "b", "c", "d"}, NEW factor
      PROVE  Does(Store(array, Filled(factor)), K(w), K(Stored(w, array, Filled(factor))))
  <2>1. /\ array \in DOMAIN Data["test"]
        /\ DOMAIN Filled(factor) = DOMAIN Data["test"][array]
    BY Arrays DEF TestData, Zeros, Filled
  <2>2. /\ K(w).params = NoParams /\ K(w).runs.world = w /\ K(w).runs.held = NoKernel
        /\ K(w).runs.on = FALSE /\ K(w).runs.made = 0 /\ K(w).runs.counted = {}
    BY DEF Known, Runs
  <2>3. Filled(factor) = [i \in DOMAIN Filled(factor) |-> Filled(factor)[i]]
    BY DEF Filled
  <2>4. /\ Store(array, Filled(factor)).op = "store" /\ Store(array, Filled(factor)).array = array
        /\ Store(array, Filled(factor)).values = Filled(factor)
    BY DEF Store
  <2> QED BY <1>2, <2>1, <2>2, <2>3, <2>4 DEF Does
<1>3. w0.app = "test" /\ w1.app = "test" /\ w2.app = "test" /\ w3.app = "test"
  BY DEF Loaded, Stored, World
<1>4. Does(a, K(w0), K(w0))
  BY <1>1 DEF Does, EnableInterrupts
<1>5. Does(b, K(w0), K(w1)) /\ Does(c, K(w1), K(w2)) /\ Does(d, K(w2), K(w3))
  BY <1>1, <1>2, <1>3
<1>6. Does(e, K(w3), K(TestFilled))
  BY <1>1, <1>2, <1>3 DEF TestFilled
<1>7. Fresh("test") = K(w0)
  BY DEF Fresh
<1> HIDE DEF w0, w1, w2, w3, K
<1>8. Leads(<<a, b, c, d>> \o <<e>>, K(w0), K(TestFilled))
  BY <1>4, <1>5, <1>6, Leads4, LeadsThen
<1>9. <<a, b, c, d, e>> = <<a, b, c, d>> \o <<e>>
  OBVIOUS
<1>10. PICK s : s = <<a, b, c, d, e>> /\ s = <<a, b, c, d>> \o <<e>>
  BY <1>9
<1>11. PICK y : /\ Leads(TestInterrupts, TestKnown(TestLeft, "bypass", "bypass", FALSE, 7, 5 .. 7), y)
                /\ y.runs.world = TestLeft
  BY TestSettled, TestInterruptsLead
<1>12. Leads(TestPolling, K(TestFilled), TestKnown(TestLeft, "bypass", "bypass", FALSE, 7, 5 .. 7))
  BY TestArrays, TestSettled, TestPollingLeads DEF TestLeft, K
<1>13. Leads(s \o TestPolling \o TestInterrupts, Fresh("test"), y)
  BY <1>7, <1>8, <1>10, <1>11, <1>12, LeadsBy2, Zenon
<1> QED BY <1>1, <1>10, <1>11, <1>13 DEF Tests

-----------------------------------------------------------------------------
(* Induction over the naturals, for sets instead of predicates             *)

Below == OpToRel(<, Nat)

LEMMA Least ==
  ASSUME NEW T \in SUBSET Nat, T # {}
  PROVE  \E x \in T : \A y \in T : x <= y
<1>1. IsWellFoundedOn(Below, Nat)
  BY NatLessThanWellFounded, Zenon DEF Below
<1>2. PICK x \in T : \A y \in T : ~(<<y, x>> \in Below)
  BY <1>1, WFMin
<1>3. \A i, j \in Nat : i < j => <<i, j>> \in Below
  BY DEF Below, OpToRel
<1>4. ASSUME NEW y \in T PROVE x <= y
  <2>1. x \in Nat /\ y \in Nat /\ ~(<<y, x>> \in Below)
    BY <1>2
  <2> QED BY <1>3, <2>1
<1> QED BY <1>4

LEMMA Induction ==
  ASSUME NEW T, 0 \in T, \A n \in Nat : n \in T => n + 1 \in T
  PROVE  \A n \in Nat : n \in T
<1> SUFFICES ASSUME NEW n \in Nat, n \notin T PROVE FALSE
  OBVIOUS
<1> DEFINE U == {m \in Nat : m \notin T}
<1>1. PICK x \in U : \A y \in U : x <= y
  <2>1. U \in SUBSET Nat /\ U # {}
    OBVIOUS
  <2> HIDE DEF U
  <2> QED BY <2>1, Least
<1>2. x - 1 \in Nat /\ x - 1 \in T
  BY <1>1
<1> QED BY <1>1, <1>2

-----------------------------------------------------------------------------
(* The carry of dither                                                     *)

\* What is carried on of x, and the carry g after each of the first n words of s:
\* there is one, and only one.
CarriedOn(x)     == IF x > 127 THEN x - 255 ELSE x
Carried(s, n, g) == g = [i \in 0 .. n |-> IF i = 0 THEN 0 ELSE CarriedOn(s[i] + g[i - 1])]

LEMMA CarriedStep ==
  ASSUME NEW s, NEW n \in Nat, NEW g, Carried(s, n, g)
  PROVE  g[0] = 0 /\ \A i \in Nat : i + 1 <= n => g[i + 1] = CarriedOn(s[i + 1] + g[i])
<1>1. g = [i \in 0 .. n |-> IF i = 0 THEN 0 ELSE CarriedOn(s[i] + g[i - 1])]
  BY DEF Carried
<1>2. g[0] = 0
  BY <1>1
<1>3. ASSUME NEW i \in Nat, i + 1 <= n PROVE g[i + 1] = CarriedOn(s[i + 1] + g[i])
  <2>1. i + 1 \in 0 .. n /\ i + 1 # 0 /\ (i + 1) - 1 = i
    BY <1>3
  <2>2. g[i + 1] = CarriedOn(s[i + 1] + g[(i + 1) - 1])
    BY <1>1, <2>1
  <2> QED BY <2>1, <2>2
<1> QED BY <1>2, <1>3

SameWords(s, t, n) == \A i \in 1 .. n : s[i] = t[i]

LEMMA CarriedOnce ==
  ASSUME NEW s, NEW t, NEW n \in Nat, NEW m \in Nat, NEW g, NEW h,
         Carried(s, n, g), Carried(t, m, h), n <= m, SameWords(s, t, n)
  PROVE  \A i \in 0 .. n : g[i] = h[i]
<1> DEFINE T == {i \in Nat : i <= n => g[i] = h[i]}
<1>1. 0 \in T
  <2>1. g[0] = 0
    BY CarriedStep
  <2>2. h[0] = 0
    BY CarriedStep
  <2> QED BY <2>1, <2>2
<1>2. ASSUME NEW i \in Nat, i \in T PROVE i + 1 \in T
  <2> SUFFICES ASSUME i + 1 <= n PROVE g[i + 1] = h[i + 1]
    OBVIOUS
  <2>1. g[i] = h[i] /\ s[i + 1] = t[i + 1] /\ i + 1 <= m
    BY <1>2 DEF SameWords
  <2>2. g[i + 1] = CarriedOn(s[i + 1] + g[i])
    BY CarriedStep
  <2>3. h[i + 1] = CarriedOn(t[i + 1] + h[i])
    BY <2>1, CarriedStep
  <2> QED BY <2>1, <2>2, <2>3
<1>3. \A i \in Nat : i \in T
  <2> HIDE DEF T
  <2> QED BY <1>1, <1>2, Induction
<1> QED BY <1>3

LEMMA CarriedExists == ASSUME NEW s PROVE \A n \in Nat : \E g : Carried(s, n, g)
<1> DEFINE T == {n \in Nat : \E g : Carried(s, n, g)}
<1>1. 0 \in T
  <2> DEFINE g == [i \in 0 .. 0 |-> 0]
  <2>1. Carried(s, 0, g)
    BY DEF Carried
  <2> QED BY <2>1
<1>2. ASSUME NEW n \in Nat, n \in T PROVE n + 1 \in T
  <2>1. PICK g : Carried(s, n, g)
    BY <1>2
  <2> DEFINE h == [i \in 0 .. n + 1 |-> IF i <= n THEN g[i] ELSE CarriedOn(s[n + 1] + g[n])]
             r == [i \in 0 .. n + 1 |-> IF i = 0 THEN 0 ELSE CarriedOn(s[i] + h[i - 1])]
  <2>2. ASSUME NEW i \in 0 .. n + 1 PROVE h[i] = r[i]
    <3>1. CASE i = 0
      BY <2>1, <3>1, CarriedStep
    <3>2. CASE i # 0 /\ i <= n
      <4>1. i - 1 \in Nat /\ (i - 1) + 1 = i /\ i - 1 \in 0 .. n + 1 /\ i - 1 <= n
        BY <3>2
      <4>2. g[(i - 1) + 1] = CarriedOn(s[(i - 1) + 1] + g[i - 1])
        BY <2>1, <3>2, <4>1, CarriedStep
      <4>3. h[i] = g[i] /\ h[i - 1] = g[i - 1]
        BY <3>2, <4>1
      <4>4. r[i] = CarriedOn(s[i] + h[i - 1])
        BY <3>2
      <4> QED BY <4>1, <4>2, <4>3, <4>4
    <3>3. CASE i = n + 1
      <4>1. h[i] = CarriedOn(s[n + 1] + g[n]) /\ h[n] = g[n] /\ i - 1 = n
        BY <3>3
      <4>2. r[i] = CarriedOn(s[i] + h[i - 1])
        BY <3>3
      <4> HIDE DEF h, r
      <4> QED BY <3>3, <4>1, <4>2
    <3> QED BY <3>1, <3>2, <3>3
  <2>3. h = r
    <3>1. h = [i \in 0 .. n + 1 |-> h[i]] /\ r = [i \in 0 .. n + 1 |-> r[i]]
      OBVIOUS
    <3> HIDE DEF h, r
    <3> QED BY <2>2, <3>1
  <2>4. Carried(s, n + 1, h)
    BY <2>3 DEF Carried
  <2> QED BY <2>4
<1>3. \A n \in Nat : n \in T
  <2> HIDE DEF T
  <2> QED BY <1>1, <1>2, Induction
<1> QED BY <1>3

LEMMA CarryOf ==
  ASSUME NEW s, Len(s) \in Nat
  PROVE  Carried(s, Len(s), Carry(s))
<1> DEFINE n == Len(s)
           G(g) == g = [i \in 0 .. n |-> IF i = 0 THEN 0
                                         ELSE LET sum == s[i] + g[i - 1]
                                              IN  IF sum > 127 THEN sum - 255 ELSE sum]
           f == CHOOSE g : G(g)
<1>1. ASSUME NEW g PROVE G(g) <=> Carried(s, n, g)
  BY DEF Carried, CarriedOn
<1>2. G(f)
  <2>1. \E g : G(g)
    BY <1>1, CarriedExists
  <2> HIDE DEF G
  <2> QED BY <2>1
<1>3. Carry(s) = f
  BY DEF Carry
<1>4. Carried(s, n, f)
  BY <1>1, <1>2
<1> HIDE DEF f, G
<1> QED BY <1>3, <1>4

-----------------------------------------------------------------------------
(* The search for two minima                                               *)

\* What the kernel keeps of the words it has seen, and f after each of the first
\* n words of s.
FirstFound == [min |-> 50, at |-> 80, next |-> 50, next_at |-> 800]
Finds(f, x, at) ==
    CASE x < f.min                   -> [min |-> x, at |-> at, next |-> f.min, next_at |-> f.at]
      [] x >= f.min /\ x < f.next -> [f EXCEPT !.next = x, !.next_at = at]
      [] OTHER                       -> f
Searched(s, n, f) ==
    f = [i \in 0 .. n |-> IF i = 0 THEN FirstFound ELSE Finds(f[i - 1], s[i], i - 1)]

\* What gendata.py keeps, and z after each of the first n words of X.
Ranks(z, x, at) ==
    CASE x < z[1]              -> <<x, at, z[1], z[2]>>
      [] x >= z[1] /\ x < z[3] -> <<z[1], z[2], x, at>>
      [] OTHER                 -> z
Ranked(X, n, z) ==
    z = [i \in 0 .. n |-> IF i = 0 THEN <<127, 0, 0, 0>> ELSE Ranks(z[i - 1], X[i - 1], i - 1)]

LEMMA SearchedStep ==
  ASSUME NEW s, NEW n \in Nat, NEW f, Searched(s, n, f)
  PROVE  f[0] = FirstFound /\ \A i \in Nat : i + 1 <= n => f[i + 1] = Finds(f[i], s[i + 1], i)
<1>1. f = [i \in 0 .. n |-> IF i = 0 THEN FirstFound ELSE Finds(f[i - 1], s[i], i - 1)]
  BY DEF Searched
<1>2. f[0] = FirstFound
  BY <1>1
<1>3. ASSUME NEW i \in Nat, i + 1 <= n PROVE f[i + 1] = Finds(f[i], s[i + 1], i)
  <2>1. i + 1 \in 0 .. n /\ i + 1 # 0 /\ (i + 1) - 1 = i
    BY <1>3
  <2>2. f[i + 1] = Finds(f[(i + 1) - 1], s[i + 1], (i + 1) - 1)
    BY <1>1, <2>1
  <2> QED BY <2>1, <2>2
<1> QED BY <1>2, <1>3

LEMMA RankedStep ==
  ASSUME NEW X, NEW n \in Nat, NEW z, Ranked(X, n, z)
  PROVE  z[0] = <<127, 0, 0, 0>> /\ \A i \in Nat : i + 1 <= n => z[i + 1] = Ranks(z[i], X[i], i)
<1>1. z = [i \in 0 .. n |-> IF i = 0 THEN <<127, 0, 0, 0>> ELSE Ranks(z[i - 1], X[i - 1], i - 1)]
  BY DEF Ranked
<1>2. z[0] = <<127, 0, 0, 0>>
  BY <1>1
<1>3. ASSUME NEW i \in Nat, i + 1 <= n PROVE z[i + 1] = Ranks(z[i], X[i], i)
  <2>1. i + 1 \in 0 .. n /\ i + 1 # 0 /\ (i + 1) - 1 = i
    BY <1>3
  <2>2. z[i + 1] = Ranks(z[(i + 1) - 1], X[(i + 1) - 1], (i + 1) - 1)
    BY <1>1, <2>1
  <2> QED BY <2>1, <2>2
<1> QED BY <1>2, <1>3

LEMMA SearchedOnce ==
  ASSUME NEW s, NEW t, NEW n \in Nat, NEW m \in Nat, NEW f, NEW g,
         Searched(s, n, f), Searched(t, m, g), n <= m, SameWords(s, t, n)
  PROVE  \A i \in 0 .. n : f[i] = g[i]
<1> DEFINE T == {i \in Nat : i <= n => f[i] = g[i]}
<1>1. 0 \in T
  <2>1. f[0] = FirstFound
    BY SearchedStep
  <2>2. g[0] = FirstFound
    BY SearchedStep
  <2> QED BY <2>1, <2>2
<1>2. ASSUME NEW i \in Nat, i \in T PROVE i + 1 \in T
  <2> SUFFICES ASSUME i + 1 <= n PROVE f[i + 1] = g[i + 1]
    OBVIOUS
  <2>1. f[i] = g[i] /\ s[i + 1] = t[i + 1] /\ i + 1 <= m
    BY <1>2 DEF SameWords
  <2>2. f[i + 1] = Finds(f[i], s[i + 1], i)
    BY SearchedStep
  <2>3. g[i + 1] = Finds(g[i], t[i + 1], i)
    BY <2>1, SearchedStep
  <2> QED BY <2>1, <2>2, <2>3
<1>3. \A i \in Nat : i \in T
  <2> HIDE DEF T
  <2> QED BY <1>1, <1>2, Induction
<1> QED BY <1>3

LEMMA SearchedExists == ASSUME NEW s PROVE \A n \in Nat : \E f : Searched(s, n, f)
<1> DEFINE T == {n \in Nat : \E f : Searched(s, n, f)}
<1>1. 0 \in T
  <2> DEFINE f == [i \in 0 .. 0 |-> FirstFound]
  <2>1. Searched(s, 0, f)
    BY DEF Searched
  <2> QED BY <2>1
<1>2. ASSUME NEW n \in Nat, n \in T PROVE n + 1 \in T
  <2>1. PICK f : Searched(s, n, f)
    BY <1>2
  <2> DEFINE g == [i \in 0 .. n + 1 |-> IF i <= n THEN f[i] ELSE Finds(f[n], s[n + 1], n)]
             r == [i \in 0 .. n + 1 |-> IF i = 0 THEN FirstFound ELSE Finds(g[i - 1], s[i], i - 1)]
  <2>2. ASSUME NEW i \in 0 .. n + 1 PROVE g[i] = r[i]
    <3>1. CASE i = 0
      <4>1. f[0] = FirstFound
        BY <2>1, SearchedStep
      <4> QED BY <3>1, <4>1
    <3>2. CASE i # 0 /\ i <= n
      <4>1. i - 1 \in Nat /\ (i - 1) + 1 = i /\ i - 1 \in 0 .. n + 1 /\ i - 1 <= n
        BY <3>2
      <4>2. f[(i - 1) + 1] = Finds(f[i - 1], s[(i - 1) + 1], i - 1)
        BY <2>1, <3>2, <4>1, SearchedStep
      <4>3. g[i] = f[i] /\ g[i - 1] = f[i - 1]
        BY <3>2, <4>1
      <4>4. r[i] = Finds(g[i - 1], s[i], i - 1)
        BY <3>2
      <4> QED BY <4>1, <4>2, <4>3, <4>4
    <3>3. CASE i = n + 1
      <4>1. g[i] = Finds(f[n], s[n + 1], n) /\ g[n] = f[n] /\ i - 1 = n
        BY <3>3
      <4>2. r[i] = Finds(g[i - 1], s[i], i - 1)
        BY <3>3
      <4> HIDE DEF g, r
      <4> QED BY <3>3, <4>1, <4>2
    <3> QED BY <3>1, <3>2, <3>3
  <2>3. g = r
    <3>1. g = [i \in 0 .. n + 1 |-> g[i]] /\ r = [i \in 0 .. n + 1 |-> r[i]]
      OBVIOUS
    <3> HIDE DEF g, r
    <3> QED BY <2>2, <3>1
  <2>4. Searched(s, n + 1, g)
    BY <2>3 DEF Searched
  <2> QED BY <2>4
<1>3. \A n \in Nat : n \in T
  <2> HIDE DEF T
  <2> QED BY <1>1, <1>2, Induction
<1> QED BY <1>3

LEMMA RankedExists == ASSUME NEW X PROVE \A n \in Nat : \E z : Ranked(X, n, z)
<1> DEFINE T == {n \in Nat : \E z : Ranked(X, n, z)}
           none == <<127, 0, 0, 0>>
<1>1. 0 \in T
  <2> DEFINE z == [i \in 0 .. 0 |-> none]
  <2>1. Ranked(X, 0, z)
    BY DEF Ranked
  <2> QED BY <2>1
<1>2. ASSUME NEW n \in Nat, n \in T PROVE n + 1 \in T
  <2>1. PICK z : Ranked(X, n, z)
    BY <1>2
  <2>2. z[0] = none /\ \A i \in Nat : i + 1 <= n => z[i + 1] = Ranks(z[i], X[i], i)
    BY <2>1, RankedStep
  <2> HIDE DEF none
  <2> DEFINE y == [i \in 0 .. n + 1 |-> IF i <= n THEN z[i] ELSE Ranks(z[n], X[n], n)]
             r == [i \in 0 .. n + 1 |-> IF i = 0 THEN none ELSE Ranks(y[i - 1], X[i - 1], i - 1)]
  <2>3. ASSUME NEW i \in 0 .. n + 1 PROVE y[i] = r[i]
    <3>1. CASE i = 0
      BY <2>2, <3>1
    <3>2. CASE i # 0 /\ i <= n
      <4>1. i - 1 \in Nat /\ (i - 1) + 1 = i /\ i - 1 \in 0 .. n + 1 /\ i - 1 <= n
        BY <3>2
      <4>2. z[(i - 1) + 1] = Ranks(z[i - 1], X[i - 1], i - 1)
        BY <2>2, <3>2, <4>1
      <4>3. y[i] = z[i] /\ y[i - 1] = z[i - 1]
        BY <3>2, <4>1
      <4>4. r[i] = Ranks(y[i - 1], X[i - 1], i - 1)
        BY <3>2
      <4> HIDE DEF y, r
      <4> QED BY <4>1, <4>2, <4>3, <4>4
    <3>3. CASE i = n + 1
      <4>1. y[i] = Ranks(z[n], X[n], n) /\ y[n] = z[n] /\ i - 1 = n
        BY <3>3
      <4>2. r[i] = Ranks(y[i - 1], X[i - 1], i - 1)
        BY <3>3
      <4> HIDE DEF y, r
      <4> QED BY <3>3, <4>1, <4>2
    <3> QED BY <3>1, <3>2, <3>3
  <2>4. y = r
    <3>1. y = [i \in 0 .. n + 1 |-> y[i]] /\ r = [i \in 0 .. n + 1 |-> r[i]]
      OBVIOUS
    <3> HIDE DEF y, r
    <3> QED BY <2>3, <3>1
  <2>5. Ranked(X, n + 1, y)
    BY <2>4 DEF Ranked, none
  <2> QED BY <2>5
<1>3. \A n \in Nat : n \in T
  <2> HIDE DEF T
  <2> QED BY <1>1, <1>2, Induction
<1> QED BY <1>3

\* The stream s has the n words of the array X.
IsReadAs(X, s, n) ==
    DOMAIN X = 0 .. n - 1 /\ Len(s) = n /\ \A i \in 0 .. n - 1 : s[i + 1] = X[i]

\* The kernel begins with 50 where gendata.py begins with 127 and 0: they agree on
\* what is below.
FourOf(z) == z = <<z[1], z[2], z[3], z[4]>> /\ z[1] \in Int /\ z[3] \in Int
Agree(z, f) ==
    \/ z[1] >= 50 /\ f = FirstFound
    \/ /\ z[1] < 50 /\ f.min = z[1] /\ f.at = z[2]
       /\ f = [min |-> f.min, at |-> f.at, next |-> f.next, next_at |-> f.next_at]
       /\ f.next = IF z[3] < 50 THEN z[3] ELSE 50
       /\ z[3] < 50 => f.next_at = z[4]

LEMMA AgreeBelow ==
  ASSUME NEW a \in Int, NEW b, NEW c \in Int, NEW d, NEW e, NEW g,
         a < 50, e = IF c < 50 THEN c ELSE 50, c < 50 => g = d
  PROVE  Agree(<<a, b, c, d>>, [min |-> a, at |-> b, next |-> e, next_at |-> g])
<1>1. PICK z, f : z = <<a, b, c, d>> /\ f = [min |-> a, at |-> b, next |-> e, next_at |-> g]
  OBVIOUS
<1>2. z[1] = a /\ z[2] = b /\ z[3] = c /\ z[4] = d
  BY <1>1
<1>3. f.min = a /\ f.at = b /\ f.next = e /\ f.next_at = g
  BY <1>1
<1>4. f = [min |-> f.min, at |-> f.at, next |-> f.next, next_at |-> f.next_at]
  BY <1>1, <1>3
<1>5. Agree(z, f)
  BY <1>2, <1>3, <1>4 DEF Agree
<1> QED BY <1>1, <1>5

LEMMA AgreeStep ==
  ASSUME NEW z, NEW f, FourOf(z), Agree(z, f), NEW x \in Int, NEW at
  PROVE  FourOf(Ranks(z, x, at)) /\ Agree(Ranks(z, x, at), Finds(f, x, at))
<1>1. PICK a \in Int, c \in Int : a = z[1] /\ c = z[3]
  BY DEF FourOf
<1>2. PICK b, d : b = z[2] /\ d = z[4]
  OBVIOUS
<1>3. z = <<a, b, c, d>>
  BY <1>1, <1>2 DEF FourOf
<1>4. PICK y : y = Ranks(z, x, at)
  OBVIOUS
<1>5. y = IF x < a THEN <<x, at, a, b>> ELSE IF x < c THEN <<a, b, x, at>> ELSE z
  BY <1>1, <1>2, <1>4 DEF Ranks
<1>6. FourOf(y)
  BY <1>3, <1>5 DEF FourOf
<1>7. PICK g : g = Finds(f, x, at)
  OBVIOUS
<1> SUFFICES Agree(y, g)
  BY <1>4, <1>6, <1>7
<1>8. CASE a >= 50 /\ f = FirstFound
  <2>1. f = [min |-> 50, at |-> 80, next |-> 50, next_at |-> 800]
    BY <1>8 DEF FirstFound
  <2>2. CASE x < 50
    <3>1. PICK i, j : i = 50 /\ j = 80
      OBVIOUS
    <3>2. g = [min |-> x, at |-> at, next |-> i, next_at |-> j]
      BY <1>7, <2>1, <2>2, <3>1 DEF Finds
    <3>3. y = <<x, at, a, b>> /\ i = (IF a < 50 THEN a ELSE 50) /\ (a < 50 => j = b)
      BY <1>5, <1>8, <2>2, <3>1
    <3> QED BY <2>2, <3>2, <3>3, AgreeBelow
  <2>3. CASE x >= 50
    <3>1. g = f
      BY <1>7, <2>1, <2>3 DEF Finds
    <3>2. y[1] >= 50
      BY <1>1, <1>5, <1>8, <2>3
    <3> QED BY <1>8, <3>1, <3>2 DEF Agree
  <2> QED BY <2>2, <2>3
<1>9. CASE a < 50
  <2>1. PICK e \in Int : e = (IF c < 50 THEN c ELSE 50)
    OBVIOUS
  <2>2. PICK h : h = f.next_at
    OBVIOUS
  <2>3. f = [min |-> a, at |-> b, next |-> e, next_at |-> h] /\ (c < 50 => h = d)
    BY <1>1, <1>2, <1>9, <2>1, <2>2 DEF Agree
  <2>4. g = IF x < a THEN [min |-> x, at |-> at, next |-> a, next_at |-> b]
            ELSE IF x < e THEN [f EXCEPT !.next = x, !.next_at = at] ELSE f
    BY <1>7, <2>3 DEF Finds
  <2>5. CASE x < a
    <3>1. g = [min |-> x, at |-> at, next |-> a, next_at |-> b] /\ y = <<x, at, a, b>>
      BY <1>5, <2>4, <2>5
    <3>2. x < 50 /\ a = (IF a < 50 THEN a ELSE 50)
      BY <1>9, <2>5
    <3> QED BY <3>1, <3>2, AgreeBelow
  <2>6. CASE x >= a /\ x < e
    <3>1. [f EXCEPT !.next = x, !.next_at = at] = [min |-> a, at |-> b, next |-> x, next_at |-> at]
      <4>1. PICK r : r = [f EXCEPT !.next = x]
        OBVIOUS
      <4>2. r = [min |-> a, at |-> b, next |-> x, next_at |-> h]
        BY <2>3, <4>1
      <4>3. [r EXCEPT !.next_at = at] = [min |-> a, at |-> b, next |-> x, next_at |-> at]
        BY <4>2
      <4> QED BY <4>1, <4>3
    <3>2. g = [min |-> a, at |-> b, next |-> x, next_at |-> at]
      BY <2>4, <2>6, <3>1
    <3>3. y = <<a, b, x, at>> /\ x = (IF x < 50 THEN x ELSE 50)
      BY <1>5, <2>1, <2>6
    <3> QED BY <1>9, <3>2, <3>3, AgreeBelow
  <2>7. CASE x >= a /\ x >= e
    <3>1. g = f
      BY <2>4, <2>7
    <3>2. CASE x < c
      <4>1. y = <<a, b, x, at>> /\ e = (IF x < 50 THEN x ELSE 50) /\ (x < 50 => h = at)
        BY <1>5, <2>1, <2>7, <3>2
      <4> QED BY <1>9, <2>3, <3>1, <4>1, AgreeBelow
    <3>3. CASE ~(x < c)
      <4>1. y = z
        BY <1>5, <2>7, <3>3
      <4> QED BY <3>1, <4>1
    <3> QED BY <3>2, <3>3
  <2> QED BY <2>1, <2>5, <2>6, <2>7
<1>10. (a >= 50 /\ f = FirstFound) \/ a < 50
  BY <1>1 DEF Agree
<1> QED BY <1>8, <1>9, <1>10

\* The words of a stream are those of an array of numbers.
LEMMA SearchAgrees ==
  ASSUME NEW n \in Nat, NEW X, \A i \in 0 .. n - 1 : X[i] \in Int, NEW s, IsReadAs(X, s, n),
         NEW f, Searched(s, n, f), NEW z, Ranked(X, n, z)
  PROVE  \A i \in 0 .. n : FourOf(z[i]) /\ Agree(z[i], f[i])
<1> DEFINE T == {i \in Nat : i <= n => FourOf(z[i]) /\ Agree(z[i], f[i])}
<1>1. 0 \in T
  <2>1. f[0] = FirstFound
    BY SearchedStep
  <2>2. z[0] = <<127, 0, 0, 0>>
    BY RankedStep
  <2> QED BY <2>1, <2>2 DEF FourOf, Agree
<1>2. ASSUME NEW i \in Nat, i \in T PROVE i + 1 \in T
  <2> SUFFICES ASSUME i + 1 <= n PROVE FourOf(z[i + 1]) /\ Agree(z[i + 1], f[i + 1])
    OBVIOUS
  <2>1. FourOf(z[i]) /\ Agree(z[i], f[i])
    BY <1>2
  <2>2. f[i + 1] = Finds(f[i], s[i + 1], i)
    BY SearchedStep
  <2>3. z[i + 1] = Ranks(z[i], X[i], i)
    BY RankedStep
  <2>4. s[i + 1] = X[i] /\ X[i] \in Int
    BY DEF IsReadAs
  <2> QED BY <2>1, <2>2, <2>3, <2>4, AgreeStep
<1>3. \A i \in Nat : i \in T
  <2> HIDE DEF T
  <2> QED BY <1>1, <1>2, Induction
<1> QED BY <1>3

\* A word below 50 that is no more than b.
Low(v, b) == v < 50 /\ v <= b

LEMMA LowStep ==
  ASSUME NEW z, FourOf(z), NEW x \in Int, NEW at, NEW b \in Int, NEW y, y = Ranks(z, x, at)
  PROVE  /\ Low(x, b) \/ Low(z[1], b) => Low(y[1], b)
         /\ Low(z[1], b) /\ (Low(x, b) \/ Low(z[3], b)) => Low(y[3], b)
<1>1. PICK m \in Int, n \in Int : m = z[1] /\ n = z[3]
  BY DEF FourOf
<1>2. PICK k, l : k = z[2] /\ l = z[4]
  OBVIOUS
<1>3. y = IF x < m THEN <<x, at, m, k>> ELSE IF x < n THEN <<m, k, x, at>> ELSE z
  BY <1>1, <1>2 DEF Ranks
<1>4. /\ y[1] = (IF x < m THEN x ELSE m)
      /\ y[3] = (IF x < m THEN m ELSE IF x < n THEN x ELSE n)
  BY <1>1, <1>3
<1> QED BY <1>1, <1>4 DEF Low

\* Two low words are never forgotten for higher ones.
LEMMA LowKept ==
  ASSUME NEW n \in Nat, NEW X, \A k \in 0 .. n - 1 : X[k] \in Int, NEW z, Ranked(X, n, z),
         \A k \in 0 .. n : FourOf(z[k]), NEW b \in Int,
         NEW i \in 0 .. n - 1, NEW j \in 0 .. n - 1, i < j, Low(X[i], b), Low(X[j], b)
  PROVE  \A k \in 0 .. n : j < k => Low(z[k][1], b) /\ Low(z[k][3], b)
<1> DEFINE T == {k \in Nat : k <= n => /\ i < k => Low(z[k][1], b)
                                       /\ j < k => Low(z[k][3], b)}
<1>1. 0 \in T
  OBVIOUS
<1>2. ASSUME NEW k \in Nat, k \in T PROVE k + 1 \in T
  <2> SUFFICES ASSUME k + 1 <= n
               PROVE  /\ i < k + 1 => Low(z[k + 1][1], b)
                      /\ j < k + 1 => Low(z[k + 1][3], b)
    OBVIOUS
  <2>1. /\ i < k => Low(z[k][1], b)
        /\ j < k => Low(z[k][3], b)
    BY <1>2
  <2>2. z[k + 1] = Ranks(z[k], X[k], k) /\ FourOf(z[k]) /\ X[k] \in Int
    BY RankedStep
  <2>3. /\ Low(X[k], b) \/ Low(z[k][1], b) => Low(z[k + 1][1], b)
        /\ Low(z[k][1], b) /\ (Low(X[k], b) \/ Low(z[k][3], b)) => Low(z[k + 1][3], b)
    BY <2>2, LowStep
  <2>4. i < k + 1 => Low(X[k], b) \/ Low(z[k][1], b)
    BY <2>1
  <2>5. j < k + 1 => Low(z[k][1], b) /\ (Low(X[k], b) \/ Low(z[k][3], b))
    BY <2>1
  <2> QED BY <2>3, <2>4, <2>5
<1>3. \A k \in Nat : k \in T
  <2> HIDE DEF T
  <2> QED BY <1>1, <1>2, Induction
<1>4. ASSUME NEW k \in 0 .. n, j < k PROVE Low(z[k][1], b) /\ Low(z[k][3], b)
  BY <1>3, <1>4
<1> QED BY <1>4

AllNumbers(X, n) == \A k \in 0 .. n - 1 : X[k] \in Int

\* The last of n words changes nothing when two others are lower: the kernel may
\* leave it out.
LEMMA LastUnused ==
  ASSUME NEW n \in Nat, NEW X, AllNumbers(X, n), NEW s, IsReadAs(X, s, n),
         NEW f, Searched(s, n, f), NEW z, Ranked(X, n, z),
         NEW i \in 0 .. n - 2, NEW j \in 0 .. n - 2, i < j,
         Low(X[i], X[n - 1]), Low(X[j], X[n - 1])
  PROVE  /\ z[n] = <<f[n - 1].min, f[n - 1].at, f[n - 1].next, f[n - 1].next_at>>
         /\ n - 1 \in Nat
<1>1. PICK m \in Nat : n = m + 1 /\ m = n - 1
  OBVIOUS
<1>2. \A k \in 0 .. n : FourOf(z[k]) /\ Agree(z[k], f[k])
  BY SearchAgrees DEF AllNumbers
<1>3. PICK b \in Int : b = X[m]
  BY <1>1 DEF AllNumbers
<1>4. Low(z[m][1], b) /\ Low(z[m][3], b)
  <2>1. i \in 0 .. n - 1 /\ j \in 0 .. n - 1 /\ m \in 0 .. n /\ j < m
    BY <1>1
  <2>2. Low(X[i], b) /\ Low(X[j], b)
    BY <1>1, <1>3
  <2> QED BY <1>2, <2>1, <2>2, LowKept DEF AllNumbers
<1>5. FourOf(z[m]) /\ Agree(z[m], f[m])
  BY <1>1, <1>2
<1>6. z[n] = Ranks(z[m], b, m)
  BY <1>1, <1>3, RankedStep
<1>7. PICK u, g : u = z[m] /\ g = f[m]
  OBVIOUS
<1>8. PICK v1 \in Int, v3 \in Int : v1 = u[1] /\ v3 = u[3]
  BY <1>5, <1>7 DEF FourOf
<1>9. v1 < 50 /\ v1 <= b /\ v3 < 50 /\ v3 <= b
  BY <1>4, <1>7, <1>8 DEF Low
<1>10. Ranks(u, b, m) = u
  BY <1>8, <1>9 DEF Ranks
<1>11. u = <<g.min, g.at, g.next, g.next_at>>
  BY <1>5, <1>7, <1>8, <1>9 DEF FourOf, Agree
<1> QED BY <1>1, <1>6, <1>7, <1>10, <1>11

-----------------------------------------------------------------------------
(* The words that the kernels make                                         *)

Clip(x) == IF x > 0 THEN x ELSE 0

\* A stream is as long as its shortest source.
LEMMA PairedFrom ==
  ASSUME NEW s, Lengths(s), NEW C,
         C = Columns \/ C = {0, 1, 2} \/ C = {0, 1, 3} \/ C = {0, 2, 3}
  PROVE  \E c \in C : Paired(C, s) = Len(s[c])
<1>1. Columns = {0, 1, 2, 3}
  BY DEF Columns
<1>2. CASE C = {0, 1, 2} \/ C = {0, 1, 3} \/ C = {0, 2, 3}
  <2>1. PICK p \in Columns, q \in Columns : C = {0, p, q}
    BY <1>1, <1>2
  <2>2. PICK e \in Nat, f \in Nat, g \in Nat : e = Len(s[0]) /\ f = Len(s[p]) /\ g = Len(s[q])
    BY <1>1 DEF Lengths
  <2>3. {Len(s[d]) : d \in C} = {e, f, g}
    BY <2>1, <2>2
  <2>4. PICK m : m = Paired(C, s) /\ m \in {e, f, g}
    BY <2>3, LeastOfThree DEF Paired
  <2> QED BY <2>1, <2>2, <2>4
<1>3. CASE C = Columns
  <2>1. PICK e \in Nat, f \in Nat, g \in Nat, h \in Nat :
           e = Len(s[0]) /\ f = Len(s[1]) /\ g = Len(s[2]) /\ h = Len(s[3])
    BY <1>1 DEF Lengths
  <2>2. {Len(s[d]) : d \in C} = {e, f, g, h}
    BY <1>1, <1>3, <2>1
  <2>3. PICK m : m = Paired(C, s) /\ m \in {e, f, g, h}
    BY <2>2, LeastOfFour DEF Paired
  <2> QED BY <1>1, <1>3, <2>1, <2>3
<1> QED BY <1>2, <1>3

\* Streams that grew have not become shorter.
LEMMA PairedGrows ==
  ASSUME NEW s, NEW t, Lengths(s), Lengths(t), \A c \in Columns : Len(s[c]) <= Len(t[c]), NEW C,
         C = Columns \/ C = {0, 1, 2} \/ C = {0, 1, 3} \/ C = {0, 2, 3}
  PROVE  Paired(C, s) <= Paired(C, t)
<1>1. C \subseteq Columns
  <2>1. Columns = {0, 1, 2, 3}
    BY DEF Columns
  <2> QED BY <2>1
<1>2. PICK c \in C : Paired(C, t) = Len(t[c])
  BY PairedFrom
<1>3. PICK n \in Nat, m \in Nat, k \in Nat : n = Paired(C, s) /\ m = Len(s[c]) /\ k = Len(t[c])
  BY <1>1, PairedBound DEF Lengths
<1>4. n <= m
  BY <1>3, PairedBound
<1> QED BY <1>1, <1>2, <1>3, <1>4

LEMMA ReluWords ==
  ASSUME NEW s, AreStreams(s), NEW w
  PROVE  LET y == Outputs("relu", w, s)
         IN  /\ \A i \in 1 .. Len(s[0]) : y[0][i] = Clip(s[0][i])
             /\ \A i \in 1 .. Len(s[1]) : y[2][i] = Clip(s[1][i])
             /\ \A i \in 1 .. Len(s[3]) : y[3][i] = Clip(s[3][i])
<1>1. \A c \in Columns : DOMAIN s[c] = 1 .. Len(s[c])
  BY StreamLength DEF AreStreams
<1>2. 0 \in Columns /\ 1 \in Columns /\ 3 \in Columns
  BY DEF Columns
<1>3. Outputs("relu", w, s) = Relu(s)
  BY DEF Outputs
<1> QED BY <1>1, <1>2, <1>3, ColumnPlaces DEF Relu, Positive, Clip

LEMMA FftWords ==
  ASSUME NEW s, AreStreams(s), NEW w
  PROVE  LET y     == Outputs("fft", w, s)
             re(i) == 7 * s[0][i] + 3 * s[3][i]
             im(i) == 7 * s[3][i] - 3 * s[0][i]
         IN  /\ \A i \in 1 .. Paired({0, 1, 3}, s) :
                  y[0][i] = s[1][i] - re(i) /\ y[1][i] = s[1][i] + re(i)
             /\ \A i \in 1 .. Paired({0, 2, 3}, s) :
                  y[2][i] = s[2][i] - im(i) /\ y[3][i] = s[2][i] + im(i)
<1> DEFINE m == Paired({0, 1, 3}, s)
           n == Paired({0, 2, 3}, s)
           re(i) == 7 * s[0][i] + 3 * s[3][i]
           im(i) == 7 * s[3][i] - 3 * s[0][i]
<1>1. Outputs("fft", w, s) = Fft(s)
  BY DEF Outputs
<1>2. Fft(s) = ByColumn([i \in 1 .. m |-> s[1][i] - re(i)], [i \in 1 .. m |-> s[1][i] + re(i)],
                        [i \in 1 .. n |-> s[2][i] - im(i)], [i \in 1 .. n |-> s[2][i] + im(i)])
  BY DEF Fft
<1> HIDE DEF m, n, re, im
<1>3. PICK f, g, h, k :
        /\ f = [i \in 1 .. m |-> s[1][i] - re(i)] /\ g = [i \in 1 .. m |-> s[1][i] + re(i)]
        /\ h = [i \in 1 .. n |-> s[2][i] - im(i)] /\ k = [i \in 1 .. n |-> s[2][i] + im(i)]
  OBVIOUS
<1>4. /\ \A i \in 1 .. m : f[i] = s[1][i] - re(i) /\ g[i] = s[1][i] + re(i)
      /\ \A i \in 1 .. n : h[i] = s[2][i] - im(i) /\ k[i] = s[2][i] + im(i)
  BY <1>3
<1>5. Fft(s) = ByColumn(f, g, h, k)
  BY <1>2, <1>3, Zenon
<1>6. Fft(s)[0] = f /\ Fft(s)[1] = g /\ Fft(s)[2] = h /\ Fft(s)[3] = k
  BY <1>5, ColumnPlaces
<1> QED BY <1>1, <1>4, <1>6 DEF m, n, re, im

LEMMA RowWords ==
  ASSUME NEW s, AreStreams(s), NEW w
  PROVE  /\ \A i \in 1 .. Paired({0, 1, 2}, s) : Outputs("conv2d_1", w, s)[2][i] = -s[1][i]
         /\ \A i \in 1 .. Paired(Columns, s) :
              Outputs("conv2d_2", w, s)[3][i] =
                s[3][i] + w[3] * s[0][i] + w[23] * s[1][i] + w[43] * s[2][i]
<1> DEFINE m == Paired({0, 1, 2}, s)
           n == Paired(Columns, s)
           sum(i) == s[3][i] + w[3] * s[0][i] + w[23] * s[1][i] + w[43] * s[2][i]
<1>1. Outputs("conv2d_1", w, s) = Conv2d1(s) /\ Outputs("conv2d_2", w, s) = Conv2d2(w, s)
  BY DEF Outputs
<1>2. /\ Conv2d1(s) = ByColumn(<<>>, <<>>, [i \in 1 .. m |-> -s[1][i]], <<>>)
      /\ Conv2d2(w, s) = ByColumn(<<>>, <<>>, <<>>, [i \in 1 .. n |-> sum(i)])
  BY DEF Conv2d1, Conv2d2
<1> HIDE DEF m, n, sum
<1>3. \A i \in 1 .. m : Conv2d1(s)[2][i] = -s[1][i]
  <2>1. PICK f : f = [i \in 1 .. m |-> -s[1][i]] /\ Conv2d1(s) = ByColumn(<<>>, <<>>, f, <<>>)
    BY <1>2, Zenon
  <2>2. Conv2d1(s)[2] = f /\ \A i \in 1 .. m : f[i] = -s[1][i]
    BY <2>1, ColumnPlaces
  <2> QED BY <2>2
<1>4. \A i \in 1 .. n : Conv2d2(w, s)[3][i] = sum(i)
  <2>1. PICK f : f = [i \in 1 .. n |-> sum(i)] /\ Conv2d2(w, s) = ByColumn(<<>>, <<>>, <<>>, f)
    BY <1>2, Zenon
  <2>2. Conv2d2(w, s)[3] = f /\ \A i \in 1 .. n : f[i] = sum(i)
    BY <2>1, ColumnPlaces
  <2> QED BY <2>2
<1> QED BY <1>1, <1>3, <1>4 DEF m, n, sum

LEMMA DitherWords ==
  ASSUME NEW s, AreStreams(s), NEW w
  PROVE  \A i \in 1 .. Len(s[0]) :
           Outputs("dither", w, s)[0][i] = IF s[0][i] + Carry(s[0])[i - 1] > 127 THEN 255 ELSE 0
<1>1. DOMAIN s[0] = 1 .. Len(s[0])
  BY StreamLength DEF AreStreams, Columns
<1>2. Outputs("dither", w, s) = Dither(s)
  BY DEF Outputs
<1> QED BY <1>1, <1>2, ColumnPlaces DEF Dither

LEMMA PairedTwo ==
  ASSUME NEW s, Lengths(s)
  PROVE  Paired({0, 2}, s) = IF Len(s[0]) <= Len(s[2]) THEN Len(s[0]) ELSE Len(s[2])
<1>1. PICK a \in Nat, b \in Nat : a = Len(s[0]) /\ b = Len(s[2])
  BY DEF Lengths, Columns
<1>2. {Len(s[d]) : d \in {0, 2}} = {a, b, b}
  BY <1>1
<1>3. PICK m : m = Min({a, b, b}) /\ m \in {a, b, b} /\ \A x \in {a, b, b} : m <= x
  BY LeastOfThree
<1>4. Paired({0, 2}, s) = m
  BY <1>2, <1>3 DEF Paired
<1> QED BY <1>1, <1>3, <1>4

\* A result is made once the kernel has seen all words but one of its delay.
Due(f, n, delay, field) == IF n >= delay - 1 THEN <<f[delay - 1][field]>> ELSE <<>>
SearchResults(f, n, w) ==
    ByColumn(Due(f, n, w[24], "min"), Due(f, n, w[39], "at"), Due(f, n, w[54], "next_at"),
             Due(f, n, w[69], "next"))

LEMMA SearchWords ==
  ASSUME NEW s, Paired({0, 2}, s) \in Nat, NEW w
  PROVE  LET n == Paired({0, 2}, s)
         IN  \E f : Searched(s[0], n, f) /\ Outputs("minsearch", w, s) = SearchResults(f, n, w)
<1> DEFINE n == Paired({0, 2}, s)
           G(g) == g = [i \in 0 .. n |->
                          IF i = 0 THEN [min |-> 50, at |-> 80, next |-> 50, next_at |-> 800]
                          ELSE LET f == g[i - 1]
                                   x == s[0][i]
                               IN  CASE x < f.min -> [min |-> x, at |-> i - 1,
                                                      next |-> f.min, next_at |-> f.at]
                                     [] x >= f.min /\ x < f.next ->
                                          [f EXCEPT !.next = x, !.next_at = i - 1]
                                     [] OTHER -> f]
           found == CHOOSE g : G(g)
<1>1. ASSUME NEW g PROVE G(g) <=> Searched(s[0], n, g)
  BY DEF Searched, Finds, FirstFound
<1>2. G(found)
  <2>1. \E g : G(g)
    <3> HIDE DEF G
    <3>1. \E g : Searched(s[0], n, g)
      BY SearchedExists
    <3> QED BY <1>1, <3>1
  <2> HIDE DEF G
  <2> QED BY <2>1
<1>3. Outputs("minsearch", w, s) = MinSearch(w, s)
  BY DEF Outputs
<1>4. MinSearch(w, s) = SearchResults(found, n, w)
  BY DEF MinSearch, SearchResults, Due
<1>5. Searched(s[0], n, found)
  BY <1>1, <1>2
<1> HIDE DEF found, G
<1> QED BY <1>3, <1>4, <1>5

LEMMA SearchLengths ==
  ASSUME NEW s, AreStreams(s), NEW w
  PROVE  Lengths(Outputs("minsearch", w, s))
<1>1. Lengths(s) /\ 0 \in Columns /\ 2 \in Columns
  BY Yields DEF Columns
<1>2. PICK n \in Nat : n = Paired({0, 2}, s)
  BY <1>1, PairedTwo DEF Lengths
<1>3. PICK f : Outputs("minsearch", w, s) = SearchResults(f, n, w)
  BY <1>2, SearchWords
<1>4. ASSUME NEW delay, NEW field PROVE Len(Due(f, n, delay, field)) \in Nat
  <2>1. \A v : Len(<<v>>) = 1 /\ Len(<<>>) = 0
    OBVIOUS
  <2> QED BY <2>1 DEF Due
<1>5. \A c \in Columns : c = 0 \/ c = 1 \/ c = 2 \/ c = 3
  BY DEF Columns
<1> QED BY <1>3, <1>4, <1>5, ColumnPlaces DEF SearchResults, Lengths

\* t begins with the streams s.
Begins(s, t) ==
    \A c \in Columns : Len(s[c]) <= Len(t[c]) /\ \A i \in 1 .. Len(s[c]) : s[c][i] = t[c][i]

\* A table of minsearch: a delay counts at least the token the PE starts with.
Delayed(w) == DelayWords \subseteq DOMAIN w /\ \A i \in DelayWords : w[i] \in Nat \ {0}

LEMMA SearchGrows ==
  ASSUME NEW w, Delayed(w), NEW s, NEW t, AreStreams(s), AreStreams(t), Begins(s, t),
         NEW c \in Columns, NEW i \in 1 .. Len(Outputs("minsearch", w, s)[c])
  PROVE  Outputs("minsearch", w, s)[c][i] = Outputs("minsearch", w, t)[c][i]
<1>1. Lengths(s) /\ Lengths(t) /\ 0 \in Columns /\ 2 \in Columns
  BY Yields DEF Columns
<1>2. PICK n \in Nat, m \in Nat, l \in Nat :
         n = Paired({0, 2}, s) /\ m = Paired({0, 2}, t) /\ l = Len(s[0]) /\ n <= m /\ n <= l
  <2>1. PICK a \in Nat, b \in Nat, d \in Nat, e \in Nat :
           a = Len(s[0]) /\ b = Len(s[2]) /\ d = Len(t[0]) /\ e = Len(t[2])
    BY <1>1 DEF Lengths
  <2>2. a <= d /\ b <= e
    BY <1>1, <2>1 DEF Begins
  <2>3. /\ Paired({0, 2}, s) = IF a <= b THEN a ELSE b
        /\ Paired({0, 2}, t) = IF d <= e THEN d ELSE e
    BY <1>1, <2>1, PairedTwo
  <2> QED BY <2>1, <2>2, <2>3
<1>3. PICK f : Searched(s[0], n, f) /\ Outputs("minsearch", w, s) = SearchResults(f, n, w)
  BY <1>2, SearchWords
<1>4. PICK g : Searched(t[0], m, g) /\ Outputs("minsearch", w, t) = SearchResults(g, m, w)
  BY <1>2, SearchWords
<1>5. SameWords(s[0], t[0], n)
  BY <1>1, <1>2 DEF SameWords, Begins
<1>6. \A j \in 0 .. n : f[j] = g[j]
  BY <1>2, <1>3, <1>4, <1>5, SearchedOnce
<1>7. w[24] \in Nat \ {0} /\ w[39] \in Nat \ {0} /\ w[54] \in Nat \ {0} /\ w[69] \in Nat \ {0}
  BY DEF Delayed, DelayWords
<1> DEFINE Is(q, field) == /\ Outputs("minsearch", w, s)[c] = Due(f, n, w[q], field)
                           /\ Outputs("minsearch", w, t)[c] = Due(g, m, w[q], field)
<1>8. PICK q, field : q \in DelayWords /\ Is(q, field)
  <2>1. c = 0 \/ c = 1 \/ c = 2 \/ c = 3
    BY DEF Columns
  <2>2. /\ c = 0 => Is(24, "min")
        /\ c = 1 => Is(39, "at")
        /\ c = 2 => Is(54, "next_at")
        /\ c = 3 => Is(69, "next")
    BY <1>3, <1>4, ColumnPlaces DEF SearchResults
  <2>3. 24 \in DelayWords /\ 39 \in DelayWords /\ 54 \in DelayWords /\ 69 \in DelayWords
    BY DEF DelayWords
  <2> HIDE DEF Is
  <2> QED BY <2>1, <2>2, <2>3
<1>9. PICK d \in Nat, j \in Nat : d = w[q] /\ j = d - 1
  BY <1>8 DEF Delayed
<1>10. n >= j
  <2>1. Len(<<>>) = 0 /\ 1 .. 0 = {}
    OBVIOUS
  <2>2. n >= j \/ Due(f, n, d, field) = <<>>
    BY <1>9 DEF Due
  <2> QED BY <1>8, <1>9, <2>1, <2>2
<1>11. Due(f, n, d, field) = <<f[j][field]>> /\ Due(g, m, d, field) = <<g[j][field]>>
  BY <1>2, <1>9, <1>10 DEF Due
<1>12. f[j] = g[j]
  BY <1>2, <1>6, <1>9, <1>10
<1> QED BY <1>8, <1>9, <1>11, <1>12

\* What a kernel has made of the first words stays.
Timed(k, w) == k = "minsearch" => Delayed(w)

LEMMA OutputsGrow ==
  ASSUME NEW k \in KernelNames, NEW w, Timed(k, w),
         NEW s, NEW t, AreStreams(s), AreStreams(t), Begins(s, t),
         NEW c \in Columns, NEW i \in 1 .. Len(Outputs(k, w, s)[c])
  PROVE  Outputs(k, w, s)[c][i] = Outputs(k, w, t)[c][i]
<1>1. Lengths(s) /\ Lengths(t)
  BY Yields
<1>2. c = 0 \/ c = 1 \/ c = 2 \/ c = 3
  BY DEF Columns
<1>3. 0 \in Columns /\ 1 \in Columns /\ 2 \in Columns /\ 3 \in Columns
  BY DEF Columns
<1>4. ASSUME NEW C, C = Columns \/ C = {0, 1, 2} \/ C = {0, 1, 3} \/ C = {0, 2, 3},
             i \in 1 .. Paired(C, s)
      PROVE  i \in 1 .. Paired(C, t) /\ \A d \in C : s[d][i] = t[d][i]
  <2>1. PICK n \in Nat, m \in Nat : n = Paired(C, s) /\ m = Paired(C, t) /\ n <= m
    BY <1>1, <1>4, PairedBound, PairedGrows DEF Begins
  <2>2. i \in 1 .. m
    BY <1>4, <2>1
  <2>3. ASSUME NEW d \in C PROVE i \in 1 .. Len(s[d]) /\ d \in Columns
    <3>1. d \in Columns
      BY <1>4 DEF Columns
    <3>2. n <= Len(s[d]) /\ Len(s[d]) \in Nat
      BY <1>1, <1>4, <2>1, <3>1, PairedBound DEF Lengths
    <3> QED BY <1>4, <2>1, <3>1, <3>2
  <2> QED BY <2>1, <2>2, <2>3 DEF Begins
<1>5. ASSUME NEW d \in Columns, i \in 1 .. Len(s[d])
      PROVE  i \in 1 .. Len(t[d]) /\ s[d][i] = t[d][i]
  BY <1>1, <1>5 DEF Begins, Lengths
<1>6. CASE k = "bypass"
  <2>1. Outputs(k, w, s) = s /\ Outputs(k, w, t) = t
    BY <1>6, Yields
  <2> QED BY <1>5, <2>1
<1>7. CASE k = "relu"
  <2>1. 1 .. 0 = {}
    OBVIOUS
  <2>2. CASE c = 0
    BY <1>3, <1>5, <1>7, <2>2, Yields, ReluWords
  <2>3. CASE c = 2
    <3>1. i \in 1 .. Len(s[1])
      BY <1>7, <2>3, Yields
    <3>2. i \in 1 .. Len(t[1]) /\ s[1][i] = t[1][i]
      BY <1>3, <1>5, <3>1
    <3> QED BY <1>7, <2>3, <3>1, <3>2, ReluWords
  <2>4. CASE c = 3
    BY <1>3, <1>5, <1>7, <2>4, Yields, ReluWords
  <2>5. CASE c = 1
    BY <1>7, <2>1, <2>5, Yields
  <2> QED BY <1>2, <2>2, <2>3, <2>4, <2>5
<1>8. CASE k = "fft"
  <2>1. CASE c = 0 \/ c = 1
    <3>1. i \in 1 .. Paired({0, 1, 3}, s)
      BY <1>8, <2>1, Yields
    <3>2. i \in 1 .. Paired({0, 1, 3}, t) /\ \A d \in {0, 1, 3} : s[d][i] = t[d][i]
      BY <1>4, <3>1
    <3> QED BY <1>8, <2>1, <3>1, <3>2, FftWords
  <2>2. CASE c = 2 \/ c = 3
    <3>1. i \in 1 .. Paired({0, 2, 3}, s)
      BY <1>8, <2>2, Yields
    <3>2. i \in 1 .. Paired({0, 2, 3}, t) /\ \A d \in {0, 2, 3} : s[d][i] = t[d][i]
      BY <1>4, <3>1
    <3> QED BY <1>8, <2>2, <3>1, <3>2, FftWords
  <2> QED BY <1>2, <2>1, <2>2
<1>9. CASE k = "conv2d_1"
  <2>1. c = 2 /\ i \in 1 .. Paired({0, 1, 2}, s)
    BY <1>2, <1>9, Yields
  <2>2. i \in 1 .. Paired({0, 1, 2}, t) /\ \A d \in {0, 1, 2} : s[d][i] = t[d][i]
    BY <1>4, <2>1
  <2>3. /\ Outputs("conv2d_1", w, s)[2][i] = -s[1][i]
        /\ Outputs("conv2d_1", w, t)[2][i] = -t[1][i]
    BY <2>1, <2>2, RowWords
  <2> QED BY <1>9, <2>1, <2>2, <2>3
<1>10. CASE k = "conv2d_2"
  <2>1. c = 3 /\ i \in 1 .. Paired(Columns, s)
    BY <1>2, <1>10, Yields
  <2>2. i \in 1 .. Paired(Columns, t) /\ \A d \in Columns : s[d][i] = t[d][i]
    BY <1>4, <2>1
  <2> DEFINE sum(x) == x[3][i] + w[3] * x[0][i] + w[23] * x[1][i] + w[43] * x[2][i]
  <2>3. Outputs("conv2d_2", w, s)[3][i] = sum(s)
    BY <2>1, RowWords
  <2>4. Outputs("conv2d_2", w, t)[3][i] = sum(t)
    BY <2>2, RowWords
  <2>5. sum(s) = sum(t)
    BY <1>3, <2>2
  <2> QED BY <1>10, <2>1, <2>3, <2>4, <2>5
<1>11. CASE k = "dither"
  <2>1. c = 0 /\ i \in 1 .. Len(s[0])
    BY <1>2, <1>11, Yields
  <2>2. i \in 1 .. Len(t[0]) /\ s[0][i] = t[0][i]
    BY <1>3, <1>5, <2>1
  <2>3. Carry(s[0])[i - 1] = Carry(t[0])[i - 1]
    <3>1. PICK n \in Nat, m \in Nat : n = Len(s[0]) /\ m = Len(t[0])
      BY <1>1, <1>3 DEF Lengths
    <3>2. Carried(s[0], n, Carry(s[0])) /\ Carried(t[0], m, Carry(t[0]))
      BY <3>1, CarryOf
    <3>3. n <= m /\ \A j \in 1 .. n : s[0][j] = t[0][j]
      BY <1>3, <3>1 DEF Begins
    <3>4. PICK j \in 0 .. n : j = i - 1
      BY <2>1, <3>1
    <3>5. PICK x, y, g, h : x = s[0] /\ y = t[0] /\ g = Carry(x) /\ h = Carry(y)
      OBVIOUS
    <3>6. Carried(x, n, g) /\ Carried(y, m, h) /\ SameWords(x, y, n)
      BY <3>2, <3>3, <3>5 DEF SameWords
    <3>7. g[j] = h[j]
      BY <3>3, <3>4, <3>6, CarriedOnce
    <3> QED BY <3>4, <3>5, <3>7
  <2> QED BY <1>11, <2>1, <2>2, <2>3, DitherWords
<1>12. CASE k = "minsearch"
  BY <1>12, SearchGrows DEF Timed
<1> QED BY <1>6, <1>7, <1>8, <1>9, <1>10, <1>11, <1>12, Names

-----------------------------------------------------------------------------
(* What the applications leave in memory                                   *)

\* The words of the data sets are numbers.
WordsGiven ==
    /\ \A a \in {"conv2d", "relu", "dither", "minsearch"} : Given[a][1] \in Seq(Int)
    /\ Given["fft"][1] \in Seq(Int) /\ Given["fft"][2] \in Seq(Int)

\* Two words are less than the 50 the kernel begins with and not above the last
\* word, which it leaves out.
MinimaGiven ==
    LET X == Given["minsearch"][1]
        N == Len(X)
    IN  \E i, j \in 1 .. N - 1 : i # j /\ Low(X[i], X[N]) /\ Low(X[j], X[N])

\* Where main ends, the arrays hold what is expected of application a.
EndsWell(a, y) == \A x \in DOMAIN Expected[a] : y.runs.world.mem[x] = Expected[a][x]

LEMMA InputsAre ==
  ASSUME NEW p, NEW m, \A c \in Columns : p.imn[c].n \in Nat
  PROVE  /\ AreStreams(Inputs(p, m)) /\ Lengths(Inputs(p, m))
         /\ \A c \in Columns : Len(Inputs(p, m)[c]) = p.imn[c].n
<1>1. ASSUME NEW c \in Columns
      PROVE  /\ \E S : Inputs(p, m)[c] \in Seq(S)
             /\ Len(Inputs(p, m)[c]) = p.imn[c].n
  <2>0. PICK n \in Nat : n = p.imn[c].n
    OBVIOUS
  <2>1. PICK at, a : n = p.imn[c].n /\ at = p.imn[c].at /\ a = p.imn[c].array
    BY <2>0
  <2>2. Inputs(p, m)[c] = [i \in 1 .. n |-> m[a][at + i - 1]]
    BY <2>1 DEF Inputs, Taken
  <2>3. PICK S : \A i \in 1 .. n : m[a][at + i - 1] \in S
    <3>1. \A i \in 1 .. n : m[a][at + i - 1] \in {m[a][at + j - 1] : j \in 1 .. n}
      OBVIOUS
    <3> QED BY <3>1
  <2>4. Inputs(p, m)[c] \in Seq(S) /\ Len(Inputs(p, m)[c]) = n
    BY <2>2, <2>3
  <2> QED BY <2>1, <2>4
<1> QED BY <1>1 DEF AreStreams, Lengths

LEMMA LeftWord ==
  ASSUME NEW k, NEW p, NEW world, StoresApart(p), AllPlaced(p), NEW c \in Columns,
         NEW x \in DOMAIN world.mem, NEW at \in Nat, NEW n \in Nat, p.omn[c] = Stream(x, at, n),
         NEW j \in 0 .. n - 1, at + j \in DOMAIN world.mem[x]
  PROVE  Left(k, p, world)[x][at + j] = Yield(k, p, world)[c][j + 1]
<1>1. PICK i \in DOMAIN world.mem[x] : i = at + j
  OBVIOUS
<1>2. p.omn[c].array = x /\ p.omn[c].at = at /\ p.omn[c].n = n
  BY DEF Stream
<1> QED BY <1>1, <1>2, LeftAt

\* The applications that read one array and write another.
LEMMA InputWords ==
  ASSUME NEW a \in {"conv2d", "relu", "dither"}, WordsGiven
  PROVE  /\ Tabulated(Data[a]["input"]) /\ Tabulated(Data[a]["output"])
         /\ DATA_SIZE(a) \in Nat
         /\ \A i \in 0 .. DATA_SIZE(a) - 1 : /\ Data[a]["input"][i] = Given[a][1][i + 1]
                                              /\ Given[a][1][i + 1] \in Int
                                              /\ Data[a]["output"][i] = 0
<1>1. PICK n, s : n = DATA_SIZE(a) /\ s = Given[a][1] /\ s \in Seq(Int) /\ n = Len(s) /\ n \in Nat
  BY LenProperties DEF WordsGiven, DATA_SIZE
<1>2. Data[a] = InputAndZeros(a, n)
  BY <1>1, Arrays DEF Conv2dData, ReluData, DitherData
<1>3. Data[a]["input"] = Array(s) /\ Data[a]["output"] = Zeros(n)
  BY <1>1, <1>2 DEF InputAndZeros
<1>4. /\ Tabulated(Array(s)) /\ Tabulated(Zeros(n))
      /\ \A i \in 0 .. n - 1 : Array(s)[i] = s[i + 1] /\ Zeros(n)[i] = 0 /\ s[i + 1] \in Int
  BY <1>1 DEF Array, Zeros, Tabulated
<1> QED BY <1>1, <1>3, <1>4

LEMMA ReluLeft ==
  ASSUME DataGiven, WordsGiven
  PROVE  Ran("relu", ReluParams, Loaded("relu")).mem["output"] = ReluExpected["output"]
<1>1. PICK d \in Nat : d = DATA_SIZE("relu") /\ d >= 3
  BY DEF DataGiven
<1>2. PICK c \in Nat, l \in Nat : /\ ReluStreams(c, l) /\ 2 * c + l = d
                                  /\ c = d \div 3 /\ l = c + (d % 3)
  <2>1. PICK r \in 0 .. 2, c \in Nat : r = d % 3 /\ c = d \div 3 /\ d = 3 * c + r
    BY <1>1
  <2> QED BY <1>1, <2>1 DEF ReluStreams
<1>3. PICK p : p = ReluParams
  OBVIOUS
<1>4. /\ p.imn[0] = Stream("input", 0, c) /\ p.imn[1] = Stream("input", c, c)
      /\ p.imn[2] = NoStream /\ p.imn[3] = Stream("input", 2 * c, l)
      /\ p.omn[0] = Stream("output", 0, c) /\ p.omn[1] = NoStream
      /\ p.omn[2] = Stream("output", c, c) /\ p.omn[3] = Stream("output", 2 * c, l)
  <2>1. p = Params("relu",
               ByColumn(Stream("input", 0, c), Stream("input", c, c), NoStream,
                        Stream("input", 2 * c, l)),
               ByColumn(Stream("output", 0, c), NoStream, Stream("output", c, c),
                        Stream("output", 2 * c, l)))
    BY <1>1, <1>2, <1>3 DEF ReluParams
  <2> QED BY <2>1, ColumnPlaces DEF Params
<1>5. AllPlaced(p) /\ \A e \in Columns : p.imn[e].n \in Nat
  BY <1>4, ColumnPlaces DEF AllPlaced, Placed, Stream, NoStream
<1>6. StoresApart(p)
  <2>1. MayRun("relu", "relu", p)
    BY <1>3, ReluMayRun
  <2> QED BY <2>1 DEF MayRun
<1>7. PICK world : world = Loaded("relu") /\ world.mem = Data["relu"]
  <2>1. Loaded("relu").mem = Data["relu"]
    BY DEF Loaded, World
  <2> QED BY <2>1
<1>8. PICK s, y, m : /\ s = Inputs(p, world.mem) /\ y = Yield("relu", p, world)
                     /\ m = Left("relu", p, world)
  OBVIOUS
<1>9. Ran("relu", ReluParams, Loaded("relu")).mem = m
  BY <1>3, <1>7, <1>8 DEF Ran, World
<1>10. PICK X : /\ X = Data["relu"]["input"] /\ DOMAIN X = 0 .. d - 1
                /\ \A i \in 0 .. d - 1 : X[i] \in Int
  <2>1. PICK a \in {"conv2d", "relu", "dither"} : a = "relu"
    OBVIOUS
  <2>2. \A i \in 0 .. d - 1 : Data[a]["input"][i] \in Int
    BY <1>1, <2>1, InputWords
  <2>3. DOMAIN Data["relu"]["input"] = 0 .. d - 1
    BY <1>1, InputArrays
  <2> QED BY <2>1, <2>2, <2>3
<1>11. /\ AreStreams(s) /\ Len(s[0]) = c /\ Len(s[1]) = c /\ Len(s[3]) = l
       /\ \A j \in 0 .. c - 1 : s[0][j + 1] = X[0 + j] /\ s[1][j + 1] = X[c + j]
       /\ \A j \in 0 .. l - 1 : s[3][j + 1] = X[2 * c + j]
  <2>1. 0 \in Columns /\ 1 \in Columns /\ 3 \in Columns /\ 0 \in Nat /\ 2 * c \in Nat
    BY DEF Columns
  <2>2. Len(s[0]) = c /\ Len(s[1]) = c /\ Len(s[3]) = l /\ AreStreams(s)
    <3>1. AreStreams(s) /\ \A e \in Columns : Len(s[e]) = p.imn[e].n
      BY <1>5, <1>8, InputsAre, Zenon
    <3>2. p.imn[0].n = c /\ p.imn[1].n = c /\ p.imn[3].n = l
      BY <1>4 DEF Stream
    <3> QED BY <2>1, <3>1, <3>2, Zenon
  <2>3. ASSUME NEW e \in Columns, NEW at \in Nat, NEW n \in Nat, p.imn[e] = Stream("input", at, n)
        PROVE  \A j \in 0 .. n - 1 : s[e][j + 1] = X[at + j]
    <3>1. s[e] = [i \in 1 .. n |-> X[at + i - 1]]
      BY <1>7, <1>8, <1>10, <2>3 DEF Inputs, Taken, Stream
    <3> QED BY <3>1
  <2>4. /\ \A j \in 0 .. c - 1 : s[0][j + 1] = X[0 + j]
        /\ \A j \in 0 .. c - 1 : s[1][j + 1] = X[c + j]
        /\ \A j \in 0 .. l - 1 : s[3][j + 1] = X[2 * c + j]
    BY <1>4, <2>1, <2>3
  <2> QED BY <2>2, <2>4
<1>12. /\ \A j \in 0 .. c - 1 : y[0][j + 1] = Clip(X[0 + j]) /\ y[2][j + 1] = Clip(X[c + j])
       /\ \A j \in 0 .. l - 1 : y[3][j + 1] = Clip(X[2 * c + j])
  <2>1. PICK w : y = Outputs("relu", w, s)
    BY <1>8 DEF Yield
  <2>2. /\ \A i \in 1 .. c : y[0][i] = Clip(s[0][i]) /\ y[2][i] = Clip(s[1][i])
        /\ \A i \in 1 .. l : y[3][i] = Clip(s[3][i])
    BY <1>11, <2>1, ReluWords
  <2>3. ASSUME NEW n \in Nat, NEW j \in 0 .. n - 1 PROVE j + 1 \in 1 .. n
    OBVIOUS
  <2>4. /\ \A j \in 0 .. c - 1 : y[0][j + 1] = Clip(s[0][j + 1]) /\ y[2][j + 1] = Clip(s[1][j + 1])
        /\ \A j \in 0 .. l - 1 : y[3][j + 1] = Clip(s[3][j + 1])
    BY <2>2, <2>3
  <2> QED BY <1>11, <2>4
<1>13. /\ "output" \in DOMAIN world.mem /\ DOMAIN world.mem["output"] = 0 .. d - 1
  BY <1>1, <1>7, InputArrays
<1>14. ASSUME NEW i \in 0 .. d - 1 PROVE m["output"][i] = Clip(X[i])
  <2>1. 0 \in Columns /\ 2 \in Columns /\ 3 \in Columns /\ 0 \in Nat /\ 2 * c \in Nat
    BY DEF Columns
  <2>2. ASSUME NEW at \in Nat, NEW n \in Nat, NEW e \in Columns, p.omn[e] = Stream("output", at, n),
               NEW j \in 0 .. n - 1, i = at + j
        PROVE  m["output"][i] = y[e][j + 1]
    <3>0. PICK x \in DOMAIN world.mem : x = "output" /\ p.omn[e] = Stream(x, at, n)
      BY <1>13, <2>2
    <3>1. PICK k : x = "output" /\ k = "relu" /\ p.omn[e] = Stream(x, at, n)
      BY <3>0
    <3>2. at + j \in DOMAIN world.mem[x]
      BY <1>13, <2>2, <3>1
    <3>3. Left(k, p, world)[x][at + j] = Yield(k, p, world)[e][j + 1]
      BY <1>5, <1>6, <2>2, <3>1, <3>2, LeftWord
    <3> QED BY <1>8, <2>2, <3>1, <3>3
  <2>3. CASE i < c
    <3>1. i \in 0 .. c - 1 /\ i = 0 + i
      BY <2>3
    <3> QED BY <1>4, <1>12, <2>1, <2>2, <3>1
  <2>4. CASE c <= i /\ i < 2 * c
    <3>1. PICK j \in 0 .. c - 1 : i = c + j
      BY <2>4, i - c \in 0 .. c - 1
    <3> QED BY <1>4, <1>12, <2>1, <2>2, <3>1
  <2>5. CASE 2 * c <= i
    <3>1. PICK j \in 0 .. l - 1 : i = 2 * c + j
      BY <1>2, <2>5, i - 2 * c \in 0 .. l - 1
    <3> QED BY <1>4, <1>12, <2>1, <2>2, <3>1
  <2> QED BY <2>3, <2>4, <2>5
<1>15. PICK f : f = ReluExpected["output"] /\ f = [i \in DOMAIN X |-> Max({0, X[i]})]
  BY <1>10, Arrays DEF ReluExpected
<1>16. ASSUME NEW i \in 0 .. d - 1 PROVE f[i] = Clip(X[i])
  <2>1. PICK v \in Int : v = X[i]
    BY <1>10
  <2>2. \E x \in {0, v} : \A q \in {0, v} : q <= x
    OBVIOUS
  <2>3. Max({0, v}) = Clip(v)
    BY <2>2 DEF Max, Clip
  <2> QED BY <1>10, <1>15, <2>1, <2>3
<1>17. Tabulated(m["output"]) /\ DOMAIN m["output"] = 0 .. d - 1
  BY <1>8, <1>13, LeftDomains
<1>18. Tabulated(f) /\ DOMAIN f = 0 .. d - 1
  BY <1>10, <1>15 DEF Tabulated
<1>19. PICK g : g = m["output"]
  OBVIOUS
<1>20. \A i \in DOMAIN g : g[i] = f[i]
  BY <1>14, <1>16, <1>17, <1>19
<1>21. g = f
  BY <1>17, <1>18, <1>19, <1>20, SameTable
<1> QED BY <1>9, <1>15, <1>19, <1>21

LEMMA FftLeft ==
  ASSUME DataGiven, WordsGiven
  PROVE  /\ Ran("fft", FftParams, Loaded("fft")).mem["real"] = FftExpected["real"]
         /\ Ran("fft", FftParams, Loaded("fft")).mem["imag"] = FftExpected["imag"]
<1>1. PICK d \in Nat, G \in Nat :
        d = DATA_SIZE("fft") /\ G = DATA_SIZE("fft") \div 2 /\ d = 2 * G /\ d = Len(Given["fft"][2])
  BY GivenAssumption DEF DataGiven
<1>2. d = 2 * G
  BY <1>1
<1>3. PICK p : p = FftParams
  OBVIOUS
<1>4. /\ p.imn[0] = Stream("real", G, G) /\ p.imn[1] = Stream("real", 0, G)
      /\ p.imn[2] = Stream("imag", 0, G) /\ p.imn[3] = Stream("imag", G, G)
      /\ p.omn[0] = Stream("real", G, G) /\ p.omn[1] = Stream("real", 0, G)
      /\ p.omn[2] = Stream("imag", G, G) /\ p.omn[3] = Stream("imag", 0, G)
  <2>1. p = Params("fft",
                   ByColumn(Stream("real", G, G), Stream("real", 0, G), Stream("imag", 0, G),
                            Stream("imag", G, G)),
                   ByColumn(Stream("real", G, G), Stream("real", 0, G), Stream("imag", G, G),
                            Stream("imag", 0, G)))
    BY <1>1, <1>3 DEF FftParams
  <2> QED BY <2>1, ColumnPlaces DEF Params
<1>5. AllPlaced(p) /\ \A e \in Columns : p.imn[e].n \in Nat
  BY <1>4, ColumnPlaces DEF AllPlaced, Placed, Stream
<1>6. StoresApart(p)
  <2>1. MayRun("fft", "fft", p)
    BY <1>3, FftMayRun
  <2> QED BY <2>1 DEF MayRun
<1>7. PICK world : world = Loaded("fft") /\ world.mem = FftData
  <2>1. Loaded("fft").mem = FftData
    BY Arrays DEF Loaded, World
  <2> QED BY <2>1
<1>8. PICK s, y, m : /\ s = Inputs(p, world.mem) /\ y = Yield("fft", p, world)
                     /\ m = Left("fft", p, world)
  OBVIOUS
<1>9. Ran("fft", FftParams, Loaded("fft")).mem = m
  BY <1>3, <1>7, <1>8 DEF Ran, World
<1>10. PICK X, Y : /\ X = FftData["real"] /\ DOMAIN X = 0 .. d - 1
                  /\ Y = FftData["imag"] /\ DOMAIN Y = 0 .. d - 1
                  /\ \A i \in 0 .. d - 1 : X[i] \in Int /\ Y[i] \in Int
  <2>1. PICK u, v : u = Given["fft"][1] /\ v = Given["fft"][2] /\ u \in Seq(Int) /\ v \in Seq(Int)
    BY DEF WordsGiven
  <2>2. Len(u) = d /\ Len(v) = d
    BY <1>1, <2>1 DEF DATA_SIZE
  <2>3. /\ DOMAIN Array(u) = 0 .. d - 1 /\ DOMAIN Array(v) = 0 .. d - 1
        /\ \A i \in 0 .. d - 1 : Array(u)[i] \in Int /\ Array(v)[i] \in Int
    BY <2>1, <2>2 DEF Array
  <2>4. FftData["real"] = Array(u) /\ FftData["imag"] = Array(v)
    BY <2>1 DEF FftData
  <2> QED BY <2>3, <2>4
<1>11. /\ AreStreams(s) /\ \A c \in Columns : Len(s[c]) = G
       /\ \A j \in 0 .. G - 1 : /\ s[0][j + 1] = X[G + j] /\ s[1][j + 1] = X[j]
                                /\ s[2][j + 1] = Y[j] /\ s[3][j + 1] = Y[G + j]
  <2>1. 0 \in Columns /\ 1 \in Columns /\ 2 \in Columns /\ 3 \in Columns
    BY DEF Columns
  <2>2. AreStreams(s) /\ \A c \in Columns : Len(s[c]) = G
    <3>1. \A c \in Columns : p.imn[c].n = G
      BY <1>4, ColumnPlaces DEF Stream
    <3> QED BY <1>5, <1>8, <3>1, InputsAre
  <2>3. /\ s[0] = [i \in 1 .. G |-> X[G + i - 1]] /\ s[1] = [i \in 1 .. G |-> X[0 + i - 1]]
        /\ s[2] = [i \in 1 .. G |-> Y[0 + i - 1]] /\ s[3] = [i \in 1 .. G |-> Y[G + i - 1]]
    <3>2. world.mem["real"] = X /\ world.mem["imag"] = Y
      BY <1>7, <1>10
    <3>3. /\ s[0] = [i \in 1 .. G |-> world.mem["real"][G + i - 1]]
          /\ s[1] = [i \in 1 .. G |-> world.mem["real"][0 + i - 1]]
          /\ s[2] = [i \in 1 .. G |-> world.mem["imag"][0 + i - 1]]
          /\ s[3] = [i \in 1 .. G |-> world.mem["imag"][G + i - 1]]
      <4>1. PICK a, b, z : a = "real" /\ b = "imag" /\ z = 0
        OBVIOUS
      <4>2. /\ p.imn[0] = Stream(a, G, G) /\ p.imn[1] = Stream(a, z, G)
            /\ p.imn[2] = Stream(b, z, G) /\ p.imn[3] = Stream(b, G, G)
        BY <1>4, <4>1
      <4>3. /\ s[0] = [i \in 1 .. G |-> world.mem[a][G + i - 1]]
            /\ s[1] = [i \in 1 .. G |-> world.mem[a][z + i - 1]]
            /\ s[2] = [i \in 1 .. G |-> world.mem[b][z + i - 1]]
            /\ s[3] = [i \in 1 .. G |-> world.mem[b][G + i - 1]]
        <5>1. s[0] = [i \in 1 .. G |-> world.mem[a][G + i - 1]]
          BY <1>8, <2>1, <4>2 DEF Inputs, Taken, Stream
        <5>2. s[1] = [i \in 1 .. G |-> world.mem[a][z + i - 1]]
          BY <1>8, <2>1, <4>2 DEF Inputs, Taken, Stream
        <5>3. s[2] = [i \in 1 .. G |-> world.mem[b][z + i - 1]]
          BY <1>8, <2>1, <4>2 DEF Inputs, Taken, Stream
        <5>4. s[3] = [i \in 1 .. G |-> world.mem[b][G + i - 1]]
          BY <1>8, <2>1, <4>2 DEF Inputs, Taken, Stream
        <5> QED BY <5>1, <5>2, <5>3, <5>4
      <4> QED BY <4>1, <4>3
    <3> QED BY <3>2, <3>3
  <2>4. ASSUME NEW j \in 0 .. G - 1
        PROVE  /\ s[0][j + 1] = X[G + j] /\ s[1][j + 1] = X[j]
               /\ s[2][j + 1] = Y[j] /\ s[3][j + 1] = Y[G + j]
    <3>1. j + 1 \in 1 .. G /\ G + (j + 1) - 1 = G + j /\ 0 + (j + 1) - 1 = j
      OBVIOUS
    <3> QED BY <2>3, <3>1
  <2> QED BY <2>2, <2>4
<1> DEFINE re(j) == 7 * X[G + j] + 3 * Y[G + j]
           im(j) == 7 * Y[G + j] - 3 * X[G + j]
<1>12. ASSUME NEW j \in 0 .. G - 1
       PROVE  /\ y[0][j + 1] = X[j] - re(j) /\ y[1][j + 1] = X[j] + re(j)
              /\ y[2][j + 1] = Y[j] - im(j) /\ y[3][j + 1] = Y[j] + im(j)
  <2>1. PICK w : y = Outputs("fft", w, s)
    BY <1>8 DEF Yield
  <2>2. Paired({0, 1, 3}, s) = G /\ Paired({0, 2, 3}, s) = G
    <3>1. Lengths(s)
      BY <1>11 DEF Lengths
    <3>2. 0 \in Columns /\ 1 \in Columns /\ 2 \in Columns /\ 3 \in Columns
      BY DEF Columns
    <3>3. /\ \A c \in {0, 1, 3} : Len(s[c]) = G
          /\ \A c \in {0, 2, 3} : Len(s[c]) = G
      BY <1>11, <3>2
    <3>4. Paired({0, 1, 3}, s) = G
      BY <3>1, <3>3, PairedBound
    <3>5. Paired({0, 2, 3}, s) = G
      BY <3>1, <3>3, PairedBound
    <3> QED BY <3>4, <3>5
  <2>3. PICK q \in 1 .. G : q = j + 1
    OBVIOUS
  <2>4. /\ y[0][q] = s[1][q] - (7 * s[0][q] + 3 * s[3][q])
        /\ y[1][q] = s[1][q] + (7 * s[0][q] + 3 * s[3][q])
        /\ y[2][q] = s[2][q] - (7 * s[3][q] - 3 * s[0][q])
        /\ y[3][q] = s[2][q] + (7 * s[3][q] - 3 * s[0][q])
    BY <1>11, <2>1, <2>2, FftWords
  <2> QED BY <1>11, <2>3, <2>4
<1>13. /\ DOMAIN world.mem = {"real", "imag"}
       /\ DOMAIN world.mem["real"] = 0 .. d - 1 /\ DOMAIN world.mem["imag"] = 0 .. d - 1
  BY <1>7, <1>10 DEF FftData
<1>14. ASSUME NEW x \in {"real", "imag"}, NEW at \in Nat, NEW e \in Columns, at + G <= d,
              p.omn[e] = Stream(x, at, G), NEW j \in 0 .. G - 1
       PROVE  m[x][at + j] = y[e][j + 1]
  <2>1. PICK k : k = "fft"
    OBVIOUS
  <2>2. x \in DOMAIN world.mem /\ at + j \in DOMAIN world.mem[x]
    <3>1. at + j \in 0 .. d - 1
      BY <1>14
    <3> QED BY <1>13, <3>1
  <2>3. Left(k, p, world)[x][at + j] = Yield(k, p, world)[e][j + 1]
    BY <1>5, <1>6, <1>14, <2>2, LeftWord
  <2> QED BY <1>8, <2>1, <2>3
<1>15. ASSUME NEW i \in 0 .. d - 1
       PROVE  /\ i < G => m["real"][i] = X[i] + re(i) /\ m["imag"][i] = Y[i] + im(i)
              /\ ~(i < G) => /\ m["real"][i] = X[i - G] - re(i - G)
                             /\ m["imag"][i] = Y[i - G] - im(i - G)
  <2>1. 0 \in Columns /\ 1 \in Columns /\ 2 \in Columns /\ 3 \in Columns /\ 0 \in Nat
    BY DEF Columns
  <2>2. ASSUME NEW j \in 0 .. G - 1
        PROVE  /\ m["real"][G + j] = X[j] - re(j) /\ m["real"][0 + j] = X[j] + re(j)
               /\ m["imag"][G + j] = Y[j] - im(j) /\ m["imag"][0 + j] = Y[j] + im(j)
    <3>1. /\ m["real"][G + j] = y[0][j + 1] /\ m["real"][0 + j] = y[1][j + 1]
          /\ m["imag"][G + j] = y[2][j + 1] /\ m["imag"][0 + j] = y[3][j + 1]
      <4>1. PICK a \in {"real", "imag"}, b \in {"real", "imag"}, z \in Nat :
              a = "real" /\ b = "imag" /\ z = 0
        OBVIOUS
      <4>2. /\ p.omn[0] = Stream(a, G, G) /\ p.omn[1] = Stream(a, z, G)
            /\ p.omn[2] = Stream(b, G, G) /\ p.omn[3] = Stream(b, z, G)
            /\ G + G <= d /\ z + G <= d
        BY <1>2, <1>4, <4>1
      <4>3. /\ m[a][G + j] = y[0][j + 1] /\ m[a][z + j] = y[1][j + 1]
            /\ m[b][G + j] = y[2][j + 1] /\ m[b][z + j] = y[3][j + 1]
        BY <1>14, <2>1, <4>2
      <4> QED BY <4>1, <4>3
    <3> QED BY <1>12, <3>1
  <2> HIDE DEF re, im
  <2>3. CASE i < G
    <3>1. i \in 0 .. G - 1 /\ 0 + i = i
      BY <2>3
    <3> QED BY <2>2, <2>3, <3>1
  <2>4. CASE ~(i < G)
    <3>1. i - G \in 0 .. G - 1 /\ G + (i - G) = i
      BY <1>2, <2>4
    <3> QED BY <2>2, <2>4, <3>1
  <2> QED BY <2>3, <2>4
<1>16. PICK f, g : /\ f = FftExpected["real"] /\ g = FftExpected["imag"]
                   /\ DOMAIN f = 0 .. d - 1 /\ Tabulated(f)
                   /\ DOMAIN g = 0 .. d - 1 /\ Tabulated(g)
                   /\ \A i \in 0 .. d - 1 : f[i] = m["real"][i] /\ g[i] = m["imag"][i]
  <2> DEFINE t_r(i) == 7 * X[i + G] - (-3) * Y[i + G]
             t_i(i) == (-3) * X[i + G] + 7 * Y[i + G]
             f == [i \in DOMAIN X |-> IF i < G THEN X[i] + t_r(i) ELSE X[i - G] - t_r(i - G)]
             g == [i \in DOMAIN Y |-> IF i < G THEN Y[i] + t_i(i) ELSE Y[i - G] - t_i(i - G)]
  <2>1. FftExpected = [real |-> f, imag |-> g]
    BY <1>1, <1>10 DEF FftExpected
  <2>2. ASSUME NEW j \in 0 .. G - 1 PROVE t_r(j) = re(j) /\ t_i(j) = im(j)
    <3>1. G + j = j + G /\ G + j \in 0 .. d - 1
      BY <1>1
    <3>2. PICK a \in Int, b \in Int : a = X[G + j] /\ b = Y[G + j]
      BY <1>10, <3>1
    <3> QED BY <3>1, <3>2
  <2>3. ASSUME NEW i \in 0 .. d - 1 PROVE f[i] = m["real"][i] /\ g[i] = m["imag"][i]
    <3>1. /\ f[i] = IF i < G THEN X[i] + t_r(i) ELSE X[i - G] - t_r(i - G)
          /\ g[i] = IF i < G THEN Y[i] + t_i(i) ELSE Y[i - G] - t_i(i - G)
      BY <1>10
    <3>2. IF i < G THEN i \in 0 .. G - 1 ELSE i - G \in 0 .. G - 1
      BY <1>1
    <3> HIDE DEF f, g, t_r, t_i, re, im
    <3> QED BY <1>15, <2>2, <3>1, <3>2
  <2>4. DOMAIN f = 0 .. d - 1 /\ Tabulated(f) /\ DOMAIN g = 0 .. d - 1 /\ Tabulated(g)
    BY <1>10 DEF Tabulated
  <2> HIDE DEF f, g
  <2> QED BY <2>1, <2>3, <2>4
<1>17. PICK u, v : /\ u = m["real"] /\ v = m["imag"]
                   /\ DOMAIN u = 0 .. d - 1 /\ Tabulated(u)
                   /\ DOMAIN v = 0 .. d - 1 /\ Tabulated(v)
  BY <1>8, <1>13, LeftDomains
<1>18. u = f
  BY <1>16, <1>17, SameTable
<1>19. v = g
  BY <1>16, <1>17, SameTable
<1> QED BY <1>9, <1>16, <1>17, <1>18, <1>19

\* The errors that gendata.py carries on are those the kernel carries on.
Errs(X, err) == err = [i \in DOMAIN X |-> CarriedOn(X[i] + (IF i = 0 THEN 0 ELSE err[i - 1]))]

LEMMA ErrsAre ==
  ASSUME NEW n \in Nat, NEW X, NEW s, IsReadAs(X, s, n)
  PROVE  /\ \E err : Errs(X, err)
         /\ \A err : Errs(X, err) =>
              \A i \in 0 .. n - 1 : Carry(s)[i] = IF i = 0 THEN 0 ELSE err[i - 1]
<1>0. DOMAIN X = 0 .. n - 1 /\ Len(s) = n /\ \A i \in 0 .. n - 1 : s[i + 1] = X[i]
  BY DEF IsReadAs
<1>1. Carried(s, n, Carry(s))
  BY <1>0, CarryOf
<1>2. PICK g : g = Carry(s) /\ Carried(s, n, g)
  BY <1>1
<1>3. \E err : Errs(X, err)
  <2> DEFINE e == [i \in 0 .. n - 1 |-> g[i + 1]]
             r == [i \in 0 .. n - 1 |-> CarriedOn(X[i] + (IF i = 0 THEN 0 ELSE e[i - 1]))]
  <2>1. ASSUME NEW i \in 0 .. n - 1 PROVE e[i] = r[i]
    <3>1. g[i + 1] = CarriedOn(s[i + 1] + g[i]) /\ g[0] = 0
      BY <1>2, CarriedStep
    <3>2. g[i] = IF i = 0 THEN 0 ELSE e[i - 1]
      <4>1. CASE i = 0
        BY <3>1, <4>1
      <4>2. CASE i # 0
        <5>1. i - 1 \in 0 .. n - 1 /\ (i - 1) + 1 = i
          BY <4>2
        <5> QED BY <4>2, <5>1
      <4> QED BY <4>1, <4>2
    <3>3. e[i] = g[i + 1] /\ r[i] = CarriedOn(X[i] + (IF i = 0 THEN 0 ELSE e[i - 1]))
      OBVIOUS
    <3>4. s[i + 1] = X[i]
      BY <1>0
    <3> HIDE DEF e, r
    <3> QED BY <3>1, <3>2, <3>3, <3>4
  <2>2. e = [i \in 0 .. n - 1 |-> e[i]] /\ r = [i \in 0 .. n - 1 |-> r[i]]
    OBVIOUS
  <2>3. e = r
    <3> HIDE DEF e, r
    <3> QED BY <2>1, <2>2
  <2>4. Errs(X, e)
    BY <1>0, <2>3 DEF Errs
  <2> QED BY <2>4
<1>4. ASSUME NEW err, Errs(X, err), NEW j \in 0 .. n - 1
      PROVE  g[j] = IF j = 0 THEN 0 ELSE err[j - 1]
  <2> DEFINE h == [i \in 0 .. n |-> IF i = 0 THEN 0 ELSE err[i - 1]]
             r == [i \in 0 .. n |-> IF i = 0 THEN 0 ELSE CarriedOn(s[i] + h[i - 1])]
  <2>1. \A i \in 0 .. n - 1 : err[i] = CarriedOn(X[i] + (IF i = 0 THEN 0 ELSE err[i - 1]))
    BY <1>0, <1>4 DEF Errs
  <2>2. ASSUME NEW i \in 0 .. n PROVE h[i] = r[i]
    <3>1. CASE i = 0
      BY <3>1
    <3>2. CASE i # 0
      <4>1. i - 1 \in 0 .. n - 1 /\ (i - 1) + 1 = i /\ i - 1 \in 0 .. n
        BY <3>2
      <4>2. err[i - 1] = CarriedOn(X[i - 1] + (IF i - 1 = 0 THEN 0 ELSE err[(i - 1) - 1]))
        BY <2>1, <4>1
      <4>3. s[i] = X[i - 1]
        BY <1>0, <4>1
      <4>4. h[i - 1] = IF i - 1 = 0 THEN 0 ELSE err[(i - 1) - 1]
        BY <4>1
      <4>5. h[i] = err[i - 1] /\ r[i] = CarriedOn(s[i] + h[i - 1])
        BY <3>2
      <4> HIDE DEF h, r
      <4> QED BY <4>2, <4>3, <4>4, <4>5
    <3> QED BY <3>1, <3>2
  <2>3. h = r
    <3>1. h = [i \in 0 .. n |-> h[i]] /\ r = [i \in 0 .. n |-> r[i]]
      OBVIOUS
    <3> HIDE DEF h, r
    <3> QED BY <2>2, <3>1
  <2>4. Carried(s, n, h)
    BY <2>3 DEF Carried
  <2>5. SameWords(s, s, n)
    BY DEF SameWords
  <2>6. j \in 0 .. n
    OBVIOUS
  <2>7. h[j] = IF j = 0 THEN 0 ELSE err[j - 1]
    BY <2>6
  <2> HIDE DEF h
  <2>8. g[j] = h[j]
    BY <1>2, <2>4, <2>5, <2>6, CarriedOnce
  <2> QED BY <2>7, <2>8
<1> QED BY <1>2, <1>3, <1>4

LEMMA DitherLeft ==
  ASSUME DataGiven, WordsGiven
  PROVE  Ran("dither", DitherParams, Loaded("dither")).mem["output"] = DitherExpected["output"]
<1>1. PICK d \in Nat : d = DATA_SIZE("dither") /\ d > 0
  BY DEF DataGiven
<1>2. PICK p : p = DitherParams
  OBVIOUS
<1>3. /\ p.imn[0] = Stream("input", 0, d) /\ p.omn[0] = Stream("output", 0, d)
      /\ \A e \in Columns \ {0} : p.imn[e] = NoStream /\ p.omn[e] = NoStream
  BY <1>1, <1>2, ColumnPlaces DEF DitherParams, Params
<1>4. AllPlaced(p) /\ \A e \in Columns : p.imn[e].n \in Nat
  BY <1>3, ColumnPlaces DEF AllPlaced, Placed, Stream, NoStream
<1>5. StoresApart(p)
  <2>1. MayRun("dither", "dither", p)
    BY <1>2, DitherMayRun
  <2> QED BY <2>1 DEF MayRun
<1>6. PICK world : world = Loaded("dither") /\ world.mem = Data["dither"]
  <2>1. Loaded("dither").mem = Data["dither"]
    BY DEF Loaded, World
  <2> QED BY <2>1
<1>7. PICK s, y, m : /\ s = Inputs(p, world.mem) /\ y = Yield("dither", p, world)
                     /\ m = Left("dither", p, world)
  OBVIOUS
<1>8. Ran("dither", DitherParams, Loaded("dither")).mem = m
  BY <1>2, <1>6, <1>7 DEF Ran, World
<1>9. PICK X : X = Data["dither"]["input"] /\ DOMAIN X = 0 .. d - 1
  BY <1>1, InputArrays
<1>10. 0 \in Columns /\ 0 \in Nat
  BY DEF Columns
<1>11. /\ AreStreams(s) /\ Len(s[0]) = d
       /\ \A j \in 0 .. d - 1 : s[0][j + 1] = X[j]
  <2>1. AreStreams(s) /\ Len(s[0]) = d
    BY <1>3, <1>4, <1>7, <1>10, InputsAre DEF Stream
  <2>2. s[0] = [i \in 1 .. d |-> X[0 + i - 1]]
    BY <1>3, <1>6, <1>7, <1>9, <1>10 DEF Inputs, Taken, Stream
  <2>3. ASSUME NEW j \in 0 .. d - 1 PROVE s[0][j + 1] = X[j]
    <3>1. j + 1 \in 1 .. d /\ 0 + (j + 1) - 1 = j
      OBVIOUS
    <3> QED BY <2>2, <3>1
  <2> QED BY <2>1, <2>3
<1>12. PICK t : t = s[0] /\ IsReadAs(X, t, d)
  BY <1>9, <1>11 DEF IsReadAs
<1>13. PICK err : /\ Errs(X, err)
                  /\ DitherExpected["output"] =
                       [i \in DOMAIN X |-> IF X[i] + (IF i = 0 THEN 0 ELSE err[i - 1]) > 127
                                           THEN 255 ELSE 0]
  <2> DEFINE E(f) == f = [i \in DOMAIN X |->
                            LET out == X[i] + (IF i = 0 THEN 0 ELSE f[i - 1])
                            IN  IF out > 127 THEN out - 255 ELSE out]
             err == CHOOSE f : E(f)
  <2>1. ASSUME NEW f PROVE E(f) <=> Errs(X, f)
    BY DEF Errs, CarriedOn
  <2>2. \E f : Errs(X, f)
    BY <1>12, ErrsAre
  <2>3. E(err)
    <3>1. \E f : E(f)
      BY <2>1, <2>2
    <3> HIDE DEF E
    <3> QED BY <3>1
  <2>4. X = DitherData.input
    BY <1>9, Arrays
  <2>5. DitherExpected["output"] =
          [i \in DOMAIN X |-> IF X[i] + (IF i = 0 THEN 0 ELSE err[i - 1]) > 127 THEN 255 ELSE 0]
    BY <2>4 DEF DitherExpected
  <2> HIDE DEF err, E
  <2> QED BY <2>1, <2>3, <2>5
<1>14. PICK f : f = DitherExpected["output"]
  OBVIOUS
<1>15. Tabulated(f) /\ DOMAIN f = 0 .. d - 1
  BY <1>9, <1>13, <1>14 DEF Tabulated
<1>16. /\ "output" \in DOMAIN world.mem /\ DOMAIN world.mem["output"] = 0 .. d - 1
  BY <1>1, <1>6, InputArrays
<1>17. PICK g : g = m["output"] /\ Tabulated(g) /\ DOMAIN g = 0 .. d - 1
  BY <1>7, <1>16, LeftDomains
<1>18. ASSUME NEW j \in 0 .. d - 1 PROVE g[j] = f[j]
  <2>1. g[j] = y[0][j + 1]
    <3>0. PICK x \in DOMAIN world.mem : x = "output"
      BY <1>16
    <3>1. PICK z, k : x = "output" /\ z = 0 /\ z \in Nat /\ k = "dither"
      BY <3>0
    <3>2. p.omn[0] = Stream(x, z, d) /\ z + j \in DOMAIN world.mem[x] /\ z + j = j
      BY <1>3, <1>16, <3>1
    <3>3. PICK e \in Columns : e = 0
      BY <1>10
    <3>4. Left(k, p, world)[x][z + j] = Yield(k, p, world)[e][j + 1]
      BY <1>4, <1>5, <3>1, <3>2, <3>3, LeftWord
    <3> QED BY <1>7, <1>17, <3>1, <3>2, <3>3, <3>4
  <2>2. y[0][j + 1] = IF s[0][j + 1] + Carry(s[0])[(j + 1) - 1] > 127 THEN 255 ELSE 0
    <3>1. PICK w : y = Outputs("dither", w, s)
      BY <1>7 DEF Yield
    <3>2. j + 1 \in 1 .. Len(s[0])
      BY <1>11
    <3> QED BY <1>11, <3>1, <3>2, DitherWords
  <2>3. Carry(s[0])[j] = IF j = 0 THEN 0 ELSE err[j - 1]
    <3>1. Carry(t)[j] = IF j = 0 THEN 0 ELSE err[j - 1]
      BY <1>13, <1>12, ErrsAre
    <3> QED BY <1>12, <3>1
  <2>4. f[j] = IF X[j] + (IF j = 0 THEN 0 ELSE err[j - 1]) > 127 THEN 255 ELSE 0
    BY <1>9, <1>13, <1>14
  <2>5. (j + 1) - 1 = j /\ s[0][j + 1] = X[j]
    BY <1>11
  <2> QED BY <2>1, <2>2, <2>3, <2>4, <2>5
<1>19. g = f
  BY <1>15, <1>17, <1>18, SameTable
<1> QED BY <1>8, <1>14, <1>17, <1>19

LEMMA RankedExpected ==
  ASSUME NEW d \in Nat, d = DATA_SIZE("minsearch"), NEW X, X = Data["minsearch"]["input"]
  PROVE  \E z : Ranked(X, d, z) /\ MinSearchExpected["output"] = Array(z[d])
<1> DEFINE Z(g) == g = [i \in 0 .. DATA_SIZE("minsearch") |->
                         IF i = 0 THEN <<127, 0, 0, 0>>
                         ELSE LET z == g[i - 1]
                                  x == X[i - 1]
                              IN  CASE x < z[1] -> <<x, i - 1, z[1], z[2]>>
                                    [] x >= z[1] /\ x < z[3] -> <<z[1], z[2], x, i - 1>>
                                    [] OTHER -> z]
           found == CHOOSE g : Z(g)
<1>1. ASSUME NEW g PROVE Z(g) <=> Ranked(X, d, g)
  BY DEF Ranked, Ranks
<1>2. \E g : Ranked(X, d, g)
  BY RankedExists
<1>3. Z(found)
  <2>1. \E g : Z(g)
    BY <1>1, <1>2
  <2> HIDE DEF Z
  <2> QED BY <2>1
<1>4. X = MinSearchData.input
  BY Arrays
<1>5. MinSearchExpected["output"] = Array(found[d])
  BY <1>4 DEF MinSearchExpected
<1> HIDE DEF found, Z
<1> QED BY <1>1, <1>3, <1>5

\* Of the data set the kernel keeps what gendata.py does.
LEMMA MinimaFound ==
  ASSUME DataGiven, WordsGiven, MinimaGiven, NEW d \in Nat, d = DATA_SIZE("minsearch"),
         NEW X, X = Data["minsearch"]["input"], NEW s, IsReadAs(X, s, d), NEW f, Searched(s, d, f),
         NEW e, e = d - 1
  PROVE  /\ MinSearchExpected["output"] =
              Array(<<f[e].min, f[e].at, f[e].next, f[e].next_at>>)
         /\ e \in Nat
<1>1. PICK G : G = Given["minsearch"][1] /\ G \in Seq(Int) /\ Len(G) = d
  BY DEF WordsGiven, DATA_SIZE
<1>2. \A i \in 0 .. d - 1 : X[i] = G[i + 1] /\ X[i] \in Int
  <2>1. X = Array(G)
    BY <1>1, Arrays DEF MinSearchData, InputAndZeros
  <2>2. \A i \in 0 .. d - 1 : Array(G)[i] = G[i + 1] /\ G[i + 1] \in Int
    BY <1>1 DEF Array
  <2> QED BY <2>1, <2>2
<1>3. PICK z : Ranked(X, d, z) /\ MinSearchExpected["output"] = Array(z[d])
  BY RankedExpected
<1>4. PICK p \in 1 .. d - 1, q \in 1 .. d - 1 : p # q /\ Low(G[p], G[d]) /\ Low(G[q], G[d])
  BY <1>1 DEF MinimaGiven
<1>5. PICK i \in 1 .. d - 1, j \in 1 .. d - 1 : i < j /\ Low(G[i], G[d]) /\ Low(G[j], G[d])
  BY <1>4
<1>6. PICK a \in 0 .. d - 2, b \in 0 .. d - 2 : a = i - 1 /\ b = j - 1 /\ a < b
  BY <1>5
<1>7. Low(X[a], X[d - 1]) /\ Low(X[b], X[d - 1])
  <2>1. X[a] = G[i] /\ X[b] = G[j] /\ X[d - 1] = G[d]
    BY <1>2, <1>6
  <2> QED BY <1>5, <2>1
<1>8. /\ z[d] = <<f[d - 1].min, f[d - 1].at, f[d - 1].next, f[d - 1].next_at>>
      /\ d - 1 \in Nat
  <2>1. AllNumbers(X, d)
    BY <1>2 DEF AllNumbers
  <2>2. Ranked(X, d, z) /\ a < b
    BY <1>3, <1>6
  <2> QED BY <1>7, <2>1, <2>2, LastUnused
<1> QED BY <1>3, <1>8

LEMMA SearchMade ==
  ASSUME NEW d \in Nat \ {0}, NEW s, AreStreams(s), Len(s[0]) = d, Len(s[2]) = d,
         NEW w, \A i \in DelayWords : w[i] = d, NEW e, e = d - 1
  PROVE  \E f : /\ Searched(s[0], d, f)
                /\ LET y == Outputs("minsearch", w, s)
                   IN  /\ y[0] = <<f[e].min>> /\ y[1] = <<f[e].at>>
                       /\ y[2] = <<f[e].next_at>> /\ y[3] = <<f[e].next>>
<1>1. Paired({0, 2}, s) = d
  BY Yields, PairedTwo
<1>2. PICK f : Searched(s[0], d, f) /\ Outputs("minsearch", w, s) = SearchResults(f, d, w)
  BY <1>1, SearchWords
<1>3. w[24] = d /\ w[39] = d /\ w[54] = d /\ w[69] = d
  BY DEF DelayWords
<1>4. d >= d - 1
  OBVIOUS
<1>5. ASSUME NEW field PROVE Due(f, d, d, field) = <<f[e][field]>>
  BY <1>4 DEF Due
<1>6. SearchResults(f, d, w) = ByColumn(<<f[e].min>>, <<f[e].at>>, <<f[e].next_at>>, <<f[e].next>>)
  BY <1>3, <1>5 DEF SearchResults
<1> QED BY <1>2, <1>6, ColumnPlaces

LEMMA MinSearchLeft ==
  ASSUME DataGiven, WordsGiven, MinimaGiven, NEW world, Delays(world, DelayWords)
  PROVE  Ran("minsearch", SearchParams, world).mem["output"] = MinSearchExpected["output"]
<1>1. PICK d \in Nat \ {0} : d = DATA_SIZE("minsearch")
  BY DEF DataGiven
<1>2. PICK p : p = SearchParams
  OBVIOUS
<1>3. /\ p.imn[0] = Stream("input", 0, d) /\ p.imn[1] = NoStream
      /\ p.imn[2] = Stream("input", 0, d) /\ p.imn[3] = NoStream
      /\ p.omn[0] = Stream("output", 0, 1) /\ p.omn[1] = Stream("output", 1, 1)
      /\ p.omn[2] = Stream("output", 3, 1) /\ p.omn[3] = Stream("output", 2, 1)
  BY <1>1, <1>2, ColumnPlaces DEF SearchParams, Params
<1>4. AllPlaced(p) /\ \A c \in Columns : p.imn[c].n \in Nat
  BY <1>3, ColumnPlaces DEF AllPlaced, Placed, Stream, NoStream
<1>5. StoresApart(p)
  <2>1. PICK a, b, c, e : /\ a = Stream("output", 0, 1) /\ b = Stream("output", 1, 1)
                          /\ c = Stream("output", 3, 1) /\ e = Stream("output", 2, 1)
    OBVIOUS
  <2>2. /\ Apart(a, b) /\ Apart(a, c) /\ Apart(a, e)
        /\ Apart(b, c) /\ Apart(b, e) /\ Apart(c, e)
    BY <2>1 DEF Apart, Stream
  <2>3. PICK k, i : p = Params(k, i, ByColumn(a, b, c, e))
    BY <1>2, <2>1 DEF SearchParams
  <2> QED BY <2>2, <2>3, ApartStores
<1>6. world.mem = Data["minsearch"] /\ \A i \in DelayWords : world.tables["minsearch"][i] = d
  BY <1>1 DEF Delays
<1>7. PICK s, y, m : /\ s = Inputs(p, world.mem) /\ y = Yield("minsearch", p, world)
                     /\ m = Left("minsearch", p, world)
  OBVIOUS
<1>8. Ran("minsearch", SearchParams, world).mem = m
  BY <1>2, <1>7 DEF Ran, World
<1>9. PICK X : X = Data["minsearch"]["input"] /\ DOMAIN X = 0 .. d - 1
  BY <1>1, InputArrays
<1>10. 0 \in Columns /\ 1 \in Columns /\ 2 \in Columns /\ 3 \in Columns
  BY DEF Columns
<1>11. AreStreams(s) /\ Len(s[0]) = d /\ Len(s[2]) = d /\ IsReadAs(X, s[0], d)
  <2>1. AreStreams(s) /\ Len(s[0]) = d /\ Len(s[2]) = d
    BY <1>3, <1>4, <1>7, <1>10, InputsAre DEF Stream
  <2>2. s[0] = [i \in 1 .. d |-> X[0 + i - 1]]
    BY <1>3, <1>6, <1>7, <1>9, <1>10 DEF Inputs, Taken, Stream
  <2>3. ASSUME NEW j \in 0 .. d - 1 PROVE s[0][j + 1] = X[j]
    <3>1. j + 1 \in 1 .. d /\ 0 + (j + 1) - 1 = j
      OBVIOUS
    <3> QED BY <2>2, <3>1
  <2> QED BY <1>9, <2>1, <2>3 DEF IsReadAs
<1>12. PICK e, w : e = d - 1 /\ w = world.tables["minsearch"]
  OBVIOUS
<1>13. PICK f : /\ Searched(s[0], d, f) /\ y[0] = <<f[e].min>> /\ y[1] = <<f[e].at>>
                /\ y[2] = <<f[e].next_at>> /\ y[3] = <<f[e].next>>
  <2>1. y = Outputs("minsearch", w, s) /\ \A i \in DelayWords : w[i] = d
    BY <1>6, <1>7, <1>12 DEF Yield
  <2> QED BY <1>11, <1>12, <2>1, SearchMade
<1>14. MinSearchExpected["output"] = Array(<<f[e].min, f[e].at, f[e].next, f[e].next_at>>)
  BY <1>1, <1>9, <1>11, <1>12, <1>13, MinimaFound
<1>15. PICK o : o = MinSearchExpected["output"]
  OBVIOUS
<1>16. /\ Tabulated(o) /\ DOMAIN o = 0 .. 3
       /\ o[0] = f[e].min /\ o[1] = f[e].at /\ o[2] = f[e].next /\ o[3] = f[e].next_at
  <2>1. PICK q, r, t, u : q = f[e].min /\ r = f[e].at /\ t = f[e].next /\ u = f[e].next_at
    OBVIOUS
  <2>2. o = [i \in 0 .. 3 |-> <<q, r, t, u>>[i + 1]]
    BY <1>14, <1>15, <2>1 DEF Array
  <2> QED BY <2>1, <2>2 DEF Tabulated
<1>17. /\ "output" \in DOMAIN world.mem /\ DOMAIN world.mem["output"] = 0 .. 3
  BY <1>1, <1>6, InputArrays
<1>18. PICK g : g = m["output"] /\ Tabulated(g) /\ DOMAIN g = 0 .. 3
  <2>1. PICK x \in DOMAIN world.mem : x = "output"
    BY <1>17
  <2>2. DOMAIN m[x] = DOMAIN world.mem[x] /\ Tabulated(m[x])
    BY <1>7, LeftDomains
  <2> QED BY <1>17, <2>1, <2>2
<1>19. ASSUME NEW c \in Columns, NEW at \in 0 .. 3, p.omn[c] = Stream("output", at, 1)
       PROVE  g[at] = y[c][1]
  <2>0. PICK k : k = "minsearch"
    OBVIOUS
  <2>1. PICK x \in DOMAIN world.mem, n \in Nat, j \in Nat : x = "output" /\ n = 1 /\ j = 0
    BY <1>17
  <2>2. p.omn[c] = Stream(x, at, n) /\ j \in 0 .. n - 1 /\ at + j \in DOMAIN world.mem[x]
    BY <1>17, <1>19, <2>1
  <2>3. Left(k, p, world)[x][at + j] = Yield(k, p, world)[c][j + 1]
    BY <1>4, <1>5, <2>2, LeftWord
  <2> QED BY <1>7, <1>18, <2>0, <2>1, <2>3
<1>20. g[0] = y[0][1] /\ g[1] = y[1][1] /\ g[3] = y[2][1] /\ g[2] = y[3][1]
  BY <1>3, <1>10, <1>19
<1>21. \A j \in 0 .. 3 : g[j] = o[j]
  <2>1. \A j \in 0 .. 3 : j = 0 \/ j = 1 \/ j = 2 \/ j = 3
    OBVIOUS
  <2>2. y[0][1] = f[e].min /\ y[1][1] = f[e].at /\ y[2][1] = f[e].next_at /\ y[3][1] = f[e].next
    BY <1>13
  <2> QED BY <1>16, <1>20, <2>1, <2>2
<1>22. g = o
  BY <1>16, <1>18, <1>21, SameTable
<1> QED BY <1>8, <1>15, <1>18, <1>22

\* Memory of conv2d: the image X, and the sums in the middle of the output.
Images(m, X) ==
    /\ DOMAIN m = {"input", "output"} /\ m["input"] = X
    /\ Tabulated(m["output"]) /\ DOMAIN m["output"] = 0 .. DATA_SIZE("conv2d") - 1
Border == 0 .. DATA_SIZE("conv2d") - 1 \ {SIZE + 1 + j : j \in 0 .. Conv2dWords - 1}

LEMMA SumsLeft ==
  ASSUME NEW k, NEW p, NEW world, NEW X, Images(world.mem, X), Tabulated(X),
         AllPlaced(p), StoresApart(p), NEW c \in Columns, p.omn[c] = Sums,
         \A e \in Columns \ {c} : p.omn[e] = NoStream, NEW m, m = Left(k, p, world)
  PROVE  /\ Images(m, X)
         /\ \A i \in Border : m["output"][i] = world.mem["output"][i]
         /\ \A j \in 0 .. Conv2dWords - 1 :
              m["output"][SIZE + 1 + j] = Yield(k, p, world)[c][j + 1]
<1>1. PICK S \in Nat, W \in Nat, d \in Nat :
        /\ S = SIZE /\ W = Conv2dWords /\ d = DATA_SIZE("conv2d") /\ 2 * S + 2 + W = d
  BY Conv2dSizes
<1>2. PICK x \in DOMAIN world.mem, y \in DOMAIN world.mem :
        /\ x = "input" /\ y = "output" /\ x # y /\ DOMAIN world.mem = {x, y}
        /\ DOMAIN world.mem[y] = 0 .. d - 1 /\ Sums = Stream(y, S + 1, W)
  BY <1>1 DEF Images, Sums
<1>3. \A e \in Columns : ~Covers(p.omn[e], x, 0) /\ \A i : ~Covers(p.omn[e], x, i)
  <2>1. "none" # x /\ NoStream.array = "none" /\ Sums.array = y
    BY <1>2 DEF NoStream, Stream
  <2> QED BY <1>2, <2>1 DEF Covers
<1>4. m[x] = world.mem[x]
  <2>1. Tabulated(m[x]) /\ DOMAIN m[x] = DOMAIN world.mem[x]
    BY LeftDomains
  <2>2. ASSUME NEW i \in DOMAIN world.mem[x] PROVE m[x][i] = world.mem[x][i]
    BY <1>3, LeftElse DEF Covered
  <2>3. Tabulated(world.mem[x])
    BY <1>2 DEF Images
  <2> QED BY <2>1, <2>2, <2>3, SameTable
<1>5. Tabulated(m[y]) /\ DOMAIN m[y] = 0 .. d - 1 /\ DOMAIN m = DOMAIN world.mem
  <2>1. DOMAIN m = DOMAIN world.mem
    BY LeftDomains
  <2>2. Tabulated(m[y]) /\ DOMAIN m[y] = DOMAIN world.mem[y]
    BY LeftDomains
  <2> QED BY <1>2, <2>1, <2>2
<1>6. ASSUME NEW i \in Border PROVE m[y][i] = world.mem[y][i]
  <2>1. i \in 0 .. d - 1 /\ \A j \in 0 .. W - 1 : i # S + 1 + j
    BY <1>1 DEF Border
  <2>2. ASSUME NEW e \in Columns PROVE ~Covers(p.omn[e], y, i)
    <3>1. NoStream.n = 0 /\ NoStream.at = 0
      BY DEF NoStream, Stream
    <3>2. ~(i \in S + 1 .. S + 1 + W - 1)
      <4>1. i \in S + 1 .. S + 1 + W - 1 => i - (S + 1) \in 0 .. W - 1 /\ i = S + 1 + (i - (S + 1))
        BY <2>1
      <4> QED BY <2>1, <4>1
    <3>3. Sums.at = S + 1 /\ Sums.n = W
      BY <1>2 DEF Stream
    <3> QED BY <3>1, <3>2, <3>3 DEF Covers
  <2> QED BY <1>2, <2>1, <2>2, LeftElse DEF Covered
<1>7. ASSUME NEW j \in 0 .. W - 1 PROVE m[y][S + 1 + j] = Yield(k, p, world)[c][j + 1]
  <2>1. PICK at \in Nat : /\ at = S + 1 /\ at + j \in DOMAIN world.mem[y]
                          /\ p.omn[c] = Stream(y, at, W)
    <3>1. S + 1 \in Nat /\ S + 1 + j \in 0 .. d - 1
      BY <1>1
    <3> QED BY <1>2, <3>1
  <2>2. Left(k, p, world)[y][at + j] = Yield(k, p, world)[c][j + 1]
    BY <2>1, LeftWord
  <2> QED BY <2>1, <2>2
<1> QED BY <1>1, <1>2, <1>4, <1>5, <1>6, <1>7 DEF Images

\* What a row adds to each sum: out becomes new.
Added(w, X, from, out, new) ==
    /\ \A i \in Border : new[i] = out[i]
    /\ \A j \in 0 .. Conv2dWords - 1 :
         new[SIZE + 1 + j] =
           out[SIZE + 1 + j] + w[3] * X[from + j] + w[23] * X[from + 1 + j] + w[43] * X[from + 2 + j]

LEMMA RowLeft ==
  ASSUME NEW world, NEW X, Images(world.mem, X), Tabulated(X),
         NEW from \in {SIZE, 2 * SIZE}, NEW w, w = world.tables["conv2d_2"],
         NEW m, m = Ran("conv2d_2", RowParams(from), world).mem
  PROVE  Images(m, X) /\ Added(w, X, from, world.mem["output"], m["output"])
<1>1. PICK S \in Nat, W \in Nat, f \in Nat :
        S = SIZE /\ W = Conv2dWords /\ f = from
  BY Conv2dSizes
<1>2. PICK p : p = RowParams(from)
  OBVIOUS
<1>3. /\ p.imn[0] = Stream("input", f, W) /\ p.imn[1] = Stream("input", f + 1, W)
      /\ p.imn[2] = Stream("input", f + 2, W) /\ p.imn[3] = Stream("output", S + 1, W)
      /\ p.omn[3] = Sums /\ Sums = Stream("output", S + 1, W)
      /\ \A e \in Columns \ {3} : p.omn[e] = NoStream
  <2>1. Sums = Stream("output", S + 1, W)
    BY <1>1 DEF Sums
  <2> QED BY <1>1, <1>2, <2>1, ColumnPlaces DEF RowParams, RowStreams, Params
<1>4. 0 \in Columns /\ 1 \in Columns /\ 2 \in Columns /\ 3 \in Columns
  BY DEF Columns
<1>5. AllPlaced(p) /\ \A e \in Columns : p.imn[e].n = W
  BY <1>1, <1>3, ColumnPlaces DEF AllPlaced, Placed, Stream, NoStream
<1>6. StoresApart(p)
  BY <1>2, ApartNone, ApartStores DEF RowParams
<1>7. PICK k : k = "conv2d_2" /\ m = Left(k, p, world)
  BY <1>2 DEF Ran, World
<1>8. PICK s, y : s = Inputs(p, world.mem) /\ y = Yield(k, p, world)
  OBVIOUS
<1>9. /\ Images(m, X)
      /\ \A i \in Border : m["output"][i] = world.mem["output"][i]
      /\ \A j \in 0 .. Conv2dWords - 1 : m["output"][SIZE + 1 + j] = y[3][j + 1]
  BY <1>3, <1>4, <1>5, <1>6, <1>7, <1>8, SumsLeft
<1>10. AreStreams(s) /\ Lengths(s) /\ \A e \in Columns : Len(s[e]) = W
  BY <1>5, <1>8, InputsAre
<1>11. Paired(Columns, s) = W
  BY <1>10, PairedBound
<1>12. \A q \in 1 .. W : y[3][q] = s[3][q] + w[3] * s[0][q] + w[23] * s[1][q] + w[43] * s[2][q]
  <2>1. y = Outputs("conv2d_2", w, s)
    BY <1>7, <1>8 DEF Yield
  <2> QED BY <1>10, <1>11, <2>1, RowWords
<1>13. ASSUME NEW j \in 0 .. W - 1
       PROVE  y[3][j + 1] = world.mem["output"][S + 1 + j]
                + w[3] * X[f + j] + w[23] * X[f + 1 + j] + w[43] * X[f + 2 + j]
  <2>1. PICK a, b : a = "input" /\ b = "output"
    OBVIOUS
  <2>2. f + 1 \in Nat /\ f + 2 \in Nat /\ S + 1 \in Nat
    OBVIOUS
  <2>3. /\ s[0][j + 1] = world.mem[a][f + j] /\ s[1][j + 1] = world.mem[a][f + 1 + j]
        /\ s[2][j + 1] = world.mem[a][f + 2 + j] /\ s[3][j + 1] = world.mem[b][S + 1 + j]
    <3>1. PICK f1 \in Nat, f2 \in Nat, at \in Nat : f1 = f + 1 /\ f2 = f + 2 /\ at = S + 1
      BY <2>2
    <3>2. /\ p.imn[0] = Stream(a, f, W) /\ p.imn[1] = Stream(a, f1, W)
          /\ p.imn[2] = Stream(a, f2, W) /\ p.imn[3] = Stream(b, at, W)
      BY <1>3, <2>1, <3>1
    <3>3. /\ s[0][j + 1] = world.mem[a][f + j] /\ s[1][j + 1] = world.mem[a][f1 + j]
          /\ s[2][j + 1] = world.mem[a][f2 + j] /\ s[3][j + 1] = world.mem[b][at + j]
      <4>1. ASSUME NEW e \in Columns, NEW x, NEW n \in Nat, p.imn[e] = Stream(x, n, W)
            PROVE  s[e][j + 1] = world.mem[x][n + j]
        <5>1. s[e] = [i \in 1 .. W |-> world.mem[x][n + i - 1]]
          BY <1>8, <4>1 DEF Inputs, Taken, Stream
        <5>2. j + 1 \in 1 .. W /\ n + (j + 1) - 1 = n + j
          OBVIOUS
        <5> QED BY <5>1, <5>2
      <4> QED BY <1>4, <3>2, <4>1
    <3> QED BY <3>1, <3>3
  <2>4. j + 1 \in 1 .. W /\ world.mem[a] = X
    BY <2>1 DEF Images
  <2> QED BY <1>12, <2>1, <2>3, <2>4
<1> QED BY <1>1, <1>9, <1>13 DEF Added

LEMMA FirstSums ==
  ASSUME DataGiven, NEW X, X = Data["conv2d"]["input"], Tabulated(X),
         NEW m, m = FirstRowLeft.mem,
         Images(Data["conv2d"], X)
  PROVE  /\ Images(m, X)
         /\ \A i \in Border : m["output"][i] = Data["conv2d"]["output"][i]
         /\ \A j \in 0 .. Conv2dWords - 1 : m["output"][SIZE + 1 + j] = -X[1 + j]
<1>1. PICK S \in Nat, W \in Nat : S = SIZE /\ W = Conv2dWords
  BY Conv2dSizes
<1>2. PICK p, world : /\ p = FirstParams /\ world = Loaded("conv2d")
                      /\ world.mem = Data["conv2d"]
  <2>1. Loaded("conv2d").mem = Data["conv2d"]
    BY DEF Loaded, World
  <2> QED BY <2>1
<1>3. /\ p.imn[0] = Stream("input", 0, W) /\ p.imn[1] = Stream("input", 1, W)
      /\ p.imn[2] = Stream("input", 2, W) /\ p.imn[3] = NoStream
      /\ p.omn[2] = Sums /\ Sums = Stream("output", S + 1, W)
      /\ \A e \in Columns \ {2} : p.omn[e] = NoStream
  <2>1. Sums = Stream("output", S + 1, W)
    BY <1>1 DEF Sums
  <2>2. 0 + 1 = 1 /\ 0 + 2 = 2
    OBVIOUS
  <2> QED BY <1>1, <1>2, <2>1, <2>2, ColumnPlaces DEF FirstParams, RowStreams, Params
<1>4. 0 \in Columns /\ 1 \in Columns /\ 2 \in Columns /\ 3 \in Columns
  BY DEF Columns
<1>5. /\ AllPlaced(p) /\ \A e \in Columns : p.imn[e].n \in Nat
      /\ \A e \in {0, 1, 2} : p.imn[e].n = W
  BY <1>1, <1>3, ColumnPlaces DEF AllPlaced, Placed, Stream, NoStream
<1>6. StoresApart(p)
  BY <1>2, ApartNone, ApartStores DEF FirstParams
<1>7. PICK k : k = "conv2d_1" /\ m = Left(k, p, world)
  BY <1>2 DEF FirstRowLeft, Ran, World
<1>8. PICK s, y : s = Inputs(p, world.mem) /\ y = Yield(k, p, world)
  OBVIOUS
<1>9. /\ Images(m, X)
      /\ \A i \in Border : m["output"][i] = world.mem["output"][i]
      /\ \A j \in 0 .. Conv2dWords - 1 : m["output"][SIZE + 1 + j] = y[2][j + 1]
  <2>1. PICK c \in Columns : c = 2 /\ p.omn[c] = Sums /\ \A e \in Columns \ {c} : p.omn[e] = NoStream
    BY <1>3, <1>4
  <2>2. Images(world.mem, X)
    BY <1>2
  <2>3. /\ Images(m, X)
        /\ \A i \in Border : m["output"][i] = world.mem["output"][i]
        /\ \A j \in 0 .. Conv2dWords - 1 :
             m["output"][SIZE + 1 + j] = Yield(k, p, world)[c][j + 1]
    BY <1>5, <1>6, <1>7, <2>1, <2>2, SumsLeft
  <2> QED BY <1>8, <2>1, <2>3
<1>10. AreStreams(s) /\ Lengths(s) /\ \A e \in {0, 1, 2} : Len(s[e]) = W
  BY <1>4, <1>5, <1>8, InputsAre
<1>11. Paired({0, 1, 2}, s) = W
  BY <1>10, PairedBound
<1>12. \A q \in 1 .. W : y[2][q] = -s[1][q]
  <2>1. PICK w : y = Outputs("conv2d_1", w, s)
    BY <1>7, <1>8 DEF Yield
  <2> QED BY <1>10, <1>11, <2>1, RowWords
<1>13. ASSUME NEW j \in 0 .. W - 1 PROVE y[2][j + 1] = -X[1 + j]
  <2>1. world.mem["input"] = X
    BY <1>2
  <2>2. s[1] = [i \in 1 .. W |-> X[1 + i - 1]]
    <3>1. PICK e \in Columns : e = 1
      BY <1>4
    <3>2. PICK x : x = "input"
      OBVIOUS
    <3>3. PICK at \in Nat : at = 1
      OBVIOUS
    <3>4. p.imn[e] = Stream(x, at, W)
      BY <1>3, <3>1, <3>2, <3>3
    <3>5. s[e] = [i \in 1 .. W |-> world.mem[x][at + i - 1]]
      BY <1>8, <3>4 DEF Inputs, Taken, Stream
    <3> QED BY <2>1, <3>1, <3>2, <3>3, <3>5
  <2>3. j + 1 \in 1 .. W /\ 1 + (j + 1) - 1 = 1 + j
    OBVIOUS
  <2> QED BY <1>12, <2>2, <2>3
<1> QED BY <1>1, <1>2, <1>9, <1>13

LEMMA Conv2dLeft ==
  ASSUME DataGiven, WordsGiven
  PROVE  ThirdRowLeft.mem["output"] = Conv2dExpected["output"]
<1>1. PICK S \in Nat, W \in Nat, d \in Nat :
        /\ S = SIZE /\ W = Conv2dWords /\ d = DATA_SIZE("conv2d") /\ 2 * S + 2 + W = d
  BY Conv2dSizes
<1>2. PICK X, z : /\ X = Data["conv2d"]["input"] /\ z = Data["conv2d"]["output"]
                  /\ Tabulated(X) /\ DOMAIN X = 0 .. d - 1
                  /\ \A i \in 0 .. d - 1 : X[i] \in Int /\ z[i] = 0
                  /\ Images(Data["conv2d"], X)
  <2>1. PICK a \in {"conv2d", "relu", "dither"} : a = "conv2d"
    OBVIOUS
  <2>2. /\ Tabulated(Data[a]["input"]) /\ Tabulated(Data[a]["output"])
        /\ \A i \in 0 .. d - 1 : Data[a]["input"][i] \in Int /\ Data[a]["output"][i] = 0
    BY <1>1, <2>1, InputWords
  <2>3. /\ DOMAIN Data["conv2d"] = {"input", "output"}
        /\ DOMAIN Data["conv2d"]["input"] = 0 .. d - 1
        /\ DOMAIN Data["conv2d"]["output"] = 0 .. d - 1
    BY <1>1, InputArrays
  <2> QED BY <1>1, <2>1, <2>2, <2>3 DEF Images
<1>3. PICK w1, w2, w3 : w1 = FirstRowLeft /\ w2 = SecondRowLeft /\ w3 = Patched(SecondRowLeft)
  OBVIOUS
<1>4. PICK m1, m2, m3 : m1 = w1.mem /\ m2 = w2.mem /\ m3 = ThirdRowLeft.mem
  OBVIOUS
<1>5. PICK u, v : /\ u = w1.tables["conv2d_2"] /\ u[3] = -1 /\ u[23] = 5 /\ u[43] = -1
                  /\ v = w3.tables["conv2d_2"] /\ v[3] = 0 /\ v[23] = -1 /\ v[43] = 0
                  /\ w3.mem = m2
  <2>1. PICK t : /\ t = KernelWords["conv2d_2"] /\ DOMAIN t = {3, 23, 43}
                 /\ t[3] = -1 /\ t[23] = 5 /\ t[43] = -1
    <3>1. KernelWords["conv2d_2"] = [i \in {3, 23, 43} |-> IF i = 23 THEN 5 ELSE -1]
      BY DEF KernelWords
    <3>2. PICK t : t = [i \in {3, 23, 43} |-> IF i = 23 THEN 5 ELSE -1]
      OBVIOUS
    <3>3. DOMAIN t = {3, 23, 43} /\ t[3] = -1 /\ t[23] = 5 /\ t[43] = -1
      BY <3>2
    <3> QED BY <3>1, <3>2, <3>3
  <2>2. w1.tables = KernelWords /\ w2.tables = KernelWords
    BY <1>3 DEF FirstRowLeft, SecondRowLeft, Ran, World, Loaded
  <2>3. w3.mem = m2
    BY <1>3, <1>4 DEF Patched, Changed, World
  <2>4. PICK e : /\ e = [[[t EXCEPT ![3] = 0] EXCEPT ![23] = -1] EXCEPT ![43] = 0]
                 /\ e[3] = 0 /\ e[23] = -1 /\ e[43] = 0
    <3>1. PICK e : e = [[[t EXCEPT ![3] = 0] EXCEPT ![23] = -1] EXCEPT ![43] = 0]
      OBVIOUS
    <3>2. e[3] = 0 /\ e[23] = -1 /\ e[43] = 0
      BY <2>1, <3>1
    <3> QED BY <3>1, <3>2
  <2>5. w3.tables["conv2d_2"] = e
    <3>1. "conv2d_2" \in DOMAIN KernelWords
      BY DEF KernelWords
    <3> QED BY <1>3, <2>1, <2>2, <2>4, <3>1 DEF Patched, Changed, World
  <2> QED BY <2>1, <2>2, <2>3, <2>4, <2>5
<1>6. /\ Images(m1, X) /\ \A i \in Border : m1["output"][i] = z[i]
      /\ \A j \in 0 .. W - 1 : m1["output"][S + 1 + j] = -X[1 + j]
  BY <1>1, <1>2, <1>3, <1>4, FirstSums
<1>7. /\ Images(m2, X) /\ \A i \in Border : m2["output"][i] = m1["output"][i]
      /\ \A j \in 0 .. W - 1 :
           m2["output"][S + 1 + j] = m1["output"][S + 1 + j]
             + u[3] * X[S + j] + u[23] * X[S + 1 + j] + u[43] * X[S + 2 + j]
  <2>1. PICK from \in {SIZE, 2 * SIZE} : from = S
    BY <1>1
  <2>2. m2 = Ran("conv2d_2", RowParams(from), w1).mem
    BY <1>1, <1>3, <1>4, <2>1 DEF SecondRowLeft
  <2>3. Images(w1.mem, X) /\ u = w1.tables["conv2d_2"] /\ Tabulated(X)
    BY <1>2, <1>4, <1>5, <1>6
  <2>4. Images(m2, X) /\ Added(u, X, from, w1.mem["output"], m2["output"])
    BY <2>2, <2>3, RowLeft
  <2>5. w1.mem = m1
    BY <1>4, <1>5
  <2> QED BY <1>1, <2>1, <2>4, <2>5 DEF Added
<1>8. /\ Images(m3, X) /\ \A i \in Border : m3["output"][i] = m2["output"][i]
      /\ \A j \in 0 .. W - 1 :
           m3["output"][S + 1 + j] = m2["output"][S + 1 + j]
             + v[3] * X[2 * S + j] + v[23] * X[2 * S + 1 + j] + v[43] * X[2 * S + 2 + j]
  <2>1. PICK from \in {SIZE, 2 * SIZE} : from = 2 * S
    BY <1>1
  <2>2. m3 = Ran("conv2d_2", RowParams(from), w3).mem
    BY <1>1, <1>3, <1>4, <2>1 DEF ThirdRowLeft
  <2>3. Images(w3.mem, X) /\ v = w3.tables["conv2d_2"] /\ Tabulated(X)
    BY <1>2, <1>4, <1>5, <1>7
  <2>4. Images(m3, X) /\ Added(v, X, from, w3.mem["output"], m3["output"])
    BY <2>2, <2>3, RowLeft
  <2>5. w3.mem = m2
    BY <1>4, <1>5
  <2> QED BY <1>1, <2>1, <2>4, <2>5 DEF Added
<1> DEFINE Z(k) == 0 * X[k] + (-1) * X[k + 1] + 0 * X[k + 2]
                   + (-1) * X[k + S] + 5 * X[k + S + 1] + (-1) * X[k + S + 2]
                   + 0 * X[k + 2 * S] + (-1) * X[k + 2 * S + 1] + 0 * X[k + 2 * S + 2]
<1>9. PICK f : /\ f = Conv2dExpected["output"]
               /\ f = [i \in DOMAIN X |-> IF i \in S + 1 .. d - S - 2 THEN Z(i - S - 1) ELSE 0]
  <2> DEFINE filter == <<0, -1, 0, -1, 5, -1, 0, -1, 0>>
             at(i, j) == filter[3 * i + j + 1]
  <2>1. /\ at(0, 0) = 0 /\ at(0, 1) = -1 /\ at(0, 2) = 0
        /\ at(1, 0) = -1 /\ at(1, 1) = 5 /\ at(1, 2) = -1
        /\ at(2, 0) = 0 /\ at(2, 1) = -1 /\ at(2, 2) = 0
    OBVIOUS
  <2>2. X = Conv2dData.input
    BY <1>2, Arrays
  <2> DEFINE Y(k) == at(0, 0) * X[k] + at(0, 1) * X[k + 1] + at(0, 2) * X[k + 2]
                + at(1, 0) * X[k + SIZE] + at(1, 1) * X[k + SIZE + 1] + at(1, 2) * X[k + SIZE + 2]
                + at(2, 0) * X[k + 2 * SIZE] + at(2, 1) * X[k + 2 * SIZE + 1]
                + at(2, 2) * X[k + 2 * SIZE + 2]
  <2>3. Conv2dExpected["output"] =
          [i \in DOMAIN X |-> IF i \in SIZE + 1 .. DATA_SIZE("conv2d") - SIZE - 2
                              THEN Y(i - SIZE - 1) ELSE 0]
    BY <2>2 DEF Conv2dExpected
  <2> HIDE DEF at
  <2>4. \A k : Y(k) = Z(k)
    BY <1>1, <2>1
  <2> HIDE DEF Y, Z
  <2> QED BY <1>1, <2>3, <2>4
<1>10. ASSUME NEW j \in 0 .. W - 1 PROVE m3["output"][S + 1 + j] = Z(j)
  <2>1. PICK a \in Int, b \in Int, c \in Int, e \in Int, g \in Int :
          a = X[1 + j] /\ b = X[S + j] /\ c = X[S + 1 + j] /\ e = X[S + 2 + j]
          /\ g = X[2 * S + 1 + j]
    <3>1. /\ 1 + j \in 0 .. d - 1 /\ S + j \in 0 .. d - 1 /\ S + 1 + j \in 0 .. d - 1
          /\ S + 2 + j \in 0 .. d - 1 /\ 2 * S + 1 + j \in 0 .. d - 1
      BY <1>1
    <3> QED BY <1>2, <3>1
  <2>2. PICK o1 \in Int, o2 \in Int, o3 \in Int, o4 \in Int :
          o1 = X[j] /\ o2 = X[2 + j] /\ o3 = X[2 * S + j] /\ o4 = X[2 * S + 2 + j]
    <3>1. /\ j \in 0 .. d - 1 /\ 2 + j \in 0 .. d - 1
          /\ 2 * S + j \in 0 .. d - 1 /\ 2 * S + 2 + j \in 0 .. d - 1
      BY <1>1
    <3> QED BY <1>2, <3>1
  <2>3. /\ 1 + j = j + 1 /\ 2 + j = j + 2 /\ S + j = j + S /\ S + 1 + j = j + S + 1
        /\ S + 2 + j = j + S + 2 /\ 2 * S + j = j + 2 * S /\ 2 * S + 1 + j = j + 2 * S + 1
        /\ 2 * S + 2 + j = j + 2 * S + 2
    OBVIOUS
  <2>4. m3["output"][S + 1 + j] = -a + (-1) * b + 5 * c + (-1) * e + 0 * o3 + (-1) * g + 0 * o4
    <3>1. PICK s1, s2, s3 : /\ s1 = m1["output"][S + 1 + j] /\ s2 = m2["output"][S + 1 + j]
                            /\ s3 = m3["output"][S + 1 + j]
      OBVIOUS
    <3>2. s1 = -a
      BY <1>6, <2>1, <3>1
    <3>3. s2 = s1 + (-1) * b + 5 * c + (-1) * e
      BY <1>5, <1>7, <2>1, <3>1
    <3>4. s3 = s2 + 0 * o3 + (-1) * g + 0 * o4
      BY <1>5, <1>8, <2>1, <2>2, <3>1
    <3> QED BY <3>1, <3>2, <3>3, <3>4
  <2>5. Z(j) = 0 * o1 + (-1) * a + 0 * o2 + (-1) * b + 5 * c + (-1) * e
               + 0 * o3 + (-1) * g + 0 * o4
    BY <2>1, <2>2, <2>3
  <2> QED BY <2>4, <2>5
<1> HIDE DEF Z
<1>11. PICK g : g = m3["output"] /\ Tabulated(g) /\ DOMAIN g = 0 .. d - 1
  BY <1>1, <1>8 DEF Images
<1>12. Tabulated(f) /\ DOMAIN f = 0 .. d - 1
  BY <1>2, <1>9 DEF Tabulated
<1>13. ASSUME NEW i \in 0 .. d - 1 PROVE g[i] = f[i]
  <2>1. CASE i \in S + 1 .. d - S - 2
    <3>1. i - S - 1 \in 0 .. W - 1 /\ S + 1 + (i - S - 1) = i
      BY <1>1, <2>1
    <3> QED BY <1>2, <1>9, <1>10, <1>11, <2>1, <3>1
  <2>2. CASE i \notin S + 1 .. d - S - 2
    <3>1. i \in Border
      <4>1. ASSUME NEW j \in 0 .. W - 1 PROVE i # S + 1 + j
        BY <1>1, <2>2
      <4> QED BY <1>1, <4>1 DEF Border
    <3>2. g[i] = 0
      <4>1. m3["output"][i] = m2["output"][i] /\ m2["output"][i] = m1["output"][i]
        BY <1>7, <1>8, <3>1
      <4>2. m1["output"][i] = z[i] /\ z[i] = 0
        BY <1>2, <1>6, <3>1
      <4> QED BY <1>11, <4>1, <4>2
    <3> QED BY <1>2, <1>9, <2>2, <3>2
  <2> QED BY <2>1, <2>2
<1>14. g = f
  BY <1>11, <1>12, <1>13, SameTable
<1> QED BY <1>4, <1>9, <1>11, <1>14

LEMMA TestCopied ==
  ASSUME NEW m, m = TestLeft.mem
  PROVE  m["e"] = Filled(1) /\ m["f"] = Filled(2) /\ m["g"] = Filled(3) /\ m["h"] = Filled(4)
<1>1. TestDomains(m) /\ Copied(m, TestFilled.mem)
  BY TestArrays, TestCopies DEF TestLeft
<1>2. \A k : Tabulated(Filled(k)) /\ DOMAIN Filled(k) = 0 .. TEST - 1
  BY DEF Tabulated, Filled
<1>3. ASSUME NEW x \in {"e", "f", "g", "h"}, NEW k, \A i \in 0 .. TEST - 1 : m[x][i] = Filled(k)[i]
      PROVE  m[x] = Filled(k)
  <2>1. Tabulated(m[x]) /\ DOMAIN m[x] = 0 .. TEST - 1
    BY <1>1 DEF TestDomains
  <2> QED BY <1>2, <1>3, <2>1, SameTable
<1>4. \A i \in 0 .. TEST - 1 : /\ m["e"][i] = Filled(1)[i] /\ m["f"][i] = Filled(2)[i]
                               /\ m["g"][i] = Filled(3)[i] /\ m["h"][i] = Filled(4)[i]
  BY <1>1, TestArrays DEF Copied
<1> QED BY <1>3, <1>4

\* In every application each START has a kernel to execute, the vectors that it
\* needs, and the report reads the runs that are counted; and the words that are
\* left are the expected ones.
Suited(a)   == DataGiven /\ WordsGiven /\ (a = "minsearch" => MinimaGiven)
Exact(a, y) == Suited(a) => EndsWell(a, y)

LEMMA ProgramsEnd == \A a \in Apps : \E y : Leads(Program[a], Fresh(a), y) /\ Exact(a, y)
<1>1. \A world, n : Ended(world, n).runs.world = world
  BY DEF Ended, Known, Runs
<1>2. ASSUME NEW a, NEW world, NEW n, \A x \in DOMAIN Expected[a] : world.mem[x] = Expected[a][x]
      PROVE  EndsWell(a, Ended(world, n))
  BY <1>1, <1>2 DEF EndsWell
<1>3. /\ Expected["conv2d"] = Conv2dExpected /\ DOMAIN Conv2dExpected = {"output"}
      /\ Expected["relu"] = ReluExpected /\ DOMAIN ReluExpected = {"output"}
      /\ Expected["dither"] = DitherExpected /\ DOMAIN DitherExpected = {"output"}
      /\ Expected["fft"] = FftExpected /\ DOMAIN FftExpected = {"real", "imag"}
      /\ Expected["test"] = TestExpected
      /\ TestExpected = [e |-> Filled(1), f |-> Filled(2), g |-> Filled(3), h |-> Filled(4)]
      /\ Expected["minsearch"] = MinSearchExpected /\ DOMAIN MinSearchExpected = {"output"}
  BY DEF Expected, Conv2dExpected, ReluExpected, DitherExpected, FftExpected, TestExpected,
         MinSearchExpected
<1>4. ASSUME DataGiven, WordsGiven
      PROVE  /\ EndsWell("conv2d", Ended(ThirdRowLeft, 3))
             /\ EndsWell("relu", Ended(Ran("relu", ReluParams, Loaded("relu")), 1))
             /\ EndsWell("dither", Ended(Ran("dither", DitherParams, Loaded("dither")), 1))
             /\ EndsWell("fft", Ended(Ran("fft", FftParams, Loaded("fft")), 1))
  <2>1. EndsWell("conv2d", Ended(ThirdRowLeft, 3))
    BY <1>2, <1>3, <1>4, Conv2dLeft
  <2>2. EndsWell("relu", Ended(Ran("relu", ReluParams, Loaded("relu")), 1))
    BY <1>2, <1>3, <1>4, ReluLeft
  <2>3. EndsWell("dither", Ended(Ran("dither", DitherParams, Loaded("dither")), 1))
    BY <1>2, <1>3, <1>4, DitherLeft
  <2>4. EndsWell("fft", Ended(Ran("fft", FftParams, Loaded("fft")), 1))
    BY <1>2, <1>3, <1>4, FftLeft
  <2> QED BY <2>1, <2>2, <2>3, <2>4
<1>5. \E y : Leads(Tests, Fresh("test"), y) /\ EndsWell("test", y)
  <2>1. PICK y : Leads(Tests, Fresh("test"), y) /\ y.runs.world = TestLeft
    BY TestsLead
  <2>2. EndsWell("test", y)
    BY <1>3, <2>1, TestCopied DEF EndsWell
  <2> QED BY <2>1, <2>2
<1>6. \E y : Leads(Conv2d, Fresh("conv2d"), y) /\ Exact("conv2d", y)
  BY <1>4, Conv2dLeads DEF Exact, Suited
<1>7. \E y : Leads(Relus, Fresh("relu"), y) /\ Exact("relu", y)
  BY <1>4, ReluLeads DEF Exact, Suited
<1>8. \E y : Leads(Dithers, Fresh("dither"), y) /\ Exact("dither", y)
  BY <1>4, DitherLeads DEF Exact, Suited
<1>9. \E y : Leads(Ffts, Fresh("fft"), y) /\ Exact("fft", y)
  BY <1>4, FftLeads DEF Exact, Suited
<1>10. \E y : Leads(MinSearches, Fresh("minsearch"), y) /\ Exact("minsearch", y)
  <2>1. PICK w, y : /\ y = Ended(Ran("minsearch", SearchParams, w), 1) /\ Delays(w, DelayWords)
                    /\ Leads(MinSearches, Fresh("minsearch"), y)
    BY MinSearchLeads
  <2>2. DataGiven /\ WordsGiven /\ MinimaGiven => EndsWell("minsearch", y)
    BY <1>2, <1>3, <2>1, MinSearchLeft
  <2> QED BY <2>1, <2>2 DEF Exact, Suited
<1>11. \E y : Leads(Tests, Fresh("test"), y) /\ Exact("test", y)
  BY <1>5 DEF Exact, Suited
<1>12. /\ Apps = {"conv2d", "relu", "fft", "dither", "minsearch", "test"}
       /\ Program["conv2d"] = Conv2d /\ Program["relu"] = Relus /\ Program["dither"] = Dithers
       /\ Program["fft"] = Ffts /\ Program["minsearch"] = MinSearches /\ Program["test"] = Tests
  BY DEF Apps, Program
<1> QED BY <1>6, <1>7, <1>8, <1>9, <1>10, <1>11, <1>12

-----------------------------------------------------------------------------
(* What the nodes have moved                                                *)

Moved ==
    /\ AreStreams(acc.got) /\ DOMAIN acc.got = Columns
    /\ DOMAIN acc.put = Columns /\ \A c \in Columns : acc.put[c] \in Nat

LEMMA MovedIdle == ASSUME NEW r PROVE /\ AreStreams(Idle(r).got) /\ DOMAIN Idle(r).got = Columns
                                      /\ DOMAIN Idle(r).put = Columns
                                      /\ \A c \in Columns : Idle(r).put[c] \in Nat
<1>1. <<>> \in Seq({})
  OBVIOUS
<1> QED BY <1>1 DEF Idle, AreStreams

LEMMA MovedStep == ASSUME IInv, Moved, [Next]_vars PROVE Moved'
<1>1. CASE UNCHANGED acc
  BY <1>1 DEF Moved
<1>2. CASE Main
  <2>1. CASE WriteCtrl
    <3>1. PICK r : acc' = Idle(r) \/ acc' = [Idle(r) EXCEPT !.state = "started"] \/ acc' = acc
      BY <2>1 DEF WriteCtrl
    <3>2. CASE acc' = Idle(r)
      BY <3>2, MovedIdle DEF Moved
    <3>3. CASE acc' = [Idle(r) EXCEPT !.state = "started"]
      <4>1. acc'.got = Idle(r).got /\ acc'.put = Idle(r).put
        BY <3>3 DEF Idle
      <4> QED BY <4>1, MovedIdle DEF Moved
    <3> QED BY <1>1, <3>1, <3>2, <3>3
  <2> QED BY <1>1, <1>2, <2>1 DEF Main, Enable, WriteMode, WriteParams, StoreArray, PatchKernel,
                                  PollDone, UnflagIntr, WaitDone, ReadReport
<1>3. CASE Configure \/ End
  <2>1. acc'.got = acc.got /\ acc'.put = acc.put
    BY <1>3 DEF Configure, End, IInv, Fields
  <2> QED BY <2>1 DEF Moved
<1>4. ASSUME NEW c \in Columns, Fetch(c) PROVE Moved'
  <2>1. PICK x : acc' = [acc EXCEPT !.got[c] = Append(@, x)]
    BY <1>4 DEF Fetch
  <2>2. acc'.put = acc.put /\ acc'.got = [acc.got EXCEPT ![c] = Append(acc.got[c], x)]
    BY <2>1 DEF IInv, Fields
  <2>3. PICK S : acc.got[c] \in Seq(S)
    BY DEF Moved, AreStreams
  <2>4. Append(acc.got[c], x) \in Seq(S \cup {x})
    <3>1. acc.got[c] \in Seq(S \cup {x})
      BY <2>3
    <3> QED BY <3>1
  <2> QED BY <2>2, <2>4 DEF Moved, AreStreams
<1>5. ASSUME NEW c \in Columns, StoreWord(c) PROVE Moved'
  <2>1. acc'.got = acc.got /\ acc'.put = [acc.put EXCEPT ![c] = acc.put[c] + 1]
    BY <1>5 DEF StoreWord, IInv, Fields
  <2> QED BY <2>1 DEF Moved
<1> QED BY <1>1, <1>2, <1>3, <1>4, <1>5 DEF Next, Strela, vars

LEMMA MovedInvariant == Spec => []Moved
<1>1. Init => Moved
  BY MovedIdle DEF Init, Moved
<1>2. IInv /\ Moved /\ [Next]_vars => Moved'
  BY MovedStep
<1> QED BY <1>1, <1>2, Invariant, PTL DEF Spec

-----------------------------------------------------------------------------
(* What main knows is so                                                   *)

\* The kernel that main takes for held is, unless the next START loads one; while
\* a run is under way it is the one that was named, with the vectors it needs.
Holds(x) ==
    LET held == x.runs.held
        addr == x.params.conf_addr
    IN /\ conf.valid /\ held \in KernelNames =>
             conf.kernel = held /\ conf.words = tables[held]
       /\ held = NoKernel => ~conf.valid
       /\ acc.state = "idle" /\ held \in KernelNames => conf.valid
       /\ acc.state = "exec" => conf.valid
       /\ acc.state # "idle" =>
             /\ held \in KernelNames /\ addr \in {NoKernel, held}
             /\ conf.valid \/ addr = held
             /\ MayRun(app, held, x.params)

\* The run that is under way is not counted before it ends.
Counts(x) ==
    /\ x.runs.on = ("PERF_CTR_EN" \in regs.mode) /\ x.runs.made = acc.run
    /\ x.runs.counted =
         IF acc.state # "idle" /\ x.runs.on THEN counted \cup {acc.run} ELSE counted

\* The arrays are where they were declared.
SameArrays(a) ==
    /\ DOMAIN mem = DOMAIN Data[a]
    /\ \A array \in DOMAIN Data[a] : DOMAIN mem[array] = DOMAIN Data[a][array]

\* A word that the run under way has stored.
Written(array, i) ==
    \E c \in Columns : /\ Stores(c).array = array
                       /\ i \in Stores(c).at .. Stores(c).at + acc.put[c] - 1

\* The run under way, of kernel k, began in the world v: it has read words of v,
\* and where it has stored a word already, it is the one that it leaves.
Began(k, v) ==
    /\ v.tables = tables /\ DOMAIN v.mem = DOMAIN mem
    /\ \A array \in DOMAIN mem :
         /\ DOMAIN v.mem[array] = DOMAIN mem[array]
         /\ \A i \in DOMAIN mem[array] :
              mem[array][i] = IF Written(array, i) THEN Left(k, regs.params, v)[array][i]
                                                   ELSE v.mem[array][i]
    /\ Begins(acc.got, Inputs(regs.params, v.mem))
    /\ \A c \in Columns : acc.put[c] <= Stores(c).n
    /\ \A c, d \in Columns : WaitsFor(k, c, d) => acc.put[c] <= Len(acc.got[d])

Alike(m, n) == DOMAIN m = DOMAIN n /\ \A array \in DOMAIN n : m[array] = n[array]

\* The tables and the arrays are those of the world that main knows, or will be
\* once the run that is under way is over; every delay is one a run can count to.
Follows(x) ==
    /\ x.runs.world.tables = tables /\ Delayed(tables["minsearch"])
    /\ \A array \in DOMAIN mem : Tabulated(mem[array])
    /\ acc.state = "idle" => Alike(x.runs.world.mem, mem)
    /\ acc.state # "idle" =>
         \E v : /\ Began(x.runs.held, v)
               /\ x.runs.world.mem = Left(x.runs.held, regs.params, v)

Described(x) ==
    /\ x.params = regs.params /\ x.runs.world.app = app
    /\ regs.params = Params(regs.params.conf_addr, regs.params.imn, regs.params.omn)
    /\ Holds(x) /\ Counts(x) /\ SameArrays(app) /\ DOMAIN tables = KernelNames
    /\ Suited(app) => Follows(x)

KnownToMain == \E x, y : Leads(todo, x, y) /\ Exact(app, y) /\ Described(x)

-----------------------------------------------------------------------------
(* The memory under a run                                                  *)

LEMMA DataDomains ==
  ASSUME NEW a \in Apps, Suited(a)
  PROVE  \A array \in DOMAIN Data[a] :
           Tabulated(Data[a][array]) /\ \E n \in Nat : DOMAIN Data[a][array] = 0 .. n - 1
<1> DEFINE Good(m) == \A array \in DOMAIN m :
                        Tabulated(m[array]) /\ \E n \in Nat : DOMAIN m[array] = 0 .. n - 1
<1>1. ASSUME NEW b \in {"conv2d", "relu", "dither"} PROVE Good(Data[b])
  <2>1. Tabulated(Data[b]["input"]) /\ Tabulated(Data[b]["output"]) /\ DATA_SIZE(b) \in Nat
    BY <1>1, InputWords DEF Suited
  <2>2. PICK n \in Nat : n = DATA_SIZE(b)
    BY <2>1
  <2>3. /\ DOMAIN Data[b] = {"input", "output"}
        /\ DOMAIN Data[b]["input"] = 0 .. n - 1 /\ DOMAIN Data[b]["output"] = 0 .. n - 1
    BY <1>1, <2>2, InputArrays
  <2> QED BY <2>1, <2>3
<1>2. Good(Data["fft"])
  <2>1. PICK s, t : /\ s = Given["fft"][1] /\ t = Given["fft"][2]
                    /\ s \in Seq(Int) /\ t \in Seq(Int)
    BY DEF Suited, WordsGiven
  <2>2. ASSUME NEW r \in Seq(Int)
        PROVE  Tabulated(Array(r)) /\ \E n \in Nat : DOMAIN Array(r) = 0 .. n - 1
    <3>1. Len(r) \in Nat
      BY LenProperties
    <3> QED BY <3>1 DEF Array, Tabulated
  <2>3. Data["fft"] = [real |-> Array(s), imag |-> Array(t)]
    BY <2>1, Arrays DEF FftData
  <2> QED BY <2>1, <2>2, <2>3
<1>3. Good(Data["test"])
  <2>1. Tabulated(Zeros(TEST)) /\ DOMAIN Zeros(TEST) = 0 .. TEST - 1 /\ TEST \in Nat
    BY GivenAssumption DEF Zeros, Tabulated
  <2> QED BY <2>1, Arrays DEF TestData
<1>4. Good(Data["minsearch"])
  <2>1. PICK s : s = Given["minsearch"][1] /\ s \in Seq(Int)
    BY DEF Suited, WordsGiven
  <2>2. PICK n \in Nat : n = Len(s)
    BY <2>1, LenProperties
  <2>3. /\ Tabulated(Array(s)) /\ DOMAIN Array(s) = 0 .. n - 1
        /\ Tabulated(Zeros(4)) /\ DOMAIN Zeros(4) = 0 .. 4 - 1
    BY <2>2 DEF Array, Zeros, Tabulated
  <2>4. Data["minsearch"] = [input |-> Array(s), output |-> Zeros(4)]
    BY <2>1, Arrays DEF MinSearchData, InputAndZeros
  <2>5. PICK m : m = Data["minsearch"]
    OBVIOUS
  <2>6. DOMAIN m = {"input", "output"} /\ m["input"] = Array(s) /\ m["output"] = Zeros(4)
    BY <2>4, <2>5
  <2>7. Good(m)
    BY <2>3, <2>6
  <2> QED BY <2>5, <2>7
<1>5. a \in {"conv2d", "relu", "dither"} \/ a = "fft" \/ a = "test" \/ a = "minsearch"
  BY DEF Apps, Program
<1> QED BY <1>1, <1>2, <1>3, <1>4, <1>5

\* What is known of a run that is under way: its kernel, that its vectors lie in
\* their arrays, and that none is stored where another is still read or stored.
UnderWay(x) ==
    LET k == x.runs.held
    IN  /\ k \in KernelNames /\ Spares(k, regs.params)
        /\ StoresApart(regs.params) /\ AllPlaced(regs.params)
        /\ \A c \in Columns : Inside(app, Fetches(c)) /\ Inside(app, Stores(c))

LEMMA RunUnderWay ==
  ASSUME NEW x, Described(x), Suited(app), acc.state # "idle"
  PROVE  UnderWay(x)
<1>1. /\ x.runs.held \in KernelNames /\ MayRun(app, x.runs.held, regs.params)
  BY DEF Described, Holds
<1>2. Fits(app, x.runs.held, regs.params) /\ StoresApart(regs.params)
  BY <1>1 DEF MayRun, Suited
<1>3. Spares(x.runs.held, regs.params) /\ AllPlaced(regs.params)
  BY <1>2 DEF Fits, Spares, AllPlaced
<1>4. \A c \in Columns : Inside(app, Fetches(c)) /\ Inside(app, Stores(c))
  BY <1>2 DEF Fits, Balances, Fetches, Stores
<1> QED BY <1>1, <1>2, <1>3, <1>4 DEF UnderWay

LEMMA InBounds ==
  ASSUME SameArrays(app), app \in Apps, Suited(app), NEW s, Placed(s), Inside(app, s),
         NEW j \in 0 .. s.n - 1
  PROVE  s.array \in DOMAIN mem /\ s.at + j \in DOMAIN mem[s.array]
<1>1. PICK at \in Nat, n \in Nat : at = s.at /\ n = s.n
  BY DEF Placed
<1>2. s.array \in DOMAIN Data[app] /\ at + n - 1 \in DOMAIN Data[app][s.array]
  BY <1>1 DEF Inside
<1>3. DOMAIN mem = DOMAIN Data[app] /\ DOMAIN mem[s.array] = DOMAIN Data[app][s.array]
  BY <1>2 DEF SameArrays
<1>4. PICK m \in Nat : DOMAIN mem[s.array] = 0 .. m - 1
  BY <1>2, <1>3, DataDomains
<1>5. at + j \in 0 .. m - 1
  BY <1>1, <1>2, <1>3, <1>4
<1> QED BY <1>1, <1>2, <1>3, <1>4, <1>5

\* Nothing of it changes while main or a run does something else.
LEMMA FollowsOn ==
  ASSUME NEW x, NEW w, w.runs.world = x.runs.world, Follows(x), UNCHANGED <<tables, mem>>,
         acc.state = "idle", acc'.state = "idle"
  PROVE  Follows(w)'
BY DEF Follows, Alike

LEMMA FollowsSame ==
  ASSUME NEW x, Follows(x), UNCHANGED <<tables, mem>>, regs'.params = regs.params,
         acc'.got = acc.got, acc'.put = acc.put,
         acc.state = "idle" <=> acc'.state = "idle"
  PROVE  Follows(x)'
<1>1. \A v : Began(x.runs.held, v)' <=> Began(x.runs.held, v)
  BY DEF Began, Written, Fetches, Stores
<1> QED BY <1>1 DEF Follows, Alike

\* A START finds memory as main knows it.
LEMMA FollowsStart ==
  ASSUME NEW x, NEW w, NEW k, Follows(x), acc.state = "idle", Spares(k, regs.params),
         w.runs.held = k, w.runs.world = Ran(k, regs.params, x.runs.world),
         UNCHANGED <<tables, mem>>, regs'.params = regs.params,
         NEW r, acc' = [Idle(r) EXCEPT !.state = "started"]
  PROVE  Follows(w)'
<1>1. PICK v : v = x.runs.world
  OBVIOUS
<1>2. /\ acc'.state = "started" /\ \A c \in Columns : acc'.got[c] = <<>> /\ acc'.put[c] = 0
  BY DEF Idle
<1>3. /\ w.runs.world.tables = v.tables /\ w.runs.world.mem = Left(k, regs.params, v)
  BY <1>1 DEF Ran, World
<1>4. /\ v.tables = tables /\ DOMAIN v.mem = DOMAIN mem
      /\ \A array \in DOMAIN mem : v.mem[array] = mem[array]
  BY <1>1 DEF Follows, Alike
<1>5. \A c \in Columns : Placed(regs.params.imn[c]) /\ Placed(regs.params.omn[c])
  BY DEF Spares
<1>6. \A array, i : ~Written(array, i)'
  <2> SUFFICES ASSUME NEW c \in Columns, NEW i, i \in Stores(c)'.at .. Stores(c)'.at + acc'.put[c] - 1
               PROVE  FALSE
    BY DEF Written
  <2>1. PICK at \in Nat : at = Stores(c)'.at
    BY <1>5 DEF Placed, Stores
  <2> QED BY <1>2, <2>1
<1>7. Begins(acc'.got, Inputs(regs'.params, v.mem))
  <2>1. Len(<<>>) = 0 /\ 1 .. 0 = {}
    OBVIOUS
  <2>2. PICK p : p = regs.params /\ \A c \in Columns : p.imn[c].n \in Nat
    BY <1>5 DEF Placed
  <2>3. \A c \in Columns : Len(Inputs(p, v.mem)[c]) = p.imn[c].n
    BY <2>2, InputsAre
  <2>4. \A c \in Columns : 0 <= Len(Inputs(p, v.mem)[c])
    BY <2>2, <2>3
  <2> QED BY <1>2, <2>1, <2>2, <2>4 DEF Begins
<1>8. \A c, d \in Columns : acc'.put[c] <= Stores(c)'.n /\ acc'.put[c] <= Len(acc'.got[d])
  BY <1>2, <1>5 DEF Stores, Placed
<1>9. Began(k, v)'
  BY <1>4, <1>6, <1>7, <1>8 DEF Began
<1> QED BY <1>2, <1>3, <1>4, <1>9 DEF Follows

\* A word that is fetched is one that the run has not stored.
LEMMA FollowsFetch ==
  ASSUME Moved, app \in Apps, Suited(app), NEW x, Described(x), Follows(x), UnderWay(x),
         DOMAIN acc = {"state", "run", "got", "put"}, NEW c \in Columns, Fetch(c)
  PROVE  Follows(x)'
<1>1. PICK k, p, array : k = x.runs.held /\ p = regs.params /\ array = Fetches(c).array
  OBVIOUS
<1>2. PICK v : Began(k, v) /\ x.runs.world.mem = Left(k, p, v)
  BY <1>1 DEF Follows, Fetch
<1>3. PICK at \in Nat, n \in Nat, j \in Nat :
        /\ Fetches(c).array = array /\ Fetches(c).at = at /\ Fetches(c).n = n
        /\ j = Len(acc.got[c]) /\ j < n
  <2>1. Placed(Fetches(c)) /\ Len(acc.got[c]) \in Nat
    BY LenProperties DEF UnderWay, Spares, Fetches, Moved, AreStreams
  <2>2. /\ Fetches(c).at \in Nat /\ Fetches(c).n \in Nat
        /\ Len(acc.got[c]) < Fetches(c).n
    BY <2>1 DEF Placed, Fetch
  <2> QED BY <1>1, <2>1, <2>2
<1>4. PICK e : e = mem[array][at + j] /\ acc' = [acc EXCEPT !.got[c] = Append(@, e)]
  BY <1>3 DEF Fetch
<1>5. /\ acc'.state = acc.state /\ acc'.put = acc.put /\ acc.state = "exec"
      /\ acc'.got = [acc.got EXCEPT ![c] = Append(acc.got[c], e)]
      /\ UNCHANGED <<regs, tables, mem>>
  BY <1>4 DEF Fetch
<1>6. array \in DOMAIN mem /\ at + j \in DOMAIN mem[array]
  <2>1. j \in 0 .. Fetches(c).n - 1
    BY <1>3
  <2>2. Placed(Fetches(c)) /\ Inside(app, Fetches(c)) /\ SameArrays(app)
    BY DEF UnderWay, Spares, Fetches, Described
  <2> QED BY <1>3, <2>1, <2>2, InBounds
<1>7. ~Written(array, at + j)
  <2> SUFFICES ASSUME NEW d \in Columns, Stores(d).array = array,
                      at + j \in Stores(d).at .. Stores(d).at + acc.put[d] - 1
               PROVE  FALSE
    BY DEF Written
  <2>1. PICK to \in Nat, m \in Nat, q \in Nat :
          to = Stores(d).at /\ m = Stores(d).n /\ q = acc.put[d] /\ q <= m
    <3>1. /\ Stores(d).at \in Nat /\ Stores(d).n \in Nat
      BY DEF UnderWay, Spares, Placed, Stores
    <3>2. acc.put[d] \in Nat /\ acc.put[d] <= Stores(d).n
      BY <1>2 DEF Moved, Began
    <3> QED BY <3>1, <3>2
  <2>2. at + j - to \in 0 .. q - 1 /\ to + (at + j - to) = at + j
    BY <2>1
  <2>3. at + j - to \in 0 .. m - 1 /\ j \in 0 .. n - 1
    <3>1. j < n /\ q <= m
      BY <1>3, <2>1
    <3> QED BY <2>2, <3>1
  <2>4. ~Apart(Stores(d), Fetches(c))
    BY <1>3, <2>1, <2>2, <2>3 DEF Apart
  <2>5. Stores(d) = Fetches(c) /\ WaitsFor(k, d, c)
    BY <1>1, <2>4 DEF UnderWay, Spares, Stores, Fetches
  <2>6. q <= j
    BY <1>2, <1>3, <2>1, <2>5 DEF Began
  <2>7. to = at
    BY <1>3, <2>1, <2>5
  <2> QED BY <2>2, <2>6, <2>7
<1>8. e = v.mem[array][at + j]
  BY <1>2, <1>4, <1>6, <1>7 DEF Began
<1>9. PICK s, t, S : /\ s = acc.got[c] /\ t = Inputs(p, v.mem)[c] /\ s \in Seq(S)
                    /\ t = [i \in 1 .. n |-> v.mem[array][at + i - 1]]
  <2>1. Inputs(p, v.mem)[c] = [i \in 1 .. n |-> v.mem[array][at + i - 1]]
    BY <1>1, <1>3 DEF Inputs, Taken, Fetches
  <2> QED BY <2>1 DEF Moved, AreStreams
<1>10. /\ Len(Append(s, e)) = j + 1 /\ Append(s, e)[j + 1] = e
       /\ \A i \in 1 .. j : Append(s, e)[i] = s[i]
  <2>1. s \in Seq(S \cup {e}) /\ e \in S \cup {e}
    BY <1>9
  <2> QED BY <1>3, <1>9, <2>1, AppendProperties
<1>11. Len(t) = n /\ t[j + 1] = e /\ \A i \in 1 .. j : s[i] = t[i]
  <2>1. Len(t) = n
    BY <1>9
  <2>2. j + 1 \in 1 .. n /\ at + (j + 1) - 1 = at + j
    BY <1>3
  <2>3. \A i \in 1 .. j : s[i] = t[i]
    <3>1. Begins(acc.got, Inputs(p, v.mem))
      BY <1>1, <1>2 DEF Began
    <3> QED BY <1>3, <1>9, <3>1 DEF Begins
  <2> QED BY <1>8, <1>9, <2>1, <2>2, <2>3
<1>12. Begins(acc'.got, Inputs(p, v.mem))
  <2>1. Len(acc'.got[c]) <= Len(t) /\ \A i \in 1 .. Len(acc'.got[c]) : acc'.got[c][i] = t[i]
    <3>1. acc'.got[c] = Append(s, e)
      BY <1>5, <1>9 DEF Moved
    <3>2. \A i \in 1 .. j + 1 : i \in 1 .. j \/ i = j + 1
      BY <1>3
    <3>3. j + 1 <= n
      BY <1>3
    <3> QED BY <1>10, <1>11, <3>1, <3>2, <3>3
  <2>2. \A d \in Columns : d # c => acc'.got[d] = acc.got[d]
    BY <1>5 DEF Moved
  <2>3. Begins(acc.got, Inputs(p, v.mem))
    BY <1>1, <1>2 DEF Began
  <2> DEFINE Begun(d) == Len(acc'.got[d]) <= Len(Inputs(p, v.mem)[d]) /\
               \A i \in 1 .. Len(acc'.got[d]) : acc'.got[d][i] = Inputs(p, v.mem)[d][i]
  <2>4. Begun(c)
    BY <1>9, <2>1
  <2>5. ASSUME NEW d \in Columns, d # c PROVE Begun(d)
    BY <2>2, <2>3, <2>5 DEF Begins
  <2> QED BY <2>4, <2>5 DEF Begins
<1>13. ASSUME NEW d \in Columns, NEW f \in Columns, WaitsFor(k, d, f)
       PROVE  acc'.put[d] <= Len(acc'.got[f])
  <2>1. acc.put[d] <= Len(acc.got[f]) /\ acc.put[d] \in Nat
    BY <1>2, <1>13 DEF Began, Moved
  <2>2. CASE f = c
    <3>1. Len(acc'.got[f]) = j + 1 /\ Len(acc.got[f]) = j
      BY <1>3, <1>5, <1>9, <1>10, <2>2 DEF Moved
    <3> QED BY <1>3, <1>5, <2>1, <3>1
  <2>3. CASE f # c
    <3>1. acc'.got[f] = acc.got[f]
      BY <1>5, <2>3 DEF Moved
    <3> QED BY <1>5, <2>1, <3>1
  <2> QED BY <2>2, <2>3
<1>14. Began(k, v)'
  <2>1. \A a, i : Written(a, i)' <=> Written(a, i)
    BY <1>5 DEF Written, Stores
  <2> QED BY <1>1, <1>2, <1>5, <1>12, <1>13, <2>1 DEF Began, Stores
<1> QED BY <1>1, <1>2, <1>5, <1>14 DEF Follows

\* A word that is stored is one of those that the run leaves.
LEMMA FollowsStore ==
  ASSUME Moved, app \in Apps, Suited(app), NEW x, Described(x), Follows(x), UnderWay(x),
         DOMAIN acc = {"state", "run", "got", "put"}, NEW c \in Columns, StoreWord(c)
  PROVE  Follows(x)'
<1>1. PICK k, p, array : k = x.runs.held /\ p = regs.params /\ array = Stores(c).array
  OBVIOUS
<1>2. PICK v : Began(k, v) /\ x.runs.world.mem = Left(k, p, v)
  BY <1>1 DEF Follows, StoreWord
<1>3. PICK at \in Nat, n \in Nat, j \in Nat :
        /\ Stores(c).array = array /\ Stores(c).at = at /\ Stores(c).n = n
        /\ j = acc.put[c] /\ j < n
  <2>1. Placed(Stores(c)) /\ acc.put[c] \in Nat
    BY DEF UnderWay, Spares, Stores, Moved
  <2>2. /\ Stores(c).at \in Nat /\ Stores(c).n \in Nat
        /\ acc.put[c] < Stores(c).n
    BY <2>1 DEF Placed, StoreWord
  <2> QED BY <1>1, <2>1, <2>2
<1>4. PICK e : e = Made[c][j + 1] /\ mem' = [mem EXCEPT ![array][at + j] = e]
  BY <1>3 DEF StoreWord
<1>5. /\ acc'.state = acc.state /\ acc'.got = acc.got /\ acc.state = "exec"
      /\ acc'.put = [acc.put EXCEPT ![c] = j + 1]
      /\ UNCHANGED <<regs, tables>>
  BY <1>3 DEF StoreWord
<1>6. array \in DOMAIN mem /\ at + j \in DOMAIN mem[array]
  <2>1. j \in 0 .. Stores(c).n - 1
    BY <1>3
  <2>2. Placed(Stores(c)) /\ Inside(app, Stores(c)) /\ SameArrays(app)
    BY DEF UnderWay, Spares, Stores, Described
  <2> QED BY <1>3, <2>1, <2>2, InBounds
<1>7. /\ DOMAIN mem' = DOMAIN mem
      /\ \A a \in DOMAIN mem : DOMAIN mem'[a] = DOMAIN mem[a]
      /\ mem'[array][at + j] = e
      /\ \A a \in DOMAIN mem : \A i \in DOMAIN mem[a] :
           a # array \/ i # at + j => mem'[a][i] = mem[a][i]
  BY <1>4, <1>6
<1>8. \A a \in DOMAIN mem' : Tabulated(mem'[a])
  <2>1. \A a \in DOMAIN mem : Tabulated(mem[a])
    BY DEF Follows
  <2>2. ASSUME NEW f, NEW i, NEW g, g = [f EXCEPT ![i] = e] PROVE Tabulated(g)
    BY <2>2 DEF Tabulated
  <2>3. ASSUME NEW a \in DOMAIN mem PROVE Tabulated(mem'[a])
    <3>1. CASE a = array
      <4>1. mem'[a] = [mem[a] EXCEPT ![at + j] = e]
        BY <1>4, <3>1
      <4> QED BY <2>2, <4>1
    <3>2. CASE a # array
      <4>1. mem'[a] = mem[a]
        BY <1>4, <3>2
      <4> QED BY <2>1, <4>1
    <3> QED BY <3>1, <3>2
  <2> QED BY <1>7, <2>3
<1>9. e = Yield(k, p, v)[c][j + 1] /\ \A d \in Columns : WaitsFor(k, c, d) => j + 1 <= Len(acc.got[d])
  <2>1. conf.kernel = k /\ conf.words = tables[k]
    BY <1>1, <1>5 DEF Described, Holds, UnderWay
  <2>2. v.tables = tables /\ Begins(acc.got, Inputs(p, v.mem))
    BY <1>1, <1>2 DEF Began
  <2>3. AreStreams(acc.got) /\ AreStreams(Inputs(p, v.mem))
    <3>1. \A d \in Columns : p.imn[d].n \in Nat
      BY <1>1 DEF UnderWay, Spares, Placed
    <3> QED BY <3>1, InputsAre DEF Moved
  <2>4. PICK w : w = tables[k]
    OBVIOUS
  <2>5. Made = Outputs(k, w, acc.got) /\ k \in KernelNames /\ Timed(k, w)
    BY <1>1, <2>1, <2>4 DEF Made, UnderWay, Follows, Timed
  <2>6. PICK m \in Nat : m = Len(Made[c])
    <3>1. Lengths(Made)
      BY <2>3, <2>5, YieldLengths, SearchLengths
    <3> QED BY <3>1 DEF Lengths
  <2>7. j + 1 \in 1 .. m
    BY <1>3, <2>6 DEF StoreWord
  <2>8. Outputs(k, w, acc.got)[c][j + 1] = Outputs(k, w, Inputs(p, v.mem))[c][j + 1]
    <3>1. j + 1 \in 1 .. Len(Outputs(k, w, acc.got)[c])
      BY <2>5, <2>6, <2>7
    <3> QED BY <2>2, <2>3, <2>5, <3>1, OutputsGrow
  <2>9. ASSUME NEW d \in Columns, WaitsFor(k, c, d) PROVE j + 1 <= Len(acc.got[d])
    <3>1. m <= Len(acc.got[d]) /\ Len(acc.got[d]) \in Nat
      BY <2>3, <2>5, <2>6, <2>9, LenProperties DEF WaitsFor, AreStreams
    <3> QED BY <2>7, <3>1
  <2> QED BY <1>4, <2>2, <2>4, <2>5, <2>8, <2>9 DEF Yield
<1>10. Left(k, p, v)[array][at + j] = e
  <2>1. array \in DOMAIN v.mem /\ at + j \in DOMAIN v.mem[array]
    BY <1>2, <1>6 DEF Began
  <2>2. PICK i \in DOMAIN v.mem[array] : i = at + j
    BY <2>1
  <2>3. p.omn[c].array = array /\ p.omn[c].at = at /\ j \in 0 .. p.omn[c].n - 1
    BY <1>1, <1>3 DEF Stores
  <2>4. StoresApart(p) /\ AllPlaced(p)
    BY <1>1 DEF UnderWay
  <2> QED BY <1>9, <2>1, <2>2, <2>3, <2>4, LeftAt
<1>11. \A a, i : Written(a, i)' <=> Written(a, i) \/ (a = array /\ i = at + j)
  <2> DEFINE Has(d, i) == i \in Stores(d).at .. Stores(d).at + acc.put[d] - 1
  <2>1. UNCHANGED regs /\ \A d \in Columns : d # c => acc'.put[d] = acc.put[d]
    BY <1>5 DEF Moved
  <2>2. acc'.put[c] = j + 1
    BY <1>5 DEF Moved
  <2>3. ASSUME NEW d \in Columns, d # c, NEW i PROVE Has(d, i)' <=> Has(d, i)
    BY <2>1, <2>3 DEF Stores
  <2>4. ASSUME NEW i PROVE Has(c, i)' <=> Has(c, i) \/ i = at + j
    <3>1. Stores(c)' = Stores(c)
      BY <2>1 DEF Stores
    <3>2. Has(c, i) <=> i \in at .. at + j - 1
      BY <1>3
    <3>3. Has(c, i)' <=> i \in at .. at + (j + 1) - 1
      BY <1>3, <2>2, <3>1
    <3> HIDE DEF Has
    <3> QED BY <1>3, <3>2, <3>3
  <2>5. \A d \in Columns : Stores(d)' = Stores(d)
    BY <2>1 DEF Stores
  <2>6. /\ \A a, i : Written(a, i) <=> \E d \in Columns : Stores(d).array = a /\ Has(d, i)
        /\ \A a, i : Written(a, i)' <=> \E d \in Columns : Stores(d).array = a /\ Has(d, i)'
    BY <2>5 DEF Written
  <2> HIDE DEF Has
  <2> QED BY <1>3, <2>3, <2>4, <2>6
<1>12. ASSUME NEW a \in DOMAIN mem, NEW i \in DOMAIN mem[a]
       PROVE  mem'[a][i] = IF Written(a, i)' THEN Left(k, p, v)[a][i] ELSE v.mem[a][i]
  <2>1. mem[a][i] = IF Written(a, i) THEN Left(k, p, v)[a][i] ELSE v.mem[a][i]
    BY <1>1, <1>2 DEF Began
  <2> QED BY <1>7, <1>10, <1>11, <2>1
<1>13. \A d \in Columns : acc'.put[d] <= Stores(d).n
  <2>1. ASSUME NEW d \in Columns, d # c PROVE acc'.put[d] <= Stores(d).n
    BY <1>2, <1>5, <2>1 DEF Began, Moved
  <2>2. acc'.put[c] <= Stores(c).n
    BY <1>3, <1>5 DEF Moved
  <2> QED BY <2>1, <2>2
<1>14. ASSUME NEW d \in Columns, NEW f \in Columns, WaitsFor(k, d, f)
       PROVE  acc'.put[d] <= Len(acc'.got[f])
  <2>1. CASE d = c
    BY <1>5, <1>9, <1>14, <2>1 DEF Moved
  <2>2. CASE d # c
    BY <1>2, <1>5, <1>14, <2>2 DEF Began, Moved
  <2> QED BY <2>1, <2>2
<1>15. Began(k, v)'
  <2>1. DOMAIN v.mem = DOMAIN mem' /\ v.tables = tables'
    BY <1>2, <1>5, <1>7 DEF Began
  <2>2. \A a \in DOMAIN mem' : DOMAIN v.mem[a] = DOMAIN mem'[a]
    BY <1>2, <1>7 DEF Began
  <2>3. Begins(acc'.got, Inputs(regs'.params, v.mem))
    BY <1>2, <1>5 DEF Began
  <2>4. \A d \in Columns : Stores(d)' = Stores(d)
    BY <1>5 DEF Stores
  <2>5. \A a \in DOMAIN mem' : \A i \in DOMAIN mem'[a] :
          mem'[a][i] = IF Written(a, i)' THEN Left(k, regs'.params, v)[a][i] ELSE v.mem[a][i]
    BY <1>1, <1>5, <1>7, <1>12
  <2> QED BY <1>13, <1>14, <2>1, <2>2, <2>3, <2>4, <2>5 DEF Began
<1> QED BY <1>1, <1>2, <1>5, <1>8, <1>15 DEF Follows

\* What a run leaves is there when every node has moved its words.
LEMMA FollowsEnd ==
  ASSUME NEW x, Follows(x), DOMAIN acc = {"state", "run", "got", "put"}, End
  PROVE  Follows(x)'
<1>1. PICK k, p : k = x.runs.held /\ p = regs.params
  OBVIOUS
<1>2. PICK v : Began(k, v) /\ x.runs.world.mem = Left(k, p, v)
  BY <1>1 DEF Follows, End
<1>3. acc'.state = "idle" /\ UNCHANGED <<tables, mem>> /\ \A c \in Columns : acc.put[c] = Stores(c).n
  BY DEF End
<1>4. \A a, i : Written(a, i) <=> Covered(p, a, i)
  BY <1>1, <1>3 DEF Written, Covered, Covers, Stores
<1>5. DOMAIN v.mem = DOMAIN mem /\ DOMAIN Left(k, p, v) = DOMAIN mem
  BY <1>2, LeftDomains DEF Began
<1>6. ASSUME NEW a \in DOMAIN mem PROVE Left(k, p, v)[a] = mem[a]
  <2>1. DOMAIN Left(k, p, v)[a] = DOMAIN v.mem[a] /\ Tabulated(Left(k, p, v)[a])
    BY <1>5, LeftDomains
  <2>2. DOMAIN v.mem[a] = DOMAIN mem[a] /\ Tabulated(mem[a])
    BY <1>2 DEF Began, Follows
  <2>3. ASSUME NEW i \in DOMAIN mem[a] PROVE Left(k, p, v)[a][i] = mem[a][i]
    <3>1. mem[a][i] = IF Written(a, i) THEN Left(k, p, v)[a][i] ELSE v.mem[a][i]
      BY <1>1, <1>2 DEF Began
    <3>2. ~Covered(p, a, i) => Left(k, p, v)[a][i] = v.mem[a][i]
      BY <1>5, <2>2, LeftElse
    <3> QED BY <1>4, <3>1, <3>2
  <2>4. PICK f, g : f = Left(k, p, v)[a] /\ g = mem[a]
    OBVIOUS
  <2> QED BY <2>1, <2>2, <2>3, <2>4, SameTable
<1>7. Alike(x.runs.world.mem, mem)'
  BY <1>2, <1>3, <1>5, <1>6 DEF Alike
<1> QED BY <1>3, <1>7 DEF Follows

LEMMA KnownInit == Init => KnownToMain
<1> SUFFICES ASSUME Init PROVE KnownToMain
  OBVIOUS
<1>1. app \in Apps /\ todo = Program[app]
  BY RunningAssumption DEF Init
<1>2. PICK y : Leads(todo, Fresh(app), y) /\ Exact(app, y)
  BY <1>1, ProgramsEnd
<1>3. /\ Fresh(app).params = NoParams
      /\ Fresh(app).runs = Runs(Loaded(app), NoKernel, FALSE, 0, {})
  BY DEF Fresh, Known
<1>4. NoKernel \notin KernelNames
  BY Names DEF NoKernel
<1>5. Holds(Fresh(app))
  BY <1>3, <1>4 DEF Init, Holds, Runs, Idle
<1>6. Counts(Fresh(app))
  <2>1. Fresh(app).runs.on = FALSE /\ Fresh(app).runs.made = 0 /\ Fresh(app).runs.counted = {}
    BY <1>3 DEF Runs
  <2>2. regs.mode = {} /\ acc.state = "idle" /\ acc.run = 0 /\ counted = {}
    BY DEF Init, Idle
  <2>3. ("PERF_CTR_EN" \in regs.mode) = FALSE
    BY <2>2
  <2> QED BY <2>1, <2>2, <2>3 DEF Counts
<1>7. SameArrays(app) /\ DOMAIN tables = KernelNames
  BY DEF Init, SameArrays, KernelNames
<1>8. /\ Fresh(app).runs.world = Loaded(app)
      /\ Loaded(app).app = app /\ Loaded(app).tables = KernelWords /\ Loaded(app).mem = Data[app]
  BY <1>3 DEF Runs, Loaded, World
<1>9. Suited(app) => Follows(Fresh(app))
  <2>1. acc.state = "idle" /\ tables = KernelWords /\ mem = Data[app]
    BY DEF Init, Idle
  <2>2. Delayed(KernelWords["minsearch"])
    BY DEF KernelWords, Delayed, DelayWords
  <2> QED BY <1>1, <1>8, <2>1, <2>2, DataDomains DEF Follows, Alike
<1>10. Described(Fresh(app))
  <2>1. Fresh(app).params = regs.params /\ Fresh(app).runs.world.app = app
    BY <1>3, <1>8 DEF Init
  <2>2. regs.params = Params(regs.params.conf_addr, regs.params.imn, regs.params.omn)
    BY DEF Init, NoParams, Params
  <2> QED BY <1>5, <1>6, <1>7, <1>9, <2>1, <2>2 DEF Described
<1> QED BY <1>2, <1>10 DEF KnownToMain

\* What main knows before and after its next access.
LEMMA KnownNext ==
  ASSUME IInv, KnownToMain, NEW op, Step(op)
  PROVE  \E x, w, y : Described(x) /\ Does(Now, x, w) /\ Leads(todo', w, y) /\ Exact(app', y)
<1>1. PICK x, y : Leads(todo, x, y) /\ Exact(app, y) /\ Described(x)
  BY DEF KnownToMain
<1>2. todo # <<>> /\ todo' = Tail(todo) /\ Now = Head(todo) /\ app' = app
  BY DEF Step, At, Done, Now
<1>3. \E w : Does(Head(todo), x, w) /\ Leads(Tail(todo), w, y)
  BY <1>1, <1>2, LeadsOn
<1> QED BY <1>1, <1>2, <1>3

LEMMA QuietKnown ==
  ASSUME IInv, KnownToMain, Enable \/ PollDone \/ UnflagIntr \/ WaitDone \/ ReadReport
  PROVE  KnownToMain'
<1>1. PICK op \in {"enable", "poll", "unflag", "wait", "read"} : Step(op)
  BY DEF Enable, PollDone, UnflagIntr, WaitDone, ReadReport
<1>2. UNCHANGED <<app, regs, conf, tables, mem, acc, counted>>
  BY <1>1 DEF Enable, PollDone, UnflagIntr, WaitDone, ReadReport, Step
<1>3. PICK x, w, y : Described(x) /\ Does(Now, x, w) /\ Leads(todo', w, y) /\ Exact(app', y)
  BY <1>1, KnownNext
<1>4. Now.op = op
  BY <1>1 DEF Step, At
<1>5. w = x
  BY <1>1, <1>3, <1>4 DEF Does
<1>6. Described(x)'
  <2>1. Follows(x) => Follows(x)'
    BY <1>2, FollowsSame
  <2> QED BY <1>2, <1>3, <2>1 DEF Described, Holds, Counts, SameArrays
<1> QED BY <1>3, <1>5, <1>6 DEF KnownToMain

LEMMA WriteModeKnown == ASSUME IInv, KnownToMain, WriteMode PROVE KnownToMain'
<1>1. Step("mode") /\ Now.op = "mode"
  BY DEF WriteMode, Step, At
<1>2. acc.state = "idle"
  BY <1>1, MainStep
<1>3. PICK x, w, y : Described(x) /\ Does(Now, x, w) /\ Leads(todo', w, y) /\ Exact(app', y)
  BY <1>1, KnownNext
<1>4. w = Known(x.params, Runs(x.runs.world, x.runs.held, "PERF_CTR_EN" \in Now.bits,
                               x.runs.made, x.runs.counted))
  BY <1>1, <1>3 DEF Does
<1>5. /\ w.params = x.params /\ w.runs.world = x.runs.world /\ w.runs.held = x.runs.held
      /\ w.runs.on = ("PERF_CTR_EN" \in Now.bits) /\ w.runs.made = x.runs.made
      /\ w.runs.counted = x.runs.counted
  BY <1>4 DEF Known, Runs
<1>6. regs'.mode = Now.bits /\ regs'.params = regs.params /\ app' = app
      /\ UNCHANGED <<conf, tables, mem, acc, counted>>
  BY <1>1 DEF WriteMode, Step, IInv, Fields
<1>7. Described(w)'
  <2>1. Holds(w)'
    BY <1>2, <1>3, <1>5, <1>6 DEF Described, Holds
  <2>2. Counts(w)'
    BY <1>2, <1>3, <1>5, <1>6 DEF Described, Counts
  <2>3. Follows(x) => Follows(w)'
    BY <1>2, <1>5, <1>6, FollowsOn
  <2> QED BY <1>3, <1>5, <1>6, <2>1, <2>2, <2>3 DEF Described, SameArrays
<1> QED BY <1>3, <1>7 DEF KnownToMain

LEMMA WriteParamsKnown == ASSUME IInv, KnownToMain, WriteParams PROVE KnownToMain'
<1>1. PICK op : Step(op) /\ Now.op = op /\ op \in {"conf", "imn", "omn"}
  BY DEF WriteParams, Step, At
<1>2. acc.state = "idle"
  BY <1>1, MainStep
<1>3. PICK x, w, y : Described(x) /\ Does(Now, x, w) /\ Leads(todo', w, y) /\ Exact(app', y)
  BY <1>1, KnownNext
<1>4. /\ regs'.mode = regs.mode /\ app' = app /\ UNCHANGED <<conf, tables, mem, acc, counted>>
      /\ DOMAIN regs = {"mode", "done", "params"}
      /\ DOMAIN regs.params = {"conf_addr", "imn", "omn"}
  BY <1>1 DEF WriteParams, Step, IInv, Fields
<1>5. w.runs = x.runs /\ w.params = regs'.params
  <2>1. regs.params = Params(regs.params.conf_addr, regs.params.imn, regs.params.omn)
    BY <1>3 DEF Described
  <2>2. CASE op = "conf"
    <3>1. w = Known(Params(Now.kernel, x.params.imn, x.params.omn), x.runs)
      BY <1>1, <1>3, <2>2 DEF Does
    <3>2. regs'.params = Params(Now.kernel, regs.params.imn, regs.params.omn)
      BY <1>1, <1>4, <2>1, <2>2 DEF WriteParams, Step, At, Params
    <3> QED BY <1>3, <3>1, <3>2 DEF Known, Described
  <2>3. CASE op = "imn"
    <3>1. w = Known(Params(x.params.conf_addr, [x.params.imn EXCEPT ![Now.node] = Now.stream],
                           x.params.omn), x.runs)
      BY <1>1, <1>3, <2>3 DEF Does
    <3>2. regs'.params = Params(regs.params.conf_addr,
                                [regs.params.imn EXCEPT ![Now.node] = Now.stream],
                                regs.params.omn)
      BY <1>1, <1>4, <2>1, <2>3 DEF WriteParams, Step, At, Params
    <3> QED BY <1>3, <3>1, <3>2 DEF Known, Described
  <2>4. CASE op = "omn"
    <3>1. w = Known(Params(x.params.conf_addr, x.params.imn,
                           [x.params.omn EXCEPT ![Now.node] = Now.stream]), x.runs)
      BY <1>1, <1>3, <2>4 DEF Does
    <3>2. regs'.params = Params(regs.params.conf_addr, regs.params.imn,
                                [regs.params.omn EXCEPT ![Now.node] = Now.stream])
      BY <1>1, <1>4, <2>1, <2>4 DEF WriteParams, Step, At, Params
    <3> QED BY <1>3, <3>1, <3>2 DEF Known, Described
  <2> QED BY <1>1, <2>2, <2>3, <2>4
<1>6. Described(w)'
  <2>1. Holds(w)'
    BY <1>2, <1>3, <1>4, <1>5 DEF Described, Holds
  <2>2. Counts(w)'
    BY <1>2, <1>3, <1>4, <1>5 DEF Described, Counts
  <2>3. regs'.params = Params(regs'.params.conf_addr, regs'.params.imn, regs'.params.omn)
    <3>1. PICK k, i, o : w.params = Params(k, i, o)
      BY <1>1, <1>3 DEF Does, Known
    <3> QED BY <1>5, <3>1 DEF Params
  <2>4. Follows(x) => Follows(w)'
    BY <1>2, <1>4, <1>5, FollowsOn
  <2> QED BY <1>3, <1>4, <1>5, <2>1, <2>2, <2>3, <2>4 DEF Described, SameArrays
<1> QED BY <1>3, <1>6 DEF KnownToMain

LEMMA StoreArrayKnown == ASSUME IInv, KnownToMain, StoreArray PROVE KnownToMain'
<1>1. Step("store") /\ Now.op = "store"
  BY DEF StoreArray, Step, At
<1>2. acc.state = "idle"
  BY <1>1, MainStep
<1>3. PICK x, w, y : Described(x) /\ Does(Now, x, w) /\ Leads(todo', w, y) /\ Exact(app', y)
  BY <1>1, KnownNext
<1>4. /\ x.runs.world.app = app
      /\ Now.array \in DOMAIN Data[app] /\ DOMAIN Now.values = DOMAIN Data[app][Now.array]
      /\ Tabulated(Now.values)
      /\ w = Known(x.params, Runs(Stored(x.runs.world, Now.array, Now.values), x.runs.held,
                                  x.runs.on, x.runs.made, x.runs.counted))
  BY <1>1, <1>3 DEF Does, Described, Tabulated
<1>5. /\ w.params = x.params /\ w.runs.held = x.runs.held /\ w.runs.on = x.runs.on
      /\ w.runs.made = x.runs.made /\ w.runs.counted = x.runs.counted
      /\ w.runs.world = Stored(x.runs.world, Now.array, Now.values)
  BY <1>4 DEF Known, Runs
<1>6. /\ w.runs.world.app = x.runs.world.app /\ w.runs.world.tables = x.runs.world.tables
      /\ w.runs.world.mem = [x.runs.world.mem EXCEPT ![Now.array] = Now.values]
  BY <1>5 DEF Stored, World
<1>7. /\ mem' = [mem EXCEPT ![Now.array] = Now.values]
      /\ UNCHANGED <<app, regs, conf, tables, acc, counted>>
  BY <1>1 DEF StoreArray, Step
<1>8. SameArrays(app)'
  <2>1. SameArrays(app)
    BY <1>3 DEF Described
  <2> QED BY <1>4, <1>7, <2>1 DEF SameArrays
<1>9. Follows(x) => Follows(w)'
  BY <1>2, <1>4, <1>6, <1>7 DEF Follows, Alike
<1>10. Described(w)'
  <2>1. Holds(w)'
    BY <1>2, <1>3, <1>5, <1>7 DEF Described, Holds
  <2>2. Counts(w)'
    BY <1>2, <1>3, <1>5, <1>7 DEF Described, Counts
  <2> QED BY <1>3, <1>4, <1>5, <1>6, <1>7, <1>8, <1>9, <2>1, <2>2 DEF Described
<1> QED BY <1>3, <1>10 DEF KnownToMain

LEMMA PatchKnown == ASSUME IInv, KnownToMain, PatchKernel PROVE KnownToMain'
<1>1. Step("patch") /\ Now.op = "patch"
  BY DEF PatchKernel, Step, At
<1>2. acc.state = "idle"
  BY <1>1, MainStep
<1>3. PICK x, w, y : Described(x) /\ Does(Now, x, w) /\ Leads(todo', w, y) /\ Exact(app', y)
  BY <1>1, KnownNext
<1>4. w = Known(x.params, Runs(Changed(x.runs.world, Now.kernel, Now.word, Now.to),
                               IF x.runs.held = Now.kernel THEN "stale" ELSE x.runs.held,
                               x.runs.on, x.runs.made, x.runs.counted))
  BY <1>1, <1>3 DEF Does
<1>5. /\ w.params = x.params /\ w.runs.on = x.runs.on
      /\ w.runs.held = (IF x.runs.held = Now.kernel THEN "stale" ELSE x.runs.held)
      /\ w.runs.made = x.runs.made /\ w.runs.counted = x.runs.counted
      /\ w.runs.world = Changed(x.runs.world, Now.kernel, Now.word, Now.to)
  BY <1>4 DEF Known, Runs
<1>6. /\ w.runs.world.app = x.runs.world.app /\ w.runs.world.mem = x.runs.world.mem
      /\ w.runs.world.tables = [x.runs.world.tables EXCEPT ![Now.kernel][Now.word] = Now.to]
  BY <1>5 DEF Changed, World
<1>7. /\ tables' = [tables EXCEPT ![Now.kernel][Now.word] = Now.to]
      /\ UNCHANGED <<app, regs, conf, mem, acc, counted>>
  BY <1>1 DEF PatchKernel, Step
<1>8. DOMAIN tables' = KernelNames /\ \A k \in KernelNames : k # Now.kernel => tables'[k] = tables[k]
  BY <1>3, <1>7 DEF Described
<1>9. "stale" \notin KernelNames /\ "stale" # NoKernel
  BY Names DEF NoKernel
<1>10. Suited(app) /\ Follows(x) => Follows(w)'
  <2> SUFFICES ASSUME Suited(app), Follows(x) PROVE Follows(w)'
    OBVIOUS
  <2>1. Delayed(tables'["minsearch"])
    <3>1. CASE Now.kernel # "minsearch"
      <4>1. tables'["minsearch"] = tables["minsearch"]
        BY <1>8, <3>1, Names
      <4> QED BY <4>1 DEF Follows
    <3>2. CASE Now.kernel = "minsearch"
      <4>1. Now.to \in Nat \ {0}
        BY <1>1, <1>3, <3>2 DEF Does, Suited
      <4>2. "minsearch" \in DOMAIN tables
        BY <1>3, Names DEF Described
      <4>3. tables'["minsearch"] = [tables["minsearch"] EXCEPT ![Now.word] = Now.to]
        BY <1>7, <3>2, <4>2
      <4>4. ASSUME NEW v, NEW u, NEW i, NEW to \in Nat \ {0}, u = [v EXCEPT ![i] = to], Delayed(v)
            PROVE  Delayed(u)
        BY <4>4 DEF Delayed
      <4> QED BY <4>1, <4>3, <4>4 DEF Follows
    <3> QED BY <3>1, <3>2
  <2> QED BY <1>2, <1>6, <1>7, <2>1 DEF Follows, Alike
<1>11. Described(w)'
  <2>1. Holds(w)'
    BY <1>2, <1>3, <1>5, <1>7, <1>8, <1>9 DEF Described, Holds
  <2>2. Counts(w)'
    BY <1>2, <1>3, <1>5, <1>7 DEF Described, Counts
  <2> QED BY <1>3, <1>5, <1>6, <1>7, <1>8, <1>10, <2>1, <2>2 DEF Described, SameArrays
<1> QED BY <1>3, <1>11 DEF KnownToMain

\* What main clears is no longer held; a START begins the run that main counts on.
LEMMA WriteCtrlKnown == ASSUME IInv, KnownToMain, WriteCtrl PROVE KnownToMain'
<1>1. Step("ctrl") /\ Now.op = "ctrl"
  BY DEF WriteCtrl, Step, At
<1>2. acc.state = "idle" /\ acc.run \in Nat /\ conf.valid \in BOOLEAN
  BY <1>1, MainStep DEF IInv, TypeOK
<1>3. PICK x, w, y : Described(x) /\ Does(Now, x, w) /\ Leads(todo', w, y) /\ Exact(app', y)
  BY <1>1, KnownNext
<1>4. /\ regs'.mode = (IF "CLR" \in Now.bits THEN {} ELSE regs.mode)
      /\ regs'.params = (IF ClearsParams(Now.bits) THEN NoParams ELSE regs.params)
      /\ conf'.valid = (conf.valid /\ ~ClearsConf(Now.bits))
      /\ conf'.kernel = conf.kernel /\ conf'.words = conf.words
      /\ UNCHANGED <<app, tables, mem>>
  BY <1>1 DEF WriteCtrl, Step, IInv, Fields
<1>5. /\ regs'.params = Params(regs'.params.conf_addr, regs'.params.imn, regs'.params.omn)
      /\ SameArrays(app)' /\ DOMAIN tables' = KernelNames /\ app' = app
  <2>1. NoParams = Params(NoParams.conf_addr, NoParams.imn, NoParams.omn)
    BY DEF NoParams, Params
  <2> QED BY <1>3, <1>4, <2>1 DEF Described, SameArrays
<1>6. CASE Starts(Now)
  <2>1. /\ Now.bits = {"START"}
        /\ Executes(x) \in KernelNames /\ x.params.conf_addr \in {NoKernel, Executes(x)}
        /\ MayRun(x.runs.world.app, Executes(x), x.params)
        /\ w = Known(x.params, Runs(Ran(Executes(x), x.params, x.runs.world), Executes(x),
                                    x.runs.on, x.runs.made + 1,
                                    IF x.runs.on THEN x.runs.counted \cup {x.runs.made + 1}
                                    ELSE x.runs.counted))
    BY <1>1, <1>3, <1>6 DEF Does
  <2>2. /\ w.params = x.params /\ w.runs.world = Ran(Executes(x), x.params, x.runs.world)
        /\ w.runs.world.app = x.runs.world.app /\ w.runs.held = Executes(x)
        /\ w.runs.on = x.runs.on /\ w.runs.made = x.runs.made + 1
        /\ w.runs.counted = IF x.runs.on THEN x.runs.counted \cup {x.runs.made + 1}
                            ELSE x.runs.counted
    BY <2>1 DEF Known, Runs, Ran, World
  <2>3. ~ClearsParams(Now.bits) /\ ~ClearsConf(Now.bits) /\ ~ClearsCounters(Now.bits)
        /\ "CLR" \notin Now.bits
    BY <2>1 DEF ClearsParams, ClearsConf, ClearsCounters
  <2>4. /\ regs'.mode = regs.mode /\ regs'.params = regs.params /\ conf'.valid = conf.valid
        /\ counted' = counted /\ acc'.state = "started" /\ acc'.run = acc.run + 1
    BY <1>2, <1>4, <1>6, <2>3 DEF WriteCtrl, Starts, Idle
  <2>5. Holds(w)'
    <3>1. NoKernel \notin KernelNames
      BY Names DEF NoKernel
    <3>2. Holds(x) /\ x.params = regs.params /\ x.runs.world.app = app
      BY <1>3 DEF Described
    <3>3. /\ x.runs.held = NoKernel => ~conf.valid /\ Executes(x) = x.params.conf_addr
          /\ x.runs.held # NoKernel => conf.valid /\ Executes(x) = x.runs.held
      BY <1>2, <2>1, <3>2 DEF Holds, Executes
    <3>4. conf.valid => conf.kernel = Executes(x) /\ conf.words = tables[Executes(x)]
      BY <2>1, <3>2, <3>3 DEF Holds
    <3> QED BY <1>4, <2>1, <2>2, <2>4, <3>1, <3>2, <3>3, <3>4 DEF Holds
  <2>6. Counts(w)'
    BY <1>2, <1>3, <2>2, <2>4 DEF Described, Counts
  <2>7. Suited(app)' => Follows(w)'
    <3> SUFFICES ASSUME Suited(app) PROVE Follows(w)'
      BY <1>5
    <3>1. PICK k : k = Executes(x)
      OBVIOUS
    <3>2. Follows(x) /\ x.params = regs.params /\ x.runs.world.app = app
      BY <1>3 DEF Described
    <3>3. Spares(k, regs.params)
      BY <2>1, <3>1, <3>2 DEF MayRun, Fits, Suited
    <3>4. acc' = [Idle(acc.run + 1) EXCEPT !.state = "started"]
      BY <1>2, <1>6 DEF WriteCtrl, Starts
    <3>5. w.runs.held = k /\ w.runs.world = Ran(k, regs.params, x.runs.world)
      BY <2>2, <3>1, <3>2
    <3> QED BY <1>2, <1>4, <2>4, <3>2, <3>3, <3>4, <3>5, FollowsStart
  <2>8. Described(w)'
    BY <1>3, <1>5, <2>2, <2>4, <2>5, <2>6, <2>7 DEF Described
  <2> QED BY <1>3, <2>8 DEF KnownToMain
<1>7. CASE ~Starts(Now)
  <2>1. w = Known(IF ClearsParams(Now.bits) THEN NoParams ELSE x.params,
                  Runs(x.runs.world, IF ClearsConf(Now.bits) THEN NoKernel ELSE x.runs.held,
                       x.runs.on /\ "CLR" \notin Now.bits, x.runs.made,
                       IF ClearsCounters(Now.bits) THEN {} ELSE x.runs.counted))
    BY <1>1, <1>3, <1>7 DEF Does, Starts
  <2>2. /\ w.params = (IF ClearsParams(Now.bits) THEN NoParams ELSE x.params)
        /\ w.runs.world = x.runs.world
        /\ w.runs.held = (IF ClearsConf(Now.bits) THEN NoKernel ELSE x.runs.held)
        /\ w.runs.on = (x.runs.on /\ "CLR" \notin Now.bits) /\ w.runs.made = x.runs.made
        /\ w.runs.counted = (IF ClearsCounters(Now.bits) THEN {} ELSE x.runs.counted)
    BY <2>1 DEF Known, Runs
  <2>3. acc'.state = "idle" /\ acc'.run = acc.run
    BY <1>1, <1>2, <1>7 DEF WriteCtrl, Starts, Idle
  <2>4. Holds(w)'
    <3>1. NoKernel \notin KernelNames
      BY Names DEF NoKernel
    <3>2. Holds(x)
      BY <1>3 DEF Described
    <3> QED BY <1>2, <1>4, <2>2, <2>3, <3>1, <3>2 DEF Holds
  <2>5. Counts(w)'
    <3>1. /\ x.runs.on = ("PERF_CTR_EN" \in regs.mode) /\ x.runs.made = acc.run
          /\ x.runs.counted = counted
      BY <1>2, <1>3 DEF Described, Counts
    <3>2. w.runs.on = ("PERF_CTR_EN" \in regs'.mode)
      <4>1. CASE "CLR" \in Now.bits
        <5>1. ("PERF_CTR_EN" \in regs'.mode) = FALSE
          BY <1>4, <4>1
        <5> QED BY <2>2, <4>1, <5>1
      <4>2. CASE "CLR" \notin Now.bits
        <5>1. regs'.mode = regs.mode
          BY <1>4, <4>2
        <5>2. x.runs.on \in BOOLEAN
          BY <3>1
        <5> QED BY <2>2, <3>1, <4>2, <5>1, <5>2
      <4> QED BY <4>1, <4>2
    <3>3. counted' = IF ClearsCounters(Now.bits) THEN {} ELSE counted
      BY DEF WriteCtrl
    <3> QED BY <2>2, <2>3, <3>1, <3>2, <3>3 DEF Counts
  <2>6. Follows(x) => Follows(w)'
    BY <1>2, <1>4, <2>2, <2>3, FollowsOn
  <2>7. Described(w)'
    BY <1>3, <1>4, <1>5, <2>2, <2>4, <2>5, <2>6 DEF Described
  <2> QED BY <1>3, <2>7 DEF KnownToMain
<1> QED BY <1>6, <1>7

LEMMA ConfigureKnown == ASSUME IInv, KnownToMain, Configure PROVE KnownToMain'
<1>1. PICK x, y : Leads(todo, x, y) /\ Exact(app, y) /\ Described(x)
  BY DEF KnownToMain
<1>2. /\ acc.state = "started" /\ acc'.state = "exec" /\ acc'.run = acc.run
      /\ acc'.got = acc.got /\ acc'.put = acc.put
      /\ UNCHANGED <<app, todo, regs, tables, mem, counted>>
  BY DEF Configure, IInv, Fields
<1>3. /\ conf.valid => conf' = conf
      /\ ~conf.valid => /\ conf'.kernel = regs.params.conf_addr /\ conf'.valid
                        /\ regs.params.conf_addr # NoKernel =>
                             conf'.words = tables[regs.params.conf_addr]
  BY DEF Configure
<1>4. Holds(x)'
  <2>1. NoKernel \notin KernelNames
    BY Names DEF NoKernel
  <2>2. Holds(x) /\ x.params = regs.params
    BY <1>1 DEF Described
  <2> QED BY <1>2, <1>3, <2>1, <2>2 DEF Holds
<1>5. Follows(x) => Follows(x)'
  BY <1>2, FollowsSame
<1>6. Described(x)'
  BY <1>1, <1>2, <1>4, <1>5 DEF Described, Counts, SameArrays
<1> QED BY <1>1, <1>2, <1>6 DEF KnownToMain

LEMMA WordKnown ==
  ASSUME IInv, Moved, KnownToMain, NEW c \in Columns, Fetch(c) \/ StoreWord(c)
  PROVE  KnownToMain'
<1>1. PICK x, y : Leads(todo, x, y) /\ Exact(app, y) /\ Described(x)
  BY DEF KnownToMain
<1>2. /\ acc'.state = acc.state /\ acc'.run = acc.run /\ acc.state = "exec"
      /\ UNCHANGED <<app, todo, regs, conf, tables, counted>>
  BY DEF Fetch, StoreWord, IInv, Fields
<1>3. SameArrays(app)'
  <2>1. SameArrays(app)
    BY <1>1 DEF Described
  <2>2. CASE mem' = mem
    BY <1>2, <2>1, <2>2 DEF SameArrays
  <2>3. CASE StoreWord(c)
    <3>1. PICK array, i, v : mem' = [mem EXCEPT ![array][i] = v]
      BY <2>3 DEF StoreWord
    <3>2. DOMAIN mem' = DOMAIN mem /\ \A a \in DOMAIN mem : DOMAIN mem'[a] = DOMAIN mem[a]
      BY <3>1
    <3> QED BY <1>2, <2>1, <3>2 DEF SameArrays
  <2> QED BY <2>2, <2>3 DEF Fetch
<1>4. Suited(app)' => Follows(x)'
  <2> SUFFICES ASSUME Suited(app) PROVE Follows(x)'
    BY <1>2
  <2>1. Follows(x) /\ UnderWay(x)
    BY <1>1, <1>2, RunUnderWay DEF Described
  <2>2. app \in Apps /\ DOMAIN acc = {"state", "run", "got", "put"}
    BY RunningAssumption DEF IInv, TypeOK, Fields
  <2> QED BY <1>1, <2>1, <2>2, FollowsFetch, FollowsStore
<1>5. Described(x)'
  BY <1>1, <1>2, <1>3, <1>4 DEF Described, Holds, Counts
<1> QED BY <1>1, <1>2, <1>5 DEF KnownToMain

LEMMA EndKnown == ASSUME IInv, KnownToMain, End PROVE KnownToMain'
<1>1. PICK x, y : Leads(todo, x, y) /\ Exact(app, y) /\ Described(x)
  BY DEF KnownToMain
<1>2. /\ acc.state = "exec" /\ acc'.state = "idle" /\ acc'.run = acc.run
      /\ regs'.mode = regs.mode /\ regs'.params = regs.params
      /\ counted' = (IF "PERF_CTR_EN" \in regs.mode THEN counted \cup {acc.run} ELSE counted)
      /\ UNCHANGED <<app, todo, conf, tables, mem>>
  BY DEF End, IInv, Fields
<1>3. Holds(x)' /\ Counts(x)'
  BY <1>1, <1>2 DEF Described, Holds, Counts
<1>4. Follows(x) => Follows(x)'
  BY FollowsEnd DEF IInv, Fields
<1>5. Described(x)'
  BY <1>1, <1>2, <1>3, <1>4 DEF Described, SameArrays
<1> QED BY <1>1, <1>2, <1>5 DEF KnownToMain

LEMMA KnownStep == ASSUME IInv, Moved, KnownToMain, [Next]_vars PROVE KnownToMain'
<1>1. CASE Main
  BY <1>1, QuietKnown, WriteModeKnown, WriteParamsKnown, StoreArrayKnown, PatchKnown,
     WriteCtrlKnown DEF Main
<1>2. CASE Strela
  BY <1>2, ConfigureKnown, WordKnown, EndKnown DEF Strela
<1>3. CASE UNCHANGED vars
  <2>1. UNCHANGED <<app, todo, flag, irq, regs, conf, tables, mem, acc, counted>>
    BY <1>3 DEF vars
  <2>2. PICK x, y : Leads(todo, x, y) /\ Exact(app, y) /\ Described(x)
    BY DEF KnownToMain
  <2>3. Follows(x) => Follows(x)'
    BY <2>1, FollowsSame
  <2>4. Described(x)'
    BY <2>1, <2>2, <2>3 DEF Described, Holds, Counts, SameArrays
  <2> QED BY <2>1, <2>2, <2>4 DEF KnownToMain
<1> QED BY <1>1, <1>2, <1>3 DEF Next

LEMMA KnownInvariant == Spec => [](IInv /\ Moved /\ KnownToMain)
<1>1. Init => IInv /\ KnownToMain
  BY InvInit, KnownInit
<1>2. IInv /\ Moved /\ KnownToMain /\ [Next]_vars => IInv' /\ KnownToMain'
  BY InvStep, KnownStep
<1> QED BY <1>1, <1>2, MovedInvariant, PTL DEF Spec

-----------------------------------------------------------------------------
(* What the applications promise                                           *)

\* A run executes the kernel that main named last with its table as it reads now:
\* no START finds a configuration that was kept when its table was patched
\* (strela_conv2d/main.c:101-106) or none when the parameters were cleared
\* (strela_test/main.c:134-155).
THEOREM AppsKernelCurrent == Spec => []KernelIsCurrent
<1>1. ASSUME IInv, KnownToMain PROVE KernelIsCurrent
  <2>1. PICK x : Described(x)
    BY <1>1 DEF KnownToMain
  <2>2. NoKernel \notin KernelNames
    BY Names DEF NoKernel
  <2> QED BY <2>1, <2>2 DEF Described, Holds, KernelIsCurrent
<1> QED BY <1>1, KnownInvariant, PTL

\* Whenever main reads the performance counters they cover exactly the runs that
\* it reports (main.c, the report; strela_test/main.c:170-220, 303-356).
THEOREM AppsCountersExact == Spec => []CountersExact
<1>1. ASSUME IInv, KnownToMain PROVE CountersExact
  <2> SUFFICES ASSUME At("read") PROVE counted = Now.runs
    BY DEF CountersExact
  <2>1. PICK x, y : Leads(todo, x, y) /\ Described(x)
    BY <1>1 DEF KnownToMain
  <2>2. todo # <<>> /\ Now = Head(todo) /\ Now.op = "read"
    BY DEF At, Done, Now
  <2>3. acc.state = "idle"
    BY <1>1, <2>2 DEF IInv, InItsWait, Awaits
  <2>4. \E w : Does(Now, x, w)
    BY <2>1, <2>2, LeadsOn
  <2>5. x.runs.counted = Now.runs
    BY <2>2, <2>4 DEF Does
  <2> QED BY <2>1, <2>3, <2>5 DEF Described, Counts
<1> QED BY <1>1, KnownInvariant, PTL

\* Data sets that leave no vector empty give every run vectors for the columns its
\* kernel reads, inside their arrays, and room for exactly the words it makes
\* (the IMN and OMN parameters in the six main.c).
THEOREM AppsStreamsBalance == DataGiven => (Spec => []StreamsBalance)
<1> SUFFICES ASSUME DataGiven PROVE Spec => []StreamsBalance
  OBVIOUS
<1>1. ASSUME IInv, KnownToMain PROVE StreamsBalance
  <2> SUFFICES ASSUME acc.state = "exec" PROVE StreamsBalance
    BY DEF StreamsBalance
  <2>1. PICK x : Described(x)
    BY <1>1 DEF KnownToMain
  <2>2. /\ conf.kernel \in KernelNames /\ Fits(app, conf.kernel, regs.params)
    BY <1>1, <2>1 DEF Described, Holds, MayRun
  <2>3. \A s : Inside(app, s) => (s.n > 0 => s.at + s.n - 1 \in DOMAIN mem[s.array])
    BY <2>1 DEF Described, SameArrays, Inside
  <2>4. \A c \in Columns :
          /\ Fetches(c).n > 0 => Fetches(c).at + Fetches(c).n - 1 \in DOMAIN mem[Fetches(c).array]
          /\ Stores(c).n > 0 => Stores(c).at + Stores(c).n - 1 \in DOMAIN mem[Stores(c).array]
    BY <2>2, <2>3 DEF Fits, Balances, Fetches, Stores
  <2>5. InputsOf[conf.kernel] = {c \in Columns : Fetches(c).n > 0}
    BY <2>2 DEF Fits, Balances, Fetches
  <2>6. WordsRead(regs.params) = [d \in Columns |-> [i \in 1 .. Fetches(d).n |-> 0]]
    BY DEF WordsRead, Fetches
  <2>7. conf.kernel # "minsearch" =>
          \A c \in Columns : Stores(c).n = Len(Outputs(conf.kernel, conf.words, WordsRead(regs.params))[c])
    BY <2>2 DEF Fits, Balances, Stores
  <2> QED BY <2>4, <2>5, <2>6, <2>7 DEF StreamsBalance
<1> QED BY <1>1, KnownInvariant, PTL

\* No run stores over a word that one of its own nodes has still to read: conv2d
\* and fft read and write the same vectors, and what their kernels deliver never
\* gets ahead of what they were given there (strela_conv2d/main.c:86-133,
\* strela_fft/main.c).
THEOREM AppsNoOverwrite == DataGiven => (Spec => NoOverwrite)
<1> SUFFICES ASSUME DataGiven PROVE Spec => NoOverwrite
  OBVIOUS
<1> DEFINE Unread(c, d) ==
             \/ Fetches(d).array # Stores(c).array
             \/ Stores(c).at + acc.put[c] \notin
                    Fetches(d).at + Len(acc.got[d]) .. Fetches(d).at + Fetches(d).n - 1
<1>1. ASSUME IInv, KnownToMain, Moved, NEW c \in Columns, StoreWord(c), NEW d \in Columns
      PROVE  Unread(c, d)
  <2>1. PICK x : Described(x)
    BY <1>1 DEF KnownToMain
  <2>2. acc.state = "exec" /\ acc.put[c] < Stores(c).n /\ acc.put[c] < Len(Made[c])
    BY <1>1 DEF StoreWord
  <2>3. Spares(conf.kernel, regs.params)
    BY <2>1, <2>2 DEF Described, Holds, MayRun, Fits
  <2>4. /\ Stores(c).at \in Nat /\ Stores(c).n \in Nat
        /\ Fetches(d).at \in Nat /\ Fetches(d).n \in Nat
    BY <2>3 DEF Spares, Placed, Stores, Fetches
  <2>5. acc.put[c] \in Nat /\ Len(acc.got[d]) \in Nat /\ AreStreams(acc.got)
    BY <1>1, LenProperties DEF Moved, AreStreams
  <2>6. CASE Apart(Stores(c), Fetches(d))
    <3>1. PICK n \in Nat : n = Len(acc.got[d])
      BY <2>5
    <3>2. ASSUME NEW at, Fetches(d).array = Stores(c).array,
                 at \in Fetches(d).at + n .. Fetches(d).at + Fetches(d).n - 1
          PROVE  Stores(c).at + acc.put[c] # at
      <4>1. /\ at - Fetches(d).at \in 0 .. Fetches(d).n - 1
            /\ at = Fetches(d).at + (at - Fetches(d).at)
        BY <2>4, <3>2
      <4>2. acc.put[c] \in 0 .. Stores(c).n - 1
        BY <2>2, <2>4, <2>5
      <4> QED BY <2>6, <3>2, <4>1, <4>2 DEF Apart
    <3> QED BY <3>1, <3>2
  <2>7. CASE Stores(c) = Fetches(d) /\ WaitsFor(conf.kernel, c, d)
    <3>1. Len(Made[c]) <= Len(acc.got[d])
      BY <2>5, <2>7 DEF WaitsFor, Made
    <3>2. acc.put[c] < Len(acc.got[d])
      <4>1. Len(Made[c]) \in Int
        BY <2>2, <2>5, <3>1
      <4> QED BY <2>2, <2>5, <3>1, <4>1
    <3> QED BY <2>4, <2>5, <2>7, <3>2
  <2> QED BY <2>3, <2>6, <2>7 DEF Spares, Stores, Fetches
<1>2. ASSUME IInv, Moved, Next, NEW c \in Columns, acc'.put[c] = acc.put[c] + 1
      PROVE  StoreWord(c)
  <2>1. acc.put[c] \in Nat
    BY <1>2 DEF Moved
  <2>2. \A r : Idle(r).put[c] = 0 /\ [Idle(r) EXCEPT !.state = "started"].put = Idle(r).put
    BY DEF Idle
  <2>3. ASSUME acc'.put = acc.put PROVE FALSE
    BY <1>2, <2>1, <2>3
  <2>4. ~Main
    <3>1. WriteCtrl => FALSE
      BY <1>2, <2>1, <2>2, <2>3 DEF WriteCtrl
    <3> QED BY <2>3, <3>1 DEF Main, Enable, WriteMode, WriteParams, StoreArray, PatchKernel,
                              PollDone, UnflagIntr, WaitDone, ReadReport
  <2>5. ~Configure /\ ~End
    BY <1>2, <2>3 DEF Configure, End, IInv, Fields
  <2>6. PICK d \in Columns : Fetch(d) \/ StoreWord(d)
    BY <1>2, <2>4, <2>5 DEF Next, Strela
  <2>7. StoreWord(d)
    BY <1>2, <2>3, <2>6 DEF Fetch, IInv, Fields
  <2>8. acc'.put = [acc.put EXCEPT ![d] = acc.put[d] + 1]
    BY <1>2, <2>7 DEF StoreWord, IInv, Fields
  <2> QED BY <1>2, <2>1, <2>7, <2>8 DEF Moved
<1>3. IInv /\ KnownToMain /\ Moved /\ [Next]_vars =>
        [\A c \in Columns : acc'.put[c] = acc.put[c] + 1 =>
           \A d \in Columns : Unread(c, d)]_vars
  BY <1>1, <1>2
<1> QED BY <1>3, KnownInvariant, PTL DEF Spec, NoOverwrite

LEMMA LeadsNoFurther == ASSUME NEW x, NEW y, Leads(<<>>, x, y) PROVE x = y
<1>1. Len(<<>>) = 0
  OBVIOUS
<1> QED BY <1>1 DEF Leads

\* The results are written to arrays of the application.
LEMMA ResultsHaveArrays ==
  ASSUME NEW a \in Apps
  PROVE  DOMAIN Expected[a] \subseteq DOMAIN Data[a]
<1>1. /\ DOMAIN Expected["conv2d"] = {"output"} /\ DOMAIN Expected["relu"] = {"output"}
      /\ DOMAIN Expected["dither"] = {"output"} /\ DOMAIN Expected["fft"] = {"real", "imag"}
      /\ DOMAIN Expected["test"] = {"e", "f", "g", "h"}
      /\ DOMAIN Expected["minsearch"] = {"output"}
  BY DEF Expected, Conv2dExpected, ReluExpected, DitherExpected, FftExpected, TestExpected,
         MinSearchExpected
<1>2. /\ \A b \in {"conv2d", "relu", "dither", "minsearch"} :
           DOMAIN Data[b] = {"input", "output"}
      /\ DOMAIN Data["fft"] = {"real", "imag"}
      /\ DOMAIN Data["test"] = {"a", "b", "c", "d", "e", "f", "g", "h"}
  BY InputArrays, Arrays DEF FftData, TestData
<1>3. a \in {"conv2d", "relu", "dither", "fft", "test", "minsearch"}
  BY DEF Apps, Program
<1> QED BY <1>1, <1>2, <1>3

\* Every application leaves in memory what gendata.py expects, for data sets of
\* numbers that leave no vector empty and whatever the order in which the nodes
\* move their words (main.c, Check results): the sums that conv2d adds up row by row
\* and the vectors that fft turns in place too.  The minimum search does where the
\* start values and the last word, which its kernel leaves out, do not matter.
THEOREM AppsResultsExact ==
  DataGiven /\ WordsGiven =>
    (Spec => []((app = "minsearch" => MinimaGiven) => ResultsExact))
<1> SUFFICES ASSUME DataGiven, WordsGiven
             PROVE  Spec => []((app = "minsearch" => MinimaGiven) => ResultsExact)
  OBVIOUS
<1>1. ASSUME IInv, KnownToMain, app = "minsearch" => MinimaGiven PROVE ResultsExact
  <2> SUFFICES ASSUME Done, NEW a \in DOMAIN Expected[app] PROVE mem[a] = Expected[app][a]
    BY DEF ResultsExact
  <2>1. Suited(app) /\ app \in Apps
    BY <1>1, RunningAssumption DEF Suited, IInv, TypeOK
  <2>2. PICK x, y : Leads(todo, x, y) /\ Exact(app, y) /\ Described(x)
    BY <1>1 DEF KnownToMain
  <2>3. EndsWell(app, x)
    BY <2>1, <2>2, LeadsNoFurther DEF Done, Exact
  <2>4. acc.state = "idle"
    BY <1>1 DEF Done, IInv, InItsWait, Awaits
  <2>5. Alike(x.runs.world.mem, mem)
    BY <2>1, <2>2, <2>4 DEF Described, Follows
  <2>6. a \in DOMAIN mem
    BY <1>1, <2>1, <2>2, ResultsHaveArrays DEF Described, SameArrays
  <2> QED BY <2>3, <2>5, <2>6 DEF EndsWell, Alike
<1> QED BY <1>1, KnownInvariant, PTL
=============================================================================
