------------------------ MODULE StrelaConfig_proofs ------------------------
(***************************************************************************)
(* "Configuration done" means done when no other master takes a bank while *)
(* the configuration is read: for every shape of the array, every number   *)
(* of columns and kernels, and every order in which the nodes are granted, *)
(* each PE holds its own words of the kernel software asked for while the  *)
(* array executes.  So the results of every run are exact as well, also    *)
(* when other masters take the banks while it executes.                    *)
(***************************************************************************)
EXTENDS StrelaTop_proofs

-----------------------------------------------------------------------------
(* Where the words of a column are                                         *)

\* The word at place w of the r-th PE after n words: a full PE is past its own
\* WordsPerPE words, the last one under way is still shifting them up.
WordAt(r, w, n) ==
    IF r * WordsPerPE <= n THEN (r - 1) * WordsPerPE + w - 1 ELSE n + w - 1 - WordsPerPE

\* The first n words of column c have been shifted into these registers.
InPlace(regs, k, c, n) ==
    \A r \in 1 .. Rows, w \in 1 .. WordsPerPE :
        n + w > r * WordsPerPE => regs[r][w] = Numbered("conf", k, c, WordAt(r, w, n))

ColumnWords == Rows * WordsPerPE

\* Which PE the n-th word is shifted into.
LEMMA Division ==
  ASSUME NEW n \in Nat, NEW W \in Nat \ {0}
  PROVE  /\ n \div W \in Nat
         /\ (n \div W) * W <= n /\ n < (n \div W) * W + W
OBVIOUS

LEMMA MorePEs ==
  ASSUME NEW q \in Nat, NEW r \in Nat, NEW W \in Nat \ {0}
  PROVE  /\ r <= q => r * W <= q * W
         /\ r > q + 1 => q * W + W + W <= r * W
         /\ (q + 1) * W = q * W + W /\ q * W \in Nat /\ r * W \in Nat
<1>1. \A a, b \in Nat : a <= b => a * W <= b * W
  BY Products
<1>2. (q + 1) * W = q * W + W /\ (q + 2) * W = q * W + W + W /\ q * W \in Nat /\ r * W \in Nat
  BY Products
<1>3. r > q + 1 => q + 2 <= r
  OBVIOUS
<1> QED BY <1>1, <1>2, <1>3

\* Where the words are after one more, in numbers only: R = r * W, Q = q * W.
LEMMA PlaceMoves ==
  ASSUME NEW n \in Nat, NEW W \in Nat \ {0}, NEW Q \in Nat, Q <= n, n < Q + W,
         NEW R \in Nat, NEW w \in 1 .. W, n + 1 + w > R
  PROVE  /\ R # Q + W /\ R <= Q => R <= n /\ R <= n + 1 /\ n + w > R
         /\ R = Q + W /\ w < W =>
              /\ n + (w + 1) > R /\ ~(R <= n)
              /\ R <= n + 1 => Q + w - 1 = n + (w + 1) - 1 - W
              /\ (n + 1) + w - 1 - W = n + (w + 1) - 1 - W
         /\ R = Q + W /\ w = W =>
              /\ R <= n + 1 => Q + w - 1 = n
              /\ (n + 1) + w - 1 - W = n
OBVIOUS

LEMMA ShiftIntoPlace ==
  ASSUME NEW g, NEW k, NEW c, NEW n \in Nat, n < ColumnWords, g.cnt = n,
         g.regs \in [1 .. Rows -> [1 .. WordsPerPE -> Word]], InPlace(g.regs, k, c, n),
         NEW x \in Word, x = Numbered("conf", k, c, n)
  PROVE  InPlace(ShiftRegs(g, <<x>>), k, c, n + 1)
<1>1. PICK W \in Nat \ {0}, P \in Nat \ {0} : W = WordsPerPE /\ P = Rows
  BY StrelaAssumption
<1>2. PICK q \in Nat : q = n \div W /\ q * W <= n /\ n < q * W + W
  BY Division
<1>3. q + 1 \in 1 .. P
  <2>1. P <= q => P * W <= q * W
    BY MorePEs
  <2>2. PICK Q \in Nat, N \in Nat : Q = q * W /\ N = P * W
    BY Products
  <2>3. n < N /\ Q <= n
    BY <1>1, <1>2, <2>2 DEF ColumnWords
  <2> QED BY <2>1, <2>2, <2>3
<1>4. PICK old : old = g.regs /\ old \in [1 .. P -> [1 .. W -> Word]]
  BY <1>1
<1>5. ShiftRegs(g, <<x>>) = [old EXCEPT ![q + 1] = Tail(old[q + 1]) \o <<x>>]
  <2>1. <<x>> # <<>> /\ q + 1 <= P
    BY <1>3
  <2> QED BY <1>1, <1>2, <1>4, <2>1 DEF ShiftRegs
<1>6. PICK row \in [1 .. W -> Word] : row = old[q + 1]
  BY <1>3, <1>4
<1>7. /\ \A w \in 1 .. W - 1 : (Tail(row) \o <<x>>)[w] = row[w + 1]
      /\ (Tail(row) \o <<x>>)[W] = x
  <2>1. row \in Seq(Word) /\ Len(row) = W
    OBVIOUS
  <2>2. /\ Tail(row) \in Seq(Word) /\ Len(Tail(row)) = W - 1
        /\ \A w \in 1 .. W - 1 : Tail(row)[w] = row[w + 1]
    BY <2>1, HeadTailProperties, EmptySeq
  <2>3. <<x>> \in Seq(Word) /\ Len(<<x>>) = 1 /\ <<x>>[1] = x
    OBVIOUS
  <2>4. PICK t \in Seq(Word) : t = Tail(row) /\ Len(t) = W - 1
    BY <2>2
  <2>5. /\ \A w \in 1 .. W - 1 : (t \o <<x>>)[w] = t[w]
        /\ (t \o <<x>>)[W] = <<x>>[1]
    BY <2>3, <2>4, ConcatProperties
  <2> QED BY <2>2, <2>3, <2>4, <2>5
<1> SUFFICES ASSUME NEW r \in 1 .. P, NEW w \in 1 .. W, (n + 1) + w > r * W
             PROVE  ShiftRegs(g, <<x>>)[r][w] = Numbered("conf", k, c, WordAt(r, w, n + 1))
  BY <1>1 DEF InPlace
<1>8. PICK Q \in Nat, R \in Nat : Q = q * W /\ R = r * W
  <2>1. r \in Nat /\ q \in Nat /\ W \in Nat
    OBVIOUS
  <2>2. q * W \in Nat /\ r * W \in Nat
    BY <2>1, Products
  <2> QED BY <2>2
<1>9. /\ r <= q => R <= Q
      /\ r > q + 1 => Q + W + W <= R
      /\ r = q + 1 => R = Q + W
  BY <1>8, MorePEs
<1>10. Q <= n /\ n < Q + W /\ (n + 1) + w > R
  BY <1>2, <1>8
<1>11. \A v \in 1 .. W : n + v > R => old[r][v] = Numbered("conf", k, c, WordAt(r, v, n))
  BY <1>1, <1>4, <1>8 DEF InPlace
<1>13. CASE r = q + 1 /\ w < W
  <2>1. R = Q + W /\ w + 1 \in 1 .. W /\ w \in 1 .. W - 1
    BY <1>9, <1>13
  <2>2. /\ n + (w + 1) > R /\ ~(R <= n)
        /\ R <= n + 1 => Q + w - 1 = n + (w + 1) - 1 - W
        /\ (n + 1) + w - 1 - W = n + (w + 1) - 1 - W
    BY <1>10, <1>13, <2>1, PlaceMoves
  <2>3. ShiftRegs(g, <<x>>)[r][w] = old[r][w + 1]
    BY <1>3, <1>4, <1>5, <1>6, <1>7, <1>13, <2>1
  <2>4. old[r][w + 1] = Numbered("conf", k, c, WordAt(r, w + 1, n))
    BY <1>11, <2>1, <2>2
  <2>5. WordAt(r, w + 1, n) = n + (w + 1) - 1 - W
    BY <1>1, <1>8, <2>2 DEF WordAt
  <2>6. WordAt(r, w, n + 1) = IF R <= n + 1 THEN Q + w - 1 ELSE (n + 1) + w - 1 - W
    BY <1>1, <1>8, <1>13 DEF WordAt
  <2>7. WordAt(r, w, n + 1) = WordAt(r, w + 1, n)
    BY <2>2, <2>5, <2>6
  <2> QED BY <2>3, <2>4, <2>7
<1>14. CASE r = q + 1 /\ w = W
  <2>1. R = Q + W
    BY <1>9, <1>14
  <2>2. /\ R <= n + 1 => Q + w - 1 = n
        /\ (n + 1) + w - 1 - W = n
    BY <1>10, <1>14, <2>1, PlaceMoves
  <2>3. ShiftRegs(g, <<x>>)[r][w] = x
    BY <1>3, <1>4, <1>5, <1>6, <1>7, <1>14
  <2>4. WordAt(r, w, n + 1) = IF R <= n + 1 THEN Q + w - 1 ELSE (n + 1) + w - 1 - W
    BY <1>1, <1>8, <1>14 DEF WordAt
  <2> QED BY <2>2, <2>3, <2>4
<1>15. CASE r # q + 1
  <2>1. R # Q + W /\ R <= Q
    <3>1. r <= q \/ r > q + 1
      BY <1>15
    <3>2. CASE r <= q
      <4>1. R <= Q /\ R # Q + W
        BY <1>9, <3>2
      <4> QED BY <4>1
    <3>3. CASE r > q + 1
      <4>1. Q + W + W <= R
        BY <1>9, <3>3
      <4>2. n + 1 + w <= Q + W + W
        BY <1>10
      <4> QED BY <1>10, <4>1, <4>2
    <3> QED BY <3>1, <3>2, <3>3
  <2>2. R <= n /\ R <= n + 1 /\ n + w > R
    BY <1>10, <2>1, PlaceMoves
  <2>3. ShiftRegs(g, <<x>>)[r][w] = old[r][w]
    BY <1>3, <1>4, <1>5, <1>15
  <2>4. old[r][w] = Numbered("conf", k, c, WordAt(r, w, n))
    BY <1>11, <2>2
  <2>5. WordAt(r, w, n) = WordAt(r, w, n + 1)
    BY <1>1, <1>8, <2>2 DEF WordAt
  <2> QED BY <2>3, <2>4, <2>5
<1> QED BY <1>13, <1>14, <1>15

-----------------------------------------------------------------------------
(* The configuration of a column                                           *)

\* The kernel that is asked for is the one software works with, and a kernel is
\* only changed after a clear that makes the accelerator load again.
KernelAsked ==
    /\ driver \in {"ready", "running"} => params.conf_addr = kernel
    /\ ctrl.clr \/ ctrl.clr_param => driver \in {"cleared", "resized"}
    /\ driver = "cleared" => ~ctl.conf_done_reg \/ ctrl.clr \/ ctrl.clr_conf

\* Words of column c's configuration that are in the PEs, that have reached the
\* input node, been asked for.
Shifted(c) == cgra[c].cnt
Fetched(c) == Shifted(c) + Len(imn[c].fifo)
Asked(c)   == Fetched(c) + Len(rd[c])

Loads(c) ==
    /\ InPlace(cgra[c].regs, kernel, c, Shifted(c))
    /\ Len(imn[c].fifo) <= 1
    /\ Consecutive("conf", kernel, c, Shifted(c), imn[c].fifo)
    /\ Consecutive("conf", kernel, c, Fetched(c), rd[c])
    /\ imn[c].state = "CONF" => imn[c].addr_offset = Asked(c) * CONF_STRIDE /\ Asked(c) < ColumnWords
    /\ imn[c].state = "WAIT" => Asked(c) = ColumnWords

Loading ==
    \A c \in Cols :
        /\ ctl.state # "WAIT" => cgra[c].cnt = 0
        /\ ctl.conf_done_reg /\ driver # "cleared" => Configured(c, kernel)
        /\ ctl.state = "EXEC" /\ imn[c].state = "WAIT" => imn[c].fifo = <<>>
        /\ ctl.state = "WAIT" => Loads(c)

\* From the first grant to the last the bus answers some column in every cycle,
\* and what it answered in the last cycle is being shifted: so no node can be
\* seen empty in S_WAIT while another's word is under way.
NoGap ==
    ctl.state = "WAIT" =>
        /\ \/ \A c \in Cols : imn[c].state = "CONF" /\ Asked(c) = 0
           \/ \A c \in Cols : imn[c].state = "WAIT"
           \/ \E c \in Cols : rd[c] # <<>>
        /\ \/ \A c \in Cols : rd[c] = <<>>
           \/ \E c \in Cols : imn[c].fifo # <<>> \/ imn[c].state = "CONF"

\* What the theorem asks of the instance: nobody else takes a bank while words
\* of the configuration are read, and the memory answers in the next cycle;
\* software clears between runs; a node may have two words before it stops
\* asking, and a column is more than one word long.
Alone ==
    /\ "load" \notin Contended /\ Slow = {} /\ ~ClearAnytime
    /\ WORST_MEM_LATENCY > 1 /\ ColumnWords > 1

LEMMA KernelAskedStep ==
  ASSUME TypeOK, PhasesAgree, DriverKnows, KernelAsked, Next
  PROVE  KernelAsked'
<1>1. PICK gi, go, ri, ro, s : Clock(gi, go, ri, ro, s)
  BY DEF Next, Hardware
<1>2. ctl'.conf_done_reg = (~ctrl.clr /\ ~ctrl.clr_conf /\ (conf_done \/ ctl.conf_done_reg))
  BY <1>1 DEF Clock, ControlTick, ControlReset, NextConfReg, controlIn
<1>3. ctl.state = "IDLE" => ~conf_done
  <2>1. PICK c \in Cols : TRUE
    BY StrelaAssumption
  <2> QED BY <2>1 DEF conf_done, ConfDone, PhasesAgree
<1>4. CASE NoAccess
  <2>1. ctrl' = Quiet /\ driver' = driver /\ kernel' = kernel
        /\ (ctrl.clr \/ ctrl.clr_param \/ params' = params)
    BY <1>4 DEF NoAccess, ParamsKept
  <2>2. driver = "cleared" => ctl.state = "IDLE"
    BY DEF DriverKnows
  <2>3. driver = "cleared" => ~ctl'.conf_done_reg
    BY <1>2, <1>3, <2>2 DEF KernelAsked
  <2>4. driver \in {"ready", "running"} => ~ctrl.clr /\ ~ctrl.clr_param
    BY DEF KernelAsked
  <2> QED BY <2>1, <2>3, <2>4 DEF KernelAsked, Quiet, Pulse
<1>5. CASE WriteStart \/ PollDone
  BY <1>5 DEF WriteStart, PollDone, Write, Quiet, Pulse, KernelAsked
<1>6. CASE WriteClear \/ WriteClearConf \/ WriteClearParam
  BY <1>6 DEF WriteClear, WriteClearConf, WriteClearParam, Write, Quiet, Pulse, KernelAsked
<1>7. CASE WriteParams
  <2>1. params'.conf_addr = kernel' /\ driver' = "ready" /\ ctrl' = Quiet
    BY <1>7 DEF WriteParams, Write
  <2> QED BY <2>1 DEF KernelAsked, Quiet, Pulse
<1> QED BY <1>4, <1>5, <1>6, <1>7 DEF Next

\* The kernel changes only where none counts as loaded.
LEMMA KernelStays ==
  ASSUME TypeOK, PhasesAgree, DriverKnows, KernelAsked, Next, ctl'.conf_done_reg, driver' # "cleared"
  PROVE  kernel' = kernel /\ driver # "cleared"
<1>1. PICK gi, go, ri, ro, s : Clock(gi, go, ri, ro, s)
  BY DEF Next, Hardware
<1>2. ctl'.conf_done_reg = (~ctrl.clr /\ ~ctrl.clr_conf /\ (conf_done \/ ctl.conf_done_reg))
  BY <1>1 DEF Clock, ControlTick, ControlReset, NextConfReg, controlIn
<1>3. ctl.state = "IDLE" => ~conf_done
  <2>1. PICK c \in Cols : TRUE
    BY StrelaAssumption
  <2> QED BY <2>1 DEF conf_done, ConfDone, PhasesAgree
<1>4. driver # "cleared"
  <2>1. driver = "cleared" => ctl.state = "IDLE"
    BY DEF DriverKnows
  <2> QED BY <1>2, <1>3, <2>1 DEF KernelAsked
<1> QED BY <1>4 DEF Next, NoAccess, WriteStart, PollDone, WriteClear, WriteClearConf,
                    WriteClearParam, WriteParams

-----------------------------------------------------------------------------
(* One cycle of a column while its configuration is loaded                 *)

\* A node hands every word on in the cycle after it arrived.
LEMMA LoadCycle ==
  ASSUME Alone, TypeOK, PhasesAgree, DriverKnows, FlagAgrees, ctl.state = "WAIT",
         NEW ri \in Responses(ReadsPending), NEW ro, NEW s, NEW gi, NEW go,
         Clock(gi, go, ri, ro, s), NEW c \in Cols, Loads(c)
  PROVE  /\ ~clr_nodes /\ ~exec /\ ConfNeeded(ctl) /\ ~ctrl.start
         /\ imn'[c].fifo = rd[c]
         /\ c \in gi => rd'[c] = <<Addressed(c)>>
         /\ c \notin gi => rd'[c] = <<>>
         /\ imn[c].fifo = <<>> => cgra'[c].regs = cgra[c].regs
         /\ imn[c].fifo # <<>> => cgra'[c].regs = ShiftRegs(cgra[c], <<Head(imn[c].fifo)>>)
         /\ clr_cgra => cgra'[c].cnt = 0
         /\ ~clr_cgra => cgra'[c].cnt = Fetched(c)
<1>1. ~ctrl.clr /\ ~ctrl.start /\ ~ctl.conf_done_reg
  BY DEF DriverKnows, FlagAgrees
<1>2. ~clr_nodes /\ ~exec /\ ConfNeeded(ctl)
  BY <1>1 DEF clr_nodes, ClearNodes, exec, Exec, ConfNeeded
<1>3. /\ imn'[c] = InputTick(imn[c], InputIn(c, gi, ri, s))
      /\ cgra'[c] = ColumnTick(cgra[c], ShiftIn(c), clr_cgra, TokenIn(c, s), TokenOut(c, s))
      /\ rd'[c] = IF c \in gi THEN <<Addressed(c)>> ELSE IF c \in ri THEN <<>> ELSE rd[c]
  BY DEF Clock
<1>4. c \in ri <=> rd[c] # <<>>
  BY DEF Alone, Responses, ReadsPending
<1>5. PICK f \in Seq(Word), h \in Seq(Word), l \in Nat :
        /\ f = imn[c].fifo /\ h = rd[c] /\ l = Len(f) /\ l <= 1
        /\ f = <<>> => l = 0
        /\ f # <<>> => l = 1
  <2>1. PICK f \in Seq(Word), h \in Seq(Word), l \in Nat :
          f = imn[c].fifo /\ h = rd[c] /\ l = Len(f) /\ l <= 1
    BY LenProperties DEF TypeOK, NodeType, Loads
  <2>2. /\ f = <<>> => l = 0
        /\ f # <<>> => l # 0
    BY <2>1, EmptySeq
  <2>3. l = 0 \/ l = 1
    <3>1. \A x \in Nat : x <= 1 => x = 0 \/ x = 1
      OBVIOUS
    <3> QED BY <2>1, <3>1, Zenon
  <2> QED BY <2>1, <2>2, <2>3, Zenon
<1>6. imn[c].state \in {"CONF", "WAIT"}
  BY DEF PhasesAgree
<1>7. Pops(imn[c], InputIn(c, gi, ri, s)) <=> f # <<>>
  BY <1>5, <1>6, PopHasWord DEF Pops, ConfEnable
<1>8. imn'[c].fifo = h
  <2>1. l < FIFO_DEPTH
    BY <1>5, StrelaPkgAssumption
  <2>2. InputIn(c, gi, ri, s).rvalid = h
    BY <1>4, <1>5 DEF InputIn
  <2>3. imn'[c].fifo = (IF f # <<>> THEN Tail(f) ELSE f) \o h
    <3>1. imn'[c].fifo = InputNextFifo(imn[c], InputIn(c, gi, ri, s))
      BY <1>2, <1>3 DEF InputTick, InputIn
    <3>2. Len(imn[c].fifo) < FIFO_DEPTH
      BY <1>5, <2>1
    <3> QED BY <1>5, <1>7, <2>2, <3>1, <3>2 DEF InputNextFifo
  <2>4. (IF f # <<>> THEN Tail(f) ELSE f) = <<>>
    <3>1. CASE f = <<>>
      BY <3>1
    <3>2. CASE f # <<>>
      <4>1. l = 1
        BY <1>5, <3>2, Zenon
      <4>2. Tail(f) \in Seq(Word) /\ Len(Tail(f)) = l - 1
        BY <1>5, <3>2, HeadTailProperties
      <4>3. Len(Tail(f)) = 0
        BY <4>1, <4>2
      <4> QED BY <3>2, <4>2, <4>3, EmptySeq
    <3> QED BY <3>1, <3>2
  <2> QED BY <2>3, <2>4, ConcatEmptySeq
<1>9. /\ f = <<>> => ShiftIn(c) = <<>>
      /\ f # <<>> => ShiftIn(c) = <<Head(f)>> /\ ShiftIn(c) # <<>>
  BY <1>5, <1>6 DEF ShiftIn, ConfEnable
<1>10. /\ cgra'[c].regs = ShiftRegs(cgra[c], ShiftIn(c))
       /\ cgra'[c].cnt = ShiftCount(cgra[c], ShiftIn(c), clr_cgra)
  BY <1>3 DEF ColumnTick
<1>11. /\ imn[c].fifo = <<>> => cgra'[c].regs = cgra[c].regs
       /\ imn[c].fifo # <<>> => cgra'[c].regs = ShiftRegs(cgra[c], <<Head(imn[c].fifo)>>)
  BY <1>5, <1>9, <1>10 DEF ShiftRegs
<1>12. PICK n \in Nat, m \in Nat, N \in Nat :
         n = cgra[c].cnt /\ m = Len(h) /\ N = ColumnWords /\ (n + l) + m <= N
  <2>1. /\ cgra[c].cnt \in Nat
        /\ ColumnWords \in Nat
    BY StrelaAssumption DEF TypeOK, ColumnType, ColumnWords
  <2>2. Len(h) \in Nat
    BY LenProperties
  <2>3. PICK n \in Nat, m \in Nat, N \in Nat : n = cgra[c].cnt /\ m = Len(h) /\ N = ColumnWords
    BY <2>1, <2>2
  <2>4. Asked(c) = (n + l) + m
    BY <1>5, <2>3 DEF Asked, Fetched, Shifted
  <2>5. Asked(c) < ColumnWords \/ Asked(c) = ColumnWords
    BY <1>6 DEF Loads
  <2>6. (n + l) + m <= N
    <3>1. \A x, y \in Nat : x < y \/ x = y => x <= y
      OBVIOUS
    <3>2. (n + l) + m \in Nat
      <4>1. \A x, y, z \in Nat : (x + y) + z \in Nat
        OBVIOUS
      <4> QED BY <1>5, <4>1, Zenon
    <3>3. (n + l) + m < N \/ (n + l) + m = N
      BY <2>3, <2>4, <2>5, Zenon
    <3> QED BY <3>1, <3>2, <3>3, Zenon
  <2> QED BY <2>3, <2>6, Zenon
<1>13. /\ clr_cgra => cgra'[c].cnt = 0
       /\ ~clr_cgra => cgra'[c].cnt = Fetched(c)
  <2>1. Fetched(c) = n + l
    BY <1>5, <1>12 DEF Fetched, Shifted
  <2>2. CASE f = <<>>
    BY <1>5, <1>9, <1>10, <1>12, <2>1, <2>2 DEF ShiftCount
  <2>3. CASE f # <<>>
    <3>0. l = 1
      BY <1>5, <2>3, Zenon
    <3>1. l = 1 /\ n < N
      BY <1>12, <3>0
    <3> QED BY <1>5, <1>9, <1>10, <1>12, <2>1, <2>3, <3>1 DEF ShiftCount, ColumnWords
  <2> QED BY <2>2, <2>3
<1> QED BY <1>1, <1>2, <1>3, <1>4, <1>5, <1>8, <1>11, <1>13

\* One word more of a node that loads.
LEMMA LoadsStep ==
  ASSUME Alone, TypeOK, PhasesAgree, DriverKnows, FlagAgrees, KernelAsked, ctl.state = "WAIT",
         ~conf_done, Next,
         NEW ri \in Responses(ReadsPending), NEW ro, NEW s, NEW gi, NEW go,
         Clock(gi, go, ri, ro, s), NEW c \in Cols, Loads(c)
  PROVE  /\ Loads(c)'
         /\ c \in gi => imn[c].state = "CONF" /\ Asked(c)' = Asked(c) + 1
         /\ imn[c].state = "CONF" /\ Asked(c) + 1 < ColumnWords => imn'[c].state = "CONF"
<1>1. /\ ~clr_nodes /\ ~exec /\ ~ctrl.start
      /\ imn'[c].fifo = rd[c]
      /\ c \in gi => rd'[c] = <<Addressed(c)>>
      /\ c \notin gi => rd'[c] = <<>>
      /\ ConfNeeded(ctl)
  BY LoadCycle, ZenonT(60)
<1>2. ~clr_cgra
  BY <1>1 DEF clr_cgra, clr_nodes, ClearCGRA, controlIn, ClearNodes, ControlStates
<1>3. /\ cgra'[c].cnt = Fetched(c)
      /\ imn[c].fifo = <<>> => cgra'[c].regs = cgra[c].regs
      /\ imn[c].fifo # <<>> => cgra'[c].regs = ShiftRegs(cgra[c], <<Head(imn[c].fifo)>>)
  BY <1>2, LoadCycle, ZenonT(60)
<1>4. kernel' = kernel /\ params.conf_addr = kernel
  <2>1. driver = "running"
    BY DEF DriverKnows
  <2> QED BY <2>1, RunHeld DEF KernelAsked
<1>5. PICK f \in Seq(Word), h \in Seq(Word), n \in Nat, l \in Nat, m \in Nat, N \in Nat :
        /\ f = imn[c].fifo /\ h = rd[c] /\ n = cgra[c].cnt /\ l = Len(f) /\ m = Len(h)
        /\ l <= 1 /\ m <= 1 /\ N = ColumnWords
  <2>1. imn[c].fifo \in Seq(Word) /\ rd[c] \in Seq(Word) /\ cgra[c].cnt \in Nat
        /\ Len(rd[c]) <= 1
    BY DEF TypeOK, NodeType, ColumnType
  <2>2. ColumnWords \in Nat
    BY StrelaAssumption DEF ColumnWords
  <2> QED BY <2>1, <2>2, LenProperties DEF Loads
<1>6. Shifted(c) = n /\ Fetched(c) = n + l /\ Asked(c) = (n + l) + m
  BY <1>5 DEF Shifted, Fetched, Asked
<1>7. PICK r \in Nat : r = Len(rd'[c]) /\ (c \in gi => r = 1) /\ (c \notin gi => r = 0)
  BY <1>1
<1>8. Shifted(c)' = n + l /\ Fetched(c)' = (n + l) + m /\ Asked(c)' = ((n + l) + m) + r
  BY <1>1, <1>3, <1>5, <1>6, <1>7 DEF Shifted, Fetched, Asked
<1>9. /\ imn[c].state \in {"CONF", "WAIT"}
      /\ c \in gi => InputRequests(imn[c])
      /\ c \in gi => imn[c].state = "CONF"
  BY DEF PhasesAgree, Clock, GrantsAllowed, ReadsEligible, InputRequests
<1>10. /\ imn[c].state = "CONF" => imn[c].addr_offset = ((n + l) + m) * CONF_STRIDE
                                   /\ (n + l) + m < N
       /\ imn[c].state = "WAIT" => (n + l) + m = N
  BY <1>5, <1>6 DEF Loads
<1>11. InPlace(cgra'[c].regs, kernel, c, n + l)
  <2>1. InPlace(cgra[c].regs, kernel, c, n)
    BY <1>6 DEF Loads
  <2>2. CASE f = <<>>
    <3>1. l = 0
      BY <1>5, <2>2, EmptySeq
    <3>2. n + l = n
      BY <3>1
    <3> QED BY <1>3, <1>5, <2>1, <2>2, <3>2
  <2>3. CASE f # <<>>
    <3>1. l = 1
      <4>1. l # 0
        BY <1>5, <2>3, EmptySeq
      <4>2. \A x \in Nat : x <= 1 /\ x # 0 => x = 1
        OBVIOUS
      <4> QED BY <1>5, <4>1, <4>2, Zenon
    <3>2. PICK x \in Word : x = Head(f) /\ x = Numbered("conf", kernel, c, n)
      <4>1. Consecutive("conf", kernel, c, n, f)
        BY <1>5, <1>6 DEF Loads
      <4> QED BY <1>5, <2>3, <4>1, ConsecutiveTail, HeadTailProperties
    <3>3. n < ColumnWords
      <4>1. (n + l) + m <= N
        BY <1>9, <1>10
      <4> QED BY <1>5, <3>1, <4>1
    <3>4. cgra[c].regs \in [1 .. Rows -> [1 .. WordsPerPE -> Word]]
      BY DEF TypeOK, ColumnType
    <3>5. PICK g : g = cgra[c]
      OBVIOUS
    <3>6. InPlace(ShiftRegs(g, <<x>>), kernel, c, n + 1)
      BY <1>5, <2>1, <3>2, <3>3, <3>4, <3>5, ShiftIntoPlace
    <3> QED BY <1>3, <1>5, <2>3, <3>1, <3>2, <3>5, <3>6
  <2> QED BY <2>2, <2>3
<1>12. /\ Consecutive("conf", kernel, c, n + l, imn'[c].fifo)
       /\ Consecutive("conf", kernel, c, (n + l) + m, rd'[c])
  <2>1. Consecutive("conf", kernel, c, n + l, imn'[c].fifo)
    BY <1>1, <1>6 DEF Loads
  <2>2. CASE c \in gi
    <3>1. Addressed(c) = Numbered("conf", kernel, c, (n + l) + m)
      BY <1>1, <1>4, <1>9, <1>10, <2>2 DEF Addressed, ConfWord, Numbered
    <3>2. (n + l) + m \in Nat
      OBVIOUS
    <3> QED BY <1>1, <2>1, <2>2, <3>1, <3>2, ConsecutiveOne
  <2>3. CASE c \notin gi
    BY <1>1, <2>1, <2>3, ConsecutiveEmpty
  <2> QED BY <2>2, <2>3
<1>13. /\ imn'[c].state = "CONF" => imn'[c].addr_offset = (((n + l) + m) + r) * CONF_STRIDE
                                    /\ ((n + l) + m) + r < N
       /\ imn'[c].state = "WAIT" => ((n + l) + m) + r = N
       /\ imn[c].state = "CONF" /\ ((n + l) + m) + 1 < N => imn'[c].state = "CONF"
  <2>1. PICK q \in Nat, q2 \in Nat : q = (n + l) + m /\ q2 = q + r
    OBVIOUS
  <2>2. PICK nd, in : nd = imn[c] /\ in = InputIn(c, gi, ri, s) /\ imn'[c] = InputTick(nd, in)
    BY DEF Clock
  <2>3. ~in.clr /\ ~in.exec /\ in.conf_needed /\ (in.gnt <=> c \in gi)
    BY <1>1, <2>2 DEF InputIn
  <2>4. CASE c \in gi
    <3>1. nd.state = "CONF" /\ nd.addr_offset = q * CONF_STRIDE /\ q < N /\ InputRequests(nd) /\ in.gnt
      BY <1>9, <1>10, <2>1, <2>2, <2>3, <2>4
    <3>2. CONF_SIZE = N * CONF_STRIDE /\ CONF_SIZE < OFFSET_RANGE
      BY <1>5, StrelaAssumption, StrelaPkgAssumption DEF ColumnWords
    <3>3. NextOffset(nd, in) = (q * CONF_STRIDE + CONF_STRIDE) % OFFSET_RANGE
      BY <2>3, <3>1 DEF NextOffset
    <3>4. /\ (q * CONF_STRIDE + CONF_STRIDE) % OFFSET_RANGE = (q + 1) * CONF_STRIDE
          /\ (q + 1) * CONF_STRIDE >= N * CONF_STRIDE <=> q + 1 = N
      BY <3>1, <3>2, NextWord
    <3>5. /\ imn'[c].state = IF q + 1 = N THEN "WAIT" ELSE "CONF"
          /\ imn'[c].state = "CONF" => imn'[c].addr_offset = (q + 1) * CONF_STRIDE
      <4>1. LastGranted(nd, in) <=> q + 1 = N
        BY <3>1, <3>2, <3>3, <3>4 DEF LastGranted
      <4> QED BY <2>2, <2>3, <3>1, <3>3, <3>4, <4>1 DEF InputTick, InputNextState, InputNextOffset
    <3>6. q2 = q + 1
      BY <1>7, <2>1, <2>4
    <3>7. q + 1 = N \/ q + 1 < N
      BY <3>1
    <3>8. q + 1 < N => q + 1 # N
      OBVIOUS
    <3> QED BY <2>1, <3>5, <3>6, <3>7, <3>8
  <2>5. CASE c \notin gi
    <3>1. imn'[c].state = imn[c].state /\ imn'[c].addr_offset = imn[c].addr_offset
      BY <1>9, <2>2, <2>3, <2>5
         DEF InputTick, InputNextState, InputNextOffset, LastGranted
    <3>0. r = 0
      BY <1>7, <2>5, Zenon
    <3>2. q2 = q
      BY <2>1, <3>0
    <3> QED BY <1>10, <2>1, <3>1, <3>2
  <2> QED BY <2>4, <2>5
<1>14. Len(imn'[c].fifo) <= 1
  BY <1>1, <1>5
<1>15. Loads(c)'
  <2>1. InPlace(cgra'[c].regs, kernel', c, Shifted(c)')
    BY <1>4, <1>8, <1>11
  <2>2. /\ Consecutive("conf", kernel', c, Shifted(c)', imn'[c].fifo)
        /\ Consecutive("conf", kernel', c, Fetched(c)', rd'[c])
    BY <1>4, <1>8, <1>12
  <2>3. /\ imn'[c].state = "CONF" =>
             imn'[c].addr_offset = Asked(c)' * CONF_STRIDE /\ Asked(c)' < ColumnWords
        /\ imn'[c].state = "WAIT" => Asked(c)' = ColumnWords
    BY <1>5, <1>8, <1>13
  <2> QED BY <1>14, <2>1, <2>2, <2>3 DEF Loads, InPlace, Consecutive, ColumnWords
<1>16. Asked(c) + 1 = ((n + l) + m) + 1 /\ (c \in gi => Asked(c)' = Asked(c) + 1)
  BY <1>6, <1>7, <1>8
<1> QED BY <1>5, <1>9, <1>13, <1>15, <1>16

\* While a node has words to ask for, somebody is granted.
LEMMA SomeoneGranted ==
  ASSUME Alone, TypeOK, PhasesAgree, FlagAgrees, ctl.state = "WAIT",
         NEW ri \in Responses(ReadsPending), NEW ro, NEW s, NEW gi, NEW go,
         Clock(gi, go, ri, ro, s), NEW c \in Cols, imn[c].state = "CONF", Len(imn[c].fifo) <= 1
  PROVE  \E d \in Cols : d \in gi
<1>1. PICK l \in Nat : l = Len(imn[c].fifo) /\ l <= 1
  BY LenProperties DEF TypeOK, NodeType
<1>2. l <= WORST_MEM_LATENCY + 1 /\ l < WORST_MEM_LATENCY
  BY <1>1, StrelaPkgAssumption DEF Alone
<1>3. DataCount(imn[c]) = l
  <2>1. Len(imn[c].fifo) \in Nat /\ Len(imn[c].fifo) <= WORST_MEM_LATENCY + 1
    BY <1>1, <1>2
  <2> QED BY <1>1, <2>1, CountIsLength
<1>4. InputRequests(imn[c])
  BY <1>2, <1>3 DEF InputRequests
<1>5. rd[c] = <<>> \/ c \in ri
  BY DEF Alone, Responses, ReadsPending
<1>6. ReadsEligible(ri) # {}
  BY <1>4, <1>5 DEF ReadsEligible
<1>7. gi # {} \/ go # {}
  <2>1. Phase = "load"
    BY DEF FlagAgrees, Phase, ConfNeeded
  <2> QED BY <1>6, <2>1 DEF Clock, GrantsAllowed, Alone
<1>8. WritesEligible(ro) = {}
  BY DEF WritesEligible, OutputRequests, PhasesAgree
<1>9. go = {} /\ gi \subseteq Cols
  BY <1>8 DEF Clock, GrantsAllowed, ReadsEligible
<1> QED BY <1>7, <1>9

LEMMA NoGapStep ==
  ASSUME Alone, TypeOK, PhasesAgree, DriverKnows, FlagAgrees, KernelAsked, ctl.state = "WAIT",
         ~conf_done, Next, \A c \in Cols : Loads(c), NoGap,
         NEW ri \in Responses(ReadsPending), NEW ro, NEW s, NEW gi, NEW go, Clock(gi, go, ri, ro, s)
  PROVE  NoGap'
<1>1. ASSUME NEW c \in Cols
      PROVE  /\ imn'[c].fifo = rd[c]
             /\ c \in gi => rd'[c] # <<>>
             /\ c \notin gi => rd'[c] = <<>>
  <2>1. /\ imn'[c].fifo = rd[c]
        /\ c \in gi => rd'[c] = <<Addressed(c)>>
        /\ c \notin gi => rd'[c] = <<>>
    BY LoadCycle, ZenonT(60)
  <2>2. <<Addressed(c)>> # <<>>
    <3>1. Len(<<Addressed(c)>>) = 1 /\ Len(<<>>) = 0 /\ 0 # 1
      OBVIOUS
    <3> QED BY <3>1, Zenon
  <2> QED BY <2>1, <2>2, Zenon
<1>2. ASSUME NEW c \in Cols
      PROVE  /\ c \in gi => imn[c].state = "CONF"
             /\ imn[c].state = "CONF" /\ Asked(c) + 1 < ColumnWords => imn'[c].state = "CONF"
             /\ imn[c].state \in {"CONF", "WAIT"}
             /\ Len(imn[c].fifo) <= 1
  <2>1. /\ c \in gi => imn[c].state = "CONF"
        /\ imn[c].state = "CONF" /\ Asked(c) + 1 < ColumnWords => imn'[c].state = "CONF"
    BY LoadsStep, ZenonT(60)
  <2> QED BY <2>1 DEF PhasesAgree, Loads
<1>3. ASSUME NEW c \in Cols, imn[c].state = "CONF" PROVE \E d \in Cols : rd'[d] # <<>>
  BY <1>1, <1>2, <1>3, SomeoneGranted
<1>4. ASSUME \A c \in Cols : imn[c].state = "WAIT"
      PROVE  \A c \in Cols : imn'[c].state = "WAIT" /\ rd'[c] = <<>>
  <2> TAKE c \in Cols
  <2>1. rd'[c] = <<>>
    BY <1>1, <1>2, <1>4
  <2>2. ~clr_nodes /\ ~exec
    BY <1>4, LoadCycle, ZenonT(60)
  <2>3. PICK n, in : n = imn[c] /\ in = InputIn(c, gi, ri, s) /\ imn'[c] = InputTick(n, in)
    BY DEF Clock
  <2>4. ~in.clr /\ ~in.exec
    BY <2>2, <2>3 DEF InputIn
  <2>5. imn'[c].state = "WAIT"
    BY <1>4, <2>3, <2>4 DEF InputTick, InputNextState
  <2> QED BY <2>1, <2>5
<1>5. \/ \A c \in Cols : imn'[c].state = "CONF" /\ Asked(c)' = 0
      \/ \A c \in Cols : imn'[c].state = "WAIT"
      \/ \E c \in Cols : rd'[c] # <<>>
  BY <1>2, <1>3, <1>4
<1>6. \/ \A c \in Cols : rd'[c] = <<>>
      \/ \E c \in Cols : imn'[c].fifo # <<>> \/ imn'[c].state = "CONF"
  <2>1. CASE \A c \in Cols : imn[c].state = "CONF" /\ Asked(c) = 0
    <3>1. PICK c \in Cols : TRUE
      BY StrelaAssumption
    <3>2. Asked(c) + 1 < ColumnWords
      BY <2>1 DEF Alone
    <3> QED BY <1>2, <2>1, <3>2
  <2>2. CASE \A c \in Cols : imn[c].state = "WAIT"
    BY <1>4, <2>2
  <2>3. CASE \E c \in Cols : rd[c] # <<>>
    BY <1>1, <2>3
  <2> QED BY <2>1, <2>2, <2>3 DEF NoGap
<1> QED BY <1>5, <1>6 DEF NoGap

\* A start without a configuration finds every node empty.
LEMMA LoadBegins ==
  ASSUME Alone, TypeOK, PhasesAgree, NothingLeftBehind, DriverKnows, FlagAgrees, OffsetsRest,
         Loading, ctl.state = "IDLE", ctl'.state = "WAIT",
         NEW ri \in Responses(ReadsPending), NEW ro, NEW s, NEW gi, NEW go,
         Clock(gi, go, ri, ro, s), NEW c \in Cols
  PROVE  Loads(c)' /\ imn'[c].state = "CONF" /\ Asked(c)' = 0 /\ rd'[c] = <<>>
<1>1. ctl'.state = IF ctrl.clr THEN "IDLE" ELSE ControlNextState(ctl, controlIn)
  BY ClockedStates
<1>2. ctrl.start /\ ~ctrl.clr /\ ~ctl.conf_done_reg
  BY <1>1 DEF ControlNextState, StartState, controlIn
<1>3. /\ imn[c].state = "IDLE" /\ imn[c].fifo = <<>> /\ rd[c] = <<>> /\ imn[c].addr_offset = 0
      /\ cgra[c].cnt = 0
  BY DEF PhasesAgree, NothingLeftBehind, OffsetsRest, Loading
<1>4. PICK n, in : n = imn[c] /\ in = InputIn(c, gi, ri, s) /\ imn'[c] = InputTick(n, in)
  BY DEF Clock
<1>5. ~in.clr /\ in.start /\ in.conf_needed /\ in.rvalid = <<>>
  <2>1. c \notin ri
    BY <1>3 DEF Responses, ReadsPending, Alone
  <2> QED BY <1>2, <1>4, <2>1 DEF InputIn, clr_nodes, ClearNodes, ConfNeeded
<1>6. c \notin gi
  BY <1>3 DEF Clock, GrantsAllowed, ReadsEligible, InputRequests
<1>7. rd'[c] = <<>>
  BY <1>3, <1>6 DEF Clock
<1>8. imn'[c].state = "CONF" /\ imn'[c].addr_offset = 0
  BY <1>3, <1>4, <1>5 DEF InputTick, InputNextState, InputNextOffset, InputRequests
<1>9. imn'[c].fifo = <<>>
  <2>1. imn'[c].fifo = <<>> \o <<>>
    BY <1>3, <1>4, <1>5, PopHasWord DEF InputTick, InputNextFifo
  <2> QED BY <2>1, ConcatEmptySeq, EmptySeq
<1>10. cgra'[c].cnt = 0
  <2>1. ShiftIn(c) = <<>>
    BY <1>3 DEF ShiftIn, ConfEnable
  <2> QED BY <1>3, <2>1 DEF Clock, ColumnTick, ShiftCount
<1>11. Shifted(c)' = 0 /\ Fetched(c)' = 0 /\ Asked(c)' = 0
  BY <1>7, <1>9, <1>10 DEF Shifted, Fetched, Asked
<1>12. InPlace(cgra'[c].regs, kernel', c, 0)
  <2>1. PICK W \in Nat \ {0}, P \in Nat \ {0} : W = WordsPerPE /\ P = Rows
    BY StrelaAssumption
  <2>2. ASSUME NEW r \in 1 .. P, NEW w \in 1 .. W PROVE ~(0 + w > r * W)
    <3>1. 1 * W <= r * W /\ 1 * W = W /\ r * W \in Nat
      BY Products
    <3> QED BY <3>1
  <2> QED BY <2>1, <2>2 DEF InPlace
<1>13. 0 * CONF_STRIDE = 0 /\ 0 < ColumnWords /\ Len(<<>>) <= 1
  <2>1. ColumnWords \in Nat /\ ColumnWords > 1
    BY StrelaAssumption DEF ColumnWords, Alone
  <2> QED BY <2>1, StrelaPkgAssumption
<1>14. /\ Consecutive("conf", kernel', c, 0, imn'[c].fifo)
       /\ Consecutive("conf", kernel', c, 0, rd'[c])
  BY <1>7, <1>9, ConsecutiveEmpty
<1>15. Loads(c)'
  BY <1>7, <1>8, <1>9, <1>11, <1>12, <1>13, <1>14 DEF Loads, InPlace, Consecutive, ColumnWords
<1> QED BY <1>7, <1>8, <1>11, <1>15

\* When all nodes wait with empty FIFOs all words are in the PEs.
LEMMA LoadEnds ==
  ASSUME TypeOK, ctl.state = "WAIT", conf_done, \A c \in Cols : Loads(c), NoGap,
         NEW c \in Cols
  PROVE  Configured(c, kernel) /\ imn[c].fifo = <<>> /\ rd[c] = <<>>
<1>1. \A d \in Cols : imn[d].state = "WAIT" /\ imn[d].fifo = <<>>
  BY DEF conf_done, ConfDone
<1>2. rd[c] = <<>>
  BY <1>1 DEF NoGap
<1>3. PICK W \in Nat \ {0}, P \in Nat \ {0}, N \in Nat : W = WordsPerPE /\ P = Rows /\ N = P * W
  BY StrelaAssumption
<1>4. cgra[c].cnt = N
  <2>1. Asked(c) = cgra[c].cnt + 0 + 0
    BY <1>1, <1>2 DEF Asked, Fetched, Shifted
  <2>2. cgra[c].cnt \in Nat
    BY <1>3 DEF TypeOK, ColumnType
  <2> QED BY <1>1, <1>3, <2>1, <2>2 DEF Loads, ColumnWords
<1>5. InPlace(cgra[c].regs, kernel, c, N)
  BY <1>4 DEF Loads, Shifted
<1>6. ASSUME NEW r \in 1 .. P, NEW w \in 1 .. W
      PROVE  cgra[c].regs[r][w] = ConfWord(kernel, c, ((r - 1) * W + w - 1) * CONF_STRIDE)
  <2>1. r * W <= N /\ r * W \in Nat
    BY <1>3, Products
  <2>2. N + w > r * W
    BY <2>1
  <2>3. cgra[c].regs[r][w] = Numbered("conf", kernel, c, WordAt(r, w, N))
    BY <1>3, <1>5, <2>2 DEF InPlace
  <2>4. WordAt(r, w, N) = (r - 1) * W + w - 1
    BY <1>3, <2>1 DEF WordAt
  <2> QED BY <2>3, <2>4 DEF Numbered, ConfWord
<1>7. Configured(c, kernel)
  BY <1>3, <1>6 DEF Configured
<1> QED BY <1>1, <1>2, <1>7

\* Outside WAIT no word is shifted.
LEMMA NothingShifted ==
  ASSUME PhasesAgree, TypeOK, Loading, ctl.state # "WAIT",
         NEW ri, NEW ro, NEW s, NEW gi, NEW go,
         Clock(gi, go, ri, ro, s), NEW c \in Cols
  PROVE  cgra'[c].regs = cgra[c].regs /\ cgra'[c].cnt = 0
<1>1. ctl.state \in ControlStates
  BY DEF TypeOK
<1>2. ShiftIn(c) = <<>>
  <2>1. imn[c].state \in {"CONF", "WAIT"} => imn[c].fifo = <<>>
    BY <1>1 DEF PhasesAgree, Loading, ControlStates
  <2> QED BY <2>1 DEF ShiftIn, ConfEnable
<1>3. cgra'[c] = ColumnTick(cgra[c], <<>>, clr_cgra, TokenIn(c, s), TokenOut(c, s))
  BY <1>2 DEF Clock
<1>4. cgra[c].cnt = 0
  BY DEF Loading
<1> QED BY <1>3, <1>4 DEF ColumnTick, ShiftRegs, ShiftCount

LEMMA LoadingStep ==
  ASSUME Alone, TypeOK, PhasesAgree, NothingLeftBehind, DriverKnows, FlagAgrees, OffsetsRest,
         KernelAsked, Loading, NoGap, Next
  PROVE  Loading' /\ NoGap'
<1>1. PICK ri \in Responses(ReadsPending), ro \in Responses(WritesPending),
          gi \in SUBSET Cols, go \in SUBSET Cols, s \in Strays : Clock(gi, go, ri, ro, s)
  BY DEF Next, Hardware
<1>2. /\ ctl.state \in ControlStates
      /\ ctl'.state = IF ctrl.clr THEN "IDLE" ELSE ControlNextState(ctl, controlIn)
  BY <1>1, ClockedStates DEF TypeOK
<1>3. ctl'.conf_done_reg = (~ctrl.clr /\ ~ctrl.clr_conf /\ (conf_done \/ ctl.conf_done_reg))
  BY <1>1 DEF Clock, ControlTick, ControlReset, NextConfReg, controlIn
<1>4. CASE ctl.state = "WAIT" /\ ~conf_done
  <2>1. ctl'.state = "WAIT" /\ ~ctl'.conf_done_reg
    BY <1>2, <1>3, <1>4 DEF ControlNextState, controlIn, DriverKnows, FlagAgrees
  <2>2. \A c \in Cols : Loads(c)
    BY <1>4 DEF Loading
  <2>3. \A c \in Cols : Loads(c)'
    BY <1>1, <1>4, <2>2, LoadsStep, ZenonT(60)
  <2>4. NoGap'
    BY <1>1, <1>4, <2>2, NoGapStep, ZenonT(60)
  <2> QED BY <2>1, <2>3, <2>4 DEF Loading
<1>5. CASE ctl.state = "WAIT" /\ conf_done
  <2>1. ctl'.state = "EXEC"
    BY <1>2, <1>5 DEF ControlNextState, controlIn, DriverKnows
  <2> SUFFICES ASSUME NEW c \in Cols
               PROVE  cgra'[c].cnt = 0 /\ Configured(c, kernel)' /\ imn'[c].fifo = <<>>
    BY <2>1 DEF Loading, NoGap
  <2>2. \A d \in Cols : Loads(d)
    BY <1>5 DEF Loading
  <2>3. Configured(c, kernel) /\ imn[c].fifo = <<>> /\ rd[c] = <<>>
    BY <1>5, <2>2, LoadEnds, Zenon
  <2>4. clr_cgra
    BY <1>5 DEF clr_cgra, ClearCGRA, controlIn, FlagAgrees
  <2>5. /\ cgra'[c].cnt = 0 /\ cgra'[c].regs = cgra[c].regs /\ imn'[c].fifo = <<>>
    <3>1. /\ imn'[c].fifo = rd[c]
          /\ imn[c].fifo = <<>> => cgra'[c].regs = cgra[c].regs
          /\ clr_cgra => cgra'[c].cnt = 0
      BY <1>1, <1>5, <2>2, LoadCycle, ZenonT(60)
    <3> QED BY <2>3, <2>4, <3>1
  <2>6. kernel' = kernel
    BY <1>5, RunHeld
  <2> QED BY <2>3, <2>5, <2>6 DEF Configured
<1>6. CASE ctl.state # "WAIT"
  <2>1. ctl'.conf_done_reg => ctl.conf_done_reg
    <3>1. CASE ctl.state = "IDLE"
      <4>1. PICK c \in Cols : TRUE
        BY StrelaAssumption
      <4>2. ~conf_done
        BY <3>1, <4>1 DEF conf_done, ConfDone, PhasesAgree
      <4> QED BY <1>3, <4>2 DEF TypeOK
    <3>2. CASE ctl.state \in {"EXEC", "DONE"}
      BY <3>2 DEF FlagAgrees
    <3> QED BY <1>2, <1>6, <3>1, <3>2 DEF ControlStates
  <2>2. ASSUME NEW c \in Cols
        PROVE  /\ cgra'[c].cnt = 0
               /\ ctl'.conf_done_reg /\ driver' # "cleared" => Configured(c, kernel)'
               /\ ctl'.state = "EXEC" => imn'[c].state # "WAIT"
    <3>1. cgra'[c].regs = cgra[c].regs /\ cgra'[c].cnt = 0
      BY <1>1, <1>6, NothingShifted, ZenonT(60)
    <3>2. ctl'.conf_done_reg /\ driver' # "cleared" => Configured(c, kernel)'
      BY <2>1, <3>1, KernelStays DEF Loading, Configured
    <3>3. ASSUME ctl'.state = "EXEC" PROVE imn'[c].state # "WAIT"
      <4>1. ctl.state \in {"IDLE", "EXEC"} /\ ~ctrl.clr
        BY <1>2, <1>6, <3>3 DEF ControlNextState, StartState, ControlStates
      <4>2. PICK n, in : n = imn[c] /\ in = InputIn(c, gi, ri, s) /\ imn'[c] = InputTick(n, in)
        BY <1>1 DEF Clock
      <4>3. /\ ctl.state = "IDLE" => n.state = "IDLE" /\ ~in.exec
            /\ ctl.state = "EXEC" => n.state \in {"IDLE", "WAIT", "MREQ", "DONE"} /\ in.exec
        BY <4>2 DEF PhasesAgree, InputIn, exec, Exec
      <4>4. ~in.clr
        BY <4>1, <4>2 DEF InputIn, clr_nodes, ClearNodes
      <4> QED BY <4>1, <4>2, <4>3, <4>4 DEF InputTick, InputNextState, BeginExec
    <3> QED BY <3>1, <3>2, <3>3
  <2>3. CASE ctl'.state = "WAIT"
    <3>1. ctl.state = "IDLE"
      BY <1>2, <1>6, <2>3 DEF ControlNextState, StartState, ControlStates
    <3>2. \A c \in Cols : Loads(c)' /\ imn'[c].state = "CONF" /\ Asked(c)' = 0 /\ rd'[c] = <<>>
      BY <1>1, <2>3, <3>1, LoadBegins, ZenonT(60)
    <3> QED BY <2>2, <2>3, <3>2 DEF Loading, NoGap
  <2>4. CASE ctl'.state # "WAIT"
    BY <2>2, <2>4 DEF Loading, NoGap
  <2> QED BY <2>3, <2>4
<1> QED BY <1>4, <1>5, <1>6

-----------------------------------------------------------------------------
(* The invariant and the theorem                                           *)

ConfigInv ==
    DriverKnows /\ NothingLeftBehind /\ FlagAgrees /\ OffsetsRest /\ KernelAsked /\ Loading /\ NoGap

LEMMA ConfigInvInit == ASSUME Init PROVE ConfigInv
<1>1. DriverKnows /\ NothingLeftBehind
  BY DEF Init, DriverKnows, NothingLeftBehind, ControlReset, NodeReset, Quiet, Pulse
<1>2. FlagAgrees /\ OffsetsRest
  BY DEF Init, FlagAgrees, OffsetsRest, ControlReset, NodeReset, Quiet, Pulse
<1>3. KernelAsked /\ NoGap
  BY DEF Init, KernelAsked, NoGap, ControlReset, Quiet, Pulse
<1>4. Loading
  BY DEF Init, Loading, ControlReset, NodeReset, EmptyColumn
<1> QED BY <1>1, <1>2, <1>3, <1>4 DEF ConfigInv

LEMMA ConfigInvStep ==
  ASSUME Alone, IInv, ConfigInv, [Next]_vars
  PROVE  ConfigInv'
<1>1. CASE Next
  <2>1. /\ TypeOK /\ PhasesAgree /\ DoneMeansIdle /\ Slow = {} /\ ~ClearAnytime
        /\ DriverKnows /\ NothingLeftBehind /\ FlagAgrees /\ OffsetsRest
        /\ KernelAsked /\ Loading /\ NoGap
    BY DEF IInv, ConfigInv, Alone
  <2>2. DriverKnows' /\ NothingLeftBehind'
    BY <1>1, <2>1, DriverKnowsStep, NothingLeftStep
  <2>3. FlagAgrees' /\ OffsetsRest' /\ KernelAsked'
    BY <1>1, <2>1, FlagAgreesStep, OffsetsRestStep, KernelAskedStep
  <2>4. Loading' /\ NoGap'
    BY <1>1, <2>1, LoadingStep
  <2> QED BY <2>2, <2>3, <2>4 DEF ConfigInv
<1>2. CASE UNCHANGED vars
  <2>1. DriverKnows' /\ NothingLeftBehind' /\ FlagAgrees' /\ OffsetsRest' /\ KernelAsked'
    BY <1>2 DEF vars, ConfigInv, DriverKnows, NothingLeftBehind, FlagAgrees, OffsetsRest,
                KernelAsked
  <2>2. Loading' /\ NoGap'
    BY <1>2 DEF vars, ConfigInv, Loading, NoGap, Loads, InPlace, Consecutive, Asked, Fetched,
                Shifted, Configured
  <2> QED BY <2>1, <2>2 DEF ConfigInv
<1> QED BY <1>1, <1>2

LEMMA ConfigInvariant == Alone => (Spec => []ConfigInv)
<1> SUFFICES ASSUME Alone PROVE Spec => []ConfigInv
  OBVIOUS
<1>1. Init => ConfigInv
  BY ConfigInvInit
<1>2. IInv /\ ConfigInv /\ [Next]_vars => ConfigInv'
  BY ConfigInvStep
<1> QED BY Invariant, <1>1, <1>2, PTL DEF Spec

\* While a kernel executes every PE of every column holds its own words of the
\* kernel software asked for, although "configuration done" is only that all
\* nodes are seen in S_WAIT with empty FIFOs in one cycle
\* (input_memory_node.sv:137, control_unit.sv:81, PE_superpolyvalent.sv:75-97).
THEOREM StrelaConfig == Alone => (Spec => []ConfigExact)
<1> SUFFICES ASSUME Alone PROVE Spec => []ConfigExact
  OBVIOUS
<1>1. IInv /\ ConfigInv => ConfigExact
  BY DEF ConfigInv, ConfigExact, exec, Exec, FlagAgrees, DriverKnows, Loading
<1> QED BY Invariant, ConfigInvariant, <1>1, PTL

\* With nobody else on the banks while a configuration is read, every run writes
\* exactly its results, whoever else wins them while it executes
\* (strela_top.sv:82, control_unit.sv:81-104, PE_superpolyvalent.sv:99-108).
THEOREM StrelaOutputsAlone == Plain /\ Alone => (Spec => []OutputsExact)
<1> SUFFICES ASSUME Plain, Alone PROVE Spec => []OutputsExact
  OBVIOUS
<1>1. Spec => []ConfigExact
  BY StrelaConfig
<1>2. Spec /\ []ConfigExact => []OutputsExact
  BY StrelaOutputs
<1> QED BY <1>1, <1>2, PTL
=============================================================================
