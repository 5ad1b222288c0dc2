------------------------- MODULE KernelTables_proofs -------------------------
(***************************************************************************)
(* The tables of kernels.h compute what KernelStreams says, for streams of *)
(* any length and every stall: bypass, relu, fft, both convolutions and    *)
(* dither.  For each table the streams that its sides carry are given      *)
(* (...Sides); they agree with what its PEs compute and with both ends of  *)
(* every wire (...Labels), and what the array delivers of them is the      *)
(* stream function of the kernel (...Job).  minsearch is not among them:   *)
(* one of its forks does not wait, so its results do depend on timing.     *)
(***************************************************************************)
EXTENDS Cgra_proofs, KernelTables, WellFoundedInduction

-----------------------------------------------------------------------------
(* Labels from what the sides of each PE receive                           *)

Constant(k) == [token |-> [i \in Nat |-> k], of |-> {}]
Words(input, c) ==
    [token |-> [i \in Nat |-> IF i \in 1 .. Len(input[c]) THEN input[c][i] ELSE 0], of |-> {c}]
Nothing == Constant(0)

\* a[s] is the stream that side s receives, u the one that the unit registers.
Operated(cell, a, o) == IF cell.op[o] = "I1" THEN Constant(cell.const) ELSE a[cell.op[o]]
Label(cell, a, u) ==
    [at   |-> [b \in Buffers(cell) |-> IF b \in Sides THEN a[b] ELSE Operated(cell, a, b)],
     unit |-> u]

\* Cells whose operands come from sides or are constant.
Plain(cell) ==
    /\ Steady(cell) /\ DOMAIN cell.to \subseteq Sides
    /\ \A o \in Operands : cell.op[o] \in DOMAIN cell.to \cup {"I1", "none"}

Makes(cell, a, u) ==
    /\ \A b \in DOMAIN cell.to : a[b].of \subseteq Columns
    /\ u.of \subseteq Columns
    /\ IF \A o \in Operands : cell.op[o] # "none"
       THEN /\ \A i \in Nat \ {0} :
                 u.token[i + Begins(cell)] =
                    Value(cell, Operated(cell, a, "1").token[i], Operated(cell, a, "2").token[i],
                          a[cell.op["c"]].token[i])
            /\ u.of \subseteq Operated(cell, a, "1").of \cup Operated(cell, a, "2").of
            /\ cell.starts => u.of = {} /\ u.token[1] = cell.init
       ELSE ~cell.starts /\ u.of = {}

LEMMA LabelFits ==
    ASSUME NEW cell, Plain(cell), NEW a, NEW u, Makes(cell, a, u)
    PROVE  Computes(cell, Label(cell, a, u)) /\ Depends(cell, Label(cell, a, u))
<1> DEFINE t == Label(cell, a, u)
<1>1. /\ t.unit = u /\ \A b \in DOMAIN cell.to : b \in Sides /\ b \in Buffers(cell) /\ t.at[b] = a[b]
      /\ \A o \in Operands : o \notin Sides
      /\ \A o \in Operands : cell.op[o] # "none" => o \in Buffers(cell) /\ t.at[o] = Operated(cell, a, o)
  BY DEF Label, Buffers, Plain, Sides, Operands
<1>2. Operands \subseteq Buffers(cell) <=> \A o \in Operands : cell.op[o] # "none"
  BY <1>1 DEF Buffers, Plain
<1> HIDE DEF t
<1>3. ASSUME NEW o \in Operands
      PROVE  /\ cell.op[o] = "I1" => t.at[o] = Constant(cell.const)
             /\ cell.op[o] \in Holders(cell) => t.at[o] = Carried(t, cell.op[o])
  <2>1. CASE cell.op[o] = "I1"
    <3>1. "I1" \notin Holders(cell)
      BY DEF Holders, Plain, Sides
    <3> QED BY <1>1, <2>1, <3>1 DEF Operated
  <2>2. CASE cell.op[o] \in DOMAIN cell.to
    BY <1>1, <2>2 DEF Operated, Carried, Plain, Sides
  <2>3. CASE cell.op[o] = "none"
    BY <2>3 DEF Holders, Plain, Sides
  <2> QED BY <2>1, <2>2, <2>3 DEF Plain
<1>4. Computes(cell, t)
  <2>1. ASSUME Operands \subseteq Buffers(cell), NEW i \in Nat \ {0}
        PROVE  t.unit.token[i + Begins(cell)] =
                  Value(cell, t.at["1"].token[i], t.at["2"].token[i], t.at[cell.op["c"]].token[i])
    <3>1. t.at["1"] = Operated(cell, a, "1") /\ t.at["2"] = Operated(cell, a, "2")
      BY <1>1, <1>2, <2>1 DEF Operands
    <3>2. u.token[i + Begins(cell)] =
                    Value(cell, Operated(cell, a, "1").token[i], Operated(cell, a, "2").token[i],
                          a[cell.op["c"]].token[i])
      BY <1>2, <2>1 DEF Makes
    <3>3. CASE cell.mode = "mux"
      BY <1>1, <3>1, <3>2, <3>3 DEF Plain, Steady
    <3>4. CASE cell.mode # "mux"
      <4>1. cell.res # "mux"
        BY <3>4 DEF Plain, Steady
      <4> QED BY <1>1, <3>1, <3>2, <4>1 DEF Value
    <3> QED BY <3>3, <3>4
  <2>2. cell.starts => t.unit.token[1] = cell.init
    BY <1>1 DEF Makes
  <2>3. ASSUME NEW o \in Operands, cell.op[o] = "I1", NEW i \in Nat
        PROVE  t.at[o].token[i] = cell.const
    BY <1>3, <2>3 DEF Constant
  <2> QED BY <1>3, <2>1, <2>2, <2>3 DEF Computes
<1>5. Depends(cell, t)
  <2>1. \A o \in Operands : cell.op[o] = "I1" => t.at[o].of = {}
    BY <1>3 DEF Constant
  <2>2. ASSUME NEW b \in Buffers(cell) PROVE t.at[b].of \subseteq Columns
    <3>1. CASE b \in DOMAIN cell.to
      BY <1>1, <3>1 DEF Makes
    <3>2. CASE b \notin DOMAIN cell.to
      <4>1. b \in Operands /\ cell.op[b] # "none"
        BY <3>2 DEF Buffers
      <4>2. CASE cell.op[b] = "I1"
        BY <2>1, <4>1, <4>2
      <4>3. CASE cell.op[b] # "I1"
        <5>1. cell.op[b] \in DOMAIN cell.to /\ t.at[b] = a[cell.op[b]]
          BY <1>1, <4>1, <4>3 DEF Plain, Operated
        <5> QED BY <5>1 DEF Makes
      <4> QED BY <4>2, <4>3
    <3> QED BY <3>1, <3>2
  <2>3. ASSUME NEW d \in t.unit.of
        PROVE  ~cell.starts /\ \E o \in Operands \cap Buffers(cell) : d \in t.at[o].of
    <3>1. /\ \A o \in Operands : cell.op[o] # "none"
          /\ d \in Operated(cell, a, "1").of \cup Operated(cell, a, "2").of /\ ~cell.starts
      BY <1>1, <2>3 DEF Makes
    <3> QED BY <1>1, <3>1 DEF Operands
  <2> QED BY <1>1, <2>1, <2>2, <2>3 DEF Depends, Makes
<1> QED BY <1>4, <1>5 DEF t

\* The same stream at both ends of every wire.
Place(cells, input, a, u, p) ==
    /\ Plain(cells[p]) /\ Makes(cells[p], a[p], u[p])
    /\ \A b \in DOMAIN cells[p].to :
         /\ Outside(p, b) => a[p][b] = Words(input, p[1])
         /\ Fed(cells, p, b) =>
              LET q == Sender(p, b)[1]
                  x == FedFrom(cells, p, b)
              IN  a[p][b] = IF x = "dout" THEN u[q] ELSE a[q][x]
LabelAll(cells, a, u) == [p \in DOMAIN cells |-> Label(cells[p], a[p], u[p])]

LEMMA PlacesLabel ==
    ASSUME NEW cells, DOMAIN cells \subseteq Columns \X Rows, NEW input, NEW a, NEW u,
           \A p \in DOMAIN cells : Place(cells, input, a, u, p)
    PROVE  Labels(cells, input, LabelAll(cells, a, u))
<1> DEFINE t == LabelAll(cells, a, u)
<1> SUFFICES ASSUME NEW p \in DOMAIN cells
             PROVE  /\ Steady(cells[p]) /\ Computes(cells[p], t[p]) /\ Depends(cells[p], t[p])
                    /\ \A b \in DOMAIN cells[p].to :
                         /\ Outside(p, b) => /\ t[p].at[b].of \subseteq {p[1]}
                                             /\ \A i \in 1 .. Len(input[p[1]]) :
                                                    t[p].at[b].token[i] = input[p[1]][i]
                         /\ Fed(cells, p, b) =>
                                t[p].at[b] = Carried(t[Sender(p, b)[1]], FedFrom(cells, p, b))
  BY DEF Labels
<1>1. \A q \in DOMAIN cells :
         /\ t[q] = Label(cells[q], a[q], u[q]) /\ Plain(cells[q]) /\ t[q].unit = u[q]
         /\ \A b \in DOMAIN cells[q].to : b \in Sides /\ t[q].at[b] = a[q][b]
  BY DEF LabelAll, Label, Place, Plain, Buffers
<1>2. Computes(cells[p], t[p]) /\ Depends(cells[p], t[p])
  BY <1>1, LabelFits DEF Place
<1> HIDE DEF t
<1>3. ASSUME NEW b \in DOMAIN cells[p].to, Outside(p, b)
      PROVE  t[p].at[b].of \subseteq {p[1]}
             /\ \A i \in 1 .. Len(input[p[1]]) : t[p].at[b].token[i] = input[p[1]][i]
  <2>1. t[p].at[b] = Words(input, p[1])
    BY <1>1, <1>3 DEF Place
  <2> QED BY <2>1 DEF Words
<1>4. ASSUME NEW b \in DOMAIN cells[p].to, Fed(cells, p, b)
      PROVE  t[p].at[b] = Carried(t[Sender(p, b)[1]], FedFrom(cells, p, b))
  <2> DEFINE q == Sender(p, b)[1]
             s == Sender(p, b)[2]
             x == FedFrom(cells, p, b)
  <2>1. a[p][b] = IF x = "dout" THEN u[q] ELSE a[q][x]
    BY <1>4 DEF Place
  <2>2. q \in DOMAIN cells /\ ~Outside(p, b) /\ x = cells[q].out[s] /\ x # "none"
    BY <1>4 DEF Fed, FedFrom
  <2>3. b \in Sides /\ Steady(cells[q]) /\ p \in Columns \X Rows /\ q \in Columns \X Rows
    BY <1>1, <2>2 DEF Plain
  <2>4. x \in Holders(cells[q])
    BY <2>2, <2>3, WireEnds DEF Steady
  <2>5. Carried(t[q], x) = IF x = "dout" THEN u[q] ELSE a[q][x]
    BY <1>1, <2>2, <2>4 DEF Carried, Holders
  <2> QED BY <1>1, <2>1, <2>5
<1> QED BY <1>1, <1>2, <1>3, <1>4 DEF Plain

-----------------------------------------------------------------------------
(* Cells that join two operands                                            *)

Combine(alu, s, r) ==
    [token |-> [i \in Nat |-> ALU(alu, s.token[i], r.token[i])], of |-> s.of \cup r.of]
Gtz(s) == [token |-> [i \in Nat |-> IF s.token[i] > 0 THEN 1 ELSE 0], of |-> s.of]

\* A stream of words that needs columns.
Stream(s) == s.of \subseteq Columns /\ \A i \in Nat : s.token[i] \in Int

\* A cell that computes a result from two operands, or none.
Simple(cell) == Plain(cell) /\ cell.mode = "join" /\ ~cell.starts /\ cell.res \in {"alu", "gtz"}
Made(cell, a) ==
    LET both == Combine(cell.alu, Operated(cell, a, "1"), Operated(cell, a, "2"))
    IN  IF \E o \in Operands : cell.op[o] = "none" THEN Nothing
        ELSE IF cell.res = "gtz" THEN Gtz(both) ELSE both

LEMMA StreamOps ==
    /\ \A k \in Int : Stream(Constant(k))
    /\ \A s, r : Stream(s) /\ Stream(r)
                 => /\ Stream(Gtz(s)) /\ Stream(Combine("add", s, r))
                    /\ Stream(Combine("sub", s, r)) /\ Stream(Combine("mul", s, r))
<1>1. \A k \in Int : Stream(Constant(k))
  BY DEF Stream, Constant
<1>2. ASSUME NEW s, NEW r, Stream(s), Stream(r)
      PROVE  /\ Stream(Gtz(s)) /\ Stream(Combine("add", s, r))
             /\ Stream(Combine("sub", s, r)) /\ Stream(Combine("mul", s, r))
  <2>1. Stream(Gtz(s))
    BY <1>2 DEF Stream, Gtz
  <2>2. \A alu : Combine(alu, s, r).of \subseteq Columns
    BY <1>2 DEF Stream, Combine
  <2>3. \A i \in Nat : s.token[i] \in Int /\ r.token[i] \in Int
    BY <1>2 DEF Stream
  <2>4. \A i \in Nat : /\ Combine("add", s, r).token[i] \in Int
                       /\ Combine("sub", s, r).token[i] \in Int
                       /\ Combine("mul", s, r).token[i] \in Int
    BY <2>3 DEF Combine, ALU
  <2> QED BY <2>1, <2>2, <2>4 DEF Stream
<1> QED BY <1>1, <1>2

LEMMA WordsStream ==
    ASSUME NEW input, NEW c \in Columns, input[c] \in Seq(Int)
    PROVE  Stream(Words(input, c))
<1>1. \A i \in Nat : i \in 1 .. Len(input[c]) => input[c][i] \in Int
  OBVIOUS
<1> QED BY <1>1 DEF Stream, Words

LEMMA SimpleMakes ==
    ASSUME NEW cell, Simple(cell), NEW a, \A b \in DOMAIN cell.to : a[b].of \subseteq Columns
    PROVE  Makes(cell, a, Made(cell, a))
<1> DEFINE s == Operated(cell, a, "1")
           r == Operated(cell, a, "2")
           u == Made(cell, a)
<1>0. \A o \in Operands : o \in {"1", "2"}
  BY DEF Operands
<1>1. CASE \E o \in Operands : cell.op[o] = "none"
  <2>1. u = Nothing /\ u.of = {}
    BY <1>1 DEF Made, Nothing, Constant
  <2> HIDE DEF u
  <2> QED BY <1>1, <2>1 DEF Makes, Simple, u
<1>2. CASE \A o \in Operands : cell.op[o] # "none"
  <2>1. s.of \subseteq Columns /\ r.of \subseteq Columns
    BY <1>2 DEF Operated, Constant, Simple, Plain, Operands
  <2>2. u = IF cell.res = "gtz" THEN Gtz(Combine(cell.alu, s, r)) ELSE Combine(cell.alu, s, r)
    BY <1>2 DEF Made
  <2> HIDE DEF s, r, u
  <2>3. u.of = s.of \cup r.of
    BY <2>2 DEF Gtz, Combine
  <2>4. ASSUME NEW i \in Nat \ {0}
        PROVE  u.token[i] = Value(cell, s.token[i], r.token[i], a[cell.op["c"]].token[i])
    <3>1. Combine(cell.alu, s, r).token[i] = ALU(cell.alu, s.token[i], r.token[i])
      BY DEF Combine
    <3>2. CASE cell.res = "gtz"
      BY <2>2, <3>1, <3>2 DEF Value, Gtz
    <3>3. CASE cell.res # "gtz"
      BY <2>2, <3>1, <3>3 DEF Value, Simple
    <3> QED BY <3>2, <3>3
  <2>5. \A i \in Nat \ {0} : i + Begins(cell) = i
    BY DEF Begins, Simple
  <2> QED BY <1>2, <2>1, <2>3, <2>4, <2>5 DEF Makes, Simple, s, r, u
<1> QED BY <1>1, <1>2

\* What is left to check of such a cell: the two ends of its wires.
SameStream(cells, input, a, p, b) ==
    /\ Outside(p, b) => a[p][b] = Words(input, p[1])
    /\ Fed(cells, p, b) =>
         LET q == Sender(p, b)[1]
             x == FedFrom(cells, p, b)
         IN  a[p][b] = IF x = "dout" THEN Made(cells[q], a[q]) ELSE a[q][x]

LEMMA SimpleLabels ==
    ASSUME NEW cells, DOMAIN cells \subseteq Columns \X Rows, NEW input, NEW a,
           \A p \in DOMAIN cells : Simple(cells[p]),
           \A p \in DOMAIN cells : \A b \in DOMAIN cells[p].to :
                Stream(a[p][b]) /\ SameStream(cells, input, a, p, b)
    PROVE  Labels(cells, input, LabelAll(cells, a, [p \in DOMAIN cells |-> Made(cells[p], a[p])]))
<1> DEFINE u == [p \in DOMAIN cells |-> Made(cells[p], a[p])]
<1>1. ASSUME NEW p \in DOMAIN cells PROVE Place(cells, input, a, u, p)
  <2>1. Makes(cells[p], a[p], u[p])
    BY SimpleMakes DEF Stream
  <2>2. ASSUME NEW b \in DOMAIN cells[p].to, Fed(cells, p, b)
        PROVE  u[Sender(p, b)[1]] = Made(cells[Sender(p, b)[1]], a[Sender(p, b)[1]])
    BY <2>2 DEF Fed
  <2> HIDE DEF u
  <2> QED BY <2>1, <2>2 DEF Place, Simple, SameStream
<1> QED BY <1>1, PlacesLabel

-----------------------------------------------------------------------------
(* From labels to kernels                                                  *)

\* What was taken of a column is what its first words are.
LEMMA GivenWord ==
    ASSUME NEW input, NEW c \in Columns, input[c] \in Seq(Int), NEW g, g[c] \in Nat,
           g[c] <= Len(input[c])
    PROVE  /\ Given(input, g)[c] \in Seq(Int) /\ Len(Given(input, g)[c]) = g[c]
           /\ DOMAIN Given(input, g)[c] = 1 .. g[c]
           /\ \A k \in 1 .. g[c] : /\ Given(input, g)[c][k] = Words(input, c).token[k]
                                   /\ Words(input, c).token[k] \in Int
<1> DEFINE w == input[c]
           n == g[c]
           v == Words(input, c).token
<1>1. Given(input, g)[c] = SubSeq(w, 1, n) /\ v = [i \in Nat |-> IF i \in 1 .. Len(w) THEN w[i] ELSE 0]
  BY DEF Given, Words
<1> HIDE DEF w, n, v
<1>2. w \in Seq(Int) /\ n \in Nat /\ n <= Len(w) /\ Len(w) \in Nat
  BY DEF w, n
<1>3. SubSeq(w, 1, n) \in Seq(Int) /\ Len(SubSeq(w, 1, n)) = n
      /\ \A k \in 1 .. n : SubSeq(w, 1, n)[k] = w[k]
  BY <1>2
<1>4. \A k \in 1 .. n : v[k] = w[k] /\ w[k] \in Int
  BY <1>1, <1>2
<1>5. DOMAIN SubSeq(w, 1, n) = 1 .. n
  BY <1>3
<1> QED BY <1>1, <1>3, <1>4, <1>5 DEF n, v

\* The labels that a table computes, and what they say of its results.
Labelling(cells, a) == LabelAll(cells, a, [p \in DOMAIN cells |-> Made(cells[p], a[p])])
LEMMA SentIs ==
    ASSUME NEW cells, NEW a, NEW c, Sends(cells, c), Simple(cells[<<c, 3>>]),
           cells[<<c, 3>>].out["S"] \in DOMAIN cells[<<c, 3>>].to
    PROVE  Sent(cells, Labelling(cells, a), c) = a[<<c, 3>>][cells[<<c, 3>>].out["S"]]
BY DEF Sent, Sends, Labelling, LabelAll, Label, Carried, Simple, Plain, Buffers, Sides

LEMMA SentMade ==
    ASSUME NEW cells, NEW a, NEW c, Sends(cells, c), cells[<<c, 3>>].out["S"] = "dout"
    PROVE  Sent(cells, Labelling(cells, a), c) = Made(cells[<<c, 3>>], a[<<c, 3>>])
BY DEF Sent, Sends, Labelling, LabelAll, Label, Carried

LEMMA DownCell ==
    Simple(Down) /\ Down.to = [N |-> {"S"}] /\ DOMAIN Down.to = {"N"} /\ Down.out["S"] = "N"
BY DEF Down, Pass, Wired, Feeds, Simple, Plain, Steady, WellRouted, Holders, Sides, Operands

\* bypass.
LEMMA BypassJob ==
    ASSUME NEW j \in DOMAIN Jobs, Jobs[j].kernel = "bypass", Cells[j] = BypassTable
    PROVE  \E t : Labels(Cells[j], Jobs[j].input, t) /\ Faithful(j, t)
<1> DEFINE input == Jobs[j].input
           a     == [p \in DOMAIN BypassTable |-> [N |-> Words(input, p[1])]]
           t     == Labelling(BypassTable, a)
<1>1. \A c \in Columns : input[c] \in Seq(Int) /\ Stream(Words(input, c))
  BY InputAssumption, WordsStream
<1>2. DOMAIN BypassTable = Columns \X Rows /\ \A p \in Columns \X Rows : BypassTable[p] = Down
  BY DEF BypassTable, Rows
<1>3. ASSUME NEW p \in DOMAIN BypassTable, NEW b \in DOMAIN BypassTable[p].to
      PROVE  Stream(a[p][b]) /\ SameStream(BypassTable, input, a, p, b)
  <2>1. PICK c \in Columns, r \in Rows : p = <<c, r>>
    BY <1>2
  <2>2. b = "N" /\ a[p][b] = Words(input, c)
    BY <1>2, <2>1, DownCell
  <2>3. ~Outside(p, b) => Sender(p, b) = <<<<c, r - 1>>, "S">> /\ <<c, r - 1>> \in DOMAIN BypassTable
    BY <1>2, <2>1, <2>2 DEF Outside, Sender, Rows
  <2>4. ~Outside(p, b) => /\ FedFrom(BypassTable, p, b) = "N"
                          /\ a[<<c, r - 1>>]["N"] = Words(input, c)
    BY <1>2, <2>3, DownCell DEF FedFrom
  <2> HIDE DEF a
  <2> QED BY <1>1, <2>1, <2>2, <2>3, <2>4 DEF SameStream, Fed
<1>4. Labels(Cells[j], input, t)
  <2> HIDE DEF a, input
  <2> QED BY <1>2, <1>3, DownCell, SimpleLabels DEF Labelling
<1>5. ASSUME NEW g \in [Columns -> Nat], NEW c \in Columns,
             \A d \in Columns : g[d] <= Len(input[d]),
             NEW k \in Nat \ {0}, \A d \in Sent(Cells[j], t, c).of : k <= g[d]
      PROVE  LET r == Kernel!Outputs(Jobs[j].kernel, Jobs[j].words, Given(input, g))[c]
             IN  k <= Len(r) /\ r[k] = Sent(Cells[j], t, c).token[k]
  <2>1. Sent(Cells[j], t, c) = Words(input, c)
    <3>1. <<c, 3>> \in DOMAIN BypassTable
      BY <1>2 DEF Rows
    <3> QED BY <1>2, <3>1, DownCell, SentIs DEF Sends
  <2>2. Words(input, c).of = {c}
    BY DEF Words
  <2>3. Kernel!Outputs(Jobs[j].kernel, Jobs[j].words, Given(input, g))[c] = Given(input, g)[c]
    BY DEF Kernel!Outputs
  <2> HIDE DEF t, input
  <2>4. k \in 1 .. g[c] /\ g[c] \in Nat
    BY <1>5, <2>1, <2>2
  <2>5. Len(Given(input, g)[c]) = g[c] /\ Given(input, g)[c][k] = Words(input, c).token[k]
    BY <1>1, <1>5, <2>4, GivenWord
  <2> QED BY <2>1, <2>3, <2>4, <2>5
<1>6. Faithful(j, t)
  BY <1>5 DEF Faithful
<1> QED BY <1>4, <1>6

-----------------------------------------------------------------------------
(* conv2d_1                                                                *)

LEMMA EastCell ==
    LET cell == Pass("N", "E")
    IN  Simple(cell) /\ cell.to = [N |-> {"E"}] /\ DOMAIN cell.to = {"N"} /\ cell.out["E"] = "N"
BY DEF Pass, Wired, Feeds, Simple, Plain, Steady, WellRouted, Holders, Sides, Operands

LEMMA ScaleCell ==
    ASSUME NEW k
    PROVE  /\ Simple(Scale(k)) /\ DOMAIN Scale(k).to = {"N"} /\ Scale(k).out["S"] = "dout"
           /\ \A s : Made(Scale(k), [N |-> s]) = Combine("mul", s, Constant(k))
<1>1. Simple(Scale(k)) /\ DOMAIN Scale(k).to = {"N"} /\ Scale(k).out["S"] = "dout"
  BY DEF Scale, With, Mul, Wired, Feeds, Simple, Plain, Steady, WellRouted, Holders, Sides, Operands
<1>2. /\ Scale(k).op["1"] = "N" /\ Scale(k).op["2"] = "I1" /\ Scale(k).const = k
      /\ Scale(k).alu = "mul" /\ Scale(k).res = "alu"
  BY DEF Scale, With, Mul, Wired, Feeds, Sides, Operands
<1> QED BY <1>1, <1>2 DEF Made, Operated, Operands

LEMMA SumCell ==
    ASSUME NEW d \in {"E", "S"}
    PROVE  /\ Simple(Sum({d})) /\ DOMAIN Sum({d}).to = {"N", "W"} /\ Sum({d}).out[d] = "dout"
           /\ \A s, r : Made(Sum({d}), [N |-> s, W |-> r]) = Combine("add", r, s)
<1>1. Simple(Sum({d})) /\ DOMAIN Sum({d}).to = {"N", "W"} /\ Sum({d}).out[d] = "dout"
  BY DEF Sum, Add, Wired, Feeds, Simple, Plain, Steady, WellRouted, Holders, Sides, Operands
<1>2. /\ Sum({d}).op["1"] = "W" /\ Sum({d}).op["2"] = "N" /\ Sum({d}).alu = "add" /\ Sum({d}).res = "alu"
  BY DEF Sum, Add, Wired, Feeds, Sides, Operands
<1> QED BY <1>1, <1>2 DEF Made, Operated, Operands

\* conv2d_1.
Conv2d1Sides(x) ==
    LET product(c, k) == Combine("mul", x[c], Constant(k))
        two   == Combine("add", product(0, 0), product(1, -1))
        three == Combine("add", two, product(2, 0))
    IN  [p \in DOMAIN Conv2d1Table |->
         CASE p[2] = 0     -> [N |-> x[p[1]]]
           [] p = <<0, 1>> -> [N |-> product(0, 0)]
           [] p = <<1, 1>> -> [N |-> product(1, -1), W |-> product(0, 0)]
           [] p = <<2, 1>> -> [N |-> product(2, 0), W |-> two]
           [] OTHER        -> [N |-> three]]

LEMMA Conv2d1Labels ==
    ASSUME NEW input, NEW x, x = [c \in Columns |-> Words(input, c)],
           \A c \in Columns : Stream(x[c])
    PROVE  Labels(Conv2d1Table, input, Labelling(Conv2d1Table, Conv2d1Sides(x)))
<1> DEFINE T == Conv2d1Table
           a == Conv2d1Sides(x)
           m0 == Combine("mul", x[0], Constant(0))
           m1 == Combine("mul", x[1], Constant(-1))
           m2 == Combine("mul", x[2], Constant(0))
           s1 == Combine("add", m0, m1)
           s2 == Combine("add", s1, m2)
<1>1. DOMAIN T = {<<0, 0>>, <<1, 0>>, <<2, 0>>, <<0, 1>>, <<1, 1>>, <<2, 1>>, <<2, 2>>, <<2, 3>>}
  BY DEF Conv2d1Table
<1>2. /\ T[<<0, 0>>] = Scale(0) /\ T[<<1, 0>>] = Scale(-1) /\ T[<<2, 0>>] = Scale(0)
      /\ T[<<0, 1>>] = Pass("N", "E") /\ T[<<1, 1>>] = Sum({"E"}) /\ T[<<2, 1>>] = Sum({"S"})
      /\ T[<<2, 2>>] = Down /\ T[<<2, 3>>] = Down
  BY DEF Conv2d1Table
<1>3. /\ a[<<0, 0>>] = [N |-> x[0]] /\ a[<<1, 0>>] = [N |-> x[1]] /\ a[<<2, 0>>] = [N |-> x[2]]
      /\ a[<<0, 1>>] = [N |-> m0] /\ a[<<1, 1>>] = [N |-> m1, W |-> m0]
      /\ a[<<2, 1>>] = [N |-> m2, W |-> s1] /\ a[<<2, 2>>] = [N |-> s2] /\ a[<<2, 3>>] = [N |-> s2]
  BY <1>1 DEF Conv2d1Sides
<1>4. Stream(m0) /\ Stream(m1) /\ Stream(m2) /\ Stream(s1) /\ Stream(s2)
  BY StreamOps DEF Columns
<1>5. /\ \A k \in {0, -1} : /\ Simple(Scale(k)) /\ DOMAIN Scale(k).to = {"N"}
                            /\ Scale(k).out["S"] = "dout"
      /\ \A d \in {"E", "S"} : /\ Simple(Sum({d})) /\ DOMAIN Sum({d}).to = {"N", "W"}
                               /\ Sum({d}).out[d] = "dout"
  BY ScaleCell, SumCell
<1>6. /\ Made(T[<<0, 0>>], a[<<0, 0>>]) = m0 /\ Made(T[<<1, 0>>], a[<<1, 0>>]) = m1
      /\ Made(T[<<2, 0>>], a[<<2, 0>>]) = m2
      /\ Made(T[<<1, 1>>], a[<<1, 1>>]) = s1 /\ Made(T[<<2, 1>>], a[<<2, 1>>]) = s2
  BY <1>2, <1>3, ScaleCell, SumCell
<1>7. \A p \in DOMAIN T : Simple(T[p])
  BY <1>1, <1>2, <1>5, EastCell, DownCell
<1> HIDE DEF T, a, m0, m1, m2, s1, s2
<1>8. ASSUME NEW p \in DOMAIN T, NEW b \in DOMAIN T[p].to
      PROVE  Stream(a[p][b]) /\ SameStream(T, input, a, p, b)
  <2>1. CASE p \in {<<0, 0>>, <<1, 0>>, <<2, 0>>}
    <3>1. b = "N" /\ Outside(p, b) /\ a[p][b] = x[p[1]] /\ p[1] \in Columns
      BY <1>2, <1>3, <1>5, <2>1 DEF Outside, Columns
    <3> QED BY <3>1 DEF SameStream, Fed
  <2>2. CASE p = <<0, 1>>
    <3>1. b = "N" /\ ~Outside(p, b) /\ Sender(p, b) = <<<<0, 0>>, "S">> /\ a[p][b] = m0
      BY <1>2, <1>3, <2>2, EastCell DEF Outside, Sender
    <3> QED BY <1>2, <1>4, <1>5, <1>6, <3>1 DEF SameStream, FedFrom
  <2>3. CASE p = <<1, 1>> /\ b = "N"
    <3>1. ~Outside(p, b) /\ Sender(p, b) = <<<<1, 0>>, "S">> /\ a[p][b] = m1
      BY <1>3, <2>3 DEF Outside, Sender
    <3> QED BY <1>2, <1>4, <1>5, <1>6, <3>1 DEF SameStream, FedFrom
  <2>4. CASE p = <<1, 1>> /\ b = "W"
    <3>1. ~Outside(p, b) /\ Sender(p, b) = <<<<0, 1>>, "E">> /\ a[p][b] = m0
      BY <1>3, <2>4 DEF Outside, Sender
    <3> QED BY <1>2, <1>3, <1>4, <3>1, EastCell DEF SameStream, FedFrom
  <2>5. CASE p = <<2, 1>> /\ b = "N"
    <3>1. ~Outside(p, b) /\ Sender(p, b) = <<<<2, 0>>, "S">> /\ a[p][b] = m2
      BY <1>3, <2>5 DEF Outside, Sender
    <3> QED BY <1>2, <1>4, <1>5, <1>6, <3>1 DEF SameStream, FedFrom
  <2>6. CASE p = <<2, 1>> /\ b = "W"
    <3>1. ~Outside(p, b) /\ Sender(p, b) = <<<<1, 1>>, "E">> /\ a[p][b] = s1
      BY <1>3, <2>6 DEF Outside, Sender
    <3> QED BY <1>2, <1>4, <1>5, <1>6, <3>1 DEF SameStream, FedFrom
  <2>7. CASE p = <<2, 2>>
    <3>1. b = "N" /\ ~Outside(p, b) /\ Sender(p, b) = <<<<2, 1>>, "S">> /\ a[p][b] = s2
      BY <1>2, <1>3, <2>7, DownCell DEF Outside, Sender
    <3> QED BY <1>2, <1>4, <1>5, <1>6, <3>1 DEF SameStream, FedFrom
  <2>8. CASE p = <<2, 3>>
    <3>1. b = "N" /\ ~Outside(p, b) /\ Sender(p, b) = <<<<2, 2>>, "S">> /\ a[p][b] = s2
      BY <1>2, <1>3, <2>8, DownCell DEF Outside, Sender
    <3> QED BY <1>2, <1>3, <1>4, <3>1, DownCell DEF SameStream, FedFrom
  <2>9. p \in {<<1, 1>>, <<2, 1>>} => b \in {"N", "W"}
    BY <1>2, <1>5
  <2> QED BY <1>1, <2>1, <2>2, <2>3, <2>4, <2>5, <2>6, <2>7, <2>8, <2>9
<1>9. DOMAIN T \subseteq Columns \X Rows
  BY <1>1 DEF Columns, Rows
<1>10. Labels(T, input, Labelling(T, a))
  BY <1>7, <1>8, <1>9, SimpleLabels DEF Labelling
<1> QED BY <1>10 DEF T, a

-----------------------------------------------------------------------------
(* relu                                                                    *)

LEMMA ReluCells ==
    /\ Simple(Sign({"1", "W"})) /\ DOMAIN Sign({"1", "W"}).to = {"N"}
    /\ Sign({"1", "W"}).out["S"] = "dout" /\ Sign({"1", "W"}).out["W"] = "N"
    /\ \A s : Made(Sign({"1", "W"}), [N |-> s])
                    = Gtz(Combine("add", s, Constant(0)))
    /\ Simple(Sign({"1", "E"})) /\ DOMAIN Sign({"1", "E"}).to = {"N"}
    /\ Sign({"1", "E"}).out["E"] = "N" /\ Sign({"1", "E"}).out["S"] = "dout"
    /\ \A s : Made(Sign({"1", "E"}), [N |-> s])
                    = Gtz(Combine("add", s, Constant(0)))
    /\ Simple(Mul([N |-> {"2"}, W |-> {"1"}], {"S"}))
    /\ DOMAIN Mul([N |-> {"2"}, W |-> {"1"}], {"S"}).to = {"N", "W"}
    /\ Mul([N |-> {"2"}, W |-> {"1"}], {"S"}).out["S"] = "dout"
    /\ \A s, r : Made(Mul([N |-> {"2"}, W |-> {"1"}], {"S"}), [N |-> s, W |-> r])
                    = Combine("mul", r, s)
    /\ Simple(Mul([S |-> {"2"}, W |-> {"1"}], {"S"}))
    /\ DOMAIN Mul([S |-> {"2"}, W |-> {"1"}], {"S"}).to = {"S", "W"}
    /\ Mul([S |-> {"2"}, W |-> {"1"}], {"S"}).out["S"] = "dout"
    /\ \A s, r : Made(Mul([S |-> {"2"}, W |-> {"1"}], {"S"}), [S |-> s, W |-> r])
                    = Combine("mul", r, s)
    /\ Simple(Mul([N |-> {"1"}, E |-> {"2"}], {"S"}))
    /\ DOMAIN Mul([N |-> {"1"}, E |-> {"2"}], {"S"}).to = {"N", "E"}
    /\ Mul([N |-> {"1"}, E |-> {"2"}], {"S"}).out["S"] = "dout"
    /\ \A s, r : Made(Mul([N |-> {"1"}, E |-> {"2"}], {"S"}), [N |-> s, E |-> r])
                    = Combine("mul", s, r)
    /\ Simple(Wired([N |-> {"S"}, W |-> {"N"}], {}))
    /\ DOMAIN Wired([N |-> {"S"}, W |-> {"N"}], {}).to = {"N", "W"}
    /\ Wired([N |-> {"S"}, W |-> {"N"}], {}).out["N"] = "W"
    /\ Wired([N |-> {"S"}, W |-> {"N"}], {}).out["S"] = "N"
<1>1. /\ Simple(Sign({"1", "W"})) /\ DOMAIN Sign({"1", "W"}).to = {"N"}
      /\ Sign({"1", "W"}).out["S"] = "dout" /\ Sign({"1", "W"}).out["W"] = "N"
      /\ \A s : Made(Sign({"1", "W"}), [N |-> s])
                      = Gtz(Combine("add", s, Constant(0)))
  <2>1. /\ Simple(Sign({"1", "W"})) /\ DOMAIN Sign({"1", "W"}).to = {"N"}
        /\ Sign({"1", "W"}).out["S"] = "dout" /\ Sign({"1", "W"}).out["W"] = "N"
    BY DEF Sign, GreaterZero, With, Add, Wired, Feeds, Simple, Plain, Steady, WellRouted, Holders, Sides, Operands
  <2>2. /\ Sign({"1", "W"}).op["1"] = "N" /\ Sign({"1", "W"}).op["2"] = "I1"
        /\ Sign({"1", "W"}).const = 0 /\ Sign({"1", "W"}).alu = "add"
        /\ Sign({"1", "W"}).res = "gtz"
    BY DEF Sign, GreaterZero, With, Add, Wired, Feeds, Sides, Operands
  <2> QED BY <2>1, <2>2 DEF Made, Operated, Operands
<1>2. /\ Simple(Sign({"1", "E"})) /\ DOMAIN Sign({"1", "E"}).to = {"N"}
      /\ Sign({"1", "E"}).out["E"] = "N" /\ Sign({"1", "E"}).out["S"] = "dout"
      /\ \A s : Made(Sign({"1", "E"}), [N |-> s])
                      = Gtz(Combine("add", s, Constant(0)))
  <2>1. /\ Simple(Sign({"1", "E"})) /\ DOMAIN Sign({"1", "E"}).to = {"N"}
        /\ Sign({"1", "E"}).out["E"] = "N" /\ Sign({"1", "E"}).out["S"] = "dout"
    BY DEF Sign, GreaterZero, With, Add, Wired, Feeds, Simple, Plain, Steady, WellRouted, Holders, Sides, Operands
  <2>2. /\ Sign({"1", "E"}).op["1"] = "N" /\ Sign({"1", "E"}).op["2"] = "I1"
        /\ Sign({"1", "E"}).const = 0 /\ Sign({"1", "E"}).alu = "add"
        /\ Sign({"1", "E"}).res = "gtz"
    BY DEF Sign, GreaterZero, With, Add, Wired, Feeds, Sides, Operands
  <2> QED BY <2>1, <2>2 DEF Made, Operated, Operands
<1>3. /\ Simple(Mul([N |-> {"2"}, W |-> {"1"}], {"S"}))
      /\ DOMAIN Mul([N |-> {"2"}, W |-> {"1"}], {"S"}).to = {"N", "W"}
      /\ Mul([N |-> {"2"}, W |-> {"1"}], {"S"}).out["S"] = "dout"
      /\ \A s, r : Made(Mul([N |-> {"2"}, W |-> {"1"}], {"S"}), [N |-> s, W |-> r])
                      = Combine("mul", r, s)
  <2>1. /\ Simple(Mul([N |-> {"2"}, W |-> {"1"}], {"S"}))
        /\ DOMAIN Mul([N |-> {"2"}, W |-> {"1"}], {"S"}).to = {"N", "W"}
        /\ Mul([N |-> {"2"}, W |-> {"1"}], {"S"}).out["S"] = "dout"
    BY DEF Mul, Wired, Feeds, Simple, Plain, Steady, WellRouted, Holders, Sides, Operands
  <2>2. /\ Mul([N |-> {"2"}, W |-> {"1"}], {"S"}).op["1"] = "W"
        /\ Mul([N |-> {"2"}, W |-> {"1"}], {"S"}).op["2"] = "N"
        /\ Mul([N |-> {"2"}, W |-> {"1"}], {"S"}).alu = "mul"
        /\ Mul([N |-> {"2"}, W |-> {"1"}], {"S"}).res = "alu"
    BY DEF Mul, Wired, Feeds, Sides, Operands
  <2> QED BY <2>1, <2>2 DEF Made, Operated, Operands
<1>4. /\ Simple(Mul([S |-> {"2"}, W |-> {"1"}], {"S"}))
      /\ DOMAIN Mul([S |-> {"2"}, W |-> {"1"}], {"S"}).to = {"S", "W"}
      /\ Mul([S |-> {"2"}, W |-> {"1"}], {"S"}).out["S"] = "dout"
      /\ \A s, r : Made(Mul([S |-> {"2"}, W |-> {"1"}], {"S"}), [S |-> s, W |-> r])
                      = Combine("mul", r, s)
  <2>1. /\ Simple(Mul([S |-> {"2"}, W |-> {"1"}], {"S"}))
        /\ DOMAIN Mul([S |-> {"2"}, W |-> {"1"}], {"S"}).to = {"S", "W"}
        /\ Mul([S |-> {"2"}, W |-> {"1"}], {"S"}).out["S"] = "dout"
    BY DEF Mul, Wired, Feeds, Simple, Plain, Steady, WellRouted, Holders, Sides, Operands
  <2>2. /\ Mul([S |-> {"2"}, W |-> {"1"}], {"S"}).op["1"] = "W"
        /\ Mul([S |-> {"2"}, W |-> {"1"}], {"S"}).op["2"] = "S"
        /\ Mul([S |-> {"2"}, W |-> {"1"}], {"S"}).alu = "mul"
        /\ Mul([S |-> {"2"}, W |-> {"1"}], {"S"}).res = "alu"
    BY DEF Mul, Wired, Feeds, Sides, Operands
  <2> QED BY <2>1, <2>2 DEF Made, Operated, Operands
<1>5. /\ Simple(Mul([N |-> {"1"}, E |-> {"2"}], {"S"}))
      /\ DOMAIN Mul([N |-> {"1"}, E |-> {"2"}], {"S"}).to = {"N", "E"}
      /\ Mul([N |-> {"1"}, E |-> {"2"}], {"S"}).out["S"] = "dout"
      /\ \A s, r : Made(Mul([N |-> {"1"}, E |-> {"2"}], {"S"}), [N |-> s, E |-> r])
                      = Combine("mul", s, r)
  <2>1. /\ Simple(Mul([N |-> {"1"}, E |-> {"2"}], {"S"}))
        /\ DOMAIN Mul([N |-> {"1"}, E |-> {"2"}], {"S"}).to = {"N", "E"}
        /\ Mul([N |-> {"1"}, E |-> {"2"}], {"S"}).out["S"] = "dout"
    BY DEF Mul, Wired, Feeds, Simple, Plain, Steady, WellRouted, Holders, Sides, Operands
  <2>2. /\ Mul([N |-> {"1"}, E |-> {"2"}], {"S"}).op["1"] = "N"
        /\ Mul([N |-> {"1"}, E |-> {"2"}], {"S"}).op["2"] = "E"
        /\ Mul([N |-> {"1"}, E |-> {"2"}], {"S"}).alu = "mul"
        /\ Mul([N |-> {"1"}, E |-> {"2"}], {"S"}).res = "alu"
    BY DEF Mul, Wired, Feeds, Sides, Operands
  <2> QED BY <2>1, <2>2 DEF Made, Operated, Operands
<1>6. /\ Simple(Wired([N |-> {"S"}, W |-> {"N"}], {}))
      /\ DOMAIN Wired([N |-> {"S"}, W |-> {"N"}], {}).to = {"N", "W"}
      /\ Wired([N |-> {"S"}, W |-> {"N"}], {}).out["N"] = "W"
      /\ Wired([N |-> {"S"}, W |-> {"N"}], {}).out["S"] = "N"
  BY DEF Wired, Feeds, Simple, Plain, Steady, WellRouted, Holders, Sides, Operands
<1> QED BY <1>1, <1>2, <1>3, <1>4, <1>5, <1>6

\* relu.
Signum(s) == Gtz(Combine("add", s, Constant(0)))
ReluSides(x) ==
    LET signed(c) == Combine("mul", x[c], Signum(x[c]))
    IN  [p \in DOMAIN ReluTable |->
         CASE p = <<0, 1>> -> [N |-> Signum(x[0]), W |-> x[0]]
           [] p = <<1, 1>> -> [N |-> Signum(x[1])]
           [] p = <<2, 0>> -> [S |-> Signum(x[1]), W |-> x[1]]
           [] p = <<2, 1>> -> [N |-> signed(1), W |-> Signum(x[1])]
           [] p = <<3, 1>> -> [N |-> Signum(x[3]), E |-> x[3]]
           [] p \in {<<0, 0>>, <<1, 0>>, <<3, 0>>} -> [N |-> x[p[1]]]
           [] p \in {<<0, 2>>, <<0, 3>>} -> [N |-> signed(0)]
           [] p \in {<<2, 2>>, <<2, 3>>} -> [N |-> signed(1)]
           [] OTHER -> [N |-> Combine("mul", Signum(x[3]), x[3])]]

LEMMA SignumStream == ASSUME NEW s, Stream(s) PROVE Stream(Signum(s))
<1>1. Stream(Constant(0))
  BY StreamOps
<1>2. Stream(Combine("add", s, Constant(0)))
  BY <1>1, StreamOps
<1> QED BY <1>2, StreamOps DEF Signum

LEMMA ReluLabels ==
    ASSUME NEW input, NEW x, x = [c \in Columns |-> Words(input, c)],
           \A c \in Columns : Stream(x[c])
    PROVE  Labels(ReluTable, input, Labelling(ReluTable, ReluSides(x)))
<1> DEFINE T == ReluTable
           a == ReluSides(x)
           g0 == Signum(x[0])
           g1 == Signum(x[1])
           g3 == Signum(x[3])
           m0 == Combine("mul", x[0], g0)
           m1 == Combine("mul", x[1], g1)
           m3 == Combine("mul", g3, x[3])
<1>1. DOMAIN T =
        {<<0, 0>>, <<0, 1>>, <<0, 2>>, <<0, 3>>, <<1, 0>>, <<1, 1>>, <<2, 0>>, <<2, 1>>,
         <<2, 2>>, <<2, 3>>, <<3, 0>>, <<3, 1>>, <<3, 2>>, <<3, 3>>}
  BY DEF ReluTable, Columns
<1>2. /\ T[<<0, 0>>] = Sign({"1", "W"}) /\ T[<<0, 1>>] = Mul([N |-> {"2"}, W |-> {"1"}], {"S"})
      /\ T[<<0, 2>>] = Down /\ T[<<0, 3>>] = Down /\ T[<<1, 0>>] = Sign({"1", "E"})
      /\ T[<<1, 1>>] = Pass("N", "E") /\ T[<<2, 0>>] = Mul([S |-> {"2"}, W |-> {"1"}], {"S"})
      /\ T[<<2, 1>>] = Wired([N |-> {"S"}, W |-> {"N"}], {}) /\ T[<<2, 2>>] = Down
      /\ T[<<2, 3>>] = Down /\ T[<<3, 0>>] = Sign({"1", "E"})
      /\ T[<<3, 1>>] = Mul([N |-> {"1"}, E |-> {"2"}], {"S"}) /\ T[<<3, 2>>] = Down
      /\ T[<<3, 3>>] = Down
  BY DEF ReluTable, Columns
<1>3. /\ a[<<0, 0>>] = [N |-> x[0]] /\ a[<<0, 1>>] = [N |-> g0, W |-> x[0]]
      /\ a[<<0, 2>>] = [N |-> m0] /\ a[<<0, 3>>] = [N |-> m0] /\ a[<<1, 0>>] = [N |-> x[1]]
      /\ a[<<1, 1>>] = [N |-> g1] /\ a[<<2, 0>>] = [S |-> g1, W |-> x[1]]
      /\ a[<<2, 1>>] = [N |-> m1, W |-> g1] /\ a[<<2, 2>>] = [N |-> m1]
      /\ a[<<2, 3>>] = [N |-> m1] /\ a[<<3, 0>>] = [N |-> x[3]]
      /\ a[<<3, 1>>] = [N |-> g3, E |-> x[3]] /\ a[<<3, 2>>] = [N |-> m3]
      /\ a[<<3, 3>>] = [N |-> m3]
  BY <1>1 DEF ReluSides
<1>0. /\ Stream(x[0]) /\ Stream(x[1]) /\ Stream(x[3]) /\ x[0] = Words(input, 0)
      /\ x[1] = Words(input, 1) /\ x[3] = Words(input, 3)
  BY DEF Columns
<1>4. /\ Stream(x[0]) /\ Stream(x[1]) /\ Stream(x[3]) /\ Stream(g0) /\ Stream(g1) /\ Stream(g3)
      /\ Stream(m0) /\ Stream(m1) /\ Stream(m3)
  <2>1. Stream(g0)
    BY <1>0, SignumStream
  <2>2. Stream(g1)
    BY <1>0, SignumStream
  <2>3. Stream(g3)
    BY <1>0, SignumStream
  <2>4. Stream(m0)
    BY <1>0, <2>1, StreamOps
  <2>5. Stream(m1)
    BY <1>0, <2>2, StreamOps
  <2>6. Stream(m3)
    BY <1>0, <2>3, StreamOps
  <2> QED BY <1>0, <2>1, <2>2, <2>3, <2>4, <2>5, <2>6
<1>5. /\ Simple(Sign({"1", "W"})) /\ DOMAIN Sign({"1", "W"}).to = {"N"}
      /\ Sign({"1", "W"}).out["S"] = "dout" /\ Sign({"1", "W"}).out["W"] = "N"
      /\ Simple(Mul([N |-> {"2"}, W |-> {"1"}], {"S"}))
      /\ DOMAIN Mul([N |-> {"2"}, W |-> {"1"}], {"S"}).to = {"N", "W"}
      /\ Mul([N |-> {"2"}, W |-> {"1"}], {"S"}).out["S"] = "dout" /\ Simple(Down)
      /\ DOMAIN Down.to = {"N"} /\ Down.out["S"] = "N" /\ Simple(Sign({"1", "E"}))
      /\ DOMAIN Sign({"1", "E"}).to = {"N"} /\ Sign({"1", "E"}).out["E"] = "N"
      /\ Sign({"1", "E"}).out["S"] = "dout" /\ Simple(Pass("N", "E"))
      /\ DOMAIN Pass("N", "E").to = {"N"} /\ Pass("N", "E").out["E"] = "N"
      /\ Simple(Mul([S |-> {"2"}, W |-> {"1"}], {"S"}))
      /\ DOMAIN Mul([S |-> {"2"}, W |-> {"1"}], {"S"}).to = {"S", "W"}
      /\ Mul([S |-> {"2"}, W |-> {"1"}], {"S"}).out["S"] = "dout"
      /\ Simple(Wired([N |-> {"S"}, W |-> {"N"}], {}))
      /\ DOMAIN Wired([N |-> {"S"}, W |-> {"N"}], {}).to = {"N", "W"}
      /\ Wired([N |-> {"S"}, W |-> {"N"}], {}).out["N"] = "W"
      /\ Wired([N |-> {"S"}, W |-> {"N"}], {}).out["S"] = "N"
      /\ Simple(Mul([N |-> {"1"}, E |-> {"2"}], {"S"}))
      /\ DOMAIN Mul([N |-> {"1"}, E |-> {"2"}], {"S"}).to = {"N", "E"}
      /\ Mul([N |-> {"1"}, E |-> {"2"}], {"S"}).out["S"] = "dout"
  BY ReluCells, EastCell, DownCell
<1>6. /\ Made(T[<<0, 0>>], a[<<0, 0>>]) = g0 /\ Made(T[<<0, 1>>], a[<<0, 1>>]) = m0
      /\ Made(T[<<1, 0>>], a[<<1, 0>>]) = g1 /\ Made(T[<<2, 0>>], a[<<2, 0>>]) = m1
      /\ Made(T[<<3, 0>>], a[<<3, 0>>]) = g3 /\ Made(T[<<3, 1>>], a[<<3, 1>>]) = m3
  BY <1>2, <1>3, ReluCells DEF Signum
<1>7. \A p \in DOMAIN T : Simple(T[p])
  <2>1. /\ Simple(T[<<0, 0>>]) /\ Simple(T[<<0, 1>>]) /\ Simple(T[<<0, 2>>])
        /\ Simple(T[<<0, 3>>]) /\ Simple(T[<<1, 0>>]) /\ Simple(T[<<1, 1>>])
        /\ Simple(T[<<2, 0>>]) /\ Simple(T[<<2, 1>>]) /\ Simple(T[<<2, 2>>])
        /\ Simple(T[<<2, 3>>]) /\ Simple(T[<<3, 0>>]) /\ Simple(T[<<3, 1>>])
        /\ Simple(T[<<3, 2>>]) /\ Simple(T[<<3, 3>>])
    BY <1>2, <1>5
  <2> QED BY <1>1, <2>1
<1> HIDE DEF T, a, g0, g1, g3, m0, m1, m3
<1>8. ASSUME NEW p \in DOMAIN T, NEW b \in DOMAIN T[p].to
      PROVE  Stream(a[p][b]) /\ SameStream(T, input, a, p, b)
  <2>1. CASE p = <<0, 0>> /\ b = "N"
    <3>1. Outside(p, b) /\ p[1] = 0 /\ a[p][b] = x[0]
      BY <1>3, <2>1 DEF Outside
    <3> QED BY <1>0, <3>1 DEF SameStream, Fed
  <2>2. CASE p = <<0, 1>> /\ b = "N"
    <3>1. ~Outside(p, b) /\ Sender(p, b) = <<<<0, 0>>, "S">> /\ a[p][b] = g0
      BY <1>3, <2>2 DEF Outside, Sender
    <3>2. T[<<0, 0>>].out["S"] = "dout"
      BY <1>2, <1>5
    <3> QED BY <1>4, <1>6, <3>1, <3>2 DEF SameStream, FedFrom
  <2>3. CASE p = <<0, 1>> /\ b = "W"
    <3>1. ~Outside(p, b) /\ Sender(p, b) = <<<<0, 0>>, "W">> /\ a[p][b] = x[0]
      BY <1>3, <2>3 DEF Outside, Sender
    <3>2. T[<<0, 0>>].out["W"] = "N"
      BY <1>2, <1>5
    <3>3. a[<<0, 0>>]["N"] = x[0]
      BY <1>3
    <3> QED BY <1>4, <3>1, <3>2, <3>3 DEF SameStream, FedFrom
  <2>4. CASE p = <<0, 2>> /\ b = "N"
    <3>1. ~Outside(p, b) /\ Sender(p, b) = <<<<0, 1>>, "S">> /\ a[p][b] = m0
      BY <1>3, <2>4 DEF Outside, Sender
    <3>2. T[<<0, 1>>].out["S"] = "dout"
      BY <1>2, <1>5
    <3> QED BY <1>4, <1>6, <3>1, <3>2 DEF SameStream, FedFrom
  <2>5. CASE p = <<0, 3>> /\ b = "N"
    <3>1. ~Outside(p, b) /\ Sender(p, b) = <<<<0, 2>>, "S">> /\ a[p][b] = m0
      BY <1>3, <2>5 DEF Outside, Sender
    <3>2. T[<<0, 2>>].out["S"] = "N"
      BY <1>2, <1>5
    <3>3. a[<<0, 2>>]["N"] = m0
      BY <1>3
    <3> QED BY <1>4, <3>1, <3>2, <3>3 DEF SameStream, FedFrom
  <2>6. CASE p = <<1, 0>> /\ b = "N"
    <3>1. Outside(p, b) /\ p[1] = 1 /\ a[p][b] = x[1]
      BY <1>3, <2>6 DEF Outside
    <3> QED BY <1>0, <3>1 DEF SameStream, Fed
  <2>7. CASE p = <<1, 1>> /\ b = "N"
    <3>1. ~Outside(p, b) /\ Sender(p, b) = <<<<1, 0>>, "S">> /\ a[p][b] = g1
      BY <1>3, <2>7 DEF Outside, Sender
    <3>2. T[<<1, 0>>].out["S"] = "dout"
      BY <1>2, <1>5
    <3> QED BY <1>4, <1>6, <3>1, <3>2 DEF SameStream, FedFrom
  <2>8. CASE p = <<2, 0>> /\ b = "S"
    <3>1. ~Outside(p, b) /\ Sender(p, b) = <<<<2, 1>>, "N">> /\ a[p][b] = g1
      BY <1>3, <2>8 DEF Outside, Sender
    <3>2. T[<<2, 1>>].out["N"] = "W"
      BY <1>2, <1>5
    <3>3. a[<<2, 1>>]["W"] = g1
      BY <1>3
    <3> QED BY <1>4, <3>1, <3>2, <3>3 DEF SameStream, FedFrom
  <2>9. CASE p = <<2, 0>> /\ b = "W"
    <3>1. ~Outside(p, b) /\ Sender(p, b) = <<<<1, 0>>, "E">> /\ a[p][b] = x[1]
      BY <1>3, <2>9 DEF Outside, Sender
    <3>2. T[<<1, 0>>].out["E"] = "N"
      BY <1>2, <1>5
    <3>3. a[<<1, 0>>]["N"] = x[1]
      BY <1>3
    <3> QED BY <1>4, <3>1, <3>2, <3>3 DEF SameStream, FedFrom
  <2>10. CASE p = <<2, 1>> /\ b = "N"
    <3>1. ~Outside(p, b) /\ Sender(p, b) = <<<<2, 0>>, "S">> /\ a[p][b] = m1
      BY <1>3, <2>10 DEF Outside, Sender
    <3>2. T[<<2, 0>>].out["S"] = "dout"
      BY <1>2, <1>5
    <3> QED BY <1>4, <1>6, <3>1, <3>2 DEF SameStream, FedFrom
  <2>11. CASE p = <<2, 1>> /\ b = "W"
    <3>1. ~Outside(p, b) /\ Sender(p, b) = <<<<1, 1>>, "E">> /\ a[p][b] = g1
      BY <1>3, <2>11 DEF Outside, Sender
    <3>2. T[<<1, 1>>].out["E"] = "N"
      BY <1>2, <1>5
    <3>3. a[<<1, 1>>]["N"] = g1
      BY <1>3
    <3> QED BY <1>4, <3>1, <3>2, <3>3 DEF SameStream, FedFrom
  <2>12. CASE p = <<2, 2>> /\ b = "N"
    <3>1. ~Outside(p, b) /\ Sender(p, b) = <<<<2, 1>>, "S">> /\ a[p][b] = m1
      BY <1>3, <2>12 DEF Outside, Sender
    <3>2. T[<<2, 1>>].out["S"] = "N"
      BY <1>2, <1>5
    <3>3. a[<<2, 1>>]["N"] = m1
      BY <1>3
    <3> QED BY <1>4, <3>1, <3>2, <3>3 DEF SameStream, FedFrom
  <2>13. CASE p = <<2, 3>> /\ b = "N"
    <3>1. ~Outside(p, b) /\ Sender(p, b) = <<<<2, 2>>, "S">> /\ a[p][b] = m1
      BY <1>3, <2>13 DEF Outside, Sender
    <3>2. T[<<2, 2>>].out["S"] = "N"
      BY <1>2, <1>5
    <3>3. a[<<2, 2>>]["N"] = m1
      BY <1>3
    <3> QED BY <1>4, <3>1, <3>2, <3>3 DEF SameStream, FedFrom
  <2>14. CASE p = <<3, 0>> /\ b = "N"
    <3>1. Outside(p, b) /\ p[1] = 3 /\ a[p][b] = x[3]
      BY <1>3, <2>14 DEF Outside
    <3> QED BY <1>0, <3>1 DEF SameStream, Fed
  <2>15. CASE p = <<3, 1>> /\ b = "N"
    <3>1. ~Outside(p, b) /\ Sender(p, b) = <<<<3, 0>>, "S">> /\ a[p][b] = g3
      BY <1>3, <2>15 DEF Outside, Sender
    <3>2. T[<<3, 0>>].out["S"] = "dout"
      BY <1>2, <1>5
    <3> QED BY <1>4, <1>6, <3>1, <3>2 DEF SameStream, FedFrom
  <2>16. CASE p = <<3, 1>> /\ b = "E"
    <3>1. ~Outside(p, b) /\ Sender(p, b) = <<<<3, 0>>, "E">> /\ a[p][b] = x[3]
      BY <1>3, <2>16 DEF Outside, Sender
    <3>2. T[<<3, 0>>].out["E"] = "N"
      BY <1>2, <1>5
    <3>3. a[<<3, 0>>]["N"] = x[3]
      BY <1>3
    <3> QED BY <1>4, <3>1, <3>2, <3>3 DEF SameStream, FedFrom
  <2>17. CASE p = <<3, 2>> /\ b = "N"
    <3>1. ~Outside(p, b) /\ Sender(p, b) = <<<<3, 1>>, "S">> /\ a[p][b] = m3
      BY <1>3, <2>17 DEF Outside, Sender
    <3>2. T[<<3, 1>>].out["S"] = "dout"
      BY <1>2, <1>5
    <3> QED BY <1>4, <1>6, <3>1, <3>2 DEF SameStream, FedFrom
  <2>18. CASE p = <<3, 3>> /\ b = "N"
    <3>1. ~Outside(p, b) /\ Sender(p, b) = <<<<3, 2>>, "S">> /\ a[p][b] = m3
      BY <1>3, <2>18 DEF Outside, Sender
    <3>2. T[<<3, 2>>].out["S"] = "N"
      BY <1>2, <1>5
    <3>3. a[<<3, 2>>]["N"] = m3
      BY <1>3
    <3> QED BY <1>4, <3>1, <3>2, <3>3 DEF SameStream, FedFrom
  <2>19. /\ DOMAIN T[<<0, 0>>].to = {"N"} /\ DOMAIN T[<<0, 1>>].to = {"N", "W"}
         /\ DOMAIN T[<<0, 2>>].to = {"N"} /\ DOMAIN T[<<0, 3>>].to = {"N"}
         /\ DOMAIN T[<<1, 0>>].to = {"N"} /\ DOMAIN T[<<1, 1>>].to = {"N"}
         /\ DOMAIN T[<<2, 0>>].to = {"S", "W"} /\ DOMAIN T[<<2, 1>>].to = {"N", "W"}
         /\ DOMAIN T[<<2, 2>>].to = {"N"} /\ DOMAIN T[<<2, 3>>].to = {"N"}
         /\ DOMAIN T[<<3, 0>>].to = {"N"} /\ DOMAIN T[<<3, 1>>].to = {"N", "E"}
         /\ DOMAIN T[<<3, 2>>].to = {"N"} /\ DOMAIN T[<<3, 3>>].to = {"N"}
    BY <1>2, <1>5
  <2>20. CASE p \in {<<0, 0>>, <<0, 1>>, <<0, 2>>, <<0, 3>>}
    BY <2>19, <2>20, <2>1, <2>2, <2>3, <2>4, <2>5
  <2>21. CASE p \in {<<1, 0>>, <<1, 1>>}
    BY <2>19, <2>21, <2>6, <2>7
  <2>22. CASE p \in {<<2, 0>>, <<2, 1>>, <<2, 2>>, <<2, 3>>}
    BY <2>19, <2>22, <2>8, <2>9, <2>10, <2>11, <2>12, <2>13
  <2>23. CASE p \in {<<3, 0>>, <<3, 1>>, <<3, 2>>, <<3, 3>>}
    BY <2>19, <2>23, <2>14, <2>15, <2>16, <2>17, <2>18
  <2> QED BY <1>1, <2>20, <2>21, <2>22, <2>23
<1>9. DOMAIN T \subseteq Columns \X Rows
  BY <1>1 DEF Columns, Rows
<1>10. Labels(T, input, Labelling(T, a))
  BY <1>7, <1>8, <1>9, SimpleLabels DEF Labelling
<1> QED BY <1>10 DEF T, a

-----------------------------------------------------------------------------
(* fft and conv2d_2                                                        *)

LEMMA FftCells ==
    /\ Simple(With("2", 7, Mul([N |-> {"1", "W"}, E |-> {"S"}], {"E"})))
    /\ DOMAIN With("2", 7, Mul([N |-> {"1", "W"}, E |-> {"S"}], {"E"})).to = {"N", "E"}
    /\ With("2", 7, Mul([N |-> {"1", "W"}, E |-> {"S"}], {"E"})).out["E"] = "dout"
    /\ With("2", 7, Mul([N |-> {"1", "W"}, E |-> {"S"}], {"E"})).out["S"] = "E"
    /\ With("2", 7, Mul([N |-> {"1", "W"}, E |-> {"S"}], {"E"})).out["W"] = "N"
    /\ \A s, r : Made(With("2", 7, Mul([N |-> {"1", "W"}, E |-> {"S"}], {"E"})), [N |-> s, E |-> r])
                    = Combine("mul", s, Constant(7))
    /\ Simple(With("2", -3, Mul([N |-> {"S"}, W |-> {"1"}], {"E"})))
    /\ DOMAIN With("2", -3, Mul([N |-> {"S"}, W |-> {"1"}], {"E"})).to = {"N", "W"}
    /\ With("2", -3, Mul([N |-> {"S"}, W |-> {"1"}], {"E"})).out["E"] = "dout"
    /\ With("2", -3, Mul([N |-> {"S"}, W |-> {"1"}], {"E"})).out["S"] = "N"
    /\ \A s, r : Made(With("2", -3, Mul([N |-> {"S"}, W |-> {"1"}], {"E"})), [N |-> s, W |-> r])
                    = Combine("mul", r, Constant(-3))
    /\ Simple(Sub([N |-> {"1", "E"}, E |-> {"2"}], {"S"}))
    /\ DOMAIN Sub([N |-> {"1", "E"}, E |-> {"2"}], {"S"}).to = {"N", "E"}
    /\ Sub([N |-> {"1", "E"}, E |-> {"2"}], {"S"}).out["E"] = "N"
    /\ Sub([N |-> {"1", "E"}, E |-> {"2"}], {"S"}).out["S"] = "dout"
    /\ \A s, r : Made(Sub([N |-> {"1", "E"}, E |-> {"2"}], {"S"}), [N |-> s, E |-> r])
                    = Combine("sub", s, r)
    /\ Simple(Sub([N |-> {"W"}, E |-> {"2"}, W |-> {"1"}], {"S"}))
    /\ DOMAIN Sub([N |-> {"W"}, E |-> {"2"}, W |-> {"1"}], {"S"}).to = {"N", "E", "W"}
    /\ Sub([N |-> {"W"}, E |-> {"2"}, W |-> {"1"}], {"S"}).out["S"] = "dout"
    /\ Sub([N |-> {"W"}, E |-> {"2"}, W |-> {"1"}], {"S"}).out["W"] = "N"
    /\ \A s, r, q : Made(Sub([N |-> {"W"}, E |-> {"2"}, W |-> {"1"}], {"S"}), [N |-> s, E |-> r, W |-> q])
                    = Combine("sub", q, r)
    /\ Simple(Wired([N |-> {"S"}, W |-> {"E"}], {}))
    /\ DOMAIN Wired([N |-> {"S"}, W |-> {"E"}], {}).to = {"N", "W"}
    /\ Wired([N |-> {"S"}, W |-> {"E"}], {}).out["E"] = "W"
    /\ Wired([N |-> {"S"}, W |-> {"E"}], {}).out["S"] = "N"
    /\ Simple(Add([N |-> {"2", "W"}, W |-> {"1"}], {"S"}))
    /\ DOMAIN Add([N |-> {"2", "W"}, W |-> {"1"}], {"S"}).to = {"N", "W"}
    /\ Add([N |-> {"2", "W"}, W |-> {"1"}], {"S"}).out["S"] = "dout"
    /\ Add([N |-> {"2", "W"}, W |-> {"1"}], {"S"}).out["W"] = "N"
    /\ \A s, r : Made(Add([N |-> {"2", "W"}, W |-> {"1"}], {"S"}), [N |-> s, W |-> r])
                    = Combine("add", r, s)
    /\ Simple(Wired([N |-> {"E"}, E |-> {"W"}], {}))
    /\ DOMAIN Wired([N |-> {"E"}, E |-> {"W"}], {}).to = {"N", "E"}
    /\ Wired([N |-> {"E"}, E |-> {"W"}], {}).out["E"] = "N"
    /\ Wired([N |-> {"E"}, E |-> {"W"}], {}).out["W"] = "E"
    /\ Simple(Add([E |-> {"2"}, W |-> {"1"}], {"S"}))
    /\ DOMAIN Add([E |-> {"2"}, W |-> {"1"}], {"S"}).to = {"E", "W"}
    /\ Add([E |-> {"2"}, W |-> {"1"}], {"S"}).out["S"] = "dout"
    /\ \A s, r : Made(Add([E |-> {"2"}, W |-> {"1"}], {"S"}), [E |-> s, W |-> r])
                    = Combine("add", r, s)
    /\ Simple(Sub([N |-> {"2", "E"}, E |-> {"1"}], {"S"}))
    /\ DOMAIN Sub([N |-> {"2", "E"}, E |-> {"1"}], {"S"}).to = {"N", "E"}
    /\ Sub([N |-> {"2", "E"}, E |-> {"1"}], {"S"}).out["E"] = "N"
    /\ Sub([N |-> {"2", "E"}, E |-> {"1"}], {"S"}).out["S"] = "dout"
    /\ \A s, r : Made(Sub([N |-> {"2", "E"}, E |-> {"1"}], {"S"}), [N |-> s, E |-> r])
                    = Combine("sub", r, s)
    /\ Simple(With("1", -3, Mul([N |-> {"2", "E"}, W |-> {"S"}], {"W"})))
    /\ DOMAIN With("1", -3, Mul([N |-> {"2", "E"}, W |-> {"S"}], {"W"})).to = {"N", "W"}
    /\ With("1", -3, Mul([N |-> {"2", "E"}, W |-> {"S"}], {"W"})).out["E"] = "N"
    /\ With("1", -3, Mul([N |-> {"2", "E"}, W |-> {"S"}], {"W"})).out["S"] = "W"
    /\ With("1", -3, Mul([N |-> {"2", "E"}, W |-> {"S"}], {"W"})).out["W"] = "dout"
    /\ \A s, r : Made(With("1", -3, Mul([N |-> {"2", "E"}, W |-> {"S"}], {"W"})), [N |-> s, W |-> r])
                    = Combine("mul", Constant(-3), s)
    /\ Simple(With("1", 7, Mul([N |-> {"S"}, E |-> {"2"}], {"W"})))
    /\ DOMAIN With("1", 7, Mul([N |-> {"S"}, E |-> {"2"}], {"W"})).to = {"N", "E"}
    /\ With("1", 7, Mul([N |-> {"S"}, E |-> {"2"}], {"W"})).out["S"] = "N"
    /\ With("1", 7, Mul([N |-> {"S"}, E |-> {"2"}], {"W"})).out["W"] = "dout"
    /\ \A s, r : Made(With("1", 7, Mul([N |-> {"S"}, E |-> {"2"}], {"W"})), [N |-> s, E |-> r])
                    = Combine("mul", Constant(7), r)
<1>1. /\ Simple(With("2", 7, Mul([N |-> {"1", "W"}, E |-> {"S"}], {"E"})))
      /\ DOMAIN With("2", 7, Mul([N |-> {"1", "W"}, E |-> {"S"}], {"E"})).to = {"N", "E"}
      /\ With("2", 7, Mul([N |-> {"1", "W"}, E |-> {"S"}], {"E"})).out["E"] = "dout"
      /\ With("2", 7, Mul([N |-> {"1", "W"}, E |-> {"S"}], {"E"})).out["S"] = "E"
      /\ With("2", 7, Mul([N |-> {"1", "W"}, E |-> {"S"}], {"E"})).out["W"] = "N"
      /\ \A s, r : Made(With("2", 7, Mul([N |-> {"1", "W"}, E |-> {"S"}], {"E"})), [N |-> s, E |-> r])
                      = Combine("mul", s, Constant(7))
  <2>1. /\ Simple(With("2", 7, Mul([N |-> {"1", "W"}, E |-> {"S"}], {"E"})))
        /\ DOMAIN With("2", 7, Mul([N |-> {"1", "W"}, E |-> {"S"}], {"E"})).to = {"N", "E"}
        /\ With("2", 7, Mul([N |-> {"1", "W"}, E |-> {"S"}], {"E"})).out["E"] = "dout"
        /\ With("2", 7, Mul([N |-> {"1", "W"}, E |-> {"S"}], {"E"})).out["S"] = "E"
        /\ With("2", 7, Mul([N |-> {"1", "W"}, E |-> {"S"}], {"E"})).out["W"] = "N"
    BY DEF With, Mul, Wired, Feeds, Simple, Plain, Steady, WellRouted, Holders, Sides, Operands
  <2>2. /\ With("2", 7, Mul([N |-> {"1", "W"}, E |-> {"S"}], {"E"})).op["1"] = "N"
        /\ With("2", 7, Mul([N |-> {"1", "W"}, E |-> {"S"}], {"E"})).op["2"] = "I1"
        /\ With("2", 7, Mul([N |-> {"1", "W"}, E |-> {"S"}], {"E"})).const = 7
        /\ With("2", 7, Mul([N |-> {"1", "W"}, E |-> {"S"}], {"E"})).alu = "mul"
        /\ With("2", 7, Mul([N |-> {"1", "W"}, E |-> {"S"}], {"E"})).res = "alu"
    BY DEF With, Mul, Wired, Feeds, Sides, Operands
  <2> QED BY <2>1, <2>2 DEF Made, Operated, Operands
<1>2. /\ Simple(With("2", -3, Mul([N |-> {"S"}, W |-> {"1"}], {"E"})))
      /\ DOMAIN With("2", -3, Mul([N |-> {"S"}, W |-> {"1"}], {"E"})).to = {"N", "W"}
      /\ With("2", -3, Mul([N |-> {"S"}, W |-> {"1"}], {"E"})).out["E"] = "dout"
      /\ With("2", -3, Mul([N |-> {"S"}, W |-> {"1"}], {"E"})).out["S"] = "N"
      /\ \A s, r : Made(With("2", -3, Mul([N |-> {"S"}, W |-> {"1"}], {"E"})), [N |-> s, W |-> r])
                      = Combine("mul", r, Constant(-3))
  <2>1. /\ Simple(With("2", -3, Mul([N |-> {"S"}, W |-> {"1"}], {"E"})))
        /\ DOMAIN With("2", -3, Mul([N |-> {"S"}, W |-> {"1"}], {"E"})).to = {"N", "W"}
        /\ With("2", -3, Mul([N |-> {"S"}, W |-> {"1"}], {"E"})).out["E"] = "dout"
        /\ With("2", -3, Mul([N |-> {"S"}, W |-> {"1"}], {"E"})).out["S"] = "N"
    BY DEF With, Mul, Wired, Feeds, Simple, Plain, Steady, WellRouted, Holders, Sides, Operands
  <2>2. /\ With("2", -3, Mul([N |-> {"S"}, W |-> {"1"}], {"E"})).op["1"] = "W"
        /\ With("2", -3, Mul([N |-> {"S"}, W |-> {"1"}], {"E"})).op["2"] = "I1"
        /\ With("2", -3, Mul([N |-> {"S"}, W |-> {"1"}], {"E"})).const = -3
        /\ With("2", -3, Mul([N |-> {"S"}, W |-> {"1"}], {"E"})).alu = "mul"
        /\ With("2", -3, Mul([N |-> {"S"}, W |-> {"1"}], {"E"})).res = "alu"
    BY DEF With, Mul, Wired, Feeds, Sides, Operands
  <2> QED BY <2>1, <2>2 DEF Made, Operated, Operands
<1>3. /\ Simple(Sub([N |-> {"1", "E"}, E |-> {"2"}], {"S"}))
      /\ DOMAIN Sub([N |-> {"1", "E"}, E |-> {"2"}], {"S"}).to = {"N", "E"}
      /\ Sub([N |-> {"1", "E"}, E |-> {"2"}], {"S"}).out["E"] = "N"
      /\ Sub([N |-> {"1", "E"}, E |-> {"2"}], {"S"}).out["S"] = "dout"
      /\ \A s, r : Made(Sub([N |-> {"1", "E"}, E |-> {"2"}], {"S"}), [N |-> s, E |-> r])
                      = Combine("sub", s, r)
  <2>1. /\ Simple(Sub([N |-> {"1", "E"}, E |-> {"2"}], {"S"}))
        /\ DOMAIN Sub([N |-> {"1", "E"}, E |-> {"2"}], {"S"}).to = {"N", "E"}
        /\ Sub([N |-> {"1", "E"}, E |-> {"2"}], {"S"}).out["E"] = "N"
        /\ Sub([N |-> {"1", "E"}, E |-> {"2"}], {"S"}).out["S"] = "dout"
    BY DEF Sub, Wired, Feeds, Simple, Plain, Steady, WellRouted, Holders, Sides, Operands
  <2>2. /\ Sub([N |-> {"1", "E"}, E |-> {"2"}], {"S"}).op["1"] = "N"
        /\ Sub([N |-> {"1", "E"}, E |-> {"2"}], {"S"}).op["2"] = "E"
        /\ Sub([N |-> {"1", "E"}, E |-> {"2"}], {"S"}).alu = "sub"
        /\ Sub([N |-> {"1", "E"}, E |-> {"2"}], {"S"}).res = "alu"
    BY DEF Sub, Wired, Feeds, Sides, Operands
  <2> QED BY <2>1, <2>2 DEF Made, Operated, Operands
<1>4. /\ Simple(Sub([N |-> {"W"}, E |-> {"2"}, W |-> {"1"}], {"S"}))
      /\ DOMAIN Sub([N |-> {"W"}, E |-> {"2"}, W |-> {"1"}], {"S"}).to = {"N", "E", "W"}
      /\ Sub([N |-> {"W"}, E |-> {"2"}, W |-> {"1"}], {"S"}).out["S"] = "dout"
      /\ Sub([N |-> {"W"}, E |-> {"2"}, W |-> {"1"}], {"S"}).out["W"] = "N"
      /\ \A s, r, q : Made(Sub([N |-> {"W"}, E |-> {"2"}, W |-> {"1"}], {"S"}), [N |-> s, E |-> r, W |-> q])
                      = Combine("sub", q, r)
  <2>1. /\ Simple(Sub([N |-> {"W"}, E |-> {"2"}, W |-> {"1"}], {"S"}))
        /\ DOMAIN Sub([N |-> {"W"}, E |-> {"2"}, W |-> {"1"}], {"S"}).to = {"N", "E", "W"}
        /\ Sub([N |-> {"W"}, E |-> {"2"}, W |-> {"1"}], {"S"}).out["S"] = "dout"
        /\ Sub([N |-> {"W"}, E |-> {"2"}, W |-> {"1"}], {"S"}).out["W"] = "N"
    BY DEF Sub, Wired, Feeds, Simple, Plain, Steady, WellRouted, Holders, Sides, Operands
  <2>2. /\ Sub([N |-> {"W"}, E |-> {"2"}, W |-> {"1"}], {"S"}).op["1"] = "W"
        /\ Sub([N |-> {"W"}, E |-> {"2"}, W |-> {"1"}], {"S"}).op["2"] = "E"
        /\ Sub([N |-> {"W"}, E |-> {"2"}, W |-> {"1"}], {"S"}).alu = "sub"
        /\ Sub([N |-> {"W"}, E |-> {"2"}, W |-> {"1"}], {"S"}).res = "alu"
    BY DEF Sub, Wired, Feeds, Sides, Operands
  <2> QED BY <2>1, <2>2 DEF Made, Operated, Operands
<1>5. /\ Simple(Wired([N |-> {"S"}, W |-> {"E"}], {}))
      /\ DOMAIN Wired([N |-> {"S"}, W |-> {"E"}], {}).to = {"N", "W"}
      /\ Wired([N |-> {"S"}, W |-> {"E"}], {}).out["E"] = "W"
      /\ Wired([N |-> {"S"}, W |-> {"E"}], {}).out["S"] = "N"
  BY DEF Wired, Feeds, Simple, Plain, Steady, WellRouted, Holders, Sides, Operands
<1>6. /\ Simple(Add([N |-> {"2", "W"}, W |-> {"1"}], {"S"}))
      /\ DOMAIN Add([N |-> {"2", "W"}, W |-> {"1"}], {"S"}).to = {"N", "W"}
      /\ Add([N |-> {"2", "W"}, W |-> {"1"}], {"S"}).out["S"] = "dout"
      /\ Add([N |-> {"2", "W"}, W |-> {"1"}], {"S"}).out["W"] = "N"
      /\ \A s, r : Made(Add([N |-> {"2", "W"}, W |-> {"1"}], {"S"}), [N |-> s, W |-> r])
                      = Combine("add", r, s)
  <2>1. /\ Simple(Add([N |-> {"2", "W"}, W |-> {"1"}], {"S"}))
        /\ DOMAIN Add([N |-> {"2", "W"}, W |-> {"1"}], {"S"}).to = {"N", "W"}
        /\ Add([N |-> {"2", "W"}, W |-> {"1"}], {"S"}).out["S"] = "dout"
        /\ Add([N |-> {"2", "W"}, W |-> {"1"}], {"S"}).out["W"] = "N"
    BY DEF Add, Wired, Feeds, Simple, Plain, Steady, WellRouted, Holders, Sides, Operands
  <2>2. /\ Add([N |-> {"2", "W"}, W |-> {"1"}], {"S"}).op["1"] = "W"
        /\ Add([N |-> {"2", "W"}, W |-> {"1"}], {"S"}).op["2"] = "N"
        /\ Add([N |-> {"2", "W"}, W |-> {"1"}], {"S"}).alu = "add"
        /\ Add([N |-> {"2", "W"}, W |-> {"1"}], {"S"}).res = "alu"
    BY DEF Add, Wired, Feeds, Sides, Operands
  <2> QED BY <2>1, <2>2 DEF Made, Operated, Operands
<1>7. /\ Simple(Wired([N |-> {"E"}, E |-> {"W"}], {}))
      /\ DOMAIN Wired([N |-> {"E"}, E |-> {"W"}], {}).to = {"N", "E"}
      /\ Wired([N |-> {"E"}, E |-> {"W"}], {}).out["E"] = "N"
      /\ Wired([N |-> {"E"}, E |-> {"W"}], {}).out["W"] = "E"
  BY DEF Wired, Feeds, Simple, Plain, Steady, WellRouted, Holders, Sides, Operands
<1>8. /\ Simple(Add([E |-> {"2"}, W |-> {"1"}], {"S"}))
      /\ DOMAIN Add([E |-> {"2"}, W |-> {"1"}], {"S"}).to = {"E", "W"}
      /\ Add([E |-> {"2"}, W |-> {"1"}], {"S"}).out["S"] = "dout"
      /\ \A s, r : Made(Add([E |-> {"2"}, W |-> {"1"}], {"S"}), [E |-> s, W |-> r])
                      = Combine("add", r, s)
  <2>1. /\ Simple(Add([E |-> {"2"}, W |-> {"1"}], {"S"}))
        /\ DOMAIN Add([E |-> {"2"}, W |-> {"1"}], {"S"}).to = {"E", "W"}
        /\ Add([E |-> {"2"}, W |-> {"1"}], {"S"}).out["S"] = "dout"
    BY DEF Add, Wired, Feeds, Simple, Plain, Steady, WellRouted, Holders, Sides, Operands
  <2>2. /\ Add([E |-> {"2"}, W |-> {"1"}], {"S"}).op["1"] = "W"
        /\ Add([E |-> {"2"}, W |-> {"1"}], {"S"}).op["2"] = "E"
        /\ Add([E |-> {"2"}, W |-> {"1"}], {"S"}).alu = "add"
        /\ Add([E |-> {"2"}, W |-> {"1"}], {"S"}).res = "alu"
    BY DEF Add, Wired, Feeds, Sides, Operands
  <2> QED BY <2>1, <2>2 DEF Made, Operated, Operands
<1>9. /\ Simple(Sub([N |-> {"2", "E"}, E |-> {"1"}], {"S"}))
      /\ DOMAIN Sub([N |-> {"2", "E"}, E |-> {"1"}], {"S"}).to = {"N", "E"}
      /\ Sub([N |-> {"2", "E"}, E |-> {"1"}], {"S"}).out["E"] = "N"
      /\ Sub([N |-> {"2", "E"}, E |-> {"1"}], {"S"}).out["S"] = "dout"
      /\ \A s, r : Made(Sub([N |-> {"2", "E"}, E |-> {"1"}], {"S"}), [N |-> s, E |-> r])
                      = Combine("sub", r, s)
  <2>1. /\ Simple(Sub([N |-> {"2", "E"}, E |-> {"1"}], {"S"}))
        /\ DOMAIN Sub([N |-> {"2", "E"}, E |-> {"1"}], {"S"}).to = {"N", "E"}
        /\ Sub([N |-> {"2", "E"}, E |-> {"1"}], {"S"}).out["E"] = "N"
        /\ Sub([N |-> {"2", "E"}, E |-> {"1"}], {"S"}).out["S"] = "dout"
    BY DEF Sub, Wired, Feeds, Simple, Plain, Steady, WellRouted, Holders, Sides, Operands
  <2>2. /\ Sub([N |-> {"2", "E"}, E |-> {"1"}], {"S"}).op["1"] = "E"
        /\ Sub([N |-> {"2", "E"}, E |-> {"1"}], {"S"}).op["2"] = "N"
        /\ Sub([N |-> {"2", "E"}, E |-> {"1"}], {"S"}).alu = "sub"
        /\ Sub([N |-> {"2", "E"}, E |-> {"1"}], {"S"}).res = "alu"
    BY DEF Sub, Wired, Feeds, Sides, Operands
  <2> QED BY <2>1, <2>2 DEF Made, Operated, Operands
<1>10. /\ Simple(With("1", -3, Mul([N |-> {"2", "E"}, W |-> {"S"}], {"W"})))
      /\ DOMAIN With("1", -3, Mul([N |-> {"2", "E"}, W |-> {"S"}], {"W"})).to = {"N", "W"}
      /\ With("1", -3, Mul([N |-> {"2", "E"}, W |-> {"S"}], {"W"})).out["E"] = "N"
      /\ With("1", -3, Mul([N |-> {"2", "E"}, W |-> {"S"}], {"W"})).out["S"] = "W"
      /\ With("1", -3, Mul([N |-> {"2", "E"}, W |-> {"S"}], {"W"})).out["W"] = "dout"
      /\ \A s, r : Made(With("1", -3, Mul([N |-> {"2", "E"}, W |-> {"S"}], {"W"})), [N |-> s, W |-> r])
                      = Combine("mul", Constant(-3), s)
  <2>1. /\ Simple(With("1", -3, Mul([N |-> {"2", "E"}, W |-> {"S"}], {"W"})))
        /\ DOMAIN With("1", -3, Mul([N |-> {"2", "E"}, W |-> {"S"}], {"W"})).to = {"N", "W"}
        /\ With("1", -3, Mul([N |-> {"2", "E"}, W |-> {"S"}], {"W"})).out["E"] = "N"
        /\ With("1", -3, Mul([N |-> {"2", "E"}, W |-> {"S"}], {"W"})).out["S"] = "W"
        /\ With("1", -3, Mul([N |-> {"2", "E"}, W |-> {"S"}], {"W"})).out["W"] = "dout"
    BY DEF With, Mul, Wired, Feeds, Simple, Plain, Steady, WellRouted, Holders, Sides, Operands
  <2>2. /\ With("1", -3, Mul([N |-> {"2", "E"}, W |-> {"S"}], {"W"})).op["1"] = "I1"
        /\ With("1", -3, Mul([N |-> {"2", "E"}, W |-> {"S"}], {"W"})).op["2"] = "N"
        /\ With("1", -3, Mul([N |-> {"2", "E"}, W |-> {"S"}], {"W"})).const = -3
        /\ With("1", -3, Mul([N |-> {"2", "E"}, W |-> {"S"}], {"W"})).alu = "mul"
        /\ With("1", -3, Mul([N |-> {"2", "E"}, W |-> {"S"}], {"W"})).res = "alu"
    BY DEF With, Mul, Wired, Feeds, Sides, Operands
  <2> QED BY <2>1, <2>2 DEF Made, Operated, Operands
<1>11. /\ Simple(With("1", 7, Mul([N |-> {"S"}, E |-> {"2"}], {"W"})))
      /\ DOMAIN With("1", 7, Mul([N |-> {"S"}, E |-> {"2"}], {"W"})).to = {"N", "E"}
      /\ With("1", 7, Mul([N |-> {"S"}, E |-> {"2"}], {"W"})).out["S"] = "N"
      /\ With("1", 7, Mul([N |-> {"S"}, E |-> {"2"}], {"W"})).out["W"] = "dout"
      /\ \A s, r : Made(With("1", 7, Mul([N |-> {"S"}, E |-> {"2"}], {"W"})), [N |-> s, E |-> r])
                      = Combine("mul", Constant(7), r)
  <2>1. /\ Simple(With("1", 7, Mul([N |-> {"S"}, E |-> {"2"}], {"W"})))
        /\ DOMAIN With("1", 7, Mul([N |-> {"S"}, E |-> {"2"}], {"W"})).to = {"N", "E"}
        /\ With("1", 7, Mul([N |-> {"S"}, E |-> {"2"}], {"W"})).out["S"] = "N"
        /\ With("1", 7, Mul([N |-> {"S"}, E |-> {"2"}], {"W"})).out["W"] = "dout"
    BY DEF With, Mul, Wired, Feeds, Simple, Plain, Steady, WellRouted, Holders, Sides, Operands
  <2>2. /\ With("1", 7, Mul([N |-> {"S"}, E |-> {"2"}], {"W"})).op["1"] = "I1"
        /\ With("1", 7, Mul([N |-> {"S"}, E |-> {"2"}], {"W"})).op["2"] = "E"
        /\ With("1", 7, Mul([N |-> {"S"}, E |-> {"2"}], {"W"})).const = 7
        /\ With("1", 7, Mul([N |-> {"S"}, E |-> {"2"}], {"W"})).alu = "mul"
        /\ With("1", 7, Mul([N |-> {"S"}, E |-> {"2"}], {"W"})).res = "alu"
    BY DEF With, Mul, Wired, Feeds, Sides, Operands
  <2> QED BY <2>1, <2>2 DEF Made, Operated, Operands
<1> QED BY <1>1, <1>2, <1>3, <1>4, <1>5, <1>6, <1>7, <1>8, <1>9, <1>10, <1>11

\* fft.
FftSides(x) ==
    LET a7 == Combine("mul", x[0], Constant(7))
        a3 == Combine("mul", x[0], Constant(-3))
        b3 == Combine("mul", Constant(-3), x[3])
        b7 == Combine("mul", Constant(7), x[3])
        re == Combine("sub", a7, b3)
        im == Combine("add", a3, b7)
    IN  [p \in DOMAIN FftTable |->
         CASE p = <<0, 0>> -> [N |-> x[0], E |-> x[1]]
           [] p = <<0, 1>> -> [N |-> x[1], W |-> x[0]]
           [] p = <<0, 2>> -> [N |-> x[1]]
           [] p = <<0, 3>> -> [N |-> x[1], E |-> re]
           [] p = <<1, 0>> -> [N |-> x[1], E |-> b3, W |-> a7]
           [] p = <<1, 1>> -> [N |-> re, W |-> a3]
           [] p = <<1, 2>> -> [N |-> re]
           [] p = <<1, 3>> -> [N |-> re, W |-> x[1]]
           [] p = <<2, 0>> -> [N |-> x[2], E |-> b3]
           [] p = <<2, 1>> -> [E |-> b7, W |-> a3]
           [] p = <<2, 2>> -> [N |-> im]
           [] p = <<2, 3>> -> [N |-> im, E |-> x[2]]
           [] p = <<3, 0>> -> [N |-> x[3], W |-> x[2]]
           [] p = <<3, 1>> -> [N |-> x[2], E |-> x[3]]
           [] p = <<3, 2>> -> [N |-> x[2]]
           [] OTHER        -> [N |-> x[2], W |-> im]]

LEMMA FftLabels ==
    ASSUME NEW input, NEW x, x = [c \in Columns |-> Words(input, c)],
           \A c \in Columns : Stream(x[c])
    PROVE  Labels(FftTable, input, Labelling(FftTable, FftSides(x)))
<1> DEFINE T == FftTable
           a == FftSides(x)
           a7 == Combine("mul", x[0], Constant(7))
           a3 == Combine("mul", x[0], Constant(-3))
           b3 == Combine("mul", Constant(-3), x[3])
           b7 == Combine("mul", Constant(7), x[3])
           re == Combine("sub", a7, b3)
           im == Combine("add", a3, b7)
<1>1. DOMAIN T =
        {<<0, 0>>, <<0, 1>>, <<0, 2>>, <<0, 3>>, <<1, 0>>, <<1, 1>>, <<1, 2>>, <<1, 3>>,
         <<2, 0>>, <<2, 1>>, <<2, 2>>, <<2, 3>>, <<3, 0>>, <<3, 1>>, <<3, 2>>, <<3, 3>>}
  BY DEF FftTable, Columns
<1>2. /\ T[<<0, 0>>] = With("2", 7, Mul([N |-> {"1", "W"}, E |-> {"S"}], {"E"}))
      /\ T[<<0, 1>>] = With("2", -3, Mul([N |-> {"S"}, W |-> {"1"}], {"E"}))
      /\ T[<<0, 2>>] = Down /\ T[<<0, 3>>] = Sub([N |-> {"1", "E"}, E |-> {"2"}], {"S"})
      /\ T[<<1, 0>>] = Sub([N |-> {"W"}, E |-> {"2"}, W |-> {"1"}], {"S"})
      /\ T[<<1, 1>>] = Wired([N |-> {"S"}, W |-> {"E"}], {}) /\ T[<<1, 2>>] = Down
      /\ T[<<1, 3>>] = Add([N |-> {"2", "W"}, W |-> {"1"}], {"S"})
      /\ T[<<2, 0>>] = Wired([N |-> {"E"}, E |-> {"W"}], {})
      /\ T[<<2, 1>>] = Add([E |-> {"2"}, W |-> {"1"}], {"S"}) /\ T[<<2, 2>>] = Down
      /\ T[<<2, 3>>] = Sub([N |-> {"2", "E"}, E |-> {"1"}], {"S"})
      /\ T[<<3, 0>>] = With("1", -3, Mul([N |-> {"2", "E"}, W |-> {"S"}], {"W"}))
      /\ T[<<3, 1>>] = With("1", 7, Mul([N |-> {"S"}, E |-> {"2"}], {"W"}))
      /\ T[<<3, 2>>] = Down /\ T[<<3, 3>>] = Add([N |-> {"2", "W"}, W |-> {"1"}], {"S"})
  BY DEF FftTable, Columns
<1>3. /\ a[<<0, 0>>] = [N |-> x[0], E |-> x[1]] /\ a[<<0, 1>>] = [N |-> x[1], W |-> x[0]]
      /\ a[<<0, 2>>] = [N |-> x[1]] /\ a[<<0, 3>>] = [N |-> x[1], E |-> re]
      /\ a[<<1, 0>>] = [N |-> x[1], E |-> b3, W |-> a7] /\ a[<<1, 1>>] = [N |-> re, W |-> a3]
      /\ a[<<1, 2>>] = [N |-> re] /\ a[<<1, 3>>] = [N |-> re, W |-> x[1]]
      /\ a[<<2, 0>>] = [N |-> x[2], E |-> b3] /\ a[<<2, 1>>] = [E |-> b7, W |-> a3]
      /\ a[<<2, 2>>] = [N |-> im] /\ a[<<2, 3>>] = [N |-> im, E |-> x[2]]
      /\ a[<<3, 0>>] = [N |-> x[3], W |-> x[2]] /\ a[<<3, 1>>] = [N |-> x[2], E |-> x[3]]
      /\ a[<<3, 2>>] = [N |-> x[2]] /\ a[<<3, 3>>] = [N |-> x[2], W |-> im]
  BY <1>1 DEF FftSides
<1>0. /\ Stream(x[0]) /\ Stream(x[1]) /\ Stream(x[2]) /\ Stream(x[3]) /\ x[0] = Words(input, 0)
      /\ x[1] = Words(input, 1) /\ x[2] = Words(input, 2) /\ x[3] = Words(input, 3)
  BY DEF Columns
<1>4. /\ Stream(x[0]) /\ Stream(x[1]) /\ Stream(x[2]) /\ Stream(x[3]) /\ Stream(a7)
      /\ Stream(a3) /\ Stream(b3) /\ Stream(b7) /\ Stream(re) /\ Stream(im)
  <2>1. Stream(a7)
    BY <1>0, StreamOps
  <2>2. Stream(a3)
    BY <1>0, StreamOps
  <2>3. Stream(b3)
    BY <1>0, StreamOps
  <2>4. Stream(b7)
    BY <1>0, StreamOps
  <2>5. Stream(re)
    BY <1>0, <2>1, <2>3, StreamOps
  <2>6. Stream(im)
    BY <1>0, <2>2, <2>4, StreamOps
  <2> QED BY <1>0, <2>1, <2>2, <2>3, <2>4, <2>5, <2>6
<1>5. /\ Simple(With("2", 7, Mul([N |-> {"1", "W"}, E |-> {"S"}], {"E"})))
      /\ DOMAIN With("2", 7, Mul([N |-> {"1", "W"}, E |-> {"S"}], {"E"})).to = {"N", "E"}
      /\ With("2", 7, Mul([N |-> {"1", "W"}, E |-> {"S"}], {"E"})).out["E"] = "dout"
      /\ With("2", 7, Mul([N |-> {"1", "W"}, E |-> {"S"}], {"E"})).out["S"] = "E"
      /\ With("2", 7, Mul([N |-> {"1", "W"}, E |-> {"S"}], {"E"})).out["W"] = "N"
      /\ Simple(With("2", -3, Mul([N |-> {"S"}, W |-> {"1"}], {"E"})))
      /\ DOMAIN With("2", -3, Mul([N |-> {"S"}, W |-> {"1"}], {"E"})).to = {"N", "W"}
      /\ With("2", -3, Mul([N |-> {"S"}, W |-> {"1"}], {"E"})).out["E"] = "dout"
      /\ With("2", -3, Mul([N |-> {"S"}, W |-> {"1"}], {"E"})).out["S"] = "N" /\ Simple(Down)
      /\ DOMAIN Down.to = {"N"} /\ Down.out["S"] = "N"
      /\ Simple(Sub([N |-> {"1", "E"}, E |-> {"2"}], {"S"}))
      /\ DOMAIN Sub([N |-> {"1", "E"}, E |-> {"2"}], {"S"}).to = {"N", "E"}
      /\ Sub([N |-> {"1", "E"}, E |-> {"2"}], {"S"}).out["E"] = "N"
      /\ Simple(Sub([N |-> {"W"}, E |-> {"2"}, W |-> {"1"}], {"S"}))
      /\ DOMAIN Sub([N |-> {"W"}, E |-> {"2"}, W |-> {"1"}], {"S"}).to = {"N", "E", "W"}
      /\ Sub([N |-> {"W"}, E |-> {"2"}, W |-> {"1"}], {"S"}).out["S"] = "dout"
      /\ Sub([N |-> {"W"}, E |-> {"2"}, W |-> {"1"}], {"S"}).out["W"] = "N"
      /\ Simple(Wired([N |-> {"S"}, W |-> {"E"}], {}))
      /\ DOMAIN Wired([N |-> {"S"}, W |-> {"E"}], {}).to = {"N", "W"}
      /\ Wired([N |-> {"S"}, W |-> {"E"}], {}).out["E"] = "W"
      /\ Wired([N |-> {"S"}, W |-> {"E"}], {}).out["S"] = "N"
      /\ Simple(Add([N |-> {"2", "W"}, W |-> {"1"}], {"S"}))
      /\ DOMAIN Add([N |-> {"2", "W"}, W |-> {"1"}], {"S"}).to = {"N", "W"}
      /\ Add([N |-> {"2", "W"}, W |-> {"1"}], {"S"}).out["W"] = "N"
      /\ Simple(Wired([N |-> {"E"}, E |-> {"W"}], {}))
      /\ DOMAIN Wired([N |-> {"E"}, E |-> {"W"}], {}).to = {"N", "E"}
      /\ Wired([N |-> {"E"}, E |-> {"W"}], {}).out["E"] = "N"
      /\ Wired([N |-> {"E"}, E |-> {"W"}], {}).out["W"] = "E"
      /\ Simple(Add([E |-> {"2"}, W |-> {"1"}], {"S"}))
      /\ DOMAIN Add([E |-> {"2"}, W |-> {"1"}], {"S"}).to = {"E", "W"}
      /\ Add([E |-> {"2"}, W |-> {"1"}], {"S"}).out["S"] = "dout"
      /\ Simple(Sub([N |-> {"2", "E"}, E |-> {"1"}], {"S"}))
      /\ DOMAIN Sub([N |-> {"2", "E"}, E |-> {"1"}], {"S"}).to = {"N", "E"}
      /\ Sub([N |-> {"2", "E"}, E |-> {"1"}], {"S"}).out["E"] = "N"
      /\ Simple(With("1", -3, Mul([N |-> {"2", "E"}, W |-> {"S"}], {"W"})))
      /\ DOMAIN With("1", -3, Mul([N |-> {"2", "E"}, W |-> {"S"}], {"W"})).to = {"N", "W"}
      /\ With("1", -3, Mul([N |-> {"2", "E"}, W |-> {"S"}], {"W"})).out["E"] = "N"
      /\ With("1", -3, Mul([N |-> {"2", "E"}, W |-> {"S"}], {"W"})).out["S"] = "W"
      /\ With("1", -3, Mul([N |-> {"2", "E"}, W |-> {"S"}], {"W"})).out["W"] = "dout"
      /\ Simple(With("1", 7, Mul([N |-> {"S"}, E |-> {"2"}], {"W"})))
      /\ DOMAIN With("1", 7, Mul([N |-> {"S"}, E |-> {"2"}], {"W"})).to = {"N", "E"}
      /\ With("1", 7, Mul([N |-> {"S"}, E |-> {"2"}], {"W"})).out["S"] = "N"
      /\ With("1", 7, Mul([N |-> {"S"}, E |-> {"2"}], {"W"})).out["W"] = "dout"
  BY FftCells, DownCell
<1>6. /\ Made(T[<<0, 0>>], a[<<0, 0>>]) = a7 /\ Made(T[<<0, 1>>], a[<<0, 1>>]) = a3
      /\ Made(T[<<1, 0>>], a[<<1, 0>>]) = re /\ Made(T[<<2, 1>>], a[<<2, 1>>]) = im
      /\ Made(T[<<3, 0>>], a[<<3, 0>>]) = b3 /\ Made(T[<<3, 1>>], a[<<3, 1>>]) = b7
  BY <1>2, <1>3, FftCells
<1>7. \A p \in DOMAIN T : Simple(T[p])
  <2>1. /\ Simple(T[<<0, 0>>]) /\ Simple(T[<<0, 1>>]) /\ Simple(T[<<0, 2>>])
        /\ Simple(T[<<0, 3>>]) /\ Simple(T[<<1, 0>>]) /\ Simple(T[<<1, 1>>])
        /\ Simple(T[<<1, 2>>]) /\ Simple(T[<<1, 3>>]) /\ Simple(T[<<2, 0>>])
        /\ Simple(T[<<2, 1>>]) /\ Simple(T[<<2, 2>>]) /\ Simple(T[<<2, 3>>])
        /\ Simple(T[<<3, 0>>]) /\ Simple(T[<<3, 1>>]) /\ Simple(T[<<3, 2>>])
        /\ Simple(T[<<3, 3>>])
    BY <1>2, <1>5
  <2> QED BY <1>1, <2>1
<1> HIDE DEF T, a, a7, a3, b3, b7, re, im
<1>8. ASSUME NEW p \in DOMAIN T, NEW b \in DOMAIN T[p].to
      PROVE  Stream(a[p][b]) /\ SameStream(T, input, a, p, b)
  <2>1. CASE p = <<0, 0>> /\ b = "N"
    <3>1. Outside(p, b) /\ p[1] = 0 /\ a[p][b] = x[0]
      BY <1>3, <2>1 DEF Outside
    <3> QED BY <1>0, <3>1 DEF SameStream, Fed
  <2>2. CASE p = <<0, 0>> /\ b = "E"
    <3>1. ~Outside(p, b) /\ Sender(p, b) = <<<<1, 0>>, "W">> /\ a[p][b] = x[1]
      BY <1>3, <2>2 DEF Outside, Sender
    <3>2. T[<<1, 0>>].out["W"] = "N"
      BY <1>2, <1>5
    <3>3. a[<<1, 0>>]["N"] = x[1]
      BY <1>3
    <3> QED BY <1>4, <3>1, <3>2, <3>3 DEF SameStream, FedFrom
  <2>3. CASE p = <<0, 1>> /\ b = "N"
    <3>1. ~Outside(p, b) /\ Sender(p, b) = <<<<0, 0>>, "S">> /\ a[p][b] = x[1]
      BY <1>3, <2>3 DEF Outside, Sender
    <3>2. T[<<0, 0>>].out["S"] = "E"
      BY <1>2, <1>5
    <3>3. a[<<0, 0>>]["E"] = x[1]
      BY <1>3
    <3> QED BY <1>4, <3>1, <3>2, <3>3 DEF SameStream, FedFrom
  <2>4. CASE p = <<0, 1>> /\ b = "W"
    <3>1. ~Outside(p, b) /\ Sender(p, b) = <<<<0, 0>>, "W">> /\ a[p][b] = x[0]
      BY <1>3, <2>4 DEF Outside, Sender
    <3>2. T[<<0, 0>>].out["W"] = "N"
      BY <1>2, <1>5
    <3>3. a[<<0, 0>>]["N"] = x[0]
      BY <1>3
    <3> QED BY <1>4, <3>1, <3>2, <3>3 DEF SameStream, FedFrom
  <2>5. CASE p = <<0, 2>> /\ b = "N"
    <3>1. ~Outside(p, b) /\ Sender(p, b) = <<<<0, 1>>, "S">> /\ a[p][b] = x[1]
      BY <1>3, <2>5 DEF Outside, Sender
    <3>2. T[<<0, 1>>].out["S"] = "N"
      BY <1>2, <1>5
    <3>3. a[<<0, 1>>]["N"] = x[1]
      BY <1>3
    <3> QED BY <1>4, <3>1, <3>2, <3>3 DEF SameStream, FedFrom
  <2>6. CASE p = <<0, 3>> /\ b = "N"
    <3>1. ~Outside(p, b) /\ Sender(p, b) = <<<<0, 2>>, "S">> /\ a[p][b] = x[1]
      BY <1>3, <2>6 DEF Outside, Sender
    <3>2. T[<<0, 2>>].out["S"] = "N"
      BY <1>2, <1>5
    <3>3. a[<<0, 2>>]["N"] = x[1]
      BY <1>3
    <3> QED BY <1>4, <3>1, <3>2, <3>3 DEF SameStream, FedFrom
  <2>7. CASE p = <<0, 3>> /\ b = "E"
    <3>1. ~Outside(p, b) /\ Sender(p, b) = <<<<1, 3>>, "W">> /\ a[p][b] = re
      BY <1>3, <2>7 DEF Outside, Sender
    <3>2. T[<<1, 3>>].out["W"] = "N"
      BY <1>2, <1>5
    <3>3. a[<<1, 3>>]["N"] = re
      BY <1>3
    <3> QED BY <1>4, <3>1, <3>2, <3>3 DEF SameStream, FedFrom
  <2>8. CASE p = <<1, 0>> /\ b = "N"
    <3>1. Outside(p, b) /\ p[1] = 1 /\ a[p][b] = x[1]
      BY <1>3, <2>8 DEF Outside
    <3> QED BY <1>0, <3>1 DEF SameStream, Fed
  <2>9. CASE p = <<1, 0>> /\ b = "E"
    <3>1. ~Outside(p, b) /\ Sender(p, b) = <<<<2, 0>>, "W">> /\ a[p][b] = b3
      BY <1>3, <2>9 DEF Outside, Sender
    <3>2. T[<<2, 0>>].out["W"] = "E"
      BY <1>2, <1>5
    <3>3. a[<<2, 0>>]["E"] = b3
      BY <1>3
    <3> QED BY <1>4, <3>1, <3>2, <3>3 DEF SameStream, FedFrom
  <2>10. CASE p = <<1, 0>> /\ b = "W"
    <3>1. ~Outside(p, b) /\ Sender(p, b) = <<<<0, 0>>, "E">> /\ a[p][b] = a7
      BY <1>3, <2>10 DEF Outside, Sender
    <3>2. T[<<0, 0>>].out["E"] = "dout"
      BY <1>2, <1>5
    <3> QED BY <1>4, <1>6, <3>1, <3>2 DEF SameStream, FedFrom
  <2>11. CASE p = <<1, 1>> /\ b = "N"
    <3>1. ~Outside(p, b) /\ Sender(p, b) = <<<<1, 0>>, "S">> /\ a[p][b] = re
      BY <1>3, <2>11 DEF Outside, Sender
    <3>2. T[<<1, 0>>].out["S"] = "dout"
      BY <1>2, <1>5
    <3> QED BY <1>4, <1>6, <3>1, <3>2 DEF SameStream, FedFrom
  <2>12. CASE p = <<1, 1>> /\ b = "W"
    <3>1. ~Outside(p, b) /\ Sender(p, b) = <<<<0, 1>>, "E">> /\ a[p][b] = a3
      BY <1>3, <2>12 DEF Outside, Sender
    <3>2. T[<<0, 1>>].out["E"] = "dout"
      BY <1>2, <1>5
    <3> QED BY <1>4, <1>6, <3>1, <3>2 DEF SameStream, FedFrom
  <2>13. CASE p = <<1, 2>> /\ b = "N"
    <3>1. ~Outside(p, b) /\ Sender(p, b) = <<<<1, 1>>, "S">> /\ a[p][b] = re
      BY <1>3, <2>13 DEF Outside, Sender
    <3>2. T[<<1, 1>>].out["S"] = "N"
      BY <1>2, <1>5
    <3>3. a[<<1, 1>>]["N"] = re
      BY <1>3
    <3> QED BY <1>4, <3>1, <3>2, <3>3 DEF SameStream, FedFrom
  <2>14. CASE p = <<1, 3>> /\ b = "N"
    <3>1. ~Outside(p, b) /\ Sender(p, b) = <<<<1, 2>>, "S">> /\ a[p][b] = re
      BY <1>3, <2>14 DEF Outside, Sender
    <3>2. T[<<1, 2>>].out["S"] = "N"
      BY <1>2, <1>5
    <3>3. a[<<1, 2>>]["N"] = re
      BY <1>3
    <3> QED BY <1>4, <3>1, <3>2, <3>3 DEF SameStream, FedFrom
  <2>15. CASE p = <<1, 3>> /\ b = "W"
    <3>1. ~Outside(p, b) /\ Sender(p, b) = <<<<0, 3>>, "E">> /\ a[p][b] = x[1]
      BY <1>3, <2>15 DEF Outside, Sender
    <3>2. T[<<0, 3>>].out["E"] = "N"
      BY <1>2, <1>5
    <3>3. a[<<0, 3>>]["N"] = x[1]
      BY <1>3
    <3> QED BY <1>4, <3>1, <3>2, <3>3 DEF SameStream, FedFrom
  <2>16. CASE p = <<2, 0>> /\ b = "N"
    <3>1. Outside(p, b) /\ p[1] = 2 /\ a[p][b] = x[2]
      BY <1>3, <2>16 DEF Outside
    <3> QED BY <1>0, <3>1 DEF SameStream, Fed
  <2>17. CASE p = <<2, 0>> /\ b = "E"
    <3>1. ~Outside(p, b) /\ Sender(p, b) = <<<<3, 0>>, "W">> /\ a[p][b] = b3
      BY <1>3, <2>17 DEF Outside, Sender
    <3>2. T[<<3, 0>>].out["W"] = "dout"
      BY <1>2, <1>5
    <3> QED BY <1>4, <1>6, <3>1, <3>2 DEF SameStream, FedFrom
  <2>18. CASE p = <<2, 1>> /\ b = "E"
    <3>1. ~Outside(p, b) /\ Sender(p, b) = <<<<3, 1>>, "W">> /\ a[p][b] = b7
      BY <1>3, <2>18 DEF Outside, Sender
    <3>2. T[<<3, 1>>].out["W"] = "dout"
      BY <1>2, <1>5
    <3> QED BY <1>4, <1>6, <3>1, <3>2 DEF SameStream, FedFrom
  <2>19. CASE p = <<2, 1>> /\ b = "W"
    <3>1. ~Outside(p, b) /\ Sender(p, b) = <<<<1, 1>>, "E">> /\ a[p][b] = a3
      BY <1>3, <2>19 DEF Outside, Sender
    <3>2. T[<<1, 1>>].out["E"] = "W"
      BY <1>2, <1>5
    <3>3. a[<<1, 1>>]["W"] = a3
      BY <1>3
    <3> QED BY <1>4, <3>1, <3>2, <3>3 DEF SameStream, FedFrom
  <2>20. CASE p = <<2, 2>> /\ b = "N"
    <3>1. ~Outside(p, b) /\ Sender(p, b) = <<<<2, 1>>, "S">> /\ a[p][b] = im
      BY <1>3, <2>20 DEF Outside, Sender
    <3>2. T[<<2, 1>>].out["S"] = "dout"
      BY <1>2, <1>5
    <3> QED BY <1>4, <1>6, <3>1, <3>2 DEF SameStream, FedFrom
  <2>21. CASE p = <<2, 3>> /\ b = "N"
    <3>1. ~Outside(p, b) /\ Sender(p, b) = <<<<2, 2>>, "S">> /\ a[p][b] = im
      BY <1>3, <2>21 DEF Outside, Sender
    <3>2. T[<<2, 2>>].out["S"] = "N"
      BY <1>2, <1>5
    <3>3. a[<<2, 2>>]["N"] = im
      BY <1>3
    <3> QED BY <1>4, <3>1, <3>2, <3>3 DEF SameStream, FedFrom
  <2>22. CASE p = <<2, 3>> /\ b = "E"
    <3>1. ~Outside(p, b) /\ Sender(p, b) = <<<<3, 3>>, "W">> /\ a[p][b] = x[2]
      BY <1>3, <2>22 DEF Outside, Sender
    <3>2. T[<<3, 3>>].out["W"] = "N"
      BY <1>2, <1>5
    <3>3. a[<<3, 3>>]["N"] = x[2]
      BY <1>3
    <3> QED BY <1>4, <3>1, <3>2, <3>3 DEF SameStream, FedFrom
  <2>23. CASE p = <<3, 0>> /\ b = "N"
    <3>1. Outside(p, b) /\ p[1] = 3 /\ a[p][b] = x[3]
      BY <1>3, <2>23 DEF Outside
    <3> QED BY <1>0, <3>1 DEF SameStream, Fed
  <2>24. CASE p = <<3, 0>> /\ b = "W"
    <3>1. ~Outside(p, b) /\ Sender(p, b) = <<<<2, 0>>, "E">> /\ a[p][b] = x[2]
      BY <1>3, <2>24 DEF Outside, Sender
    <3>2. T[<<2, 0>>].out["E"] = "N"
      BY <1>2, <1>5
    <3>3. a[<<2, 0>>]["N"] = x[2]
      BY <1>3
    <3> QED BY <1>4, <3>1, <3>2, <3>3 DEF SameStream, FedFrom
  <2>25. CASE p = <<3, 1>> /\ b = "N"
    <3>1. ~Outside(p, b) /\ Sender(p, b) = <<<<3, 0>>, "S">> /\ a[p][b] = x[2]
      BY <1>3, <2>25 DEF Outside, Sender
    <3>2. T[<<3, 0>>].out["S"] = "W"
      BY <1>2, <1>5
    <3>3. a[<<3, 0>>]["W"] = x[2]
      BY <1>3
    <3> QED BY <1>4, <3>1, <3>2, <3>3 DEF SameStream, FedFrom
  <2>26. CASE p = <<3, 1>> /\ b = "E"
    <3>1. ~Outside(p, b) /\ Sender(p, b) = <<<<3, 0>>, "E">> /\ a[p][b] = x[3]
      BY <1>3, <2>26 DEF Outside, Sender
    <3>2. T[<<3, 0>>].out["E"] = "N"
      BY <1>2, <1>5
    <3>3. a[<<3, 0>>]["N"] = x[3]
      BY <1>3
    <3> QED BY <1>4, <3>1, <3>2, <3>3 DEF SameStream, FedFrom
  <2>27. CASE p = <<3, 2>> /\ b = "N"
    <3>1. ~Outside(p, b) /\ Sender(p, b) = <<<<3, 1>>, "S">> /\ a[p][b] = x[2]
      BY <1>3, <2>27 DEF Outside, Sender
    <3>2. T[<<3, 1>>].out["S"] = "N"
      BY <1>2, <1>5
    <3>3. a[<<3, 1>>]["N"] = x[2]
      BY <1>3
    <3> QED BY <1>4, <3>1, <3>2, <3>3 DEF SameStream, FedFrom
  <2>28. CASE p = <<3, 3>> /\ b = "N"
    <3>1. ~Outside(p, b) /\ Sender(p, b) = <<<<3, 2>>, "S">> /\ a[p][b] = x[2]
      BY <1>3, <2>28 DEF Outside, Sender
    <3>2. T[<<3, 2>>].out["S"] = "N"
      BY <1>2, <1>5
    <3>3. a[<<3, 2>>]["N"] = x[2]
      BY <1>3
    <3> QED BY <1>4, <3>1, <3>2, <3>3 DEF SameStream, FedFrom
  <2>29. CASE p = <<3, 3>> /\ b = "W"
    <3>1. ~Outside(p, b) /\ Sender(p, b) = <<<<2, 3>>, "E">> /\ a[p][b] = im
      BY <1>3, <2>29 DEF Outside, Sender
    <3>2. T[<<2, 3>>].out["E"] = "N"
      BY <1>2, <1>5
    <3>3. a[<<2, 3>>]["N"] = im
      BY <1>3
    <3> QED BY <1>4, <3>1, <3>2, <3>3 DEF SameStream, FedFrom
  <2>30. /\ DOMAIN T[<<0, 0>>].to = {"N", "E"} /\ DOMAIN T[<<0, 1>>].to = {"N", "W"}
         /\ DOMAIN T[<<0, 2>>].to = {"N"} /\ DOMAIN T[<<0, 3>>].to = {"N", "E"}
         /\ DOMAIN T[<<1, 0>>].to = {"N", "E", "W"} /\ DOMAIN T[<<1, 1>>].to = {"N", "W"}
         /\ DOMAIN T[<<1, 2>>].to = {"N"} /\ DOMAIN T[<<1, 3>>].to = {"N", "W"}
         /\ DOMAIN T[<<2, 0>>].to = {"N", "E"} /\ DOMAIN T[<<2, 1>>].to = {"E", "W"}
         /\ DOMAIN T[<<2, 2>>].to = {"N"} /\ DOMAIN T[<<2, 3>>].to = {"N", "E"}
         /\ DOMAIN T[<<3, 0>>].to = {"N", "W"} /\ DOMAIN T[<<3, 1>>].to = {"N", "E"}
         /\ DOMAIN T[<<3, 2>>].to = {"N"} /\ DOMAIN T[<<3, 3>>].to = {"N", "W"}
    BY <1>2, <1>5
  <2>31. CASE p \in {<<0, 0>>, <<0, 1>>, <<0, 2>>, <<0, 3>>}
    BY <2>30, <2>31, <2>1, <2>2, <2>3, <2>4, <2>5, <2>6, <2>7
  <2>32. CASE p \in {<<1, 0>>, <<1, 1>>, <<1, 2>>, <<1, 3>>}
    BY <2>30, <2>32, <2>8, <2>9, <2>10, <2>11, <2>12, <2>13, <2>14, <2>15
  <2>33. CASE p \in {<<2, 0>>, <<2, 1>>, <<2, 2>>, <<2, 3>>}
    BY <2>30, <2>33, <2>16, <2>17, <2>18, <2>19, <2>20, <2>21, <2>22
  <2>34. CASE p \in {<<3, 0>>, <<3, 1>>, <<3, 2>>, <<3, 3>>}
    BY <2>30, <2>34, <2>23, <2>24, <2>25, <2>26, <2>27, <2>28, <2>29
  <2> QED BY <1>1, <2>31, <2>32, <2>33, <2>34
<1>9. DOMAIN T \subseteq Columns \X Rows
  BY <1>1 DEF Columns, Rows
<1>10. Labels(T, input, Labelling(T, a))
  BY <1>7, <1>8, <1>9, SimpleLabels DEF Labelling
<1> QED BY <1>10 DEF T, a

\* conv2d_2.
Conv2d2Sides(w, x) ==
    LET product(c, k) == Combine("mul", x[c], Constant(k))
        two   == Combine("add", product(0, w[3]), product(1, w[23]))
        three == Combine("add", two, product(2, w[43]))
    IN  [p \in DOMAIN Conv2d2Table(w) |->
         CASE p[2] = 0     -> [N |-> x[p[1]]]
           [] p = <<0, 1>> -> [N |-> product(0, w[3])]
           [] p = <<1, 1>> -> [N |-> product(1, w[23]), W |-> product(0, w[3])]
           [] p = <<2, 1>> -> [N |-> product(2, w[43]), W |-> two]
           [] p = <<3, 1>> -> [N |-> x[3], W |-> three]
           [] OTHER        -> [N |-> Combine("add", three, x[3])]]

LEMMA Conv2d2Labels ==
    ASSUME NEW input, NEW x, x = [c \in Columns |-> Words(input, c)],
           \A c \in Columns : Stream(x[c]),
           NEW w, w[3] \in Int, w[23] \in Int, w[43] \in Int
    PROVE  Labels(Conv2d2Table(w), input, Labelling(Conv2d2Table(w), Conv2d2Sides(w, x)))
<1> DEFINE T == Conv2d2Table(w)
           a == Conv2d2Sides(w, x)
           m0 == Combine("mul", x[0], Constant(w[3]))
           m1 == Combine("mul", x[1], Constant(w[23]))
           m2 == Combine("mul", x[2], Constant(w[43]))
           s1 == Combine("add", m0, m1)
           s2 == Combine("add", s1, m2)
           s3 == Combine("add", s2, x[3])
<1>1. DOMAIN T =
        {<<0, 0>>, <<1, 0>>, <<2, 0>>, <<3, 0>>, <<0, 1>>, <<1, 1>>, <<2, 1>>, <<3, 1>>,
         <<3, 2>>, <<3, 3>>}
  BY DEF Conv2d2Table, Columns
<1>2. /\ T[<<0, 0>>] = Scale(w[3]) /\ T[<<1, 0>>] = Scale(w[23]) /\ T[<<2, 0>>] = Scale(w[43])
      /\ T[<<3, 0>>] = Down /\ T[<<0, 1>>] = Pass("N", "E") /\ T[<<1, 1>>] = Sum({"E"})
      /\ T[<<2, 1>>] = Sum({"E"}) /\ T[<<3, 1>>] = Sum({"S"}) /\ T[<<3, 2>>] = Down
      /\ T[<<3, 3>>] = Down
  BY DEF Conv2d2Table, Columns
<1>3. /\ a[<<0, 0>>] = [N |-> x[0]] /\ a[<<1, 0>>] = [N |-> x[1]] /\ a[<<2, 0>>] = [N |-> x[2]]
      /\ a[<<3, 0>>] = [N |-> x[3]] /\ a[<<0, 1>>] = [N |-> m0]
      /\ a[<<1, 1>>] = [N |-> m1, W |-> m0] /\ a[<<2, 1>>] = [N |-> m2, W |-> s1]
      /\ a[<<3, 1>>] = [N |-> x[3], W |-> s2] /\ a[<<3, 2>>] = [N |-> s3]
      /\ a[<<3, 3>>] = [N |-> s3]
  BY <1>1 DEF Conv2d2Sides
<1>0. /\ Stream(x[0]) /\ Stream(x[1]) /\ Stream(x[2]) /\ Stream(x[3]) /\ x[0] = Words(input, 0)
      /\ x[1] = Words(input, 1) /\ x[2] = Words(input, 2) /\ x[3] = Words(input, 3)
  BY DEF Columns
<1>4. /\ Stream(x[0]) /\ Stream(x[1]) /\ Stream(x[2]) /\ Stream(x[3]) /\ Stream(m0)
      /\ Stream(m1) /\ Stream(m2) /\ Stream(s1) /\ Stream(s2) /\ Stream(s3)
  <2>1. Stream(m0)
    BY <1>0, StreamOps
  <2>2. Stream(m1)
    BY <1>0, StreamOps
  <2>3. Stream(m2)
    BY <1>0, StreamOps
  <2>4. Stream(s1)
    BY <1>0, <2>1, <2>2, StreamOps
  <2>5. Stream(s2)
    BY <1>0, <2>3, <2>4, StreamOps
  <2>6. Stream(s3)
    BY <1>0, <2>5, StreamOps
  <2> QED BY <1>0, <2>1, <2>2, <2>3, <2>4, <2>5, <2>6
<1>5. /\ Simple(Scale(w[3])) /\ DOMAIN Scale(w[3]).to = {"N"} /\ Scale(w[3]).out["S"] = "dout"
      /\ Simple(Scale(w[23])) /\ DOMAIN Scale(w[23]).to = {"N"}
      /\ Scale(w[23]).out["S"] = "dout" /\ Simple(Scale(w[43]))
      /\ DOMAIN Scale(w[43]).to = {"N"} /\ Scale(w[43]).out["S"] = "dout" /\ Simple(Down)
      /\ DOMAIN Down.to = {"N"} /\ Down.out["S"] = "N" /\ Simple(Pass("N", "E"))
      /\ DOMAIN Pass("N", "E").to = {"N"} /\ Pass("N", "E").out["E"] = "N" /\ Simple(Sum({"E"}))
      /\ DOMAIN Sum({"E"}).to = {"N", "W"} /\ Sum({"E"}).out["E"] = "dout" /\ Simple(Sum({"S"}))
      /\ DOMAIN Sum({"S"}).to = {"N", "W"} /\ Sum({"S"}).out["S"] = "dout"
  BY ScaleCell, SumCell, EastCell, DownCell
<1>6. /\ Made(T[<<0, 0>>], a[<<0, 0>>]) = m0 /\ Made(T[<<1, 0>>], a[<<1, 0>>]) = m1
      /\ Made(T[<<2, 0>>], a[<<2, 0>>]) = m2 /\ Made(T[<<1, 1>>], a[<<1, 1>>]) = s1
      /\ Made(T[<<2, 1>>], a[<<2, 1>>]) = s2 /\ Made(T[<<3, 1>>], a[<<3, 1>>]) = s3
  BY <1>2, <1>3, ScaleCell, SumCell
<1>7. \A p \in DOMAIN T : Simple(T[p])
  <2>1. /\ Simple(T[<<0, 0>>]) /\ Simple(T[<<1, 0>>]) /\ Simple(T[<<2, 0>>])
        /\ Simple(T[<<3, 0>>]) /\ Simple(T[<<0, 1>>]) /\ Simple(T[<<1, 1>>])
        /\ Simple(T[<<2, 1>>]) /\ Simple(T[<<3, 1>>]) /\ Simple(T[<<3, 2>>])
        /\ Simple(T[<<3, 3>>])
    BY <1>2, <1>5
  <2> QED BY <1>1, <2>1
<1> HIDE DEF T, a, m0, m1, m2, s1, s2, s3
<1>8. ASSUME NEW p \in DOMAIN T, NEW b \in DOMAIN T[p].to
      PROVE  Stream(a[p][b]) /\ SameStream(T, input, a, p, b)
  <2>1. CASE p = <<0, 0>> /\ b = "N"
    <3>1. Outside(p, b) /\ p[1] = 0 /\ a[p][b] = x[0]
      BY <1>3, <2>1 DEF Outside
    <3> QED BY <1>0, <3>1 DEF SameStream, Fed
  <2>2. CASE p = <<1, 0>> /\ b = "N"
    <3>1. Outside(p, b) /\ p[1] = 1 /\ a[p][b] = x[1]
      BY <1>3, <2>2 DEF Outside
    <3> QED BY <1>0, <3>1 DEF SameStream, Fed
  <2>3. CASE p = <<2, 0>> /\ b = "N"
    <3>1. Outside(p, b) /\ p[1] = 2 /\ a[p][b] = x[2]
      BY <1>3, <2>3 DEF Outside
    <3> QED BY <1>0, <3>1 DEF SameStream, Fed
  <2>4. CASE p = <<3, 0>> /\ b = "N"
    <3>1. Outside(p, b) /\ p[1] = 3 /\ a[p][b] = x[3]
      BY <1>3, <2>4 DEF Outside
    <3> QED BY <1>0, <3>1 DEF SameStream, Fed
  <2>5. CASE p = <<0, 1>> /\ b = "N"
    <3>1. ~Outside(p, b) /\ Sender(p, b) = <<<<0, 0>>, "S">> /\ a[p][b] = m0
      BY <1>3, <2>5 DEF Outside, Sender
    <3>2. T[<<0, 0>>].out["S"] = "dout"
      BY <1>2, <1>5
    <3> QED BY <1>4, <1>6, <3>1, <3>2 DEF SameStream, FedFrom
  <2>6. CASE p = <<1, 1>> /\ b = "N"
    <3>1. ~Outside(p, b) /\ Sender(p, b) = <<<<1, 0>>, "S">> /\ a[p][b] = m1
      BY <1>3, <2>6 DEF Outside, Sender
    <3>2. T[<<1, 0>>].out["S"] = "dout"
      BY <1>2, <1>5
    <3> QED BY <1>4, <1>6, <3>1, <3>2 DEF SameStream, FedFrom
  <2>7. CASE p = <<1, 1>> /\ b = "W"
    <3>1. ~Outside(p, b) /\ Sender(p, b) = <<<<0, 1>>, "E">> /\ a[p][b] = m0
      BY <1>3, <2>7 DEF Outside, Sender
    <3>2. T[<<0, 1>>].out["E"] = "N"
      BY <1>2, <1>5
    <3>3. a[<<0, 1>>]["N"] = m0
      BY <1>3
    <3> QED BY <1>4, <3>1, <3>2, <3>3 DEF SameStream, FedFrom
  <2>8. CASE p = <<2, 1>> /\ b = "N"
    <3>1. ~Outside(p, b) /\ Sender(p, b) = <<<<2, 0>>, "S">> /\ a[p][b] = m2
      BY <1>3, <2>8 DEF Outside, Sender
    <3>2. T[<<2, 0>>].out["S"] = "dout"
      BY <1>2, <1>5
    <3> QED BY <1>4, <1>6, <3>1, <3>2 DEF SameStream, FedFrom
  <2>9. CASE p = <<2, 1>> /\ b = "W"
    <3>1. ~Outside(p, b) /\ Sender(p, b) = <<<<1, 1>>, "E">> /\ a[p][b] = s1
      BY <1>3, <2>9 DEF Outside, Sender
    <3>2. T[<<1, 1>>].out["E"] = "dout"
      BY <1>2, <1>5
    <3> QED BY <1>4, <1>6, <3>1, <3>2 DEF SameStream, FedFrom
  <2>10. CASE p = <<3, 1>> /\ b = "N"
    <3>1. ~Outside(p, b) /\ Sender(p, b) = <<<<3, 0>>, "S">> /\ a[p][b] = x[3]
      BY <1>3, <2>10 DEF Outside, Sender
    <3>2. T[<<3, 0>>].out["S"] = "N"
      BY <1>2, <1>5
    <3>3. a[<<3, 0>>]["N"] = x[3]
      BY <1>3
    <3> QED BY <1>4, <3>1, <3>2, <3>3 DEF SameStream, FedFrom
  <2>11. CASE p = <<3, 1>> /\ b = "W"
    <3>1. ~Outside(p, b) /\ Sender(p, b) = <<<<2, 1>>, "E">> /\ a[p][b] = s2
      BY <1>3, <2>11 DEF Outside, Sender
    <3>2. T[<<2, 1>>].out["E"] = "dout"
      BY <1>2, <1>5
    <3> QED BY <1>4, <1>6, <3>1, <3>2 DEF SameStream, FedFrom
  <2>12. CASE p = <<3, 2>> /\ b = "N"
    <3>1. ~Outside(p, b) /\ Sender(p, b) = <<<<3, 1>>, "S">> /\ a[p][b] = s3
      BY <1>3, <2>12 DEF Outside, Sender
    <3>2. T[<<3, 1>>].out["S"] = "dout"
      BY <1>2, <1>5
    <3> QED BY <1>4, <1>6, <3>1, <3>2 DEF SameStream, FedFrom
  <2>13. CASE p = <<3, 3>> /\ b = "N"
    <3>1. ~Outside(p, b) /\ Sender(p, b) = <<<<3, 2>>, "S">> /\ a[p][b] = s3
      BY <1>3, <2>13 DEF Outside, Sender
    <3>2. T[<<3, 2>>].out["S"] = "N"
      BY <1>2, <1>5
    <3>3. a[<<3, 2>>]["N"] = s3
      BY <1>3
    <3> QED BY <1>4, <3>1, <3>2, <3>3 DEF SameStream, FedFrom
  <2>14. /\ DOMAIN T[<<0, 0>>].to = {"N"} /\ DOMAIN T[<<1, 0>>].to = {"N"}
         /\ DOMAIN T[<<2, 0>>].to = {"N"} /\ DOMAIN T[<<3, 0>>].to = {"N"}
         /\ DOMAIN T[<<0, 1>>].to = {"N"} /\ DOMAIN T[<<1, 1>>].to = {"N", "W"}
         /\ DOMAIN T[<<2, 1>>].to = {"N", "W"} /\ DOMAIN T[<<3, 1>>].to = {"N", "W"}
         /\ DOMAIN T[<<3, 2>>].to = {"N"} /\ DOMAIN T[<<3, 3>>].to = {"N"}
    BY <1>2, <1>5
  <2>15. CASE p \in {<<0, 0>>, <<0, 1>>}
    BY <2>14, <2>15, <2>1, <2>5
  <2>16. CASE p \in {<<1, 0>>, <<1, 1>>}
    BY <2>14, <2>16, <2>2, <2>6, <2>7
  <2>17. CASE p \in {<<2, 0>>, <<2, 1>>}
    BY <2>14, <2>17, <2>3, <2>8, <2>9
  <2>18. CASE p \in {<<3, 0>>, <<3, 1>>, <<3, 2>>, <<3, 3>>}
    BY <2>14, <2>18, <2>4, <2>10, <2>11, <2>12, <2>13
  <2> QED BY <1>1, <2>15, <2>16, <2>17, <2>18
<1>9. DOMAIN T \subseteq Columns \X Rows
  BY <1>1 DEF Columns, Rows
<1>10. Labels(T, input, Labelling(T, a))
  BY <1>7, <1>8, <1>9, SimpleLabels DEF Labelling
<1> QED BY <1>10 DEF T, a

-----------------------------------------------------------------------------
(* relu delivers                                                           *)

\* A result has at least k words, and the k-th is v.
Yields(r, k, v) == k <= Len(r) /\ r[k] = v

Clipped(v) == IF v > 0 THEN v ELSE 0

LEMMA ReluResult ==
    ASSUME NEW input, \A c \in Columns : input[c] \in Seq(Int), NEW w, NEW g \in [Columns -> Nat],
           \A d \in Columns : g[d] <= Len(input[d]), NEW c \in {0, 2, 3},
           NEW e, e = IF c = 2 THEN 1 ELSE c, NEW k \in Nat \ {0}, k <= g[e]
    PROVE  Yields(Kernel!Outputs("relu", w, Given(input, g))[c], k, Clipped(Words(input, e).token[k]))
<1> DEFINE v == Given(input, g)[e]
           n == g[e]
           s == Words(input, e).token
           r == Kernel!Outputs("relu", w, Given(input, g))[c]
<1>1. e \in Columns /\ k \in 1 .. g[e]
  BY DEF Columns
<1>2. v \in Seq(Int) /\ DOMAIN v = 1 .. n /\ v[k] = s[k] /\ n \in Nat
  BY <1>1, GivenWord
<1>3. r = [i \in DOMAIN v |-> IF v[i] > 0 THEN v[i] ELSE 0]
  <2>1. CASE c = 0
    BY <2>1, SameColumns DEF Kernel!Outputs, Kernel!Relu, Kernel!ByColumn, Kernel!Positive, Columns
  <2>2. CASE c = 2
    BY <2>2, SameColumns DEF Kernel!Outputs, Kernel!Relu, Kernel!ByColumn, Kernel!Positive, Columns
  <2>3. CASE c = 3
    BY <2>3, SameColumns DEF Kernel!Outputs, Kernel!Relu, Kernel!ByColumn, Kernel!Positive, Columns
  <2> QED BY <2>1, <2>2, <2>3
<1> HIDE DEF v, n, s, r
<1>4. r = [i \in 1 .. n |-> IF v[i] > 0 THEN v[i] ELSE 0]
  BY <1>2, <1>3
<1>5. Len(r) = n
  BY <1>2, <1>4
<1>6. r[k] = Clipped(s[k])
  BY <1>1, <1>2, <1>4 DEF n, Clipped
<1> QED BY <1>1, <1>5, <1>6 DEF n, r, s, Yields

\* The sides of the lowest row.
LEMMA ReluSent ==
    ASSUME NEW x, NEW c \in Columns, Sends(ReluTable, c)
    PROVE  /\ c # 1
           /\ Sent(ReluTable, Labelling(ReluTable, ReluSides(x)), c) =
                CASE c = 0 -> Combine("mul", x[0], Signum(x[0]))
                  [] c = 2 -> Combine("mul", x[1], Signum(x[1]))
                  [] OTHER -> Combine("mul", Signum(x[3]), x[3])
<1>1. <<c, 3>> \in {<<0, 3>>, <<2, 3>>, <<3, 3>>}
  BY DEF Sends, ReluTable, Columns
<1>2. ReluTable[<<c, 3>>] = Down
  BY <1>1 DEF ReluTable, Columns
<1>3. ReluSides(x)[<<c, 3>>] = [N |->
                CASE c = 0 -> Combine("mul", x[0], Signum(x[0]))
                  [] c = 2 -> Combine("mul", x[1], Signum(x[1]))
                  [] OTHER -> Combine("mul", Signum(x[3]), x[3])]
  BY <1>1 DEF ReluSides, ReluTable, Columns
<1>4. Sent(ReluTable, Labelling(ReluTable, ReluSides(x)), c) = ReluSides(x)[<<c, 3>>]["N"]
  BY <1>2, DownCell, SentIs
<1> QED BY <1>1, <1>3, <1>4

LEMMA ReluJob ==
    ASSUME NEW j \in DOMAIN Jobs, Jobs[j].kernel = "relu", Cells[j] = ReluTable
    PROVE  \E t : Labels(Cells[j], Jobs[j].input, t) /\ Faithful(j, t)
<1> DEFINE input == Jobs[j].input
           x     == [c \in Columns |-> Words(input, c)]
           t     == Labelling(ReluTable, ReluSides(x))
<1>1. \A c \in Columns : input[c] \in Seq(Int) /\ Stream(x[c])
  BY InputAssumption, WordsStream
<1>2. Labels(Cells[j], input, t)
  <2> HIDE DEF x, input
  <2>1. x = [c \in Columns |-> Words(input, c)]
    BY DEF x
  <2> QED BY <1>1, <2>1, ReluLabels
<1>3. ASSUME NEW g \in [Columns -> Nat], NEW c \in Columns,
             \A d \in Columns : g[d] <= Len(input[d]), Sends(Cells[j], c),
             NEW k \in Nat \ {0}, \A d \in Sent(Cells[j], t, c).of : k <= g[d]
      PROVE  LET r == Kernel!Outputs(Jobs[j].kernel, Jobs[j].words, Given(input, g))[c]
             IN  k <= Len(r) /\ r[k] = Sent(Cells[j], t, c).token[k]
  <2> DEFINE e == IF c = 2 THEN 1 ELSE c
             s == Words(input, e)
             u == Sent(Cells[j], t, c)
  <2>1. c \in {0, 2, 3} /\ e \in Columns /\ x[e] = s
        /\ u \in {Combine("mul", s, Signum(s)), Combine("mul", Signum(s), s)}
    BY <1>3, ReluSent DEF Columns
  <2>2. s.of = {e} /\ Stream(s)
    BY <1>1, <2>1 DEF Words
  <2> HIDE DEF s, u
  <2>3. u.of = {e} /\ s.token[k] \in Int
        /\ u.token[k] \in {s.token[k] * Signum(s).token[k], Signum(s).token[k] * s.token[k]}
    BY <2>1, <2>2 DEF Combine, ALU, Signum, Gtz, Constant, Stream
  <2>4. Signum(s).token[k] = IF s.token[k] > 0 THEN 1 ELSE 0
    BY <2>3 DEF Signum, Gtz, Combine, ALU, Constant
  <2>5. u.token[k] = IF s.token[k] > 0 THEN s.token[k] ELSE 0
    BY <2>3, <2>4
  <2>6. k <= g[e]
    BY <1>3, <2>3 DEF u
  <2> HIDE DEF input, e
  <2>7. e = IF c = 2 THEN 1 ELSE c
    BY DEF e
  <2>8. Yields(Kernel!Outputs("relu", Jobs[j].words, Given(input, g))[c], k,
               Clipped(Words(input, e).token[k]))
    BY <1>1, <1>3, <2>1, <2>6, <2>7, ReluResult
  <2> QED BY <2>5, <2>8 DEF s, u, input, Yields, Clipped
<1>4. Faithful(j, t)
  BY <1>3 DEF Faithful
<1> QED BY <1>2, <1>4

-----------------------------------------------------------------------------
(* Induction over the naturals, for sets instead of predicates             *)

Below == OpToRel(<, Nat)

LEMMA BelowIsLess == \A i, j \in Nat : i < j => <<i, j>> \in Below
BY DEF Below, OpToRel

LEMMA Least ==
    ASSUME NEW T \in SUBSET Nat, T # {}
    PROVE  \E x \in T : \A y \in T : x <= y
<1>1. IsWellFoundedOn(Below, Nat)
  BY NatLessThanWellFounded DEF Below
<1>2. PICK x \in T : \A y \in T : ~(<<y, x>> \in Below)
  BY <1>1, WFMin
<1>3. ASSUME NEW y \in T PROVE x <= y
  <2>1. x \in Nat /\ y \in Nat /\ ~(<<y, x>> \in Below)
    BY <1>2
  <2> QED BY <2>1, BelowIsLess
<1> QED BY <1>3

LEMMA Induction ==
    ASSUME NEW T, 0 \in T, \A n \in Nat : n \in T => n + 1 \in T
    PROVE  \A n \in Nat : n \in T
<1> SUFFICES ASSUME NEW n \in Nat, n \notin T PROVE FALSE
  OBVIOUS
<1> DEFINE U == {m \in Nat : m \notin T}
<1>1. PICK x \in U : \A y \in U : x <= y
  <2>1. U \in SUBSET Nat /\ U # {}
    OBVIOUS
  <2> HIDE DEF U
  <2> QED BY <2>1, Least
<1>2. x - 1 \in Nat /\ x - 1 \in T
  BY <1>1
<1> QED BY <1>1, <1>2

-----------------------------------------------------------------------------
(* Streams that pair up                                                    *)

LEMMA PairedLeast ==
    ASSUME NEW C \in SUBSET Columns, C # {}, NEW s, \A c \in C : Len(s[c]) \in Nat,
           NEW k \in Nat, \A c \in C : k <= Len(s[c])
    PROVE  Kernel!Paired(C, s) \in Nat /\ k <= Kernel!Paired(C, s)
<1> DEFINE T == {Len(s[c]) : c \in C}
<1>1. PICK x \in T : \A y \in T : x <= y
  <2>1. T \in SUBSET Nat /\ T # {}
    OBVIOUS
  <2> HIDE DEF T
  <2> QED BY <2>1, Least
<1>2. Kernel!Min(T) \in T
  <2> HIDE DEF T
  <2> QED BY <1>1 DEF Kernel!Min
<1>3. Kernel!Paired(C, s) = Kernel!Min(T)
  BY DEF Kernel!Paired
<1> QED BY <1>2, <1>3

\* The words of all columns that k words were taken of.
LEMMA GivenPaired ==
    ASSUME NEW input, \A c \in Columns : input[c] \in Seq(Int), NEW g \in [Columns -> Nat],
           \A d \in Columns : g[d] <= Len(input[d]), NEW C \in SUBSET Columns, C # {},
           NEW k \in Nat \ {0}, \A c \in C : k <= g[c]
    PROVE  /\ Kernel!Paired(C, Given(input, g)) \in Nat /\ k <= Kernel!Paired(C, Given(input, g))
           /\ \A c \in C : /\ Given(input, g)[c][k] = Words(input, c).token[k]
                           /\ Words(input, c).token[k] \in Int
<1>1. ASSUME NEW c \in C
      PROVE  /\ Len(Given(input, g)[c]) = g[c] /\ g[c] \in Nat
             /\ Given(input, g)[c][k] = Words(input, c).token[k]
             /\ Words(input, c).token[k] \in Int
  <2>1. k \in 1 .. g[c] /\ c \in Columns
    OBVIOUS
  <2> QED BY <2>1, GivenWord
<1>2. \A c \in C : Len(Given(input, g)[c]) \in Nat /\ k <= Len(Given(input, g)[c])
  BY <1>1
<1>3. Kernel!Paired(C, Given(input, g)) \in Nat /\ k <= Kernel!Paired(C, Given(input, g))
  BY <1>2, PairedLeast
<1> QED BY <1>1, <1>3

\* conv2d_1.
LEMMA Conv2d1Sent ==
    ASSUME NEW x, NEW c \in Columns, Sends(Conv2d1Table, c)
    PROVE  /\ c = 2
           /\ Sent(Conv2d1Table, Labelling(Conv2d1Table, Conv2d1Sides(x)), c) =
                Combine("add", Combine("add", Combine("mul", x[0], Constant(0)),
                                              Combine("mul", x[1], Constant(-1))),
                               Combine("mul", x[2], Constant(0)))
<1>1. c = 2 /\ <<c, 3>> \in DOMAIN Conv2d1Table
  BY DEF Sends, Conv2d1Table
<1>2. Conv2d1Table[<<c, 3>>] = Down
  BY <1>1 DEF Conv2d1Table
<1>3. Conv2d1Sides(x)[<<c, 3>>] =
        [N |-> Combine("add", Combine("add", Combine("mul", x[0], Constant(0)),
                                             Combine("mul", x[1], Constant(-1))),
                              Combine("mul", x[2], Constant(0)))]
  BY <1>1 DEF Conv2d1Sides
<1>4. Sent(Conv2d1Table, Labelling(Conv2d1Table, Conv2d1Sides(x)), c) = Conv2d1Sides(x)[<<c, 3>>]["N"]
  BY <1>2, DownCell, SentIs
<1> QED BY <1>1, <1>3, <1>4

LEMMA Conv2d1Job ==
    ASSUME NEW j \in DOMAIN Jobs, Jobs[j].kernel = "conv2d_1", Cells[j] = Conv2d1Table
    PROVE  \E t : Labels(Cells[j], Jobs[j].input, t) /\ Faithful(j, t)
<1> DEFINE input == Jobs[j].input
           x     == [c \in Columns |-> Words(input, c)]
           t     == Labelling(Conv2d1Table, Conv2d1Sides(x))
<1>1. \A c \in Columns : input[c] \in Seq(Int) /\ Stream(x[c])
  BY InputAssumption, WordsStream
<1>2. Labels(Cells[j], input, t)
  <2> HIDE DEF x, input
  <2>1. x = [c \in Columns |-> Words(input, c)]
    BY DEF x
  <2> QED BY <1>1, <2>1, Conv2d1Labels
<1>3. ASSUME NEW g \in [Columns -> Nat], NEW c \in Columns,
             \A d \in Columns : g[d] <= Len(input[d]), Sends(Cells[j], c),
             NEW k \in Nat \ {0}, \A d \in Sent(Cells[j], t, c).of : k <= g[d]
      PROVE  LET r == Kernel!Outputs(Jobs[j].kernel, Jobs[j].words, Given(input, g))[c]
             IN  k <= Len(r) /\ r[k] = Sent(Cells[j], t, c).token[k]
  <2> DEFINE u == Sent(Cells[j], t, c)
             v == Given(input, g)
             n == Kernel!Paired({0, 1, 2}, v)
             r == Kernel!Outputs(Jobs[j].kernel, Jobs[j].words, v)[c]
             s(d) == Words(input, d)
  <2>1. c = 2 /\ u = Combine("add", Combine("add", Combine("mul", s(0), Constant(0)),
                                                   Combine("mul", s(1), Constant(-1))),
                                    Combine("mul", s(2), Constant(0)))
    BY <1>3, Conv2d1Sent DEF Columns
  <2>2. s(0).of = {0} /\ s(1).of = {1} /\ s(2).of = {2}
    BY DEF Words
  <2>3. r = [i \in 1 .. n |-> -v[1][i]]
    BY <2>1, SameColumns DEF Kernel!Outputs, Kernel!Conv2d1, Kernel!ByColumn, Columns
  <2> HIDE DEF s, u, v, n, r, input
  <2>4. /\ u.of = {0, 1, 2}
        /\ u.token[k] = ((s(0).token[k] * 0) + (s(1).token[k] * (-1))) + (s(2).token[k] * 0)
    BY <2>1, <2>2 DEF Combine, ALU, Constant
  <2>5. \A d \in {0, 1, 2} : k <= g[d]
    BY <1>3, <2>4 DEF u
  <2>6. n \in Nat /\ k <= n /\ \A d \in {0, 1, 2} : v[d][k] = s(d).token[k] /\ s(d).token[k] \in Int
    <3>1. {0, 1, 2} \in SUBSET Columns /\ {0, 1, 2} # {}
      BY DEF Columns
    <3> QED BY <1>1, <1>3, <2>5, <3>1, GivenPaired DEF n, v, s
  <2>7. u.token[k] = -v[1][k]
    BY <2>4, <2>6
  <2>8. Len(r) = n /\ r[k] = -v[1][k]
    BY <2>3, <2>6
  <2> QED BY <2>6, <2>7, <2>8 DEF u, r, v, input
<1>4. Faithful(j, t)
  BY <1>3 DEF Faithful
<1> QED BY <1>2, <1>4

-----------------------------------------------------------------------------
(* conv2d_2 delivers                                                       *)

\* conv2d_2.
Conv2d2Three(w, x) ==
    Combine("add", Combine("add", Combine("mul", x[0], Constant(w[3])),
                                  Combine("mul", x[1], Constant(w[23]))),
                   Combine("mul", x[2], Constant(w[43])))

LEMMA Conv2d2Sent ==
    ASSUME NEW w, NEW x, NEW c \in Columns, Sends(Conv2d2Table(w), c)
    PROVE  /\ c = 3
           /\ Sent(Conv2d2Table(w), Labelling(Conv2d2Table(w), Conv2d2Sides(w, x)), c) =
                Combine("add", Conv2d2Three(w, x), x[3])
<1>1. c = 3 /\ <<c, 3>> \in DOMAIN Conv2d2Table(w)
  BY DEF Sends, Conv2d2Table
<1>2. Conv2d2Table(w)[<<c, 3>>] = Down
  BY <1>1 DEF Conv2d2Table
<1>3. Conv2d2Sides(w, x)[<<c, 3>>] =
        [N |-> Combine("add", Conv2d2Three(w, x), x[3])]
  BY <1>1 DEF Conv2d2Sides, Conv2d2Three
<1>4. Sent(Conv2d2Table(w), Labelling(Conv2d2Table(w), Conv2d2Sides(w, x)), c) = Conv2d2Sides(w, x)[<<c, 3>>]["N"]
  BY <1>2, DownCell, SentIs
<1> QED BY <1>1, <1>3, <1>4

LEMMA Conv2d2Job ==
    ASSUME NEW j \in DOMAIN Jobs, Jobs[j].kernel = "conv2d_2", NEW w, w = Jobs[j].words,
           Cells[j] = Conv2d2Table(w), w[3] \in Int, w[23] \in Int, w[43] \in Int
    PROVE  \E t : Labels(Cells[j], Jobs[j].input, t) /\ Faithful(j, t)
<1> DEFINE input == Jobs[j].input
           x     == [c \in Columns |-> Words(input, c)]
           t     == Labelling(Conv2d2Table(w), Conv2d2Sides(w, x))
<1>1. \A c \in Columns : input[c] \in Seq(Int) /\ Stream(x[c])
  BY InputAssumption, WordsStream
<1>2. Labels(Cells[j], input, t)
  <2> HIDE DEF x, input
  <2>1. x = [c \in Columns |-> Words(input, c)]
    BY DEF x
  <2> QED BY <1>1, <2>1, Conv2d2Labels
<1>3. ASSUME NEW g \in [Columns -> Nat], NEW c \in Columns,
             \A d \in Columns : g[d] <= Len(input[d]), Sends(Cells[j], c),
             NEW k \in Nat \ {0}, \A d \in Sent(Cells[j], t, c).of : k <= g[d]
      PROVE  LET r == Kernel!Outputs(Jobs[j].kernel, Jobs[j].words, Given(input, g))[c]
             IN  k <= Len(r) /\ r[k] = Sent(Cells[j], t, c).token[k]
  <2> DEFINE u == Sent(Cells[j], t, c)
             v == Given(input, g)
             n == Kernel!Paired(Columns, v)
             r == Kernel!Outputs(Jobs[j].kernel, Jobs[j].words, v)[c]
             s(d) == Words(input, d)
  <2>0. \A d \in Columns : x[d] = s(d)
    OBVIOUS
  <2> HIDE DEF x
  <2>1. c = 3 /\ u = Combine("add", Conv2d2Three(w, x), x[3])
    BY <1>3, Conv2d2Sent
  <2>2. s(0).of = {0} /\ s(1).of = {1} /\ s(2).of = {2} /\ s(3).of = {3}
    BY DEF Words
  <2>3. r = [i \in 1 .. n |-> v[3][i] + w[3] * v[0][i] + w[23] * v[1][i] + w[43] * v[2][i]]
    BY <2>1, SameColumns DEF Kernel!Outputs, Kernel!Conv2d2, Kernel!ByColumn, Columns
  <2> HIDE DEF s, u, v, n, r, input
  <2>4. /\ u.of = Columns
        /\ u.token[k] = (((s(0).token[k] * w[3]) + (s(1).token[k] * w[23]))
                          + (s(2).token[k] * w[43])) + s(3).token[k]
    <3>1. x[0] = s(0) /\ x[1] = s(1) /\ x[2] = s(2) /\ x[3] = s(3)
      BY <2>0 DEF Columns
    <3>2. u.of = Columns
      BY <2>1, <2>2, <3>1 DEF Combine, Constant, Columns, Conv2d2Three
    <3>3. u.token[k] = (((x[0].token[k] * w[3]) + (x[1].token[k] * w[23]))
                          + (x[2].token[k] * w[43])) + x[3].token[k]
      BY <2>1 DEF Combine, ALU, Constant, Conv2d2Three
    <3> QED BY <3>1, <3>2, <3>3
  <2>5. \A d \in Columns : k <= g[d]
    BY <1>3, <2>4 DEF u
  <2>6. n \in Nat /\ k <= n /\ \A d \in Columns : v[d][k] = s(d).token[k] /\ s(d).token[k] \in Int
    <3>1. Columns # {}
      BY DEF Columns
    <3> QED BY <1>1, <1>3, <2>5, <3>1, GivenPaired DEF n, v, s
  <2>7. u.token[k] = v[3][k] + w[3] * v[0][k] + w[23] * v[1][k] + w[43] * v[2][k]
    BY <2>4, <2>6 DEF Columns
  <2>8. Len(r) = n /\ r[k] = v[3][k] + w[3] * v[0][k] + w[23] * v[1][k] + w[43] * v[2][k]
    BY <2>3, <2>6
  <2> QED BY <2>6, <2>7, <2>8 DEF u, r, v, input
<1>4. Faithful(j, t)
  BY <1>3 DEF Faithful
<1> QED BY <1>2, <1>4

-----------------------------------------------------------------------------
(* fft delivers                                                            *)

\* fft: the two parts of the product, and what each column delivers.
FftReal(x) == Combine("sub", Combine("mul", x[0], Constant(7)), Combine("mul", Constant(-3), x[3]))
FftImag(x) == Combine("add", Combine("mul", x[0], Constant(-3)), Combine("mul", Constant(7), x[3]))

FftResult(x, c) ==
    CASE c = 0 -> Combine("sub", x[1], FftReal(x))
      [] c = 1 -> Combine("add", x[1], FftReal(x))
      [] c = 2 -> Combine("sub", x[2], FftImag(x))
      [] c = 3 -> Combine("add", FftImag(x), x[2])

\* What that is, word by word: m is of column 1 or 2, p of column 0, q of column 3.
FftOf(c)  == IF c \in {0, 1} THEN {0, 1, 3} ELSE {0, 2, 3}
FftAdd(c) == IF c \in {0, 1} THEN 1 ELSE 2
FftToken(c, m, p, q) ==
    CASE c = 0 -> m - (7 * p + 3 * q)
      [] c = 1 -> m + (7 * p + 3 * q)
      [] c = 2 -> m - (7 * q - 3 * p)
      [] c = 3 -> m + (7 * q - 3 * p)

LEMMA FftSent ==
    ASSUME NEW x, NEW c \in Columns
    PROVE  Sent(FftTable, Labelling(FftTable, FftSides(x)), c) = FftResult(x, c)
<1> DEFINE T == FftTable
           a == FftSides(x)
<1>1. <<c, 3>> \in DOMAIN T
  BY DEF FftTable
<1>2. /\ T[<<0, 3>>] = Sub([N |-> {"1", "E"}, E |-> {"2"}], {"S"})
      /\ T[<<1, 3>>] = Add([N |-> {"2", "W"}, W |-> {"1"}], {"S"})
      /\ T[<<2, 3>>] = Sub([N |-> {"2", "E"}, E |-> {"1"}], {"S"})
      /\ T[<<3, 3>>] = Add([N |-> {"2", "W"}, W |-> {"1"}], {"S"})
  BY DEF FftTable, Columns
<1>3. /\ a[<<0, 3>>] = [N |-> x[1], E |-> FftReal(x)]
      /\ a[<<1, 3>>] = [N |-> FftReal(x), W |-> x[1]]
      /\ a[<<2, 3>>] = [N |-> FftImag(x), E |-> x[2]]
      /\ a[<<3, 3>>] = [N |-> x[2], W |-> FftImag(x)]
  <2>1. <<0, 3>> \in DOMAIN T /\ <<1, 3>> \in DOMAIN T /\ <<2, 3>> \in DOMAIN T /\ <<3, 3>> \in DOMAIN T
    BY DEF FftTable, Columns
  <2> QED BY <2>1 DEF FftSides, FftReal, FftImag
<1>4. T[<<c, 3>>].out["S"] = "dout" /\ Made(T[<<c, 3>>], a[<<c, 3>>]) = FftResult(x, c)
  <2> HIDE DEF T, a
  <2>1. CASE c = 0
    BY <1>2, <1>3, <2>1, FftCells DEF FftResult
  <2>2. CASE c = 1
    BY <1>2, <1>3, <2>2, FftCells DEF FftResult
  <2>3. CASE c = 2
    BY <1>2, <1>3, <2>3, FftCells DEF FftResult
  <2>4. CASE c = 3
    BY <1>2, <1>3, <2>4, FftCells DEF FftResult
  <2> QED BY <2>1, <2>2, <2>3, <2>4 DEF Columns
<1>5. Sends(T, c)
  BY <1>1, <1>4 DEF Sends
<1> QED BY <1>4, <1>5, SentMade

LEMMA FftStreams ==
    ASSUME NEW x, NEW i \in Nat, \A d \in Columns : x[d].of = {d} /\ x[d].token[i] \in Int,
           NEW c \in Columns
    PROVE  /\ FftResult(x, c).of = FftOf(c)
           /\ FftResult(x, c).token[i] =
                FftToken(c, x[FftAdd(c)].token[i], x[0].token[i], x[3].token[i])
<1>1. \A d \in Columns : x[d].of = {d} /\ x[d].token[i] \in Int
  OBVIOUS
<1>2. /\ x[0].token[i] \in Int /\ x[1].token[i] \in Int /\ x[2].token[i] \in Int /\ x[3].token[i] \in Int
      /\ x[0].of = {0} /\ x[1].of = {1} /\ x[2].of = {2} /\ x[3].of = {3}
  BY <1>1 DEF Columns
<1>3. /\ FftReal(x).of = {0, 3} /\ FftImag(x).of = {0, 3}
      /\ FftReal(x).token[i] = 7 * x[0].token[i] + 3 * x[3].token[i]
      /\ FftImag(x).token[i] = 7 * x[3].token[i] - 3 * x[0].token[i]
  BY <1>2 DEF FftReal, FftImag, Combine, ALU, Constant
<1>4. CASE c = 0
  <2>1. /\ FftResult(x, c).of = {0, 1, 3}
        /\ FftResult(x, c).token[i] = x[1].token[i] - FftReal(x).token[i]
    BY <1>2, <1>3, <1>4 DEF FftResult, Combine, ALU
  <2> QED BY <1>2, <1>3, <1>4, <2>1 DEF FftOf, FftAdd, FftToken
<1>5. CASE c = 1
  <2>1. /\ FftResult(x, c).of = {0, 1, 3}
        /\ FftResult(x, c).token[i] = x[1].token[i] + FftReal(x).token[i]
    BY <1>2, <1>3, <1>5 DEF FftResult, Combine, ALU
  <2> QED BY <1>2, <1>3, <1>5, <2>1 DEF FftOf, FftAdd, FftToken
<1>6. CASE c = 2
  <2>1. /\ FftResult(x, c).of = {0, 2, 3}
        /\ FftResult(x, c).token[i] = x[2].token[i] - FftImag(x).token[i]
    BY <1>2, <1>3, <1>6 DEF FftResult, Combine, ALU
  <2> QED BY <1>2, <1>3, <1>6, <2>1 DEF FftOf, FftAdd, FftToken
<1>7. CASE c = 3
  <2>1. /\ FftResult(x, c).of = {0, 2, 3}
        /\ FftResult(x, c).token[i] = FftImag(x).token[i] + x[2].token[i]
    BY <1>2, <1>3, <1>7 DEF FftResult, Combine, ALU
  <2> QED BY <1>2, <1>3, <1>7, <2>1 DEF FftOf, FftAdd, FftToken
<1> QED BY <1>4, <1>5, <1>6, <1>7 DEF Columns

LEMMA FftJob ==
    ASSUME NEW j \in DOMAIN Jobs, Jobs[j].kernel = "fft", Cells[j] = FftTable
    PROVE  \E t : Labels(Cells[j], Jobs[j].input, t) /\ Faithful(j, t)
<1> DEFINE input == Jobs[j].input
           x     == [c \in Columns |-> Words(input, c)]
           t     == Labelling(FftTable, FftSides(x))
<1>1. \A c \in Columns : input[c] \in Seq(Int) /\ Stream(x[c])
  BY InputAssumption, WordsStream
<1>2. Labels(Cells[j], input, t)
  <2> HIDE DEF x, input
  <2>1. x = [c \in Columns |-> Words(input, c)]
    BY DEF x
  <2> QED BY <1>1, <2>1, FftLabels
<1>3. ASSUME NEW g \in [Columns -> Nat], NEW c \in Columns,
             \A d \in Columns : g[d] <= Len(input[d]), Sends(Cells[j], c),
             NEW k \in Nat \ {0}, \A d \in Sent(Cells[j], t, c).of : k <= g[d]
      PROVE  LET r == Kernel!Outputs(Jobs[j].kernel, Jobs[j].words, Given(input, g))[c]
             IN  k <= Len(r) /\ r[k] = Sent(Cells[j], t, c).token[k]
  <2> DEFINE u == Sent(Cells[j], t, c)
             v == Given(input, g)
             C == FftOf(c)
             n == Kernel!Paired(C, v)
             r == Kernel!Outputs(Jobs[j].kernel, Jobs[j].words, v)[c]
  <2>1. u = FftResult(x, c)
    BY FftSent
  <2>2. \A d \in Columns : x[d] = Words(input, d) /\ x[d].of = {d} /\ x[d].token[k] \in Int
    <3>1. \A d \in Columns : x[d] = Words(input, d) /\ x[d].of = {d}
      BY DEF Words
    <3> QED BY <1>1, <3>1 DEF Stream
  <2>3. C \in SUBSET Columns /\ C # {}
    BY DEF Columns, FftOf
  <2>4. r = [i \in 1 .. n |-> FftToken(c, v[FftAdd(c)][i], v[0][i], v[3][i])]
    <3>1. r = Kernel!Fft(v)[c]
      BY DEF Kernel!Outputs
    <3> HIDE DEF r, v
    <3>2. CASE c = 0
      <4>1. r = [i \in 1 .. n |-> v[1][i] - (7 * v[0][i] + 3 * v[3][i])]
        BY <3>1, <3>2, SameColumns DEF Kernel!Fft, Kernel!ByColumn, Columns, FftOf
      <4>2. FftAdd(c) = 1
            /\ \A m, p, q : FftToken(c, m, p, q) = m - (7 * p + 3 * q)
        BY <3>2 DEF FftAdd, FftToken
      <4> HIDE DEF n
      <4> QED BY <4>1, <4>2
    <3>3. CASE c = 1
      <4>1. r = [i \in 1 .. n |-> v[1][i] + (7 * v[0][i] + 3 * v[3][i])]
        BY <3>1, <3>3, SameColumns DEF Kernel!Fft, Kernel!ByColumn, Columns, FftOf
      <4>2. FftAdd(c) = 1
            /\ \A m, p, q : FftToken(c, m, p, q) = m + (7 * p + 3 * q)
        BY <3>3 DEF FftAdd, FftToken
      <4> HIDE DEF n
      <4> QED BY <4>1, <4>2
    <3>4. CASE c = 2
      <4>1. r = [i \in 1 .. n |-> v[2][i] - (7 * v[3][i] - 3 * v[0][i])]
        BY <3>1, <3>4, SameColumns DEF Kernel!Fft, Kernel!ByColumn, Columns, FftOf
      <4>2. FftAdd(c) = 2
            /\ \A m, p, q : FftToken(c, m, p, q) = m - (7 * q - 3 * p)
        BY <3>4 DEF FftAdd, FftToken
      <4> HIDE DEF n
      <4> QED BY <4>1, <4>2
    <3>5. CASE c = 3
      <4>1. r = [i \in 1 .. n |-> v[2][i] + (7 * v[3][i] - 3 * v[0][i])]
        BY <3>1, <3>5, SameColumns DEF Kernel!Fft, Kernel!ByColumn, Columns, FftOf
      <4>2. FftAdd(c) = 2
            /\ \A m, p, q : FftToken(c, m, p, q) = m + (7 * q - 3 * p)
        BY <3>5 DEF FftAdd, FftToken
      <4> HIDE DEF n
      <4> QED BY <4>1, <4>2
    <3> QED BY <3>2, <3>3, <3>4, <3>5 DEF Columns
  <2> HIDE DEF u, v, n, r, input, x
  <2>5. u.of = C
    BY <2>1, <2>2, FftStreams
  <2>6. \A d \in C : k <= g[d]
    BY <1>3, <2>5 DEF u
  <2>7. n \in Nat /\ k <= n /\ \A d \in C : v[d][k] = x[d].token[k] /\ x[d].token[k] \in Int
    <3> HIDE DEF C
    <3>1. n \in Nat /\ k <= n
          /\ \A d \in C : v[d][k] = Words(input, d).token[k] /\ Words(input, d).token[k] \in Int
      BY <1>1, <1>3, <2>3, <2>6, GivenPaired DEF n, v
    <3> QED BY <2>2, <2>3, <3>1
  <2>8. Len(r) = n /\ r[k] = u.token[k]
    <3>1. u.token[k] = FftToken(c, x[FftAdd(c)].token[k], x[0].token[k], x[3].token[k])
      BY <2>1, <2>2, FftStreams
    <3>2. FftAdd(c) \in C /\ 0 \in C /\ 3 \in C
      BY DEF FftOf, FftAdd
    <3> HIDE DEF C
    <3>3. v[FftAdd(c)][k] = x[FftAdd(c)].token[k] /\ v[0][k] = x[0].token[k]
          /\ v[3][k] = x[3].token[k]
      BY <2>7, <3>2
    <3> QED BY <2>4, <2>7, <3>1, <3>3
  <2> QED BY <2>7, <2>8 DEF u, r, v, input
<1>4. Faithful(j, t)
  BY <1>3 DEF Faithful
<1> QED BY <1>2, <1>4

-----------------------------------------------------------------------------
(* The carry of dither                                                     *)

\* The carry g after each of the first n pixels of w; it exists, and there is
\* only one.
Carries(x)   == IF x > 127 THEN x - 255 ELSE x
Run(w, n, g) == g = [i \in 0 .. n |-> IF i = 0 THEN 0 ELSE Carries(w[i] + g[i - 1])]

LEMMA RunStep ==
    ASSUME NEW w, NEW n \in Nat, NEW g, Run(w, n, g)
    PROVE  g[0] = 0 /\ \A i \in Nat : i + 1 <= n => g[i + 1] = Carries(w[i + 1] + g[i])
<1>1. g = [i \in 0 .. n |-> IF i = 0 THEN 0 ELSE Carries(w[i] + g[i - 1])]
  BY DEF Run
<1>2. g[0] = 0
  BY <1>1
<1>3. ASSUME NEW i \in Nat, i + 1 <= n PROVE g[i + 1] = Carries(w[i + 1] + g[i])
  <2>1. i + 1 \in 0 .. n /\ i + 1 # 0 /\ (i + 1) - 1 = i
    BY <1>3
  <2>2. g[i + 1] = Carries(w[i + 1] + g[(i + 1) - 1])
    BY <1>1, <2>1
  <2> QED BY <2>1, <2>2
<1> QED BY <1>2, <1>3

LEMMA RunSame ==
    ASSUME NEW w, NEW n \in Nat, NEW m \in Nat, NEW g, NEW h, Run(w, n, g), Run(w, m, h)
    PROVE  \A i \in Nat : i <= n /\ i <= m => g[i] = h[i]
<1> DEFINE T == {i \in Nat : i <= n /\ i <= m => g[i] = h[i]}
<1>1. 0 \in T
  <2>1. g[0] = 0
    BY RunStep
  <2>2. h[0] = 0
    BY RunStep
  <2> QED BY <2>1, <2>2
<1>2. ASSUME NEW i \in Nat, i \in T PROVE i + 1 \in T
  <2> SUFFICES ASSUME i + 1 <= n, i + 1 <= m PROVE g[i + 1] = h[i + 1]
    OBVIOUS
  <2>1. g[i] = h[i]
    BY <1>2
  <2>2. g[i + 1] = Carries(w[i + 1] + g[i])
    BY RunStep
  <2>3. h[i + 1] = Carries(w[i + 1] + h[i])
    BY RunStep
  <2> QED BY <2>1, <2>2, <2>3
<1>3. \A i \in Nat : i \in T
  <2> HIDE DEF T
  <2> QED BY <1>1, <1>2, Induction
<1> QED BY <1>3

LEMMA RunExists == ASSUME NEW w PROVE \A n \in Nat : \E g : Run(w, n, g)
<1> DEFINE T == {n \in Nat : \E g : Run(w, n, g)}
<1>1. 0 \in T
  <2> DEFINE g == [i \in 0 .. 0 |-> 0]
  <2>1. Run(w, 0, g)
    BY DEF Run
  <2> QED BY <2>1
<1>2. ASSUME NEW n \in Nat, n \in T PROVE n + 1 \in T
  <2>1. PICK g : Run(w, n, g)
    BY <1>2
  <2> DEFINE h == [i \in 0 .. n + 1 |-> IF i <= n THEN g[i] ELSE Carries(w[n + 1] + g[n])]
             r == [i \in 0 .. n + 1 |-> IF i = 0 THEN 0 ELSE Carries(w[i] + h[i - 1])]
  <2>2. ASSUME NEW i \in 0 .. n + 1 PROVE h[i] = r[i]
    <3>1. CASE i = 0
      BY <2>1, <3>1, RunStep
    <3>2. CASE i # 0 /\ i <= n
      <4>1. i - 1 \in Nat /\ (i - 1) + 1 = i /\ i - 1 \in 0 .. n + 1 /\ i - 1 <= n
        BY <3>2
      <4>2. g[i] = Carries(w[i] + g[i - 1])
        <5>1. g[(i - 1) + 1] = Carries(w[(i - 1) + 1] + g[i - 1])
          BY <2>1, <3>2, <4>1, RunStep
        <5> QED BY <4>1, <5>1
      <4>3. h[i] = g[i] /\ h[i - 1] = g[i - 1]
        BY <3>2, <4>1
      <4>4. r[i] = Carries(w[i] + h[i - 1])
        BY <3>2
      <4> QED BY <4>2, <4>3, <4>4
    <3>3. CASE i = n + 1
      <4>1. h[i] = Carries(w[n + 1] + g[n]) /\ h[n] = g[n] /\ i - 1 = n
        BY <3>3
      <4>2. r[i] = Carries(w[i] + h[i - 1])
        BY <3>3
      <4> HIDE DEF h, r
      <4> QED BY <3>3, <4>1, <4>2
    <3> QED BY <3>1, <3>2, <3>3
  <2>3. Run(w, n + 1, h)
    <3>1. h = r
      <4>1. h = [i \in 0 .. n + 1 |-> h[i]] /\ r = [i \in 0 .. n + 1 |-> r[i]]
        OBVIOUS
      <4> HIDE DEF h, r
      <4> QED BY <2>2, <4>1
    <3> QED BY <3>1 DEF Run
  <2> QED BY <2>3
<1>3. \A n \in Nat : n \in T
  <2> HIDE DEF T
  <2> QED BY <1>1, <1>2, Induction
<1> QED BY <1>3

\* The carry after any number of pixels.
CarryAfter(w) == [n \in Nat |-> (CHOOSE g : Run(w, n, g))[n]]

LEMMA CarryRuns ==
    ASSUME NEW w, NEW n \in Nat, NEW g, Run(w, n, g), NEW i \in Nat, i <= n
    PROVE  g[i] = CarryAfter(w)[i]
<1> DEFINE h == CHOOSE f : Run(w, i, f)
<1>1. Run(w, i, h)
  BY RunExists
<1>2. CarryAfter(w)[i] = h[i]
  BY DEF CarryAfter
<1> HIDE DEF h
<1> QED BY <1>1, <1>2, RunSame

LEMMA CarrySteps ==
    ASSUME NEW w, \A i \in Nat : w[i] \in Int
    PROVE  /\ CarryAfter(w)[0] = 0
           /\ \A i \in Nat : /\ CarryAfter(w)[i] \in Int
                             /\ CarryAfter(w)[i + 1] = Carries(w[i + 1] + CarryAfter(w)[i])
<1> DEFINE c == CarryAfter(w)
<1>1. ASSUME NEW i \in Nat PROVE c[i + 1] = Carries(w[i + 1] + c[i])
  <2>1. PICK g : Run(w, i + 1, g)
    BY RunExists
  <2>2. g[i + 1] = Carries(w[i + 1] + g[i])
    BY <2>1, RunStep
  <2>3. g[i + 1] = c[i + 1] /\ g[i] = c[i]
    BY <2>1, CarryRuns
  <2> QED BY <2>2, <2>3
<1>2. c[0] = 0
  <2>1. PICK g : Run(w, 0, g)
    BY RunExists
  <2> QED BY <2>1, RunStep, CarryRuns
<1> DEFINE T == {i \in Nat : c[i] \in Int}
<1> HIDE DEF c
<1>3. \A i \in Nat : i \in T
  <2>1. 0 \in T
    BY <1>2
  <2>2. ASSUME NEW i \in Nat, i \in T PROVE i + 1 \in T
    BY <1>1, <2>2 DEF Carries
  <2> HIDE DEF T
  <2> QED BY <2>1, <2>2, Induction
<1> QED BY <1>1, <1>2, <1>3 DEF c

\* The kernel carries as much, as far as its pixels are those of w.
LEMMA KernelCarries ==
    ASSUME NEW s \in Seq(Int), NEW w, \A i \in 1 .. Len(s) : s[i] = w[i],
           NEW i \in Nat, i <= Len(s)
    PROVE  Kernel!Carry(s)[i] = CarryAfter(w)[i]
<1> DEFINE n == Len(s)
           G(g) == g = [k \in 0 .. n |-> IF k = 0 THEN 0
                                         ELSE LET sum == s[k] + g[k - 1]
                                              IN  IF sum > 127 THEN sum - 255 ELSE sum]
           f == CHOOSE g : G(g)
<1>1. n \in Nat
  OBVIOUS
<1>2. ASSUME NEW g PROVE G(g) <=> Run(s, n, g)
  BY DEF Run, Carries
<1>3. G(f)
  <2>1. \E g : G(g)
    BY <1>1, <1>2, RunExists
  <2> HIDE DEF G
  <2> QED BY <2>1
<1>4. Kernel!Carry(s) = f
  BY DEF Kernel!Carry
<1>5. Run(s, n, f)
  BY <1>2, <1>3
<1> HIDE DEF f, G
<1>6. Run(w, n, f)
  <2>1. \A k \in 0 .. n : k # 0 => s[k] = w[k]
    OBVIOUS
  <2>2. [k \in 0 .. n |-> IF k = 0 THEN 0 ELSE Carries(s[k] + f[k - 1])]
          = [k \in 0 .. n |-> IF k = 0 THEN 0 ELSE Carries(w[k] + f[k - 1])]
    BY <2>1
  <2> QED BY <1>5, <2>2 DEF Run
<1>7. f[i] = CarryAfter(w)[i]
  BY <1>1, <1>6, CarryRuns
<1> QED BY <1>4, <1>7

-----------------------------------------------------------------------------
(* dither                                                                  *)

LEMMA DitherCells ==
    /\ Simple(Add([N |-> {"1"}, E |-> {"2"}], {"S", "E"}))
    /\ DOMAIN Add([N |-> {"1"}, E |-> {"2"}], {"S", "E"}).to = {"N", "E"}
    /\ Add([N |-> {"1"}, E |-> {"2"}], {"S", "E"}).out["E"] = "dout"
    /\ Add([N |-> {"1"}, E |-> {"2"}], {"S", "E"}).out["S"] = "dout"
    /\ \A s, r : Made(Add([N |-> {"1"}, E |-> {"2"}], {"S", "E"}), [N |-> s, E |-> r])
                    = Combine("add", s, r)
    /\ Simple(GreaterZero(With("2", 127, Sub([N |-> {"1"}], {"S", "E"}))))
    /\ DOMAIN GreaterZero(With("2", 127, Sub([N |-> {"1"}], {"S", "E"}))).to = {"N"}
    /\ GreaterZero(With("2", 127, Sub([N |-> {"1"}], {"S", "E"}))).out["E"] = "dout"
    /\ GreaterZero(With("2", 127, Sub([N |-> {"1"}], {"S", "E"}))).out["S"] = "dout"
    /\ \A s : Made(GreaterZero(With("2", 127, Sub([N |-> {"1"}], {"S", "E"}))), [N |-> s])
                    = Gtz(Combine("sub", s, Constant(127)))
    /\ Simple(With("2", 255, Mul([N |-> {"1"}], {"S"})))
    /\ DOMAIN With("2", 255, Mul([N |-> {"1"}], {"S"})).to = {"N"}
    /\ With("2", 255, Mul([N |-> {"1"}], {"S"})).out["S"] = "dout"
    /\ \A s : Made(With("2", 255, Mul([N |-> {"1"}], {"S"})), [N |-> s])
                    = Combine("mul", s, Constant(255))
    /\ Simple(With("2", 255, Sub([N |-> {"1"}], {"N"})))
    /\ DOMAIN With("2", 255, Sub([N |-> {"1"}], {"N"})).to = {"N"}
    /\ With("2", 255, Sub([N |-> {"1"}], {"N"})).out["N"] = "dout"
    /\ \A s : Made(With("2", 255, Sub([N |-> {"1"}], {"N"})), [N |-> s])
                    = Combine("sub", s, Constant(255))
    /\ Simple(Wired([S |-> {"W"}, W |-> {"S"}], {}))
    /\ DOMAIN Wired([S |-> {"W"}, W |-> {"S"}], {}).to = {"S", "W"}
    /\ Wired([S |-> {"W"}, W |-> {"S"}], {}).out["S"] = "W"
    /\ Wired([S |-> {"W"}, W |-> {"S"}], {}).out["W"] = "S"
<1>1. /\ Simple(Add([N |-> {"1"}, E |-> {"2"}], {"S", "E"}))
      /\ DOMAIN Add([N |-> {"1"}, E |-> {"2"}], {"S", "E"}).to = {"N", "E"}
      /\ Add([N |-> {"1"}, E |-> {"2"}], {"S", "E"}).out["E"] = "dout"
      /\ Add([N |-> {"1"}, E |-> {"2"}], {"S", "E"}).out["S"] = "dout"
      /\ \A s, r : Made(Add([N |-> {"1"}, E |-> {"2"}], {"S", "E"}), [N |-> s, E |-> r])
                      = Combine("add", s, r)
  <2>1. /\ Simple(Add([N |-> {"1"}, E |-> {"2"}], {"S", "E"}))
        /\ DOMAIN Add([N |-> {"1"}, E |-> {"2"}], {"S", "E"}).to = {"N", "E"}
        /\ Add([N |-> {"1"}, E |-> {"2"}], {"S", "E"}).out["E"] = "dout"
        /\ Add([N |-> {"1"}, E |-> {"2"}], {"S", "E"}).out["S"] = "dout"
    BY DEF Add, Wired, Feeds, Simple, Plain, Steady, WellRouted, Holders, Sides, Operands
  <2>2. /\ Add([N |-> {"1"}, E |-> {"2"}], {"S", "E"}).op["1"] = "N"
        /\ Add([N |-> {"1"}, E |-> {"2"}], {"S", "E"}).op["2"] = "E"
        /\ Add([N |-> {"1"}, E |-> {"2"}], {"S", "E"}).alu = "add"
        /\ Add([N |-> {"1"}, E |-> {"2"}], {"S", "E"}).res = "alu"
    BY DEF Add, Wired, Feeds, Sides, Operands
  <2> QED BY <2>1, <2>2 DEF Made, Operated, Operands
<1>2. /\ Simple(GreaterZero(With("2", 127, Sub([N |-> {"1"}], {"S", "E"}))))
      /\ DOMAIN GreaterZero(With("2", 127, Sub([N |-> {"1"}], {"S", "E"}))).to = {"N"}
      /\ GreaterZero(With("2", 127, Sub([N |-> {"1"}], {"S", "E"}))).out["E"] = "dout"
      /\ GreaterZero(With("2", 127, Sub([N |-> {"1"}], {"S", "E"}))).out["S"] = "dout"
      /\ \A s : Made(GreaterZero(With("2", 127, Sub([N |-> {"1"}], {"S", "E"}))), [N |-> s])
                      = Gtz(Combine("sub", s, Constant(127)))
  <2>1. /\ Simple(GreaterZero(With("2", 127, Sub([N |-> {"1"}], {"S", "E"}))))
        /\ DOMAIN GreaterZero(With("2", 127, Sub([N |-> {"1"}], {"S", "E"}))).to = {"N"}
        /\ GreaterZero(With("2", 127, Sub([N |-> {"1"}], {"S", "E"}))).out["E"] = "dout"
        /\ GreaterZero(With("2", 127, Sub([N |-> {"1"}], {"S", "E"}))).out["S"] = "dout"
    BY DEF GreaterZero, With, Sub, Wired, Feeds, Simple, Plain, Steady, WellRouted, Holders, Sides, Operands
  <2>2. /\ GreaterZero(With("2", 127, Sub([N |-> {"1"}], {"S", "E"}))).op["1"] = "N"
        /\ GreaterZero(With("2", 127, Sub([N |-> {"1"}], {"S", "E"}))).op["2"] = "I1"
        /\ GreaterZero(With("2", 127, Sub([N |-> {"1"}], {"S", "E"}))).const = 127
        /\ GreaterZero(With("2", 127, Sub([N |-> {"1"}], {"S", "E"}))).alu = "sub"
        /\ GreaterZero(With("2", 127, Sub([N |-> {"1"}], {"S", "E"}))).res = "gtz"
    BY DEF GreaterZero, With, Sub, Wired, Feeds, Sides, Operands
  <2> QED BY <2>1, <2>2 DEF Made, Operated, Operands
<1>3. /\ Simple(With("2", 255, Mul([N |-> {"1"}], {"S"})))
      /\ DOMAIN With("2", 255, Mul([N |-> {"1"}], {"S"})).to = {"N"}
      /\ With("2", 255, Mul([N |-> {"1"}], {"S"})).out["S"] = "dout"
      /\ \A s : Made(With("2", 255, Mul([N |-> {"1"}], {"S"})), [N |-> s])
                      = Combine("mul", s, Constant(255))
  <2>1. /\ Simple(With("2", 255, Mul([N |-> {"1"}], {"S"})))
        /\ DOMAIN With("2", 255, Mul([N |-> {"1"}], {"S"})).to = {"N"}
        /\ With("2", 255, Mul([N |-> {"1"}], {"S"})).out["S"] = "dout"
    BY DEF With, Mul, Wired, Feeds, Simple, Plain, Steady, WellRouted, Holders, Sides, Operands
  <2>2. /\ With("2", 255, Mul([N |-> {"1"}], {"S"})).op["1"] = "N"
        /\ With("2", 255, Mul([N |-> {"1"}], {"S"})).op["2"] = "I1"
        /\ With("2", 255, Mul([N |-> {"1"}], {"S"})).const = 255
        /\ With("2", 255, Mul([N |-> {"1"}], {"S"})).alu = "mul"
        /\ With("2", 255, Mul([N |-> {"1"}], {"S"})).res = "alu"
    BY DEF With, Mul, Wired, Feeds, Sides, Operands
  <2> QED BY <2>1, <2>2 DEF Made, Operated, Operands
<1>4. /\ Simple(With("2", 255, Sub([N |-> {"1"}], {"N"})))
      /\ DOMAIN With("2", 255, Sub([N |-> {"1"}], {"N"})).to = {"N"}
      /\ With("2", 255, Sub([N |-> {"1"}], {"N"})).out["N"] = "dout"
      /\ \A s : Made(With("2", 255, Sub([N |-> {"1"}], {"N"})), [N |-> s])
                      = Combine("sub", s, Constant(255))
  <2>1. /\ Simple(With("2", 255, Sub([N |-> {"1"}], {"N"})))
        /\ DOMAIN With("2", 255, Sub([N |-> {"1"}], {"N"})).to = {"N"}
        /\ With("2", 255, Sub([N |-> {"1"}], {"N"})).out["N"] = "dout"
    BY DEF With, Sub, Wired, Feeds, Simple, Plain, Steady, WellRouted, Holders, Sides, Operands
  <2>2. /\ With("2", 255, Sub([N |-> {"1"}], {"N"})).op["1"] = "N"
        /\ With("2", 255, Sub([N |-> {"1"}], {"N"})).op["2"] = "I1"
        /\ With("2", 255, Sub([N |-> {"1"}], {"N"})).const = 255
        /\ With("2", 255, Sub([N |-> {"1"}], {"N"})).alu = "sub"
        /\ With("2", 255, Sub([N |-> {"1"}], {"N"})).res = "alu"
    BY DEF With, Sub, Wired, Feeds, Sides, Operands
  <2> QED BY <2>1, <2>2 DEF Made, Operated, Operands
<1>5. /\ Simple(Wired([S |-> {"W"}, W |-> {"S"}], {}))
      /\ DOMAIN Wired([S |-> {"W"}, W |-> {"S"}], {}).to = {"S", "W"}
      /\ Wired([S |-> {"W"}, W |-> {"S"}], {}).out["S"] = "W"
      /\ Wired([S |-> {"W"}, W |-> {"S"}], {}).out["W"] = "S"
  BY DEF Wired, Feeds, Simple, Plain, Steady, WellRouted, Holders, Sides, Operands
<1> QED BY <1>1, <1>2, <1>3, <1>4, <1>5

\* The PE that starts with a token and selects the carry.
LoopCell == StartsWith(0, Select([N |-> {"1", "S"}, S |-> {"2"}, W |-> {"c"}], {"N"}))

LEMMA LoopFacts ==
    /\ Plain(LoopCell) /\ DOMAIN LoopCell.to = {"N", "S", "W"}
    /\ LoopCell.out["N"] = "dout" /\ LoopCell.out["S"] = "N"
    /\ LoopCell.op["1"] = "N" /\ LoopCell.op["2"] = "S" /\ LoopCell.op["c"] = "W"
    /\ LoopCell.res = "mux" /\ LoopCell.starts /\ LoopCell.init = 0
<1>1. /\ DOMAIN LoopCell.to = {"N", "S", "W"}
      /\ LoopCell.out["N"] = "dout" /\ LoopCell.out["S"] = "N"
      /\ LoopCell.out["E"] = "none" /\ LoopCell.out["W"] = "none"
      /\ LoopCell.op["1"] = "N" /\ LoopCell.op["2"] = "S" /\ LoopCell.op["c"] = "W"
      /\ LoopCell.res = "mux" /\ LoopCell.starts /\ LoopCell.init = 0
      /\ LoopCell.mode = "mux" /\ ~LoopCell.feedback
      /\ LoopCell.fork = {"N"} /\ LoopCell.to = [N |-> {"1", "S"}, S |-> {"2"}, W |-> {"c"}]
  BY DEF LoopCell, StartsWith, Select, Wired, Feeds, Sides, Operands
<1>2. WellRouted(LoopCell)
  <2> HIDE DEF LoopCell
  <2> QED BY <1>1 DEF WellRouted, Sides, Operands
<1>3. Plain(LoopCell)
  BY <1>1, <1>2 DEF Plain, Steady, Holders, Sides, Operands
<1> QED BY <1>1, <1>3

\* dither: x are the pixels.
CarryStream(x) ==
    [token |-> [i \in Nat |-> IF i = 0 THEN 0 ELSE CarryAfter(x.token)[i - 1]], of |-> {}]
Corrected(x) == Combine("add", x, CarryStream(x))
White(x)     == Gtz(Combine("sub", Corrected(x), Constant(127)))
Over(x)      == Combine("sub", Corrected(x), Constant(255))
Pixels(x)    == Combine("mul", White(x), Constant(255))

DitherSides(x) ==
    [p \in DOMAIN DitherTable |->
     CASE p = <<0, 0>> -> [N |-> x, E |-> CarryStream(x)]
       [] p = <<0, 1>> -> [N |-> Corrected(x)]
       [] p = <<0, 2>> -> [N |-> White(x)]
       [] p = <<0, 3>> -> [N |-> Pixels(x)]
       [] p = <<1, 0>> -> [S |-> CarryStream(x), W |-> Corrected(x)]
       [] p = <<1, 1>> -> [N |-> Corrected(x), S |-> Over(x), W |-> White(x)]
       [] OTHER        -> [N |-> Corrected(x)]]
DitherUnits(x) ==
    [p \in DOMAIN DitherTable |->
        IF p = <<1, 1>> THEN CarryStream(x) ELSE Made(DitherTable[p], DitherSides(x)[p])]

LEMMA CarryIsStream ==
    ASSUME NEW x, Stream(x)
    PROVE  /\ Stream(CarryStream(x)) /\ Stream(Corrected(x)) /\ Stream(White(x))
           /\ Stream(Over(x)) /\ Stream(Pixels(x))
           /\ CarryStream(x).token[1] = 0
           /\ \A i \in Nat : /\ CarryStream(x).token[i + 1] = CarryAfter(x.token)[i]
                             /\ CarryAfter(x.token)[i] \in Int
           /\ \A i \in Nat \ {0} :
                CarryStream(x).token[i + 1] = Carries(Corrected(x).token[i])
<1>1. \A i \in Nat : x.token[i] \in Int
  BY DEF Stream
<1>2. /\ CarryAfter(x.token)[0] = 0
      /\ \A i \in Nat : /\ CarryAfter(x.token)[i] \in Int
                        /\ CarryAfter(x.token)[i + 1] = Carries(x.token[i + 1] + CarryAfter(x.token)[i])
  BY <1>1, CarrySteps
<1>3. ASSUME NEW i \in Nat PROVE CarryStream(x).token[i + 1] = CarryAfter(x.token)[i]
  <2>1. i + 1 \in Nat /\ i + 1 # 0 /\ (i + 1) - 1 = i
    OBVIOUS
  <2> QED BY <2>1 DEF CarryStream
<1>4. CarryStream(x).token[1] = 0
  <2>1. CarryStream(x).token[0 + 1] = CarryAfter(x.token)[0]
    BY <1>3
  <2> QED BY <1>2, <2>1
<1>5. Stream(CarryStream(x))
  <2>1. \A i \in Nat : i # 0 => CarryAfter(x.token)[i - 1] \in Int
    BY <1>2
  <2> QED BY <2>1 DEF Stream, CarryStream
<1>6. Stream(Corrected(x))
  BY <1>5, StreamOps DEF Corrected
<1>7. Stream(Constant(127)) /\ Stream(Constant(255))
  BY StreamOps
<1>8. Stream(White(x)) /\ Stream(Over(x))
  <2>1. Stream(Combine("sub", Corrected(x), Constant(127)))
    BY <1>6, <1>7, StreamOps
  <2> QED BY <1>6, <1>7, <2>1, StreamOps DEF White, Over
<1>9. Stream(Pixels(x))
  BY <1>7, <1>8, StreamOps DEF Pixels
<1>10. ASSUME NEW i \in Nat \ {0}
       PROVE  CarryStream(x).token[i + 1] = Carries(Corrected(x).token[i])
  <2>1. i - 1 \in Nat /\ (i - 1) + 1 = i
    OBVIOUS
  <2>2. CarryAfter(x.token)[(i - 1) + 1]
            = Carries(x.token[(i - 1) + 1] + CarryAfter(x.token)[i - 1])
    BY <1>2, <2>1
  <2>3. CarryStream(x).token[(i - 1) + 1] = CarryAfter(x.token)[i - 1]
    BY <1>3, <2>1
  <2>4. Corrected(x).token[i] = x.token[i] + CarryStream(x).token[i]
    BY DEF Corrected, Combine, ALU
  <2> QED BY <1>3, <2>1, <2>2, <2>3, <2>4
<1> QED BY <1>2, <1>3, <1>4, <1>5, <1>6, <1>8, <1>9, <1>10

LEMMA DitherLabels ==
    ASSUME NEW input, NEW x, x = Words(input, 0), Stream(x)
    PROVE  Labels(DitherTable, input, LabelAll(DitherTable, DitherSides(x), DitherUnits(x)))
<1> DEFINE T == DitherTable
           a == DitherSides(x)
           u == DitherUnits(x)
<1>1. DOMAIN T = {<<0, 0>>, <<0, 1>>, <<0, 2>>, <<0, 3>>, <<1, 0>>, <<1, 1>>, <<1, 2>>}
  BY DEF DitherTable
<1>2. /\ T[<<0, 0>>] = Add([N |-> {"1"}, E |-> {"2"}], {"S", "E"})
      /\ T[<<0, 1>>] = GreaterZero(With("2", 127, Sub([N |-> {"1"}], {"S", "E"})))
      /\ T[<<0, 2>>] = With("2", 255, Mul([N |-> {"1"}], {"S"})) /\ T[<<0, 3>>] = Down
      /\ T[<<1, 0>>] = Wired([S |-> {"W"}, W |-> {"S"}], {}) /\ T[<<1, 1>>] = LoopCell
      /\ T[<<1, 2>>] = With("2", 255, Sub([N |-> {"1"}], {"N"}))
  BY DEF DitherTable, LoopCell
<1>3. /\ a[<<0, 0>>] = [N |-> x, E |-> CarryStream(x)] /\ a[<<0, 1>>] = [N |-> Corrected(x)]
      /\ a[<<0, 2>>] = [N |-> White(x)] /\ a[<<0, 3>>] = [N |-> Pixels(x)]
      /\ a[<<1, 0>>] = [S |-> CarryStream(x), W |-> Corrected(x)]
      /\ a[<<1, 1>>] = [N |-> Corrected(x), S |-> Over(x), W |-> White(x)]
      /\ a[<<1, 2>>] = [N |-> Corrected(x)]
  BY <1>1 DEF DitherSides
<1>4. /\ u[<<0, 0>>] = Corrected(x) /\ u[<<0, 1>>] = White(x) /\ u[<<0, 2>>] = Pixels(x)
      /\ u[<<1, 1>>] = CarryStream(x) /\ u[<<1, 2>>] = Over(x)
  <2>1. u[<<0, 0>>] = Corrected(x)
    <3>1. u[<<0, 0>>] = Made(T[<<0, 0>>], a[<<0, 0>>])
      BY <1>1 DEF DitherUnits
    <3> HIDE DEF T, a, u
    <3> QED BY <1>2, <1>3, <3>1, DitherCells DEF Corrected
  <2>2. u[<<0, 1>>] = White(x)
    <3>1. u[<<0, 1>>] = Made(T[<<0, 1>>], a[<<0, 1>>])
      BY <1>1 DEF DitherUnits
    <3> HIDE DEF T, a, u
    <3> QED BY <1>2, <1>3, <3>1, DitherCells DEF White
  <2>3. u[<<0, 2>>] = Pixels(x)
    <3>1. u[<<0, 2>>] = Made(T[<<0, 2>>], a[<<0, 2>>])
      BY <1>1 DEF DitherUnits
    <3> HIDE DEF T, a, u
    <3> QED BY <1>2, <1>3, <3>1, DitherCells DEF Pixels
  <2>4. u[<<1, 1>>] = CarryStream(x)
    BY <1>1 DEF DitherUnits
  <2>5. u[<<1, 2>>] = Over(x)
    <3>1. u[<<1, 2>>] = Made(T[<<1, 2>>], a[<<1, 2>>])
      BY <1>1 DEF DitherUnits
    <3> HIDE DEF T, a, u
    <3> QED BY <1>2, <1>3, <3>1, DitherCells DEF Over
  <2> HIDE DEF T, a, u
  <2> QED BY <2>1, <2>2, <2>3, <2>4, <2>5
<1>5. \A p \in DOMAIN T : p # <<1, 1>> => Simple(T[p]) /\ u[p] = Made(T[p], a[p])
  <2>1. \A p \in DOMAIN T : p # <<1, 1>> => u[p] = Made(T[p], a[p])
    BY DEF DitherUnits
  <2> HIDE DEF T, a, u
  <2>2. \A p \in DOMAIN T : p # <<1, 1>> => Simple(T[p])
    BY <1>1, <1>2, DitherCells, DownCell
  <2> QED BY <2>1, <2>2
<1> HIDE DEF T, a, u
<1>6. /\ DOMAIN T[<<0, 0>>].to = {"N", "E"} /\ DOMAIN T[<<0, 1>>].to = {"N"}
      /\ DOMAIN T[<<0, 2>>].to = {"N"} /\ DOMAIN T[<<0, 3>>].to = {"N"}
      /\ DOMAIN T[<<1, 0>>].to = {"S", "W"} /\ DOMAIN T[<<1, 1>>].to = {"N", "S", "W"}
      /\ DOMAIN T[<<1, 2>>].to = {"N"}
  BY <1>2, DitherCells, DownCell, LoopFacts
<1>7. ASSUME NEW p \in DOMAIN T, NEW b \in DOMAIN T[p].to PROVE Stream(a[p][b])
  BY <1>1, <1>3, <1>6, CarryIsStream
<1>8. ASSUME NEW p \in DOMAIN T PROVE Plain(T[p]) /\ Makes(T[p], a[p], u[p])
  <2>1. CASE p # <<1, 1>>
    BY <1>5, <1>7, <2>1, SimpleMakes DEF Simple, Stream
  <2>2. CASE p = <<1, 1>>
    <3> DEFINE c == LoopCell
               d == a[<<1, 1>>]
    <3>1. T[p] = c /\ u[p] = CarryStream(x) /\ a[p] = d
      BY <1>2, <1>4, <2>2
    <3>2. /\ Operated(c, d, "1") = Corrected(x) /\ Operated(c, d, "2") = Over(x)
          /\ d[c.op["c"]] = White(x)
      BY <1>3, LoopFacts DEF Operated
    <3>3. ASSUME NEW i \in Nat \ {0}
          PROVE  CarryStream(x).token[i + 1] =
                    Value(c, Corrected(x).token[i], Over(x).token[i], White(x).token[i])
      <4> DEFINE s == Corrected(x).token[i]
      <4>1. CarryStream(x).token[i + 1] = Carries(s) /\ s \in Int
        BY CarryIsStream DEF Stream
      <4>2. Over(x).token[i] = s - 255 /\ White(x).token[i] = IF s - 127 > 0 THEN 1 ELSE 0
        BY DEF Over, White, Gtz, Combine, ALU, Constant
      <4>3. Value(c, s, Over(x).token[i], White(x).token[i])
               = IF White(x).token[i] % 2 = 1 THEN Over(x).token[i] ELSE s
        BY LoopFacts DEF Value
      <4> HIDE DEF s, c
      <4>4. CASE s > 127
        BY <4>1, <4>2, <4>3, <4>4 DEF Carries, s
      <4>5. CASE ~(s > 127)
        BY <4>1, <4>2, <4>3, <4>5 DEF Carries, s
      <4> QED BY <4>4, <4>5
    <3>4. /\ Begins(c) = 1 /\ \A o \in Operands : c.op[o] # "none"
          /\ CarryStream(x).of = {} /\ CarryStream(x).token[1] = c.init
      BY LoopFacts, CarryIsStream DEF Begins, Operands, CarryStream
    <3>5. \A b \in DOMAIN c.to : d[b].of \subseteq Columns
      BY <1>7, <2>2, <3>1 DEF Stream
    <3>6. Plain(c)
      BY LoopFacts
    <3> HIDE DEF c, d
    <3>7. Makes(c, d, CarryStream(x))
      BY <3>2, <3>3, <3>4, <3>5 DEF Makes
    <3> QED BY <3>1, <3>6, <3>7
  <2> QED BY <2>1, <2>2
<1>9. ASSUME NEW p \in DOMAIN T, NEW b \in DOMAIN T[p].to
      PROVE  /\ Outside(p, b) => a[p][b] = Words(input, p[1])
             /\ Fed(T, p, b) =>
                  LET q == Sender(p, b)[1]
                      y == FedFrom(T, p, b)
                  IN  a[p][b] = IF y = "dout" THEN u[q] ELSE a[q][y]
  <2>1. CASE p = <<0, 0>> /\ b = "N"
    <3>1. Outside(p, b) /\ p[1] = 0 /\ a[p][b] = x
      BY <1>3, <2>1 DEF Outside
    <3> QED BY <3>1 DEF Fed
  <2>2. CASE p = <<0, 0>> /\ b = "E"
    <3>1. ~Outside(p, b) /\ Sender(p, b) = <<<<1, 0>>, "W">> /\ a[p][b] = CarryStream(x)
      BY <1>3, <2>2 DEF Outside, Sender
    <3>2. T[<<1, 0>>].out["W"] = "S"
      BY <1>2, DitherCells, DownCell, LoopFacts
    <3>3. a[<<1, 0>>]["S"] = CarryStream(x)
      BY <1>3
    <3> QED BY <3>1, <3>2, <3>3 DEF FedFrom
  <2>3. CASE p = <<0, 1>> /\ b = "N"
    <3>1. ~Outside(p, b) /\ Sender(p, b) = <<<<0, 0>>, "S">> /\ a[p][b] = Corrected(x)
      BY <1>3, <2>3 DEF Outside, Sender
    <3>2. T[<<0, 0>>].out["S"] = "dout"
      BY <1>2, DitherCells, DownCell, LoopFacts
    <3> QED BY <1>4, <3>1, <3>2 DEF FedFrom
  <2>4. CASE p = <<0, 2>> /\ b = "N"
    <3>1. ~Outside(p, b) /\ Sender(p, b) = <<<<0, 1>>, "S">> /\ a[p][b] = White(x)
      BY <1>3, <2>4 DEF Outside, Sender
    <3>2. T[<<0, 1>>].out["S"] = "dout"
      BY <1>2, DitherCells, DownCell, LoopFacts
    <3> QED BY <1>4, <3>1, <3>2 DEF FedFrom
  <2>5. CASE p = <<0, 3>> /\ b = "N"
    <3>1. ~Outside(p, b) /\ Sender(p, b) = <<<<0, 2>>, "S">> /\ a[p][b] = Pixels(x)
      BY <1>3, <2>5 DEF Outside, Sender
    <3>2. T[<<0, 2>>].out["S"] = "dout"
      BY <1>2, DitherCells, DownCell, LoopFacts
    <3> QED BY <1>4, <3>1, <3>2 DEF FedFrom
  <2>6. CASE p = <<1, 0>> /\ b = "S"
    <3>1. ~Outside(p, b) /\ Sender(p, b) = <<<<1, 1>>, "N">> /\ a[p][b] = CarryStream(x)
      BY <1>3, <2>6 DEF Outside, Sender
    <3>2. T[<<1, 1>>].out["N"] = "dout"
      BY <1>2, DitherCells, DownCell, LoopFacts
    <3> QED BY <1>4, <3>1, <3>2 DEF FedFrom
  <2>7. CASE p = <<1, 0>> /\ b = "W"
    <3>1. ~Outside(p, b) /\ Sender(p, b) = <<<<0, 0>>, "E">> /\ a[p][b] = Corrected(x)
      BY <1>3, <2>7 DEF Outside, Sender
    <3>2. T[<<0, 0>>].out["E"] = "dout"
      BY <1>2, DitherCells, DownCell, LoopFacts
    <3> QED BY <1>4, <3>1, <3>2 DEF FedFrom
  <2>8. CASE p = <<1, 1>> /\ b = "N"
    <3>1. ~Outside(p, b) /\ Sender(p, b) = <<<<1, 0>>, "S">> /\ a[p][b] = Corrected(x)
      BY <1>3, <2>8 DEF Outside, Sender
    <3>2. T[<<1, 0>>].out["S"] = "W"
      BY <1>2, DitherCells, DownCell, LoopFacts
    <3>3. a[<<1, 0>>]["W"] = Corrected(x)
      BY <1>3
    <3> QED BY <3>1, <3>2, <3>3 DEF FedFrom
  <2>9. CASE p = <<1, 1>> /\ b = "S"
    <3>1. ~Outside(p, b) /\ Sender(p, b) = <<<<1, 2>>, "N">> /\ a[p][b] = Over(x)
      BY <1>3, <2>9 DEF Outside, Sender
    <3>2. T[<<1, 2>>].out["N"] = "dout"
      BY <1>2, DitherCells, DownCell, LoopFacts
    <3> QED BY <1>4, <3>1, <3>2 DEF FedFrom
  <2>10. CASE p = <<1, 1>> /\ b = "W"
    <3>1. ~Outside(p, b) /\ Sender(p, b) = <<<<0, 1>>, "E">> /\ a[p][b] = White(x)
      BY <1>3, <2>10 DEF Outside, Sender
    <3>2. T[<<0, 1>>].out["E"] = "dout"
      BY <1>2, DitherCells, DownCell, LoopFacts
    <3> QED BY <1>4, <3>1, <3>2 DEF FedFrom
  <2>11. CASE p = <<1, 2>> /\ b = "N"
    <3>1. ~Outside(p, b) /\ Sender(p, b) = <<<<1, 1>>, "S">> /\ a[p][b] = Corrected(x)
      BY <1>3, <2>11 DEF Outside, Sender
    <3>2. T[<<1, 1>>].out["S"] = "N"
      BY <1>2, DitherCells, DownCell, LoopFacts
    <3>3. a[<<1, 1>>]["N"] = Corrected(x)
      BY <1>3
    <3> QED BY <3>1, <3>2, <3>3 DEF FedFrom
  <2> QED BY <1>1, <1>6, <2>1, <2>2, <2>3, <2>4, <2>5, <2>6, <2>7, <2>8, <2>9, <2>10, <2>11
<1>10. DOMAIN T \subseteq Columns \X Rows
  BY <1>1 DEF Columns, Rows
<1>11. \A p \in DOMAIN T : Place(T, input, a, u, p)
  BY <1>8, <1>9 DEF Place
<1>12. Labels(T, input, LabelAll(T, a, u))
  BY <1>10, <1>11, PlacesLabel
<1> QED BY <1>12 DEF T, a, u

LEMMA DitherSent ==
    ASSUME NEW x, NEW c \in Columns, Sends(DitherTable, c)
    PROVE  /\ c = 0
           /\ Sent(DitherTable, LabelAll(DitherTable, DitherSides(x), DitherUnits(x)), c) = Pixels(x)
<1>1. c = 0 /\ <<c, 3>> \in DOMAIN DitherTable
  BY DEF Sends, DitherTable
<1>2. DitherTable[<<c, 3>>] = Down
  BY <1>1 DEF DitherTable
<1>3. DitherSides(x)[<<c, 3>>] = [N |-> Pixels(x)]
  BY <1>1 DEF DitherSides
<1>4. LabelAll(DitherTable, DitherSides(x), DitherUnits(x))[<<c, 3>>]
        = Label(Down, [N |-> Pixels(x)], DitherUnits(x)[<<c, 3>>])
  BY <1>1, <1>2, <1>3 DEF LabelAll
<1> QED BY <1>1, <1>2, <1>4, DownCell DEF Sent, Label, Carried, Buffers, Sides

LEMMA PixelIs ==
    ASSUME NEW x, Stream(x), NEW k \in Nat \ {0}
    PROVE  Pixels(x).token[k] = IF x.token[k] + CarryAfter(x.token)[k - 1] > 127 THEN 255 ELSE 0
<1> DEFINE s == Corrected(x).token[k]
<1>1. k - 1 \in Nat /\ (k - 1) + 1 = k
  OBVIOUS
<1>2. CarryStream(x).token[(k - 1) + 1] = CarryAfter(x.token)[k - 1]
  BY <1>1, CarryIsStream
<1>3. s = x.token[k] + CarryAfter(x.token)[k - 1] /\ s \in Int
  <2>1. s = x.token[k] + CarryStream(x).token[k]
    BY DEF Corrected, Combine, ALU
  <2>2. s \in Int
    BY CarryIsStream DEF Stream
  <2> QED BY <1>1, <1>2, <2>1, <2>2
<1>4. Pixels(x).token[k] = (IF s - 127 > 0 THEN 1 ELSE 0) * 255
  BY DEF Pixels, White, Gtz, Combine, ALU, Constant
<1> HIDE DEF s
<1> QED BY <1>3, <1>4

LEMMA DitherJob ==
    ASSUME NEW j \in DOMAIN Jobs, Jobs[j].kernel = "dither", Cells[j] = DitherTable
    PROVE  \E t : Labels(Cells[j], Jobs[j].input, t) /\ Faithful(j, t)
<1> DEFINE input == Jobs[j].input
           x     == Words(input, 0)
           t     == LabelAll(DitherTable, DitherSides(x), DitherUnits(x))
<1>1. input[0] \in Seq(Int) /\ Stream(x)
  BY InputAssumption, WordsStream DEF Columns
<1>2. Labels(Cells[j], input, t)
  <2> HIDE DEF x, input
  <2>1. x = Words(input, 0)
    BY DEF x
  <2> QED BY <1>1, <2>1, DitherLabels
<1>3. ASSUME NEW g \in [Columns -> Nat], NEW c \in Columns,
             \A d \in Columns : g[d] <= Len(input[d]), Sends(Cells[j], c),
             NEW k \in Nat \ {0}, \A d \in Sent(Cells[j], t, c).of : k <= g[d]
      PROVE  LET r == Kernel!Outputs(Jobs[j].kernel, Jobs[j].words, Given(input, g))[c]
             IN  k <= Len(r) /\ r[k] = Sent(Cells[j], t, c).token[k]
  <2> DEFINE u == Sent(Cells[j], t, c)
             v == Given(input, g)[0]
             r == Kernel!Outputs(Jobs[j].kernel, Jobs[j].words, Given(input, g))[c]
  <2>1. c = 0 /\ u = Pixels(x)
    BY <1>3, DitherSent
  <2>2. u.of = {0}
    <3>1. x.of = {0}
      BY DEF Words
    <3> HIDE DEF x, u
    <3> QED BY <2>1, <3>1 DEF Pixels, White, Corrected, CarryStream, Gtz, Combine, Constant
  <2>3. r = [i \in DOMAIN v |-> IF v[i] + Kernel!Carry(v)[i - 1] > 127 THEN 255 ELSE 0]
    BY <2>1, SameColumns DEF Kernel!Outputs, Kernel!Dither, Kernel!ByColumn, Columns
  <2>4. k <= g[0] /\ g[0] \in Nat /\ g[0] <= Len(input[0]) /\ 0 \in Columns
    BY <1>3, <2>2 DEF Columns
  <2> HIDE DEF u, v, r, input, x
  <2>5. /\ v \in Seq(Int) /\ Len(v) = g[0] /\ DOMAIN v = 1 .. g[0]
        /\ \A i \in 1 .. g[0] : v[i] = x.token[i] /\ x.token[i] \in Int
    BY <1>1, <2>4, GivenWord DEF v, x
  <2>6. Kernel!Carry(v)[k - 1] = CarryAfter(x.token)[k - 1]
    <3>1. k - 1 \in Nat /\ k - 1 <= Len(v)
      BY <2>4, <2>5
    <3>2. \A i \in 1 .. Len(v) : v[i] = x.token[i]
      BY <2>5
    <3> QED BY <2>5, <3>1, <3>2, KernelCarries
  <2>7. u.token[k] = IF x.token[k] + CarryAfter(x.token)[k - 1] > 127 THEN 255 ELSE 0
    BY <1>1, <2>1, PixelIs
  <2>8. k \in 1 .. g[0] /\ v[k] = x.token[k]
    BY <2>4, <2>5
  <2>9. Len(r) = g[0] /\ r[k] = u.token[k]
    <3>1. Len(r) = g[0]
      BY <2>3, <2>4, <2>5
    <3>2. r[k] = IF v[k] + Kernel!Carry(v)[k - 1] > 127 THEN 255 ELSE 0
      BY <2>3, <2>5, <2>8
    <3> QED BY <2>6, <2>7, <2>8, <3>1, <3>2
  <2> QED BY <2>4, <2>9 DEF u, r, v, input
<1>4. Faithful(j, t)
  BY <1>3 DEF Faithful
<1> QED BY <1>2, <1>4

-----------------------------------------------------------------------------
(* Every kernel                                                            *)

\* Every job runs with the table that its application loads.
TablesLoaded == \A j \in DOMAIN Jobs : Loads(Jobs[j], Cells[j])

\* The kernels whose tables pass on and combine every token that they get.
SteadyKernels == KernelNames \ {"minsearch"}

LEMMA JobLabels ==
    ASSUME TablesLoaded, NEW j \in DOMAIN Jobs, Jobs[j].kernel \in SteadyKernels
    PROVE  \E t : Labels(Cells[j], Jobs[j].input, t) /\ Faithful(j, t)
<1> DEFINE k == Jobs[j].kernel
           w == Jobs[j].words
<1>1. Cells[j] = Table(k, w) /\ \A i \in DOMAIN KernelWords[k] : w[i] \in Int
  BY DEF TablesLoaded, Loads
<1>2. CASE k = "bypass"
  BY <1>1, <1>2, BypassJob DEF Table
<1>3. CASE k = "relu"
  BY <1>1, <1>3, ReluJob DEF Table
<1>4. CASE k = "fft"
  BY <1>1, <1>4, FftJob DEF Table
<1>5. CASE k = "conv2d_1"
  BY <1>1, <1>5, Conv2d1Job DEF Table
<1>6. CASE k = "conv2d_2"
  <2>1. 3 \in DOMAIN KernelWords[k] /\ 23 \in DOMAIN KernelWords[k] /\ 43 \in DOMAIN KernelWords[k]
    BY <1>6 DEF KernelWords
  <2>2. w[3] \in Int /\ w[23] \in Int /\ w[43] \in Int
    BY <1>1, <2>1
  <2>3. Cells[j] = Conv2d2Table(w)
    BY <1>1, <1>6 DEF Table
  <2> HIDE DEF w
  <2> QED BY <1>6, <2>2, <2>3, Conv2d2Job DEF w
<1>7. CASE k = "dither"
  BY <1>1, <1>7, DitherJob DEF Table
<1>8. k \in {"bypass", "relu", "fft", "conv2d_1", "conv2d_2", "dither"}
  BY DEF SteadyKernels, KernelNames, KernelWords
<1> QED BY <1>2, <1>3, <1>4, <1>5, <1>6, <1>7, <1>8

\* What an array computes is the stream function of its kernel, for streams of
\* any length and whatever waits how long for whom: its results are those of
\* the words it was given, in their order, none twice, none left out and none
\* before the words it needs (PE_superpolyvalent.sv, kernels.h).
THEOREM CgraImplementsKernel ==
    ASSUME TablesLoaded
    PROVE  Spec /\ Jobs[job].kernel \in SteadyKernels => ImplementsKernel
<1> DEFINE J == {j \in DOMAIN Jobs : Jobs[j].kernel \in SteadyKernels}
           L == [j \in J |-> CHOOSE t : Labels(Cells[j], Jobs[j].input, t) /\ Faithful(j, t)]
<1>1. \A j \in J : Labels(Cells[j], Jobs[j].input, L[j]) /\ Faithful(j, L[j])
  BY JobLabels
<1>2. Init /\ Jobs[job].kernel \in SteadyKernels => job \in J
  BY DEF Init
<1> HIDE DEF J, L
<1>3. Spec /\ job \in J => ImplementsKernel
  BY <1>1, LabelsImplement
<1> QED BY <1>2, <1>3, PTL DEF Spec
=============================================================================
