----------------------------- MODULE Cgra_proofs -----------------------------
(***************************************************************************)
(* For every configuration, every stream and every stall: an array whose   *)
(* tables are well routed never drops a token, and its buffers never hold  *)
(* more than they have room for.  Tables that pass on and combine every    *)
(* token they get also do not notice when words come and results go: if    *)
(* the places of the array can be labelled with streams that agree with    *)
(* what each PE computes, it delivers these streams.  Module               *)
(* KernelTables_proofs finds such labels for the tables of kernels.h.      *)
(***************************************************************************)
EXTENDS Cgra, TLAPS

-----------------------------------------------------------------------------
(* A processing element in one cycle                                       *)

\* Nothing moves before the first token is loaded: a PE that has not ticked
\* since the clear holds no token.
Fresh(p) == ~p.primed => \A b \in DOMAIN p.buf : p.buf[b].q = <<>>

\* Whatever leaves a side buffer leaves through a fork that accepts.
LEMMA FromSideForked ==
    ASSUME NEW cell, NEW p, NEW ready, NEW s, FromSide(cell, p, ready, s) # <<>>
    PROVE  s \in DOMAIN cell.to /\ ForkReady(cell, p, ready, s) /\ p.buf[s].q # <<>>
BY DEF FromSide, First

\* A token that is sent anywhere comes from a fork that accepts.
LEMMA SentIsForked ==
    ASSUME NEW cell, NEW p, NEW ready, NEW x \in Sources \ {"I1"},
           Selected(cell, p, ready, x) # <<>>
    PROVE  \/ x \in DOMAIN cell.to /\ ForkReady(cell, p, ready, x)
           \/ x \in {"dout", "delayed"} /\ FuReady(cell, p, ready)
<1>1. CASE x \in Sides
  <2>1. FromSide(cell, p, ready, x) # <<>>
    BY <1>1 DEF Selected, Sides
  <2> QED BY <2>1, FromSideForked
<1>2. CASE x \in {"dout", "delayed"}
  <2>1. FromUnit(cell, p, ready) # <<>>
    BY <1>2 DEF Selected, Sides
  <2> QED BY <1>2, <2>1 DEF FromUnit
<1>3. CASE x = "none"
  BY <1>3 DEF Selected, Sides
<1> QED BY <1>1, <1>2, <1>3 DEF Sources

\* A fork that waits for target t accepts only when t is ready.
LEMMA ForkWaits ==
    ASSUME NEW cell, NEW p, NEW ready, NEW t \in Sides \cup Operands, NEW x,
           \/ t \in cell.to[x] /\ ForkReady(cell, p, ready, x)
           \/ t \in cell.fork /\ FuReady(cell, p, ready)
    PROVE  Receivers(p, ready)[t]
<1>1. t # "c"
  BY DEF Sides, Operands
<1> QED BY <1>1 DEF ForkReady, FuReady, Fork

\* The wires of a PE whose table is well routed only carry what is captured.
LEMMA WireKept ==
    ASSUME NEW cell, IsConfiguration(cell), WellRouted(cell), NEW p, NEW ready,
           NEW s \in Sides, Selected(cell, p, ready, cell.out[s]) # <<>>
    PROVE  ready[s]
<1>1. cell.out[s] \in Sources \ {"I1"}
  BY DEF IsConfiguration
<1>2. \/ s \in cell.to[cell.out[s]] /\ ForkReady(cell, p, ready, cell.out[s])
      \/ s \in cell.fork /\ FuReady(cell, p, ready)
  BY <1>1, SentIsForked DEF WellRouted
<1>3. Receivers(p, ready)[s]
  BY <1>2, ForkWaits
<1> QED BY <1>3 DEF Receivers

LEMMA OperandKept ==
    ASSUME NEW cell, IsConfiguration(cell), WellRouted(cell), NEW p, NEW ready,
           NEW o \in Operands, IsToken(cell, o),
           Selected(cell, p, ready, cell.op[o]) # <<>>
    PROVE  p.buf[o].ready
<1>1. cell.op[o] \in Sources \ {"I1"}
  BY DEF IsConfiguration, IsToken
<1>2. \/ o \in cell.to[cell.op[o]] /\ ForkReady(cell, p, ready, cell.op[o])
      \/ o \in cell.fork /\ FuReady(cell, p, ready)
  BY <1>1, SentIsForked DEF WellRouted
<1>3. Receivers(p, ready)[o]
  BY <1>2, ForkWaits
<1> QED BY <1>3 DEF Receivers, Sides, Operands

\* An operand is only taken in a cycle that registers its result.
LEMMA TakenIsUsed ==
    ASSUME NEW cell, NEW p, Fresh(p), NEW ready, NEW o \in Operands,
           Has(p, o), Takes(cell, p, ready, o)
    PROVE  Registers(cell, p, ready)
<1>1. p.primed
  BY DEF Has, Fresh
<1>2. FuReady(cell, p, ready)
  BY DEF Takes
<1>3. CASE cell.mode = "merge"
  BY <1>1, <1>2, <1>3 DEF Registers, Fires, Operands
<1>4. CASE cell.mode # "merge"
  <2>1. Has(p, "1") /\ Has(p, "2")
    BY <1>4 DEF Takes, Operands
  <2>2. Fires(cell, p, ready)
    BY <1>4, <2>1 DEF Fires, Takes
  <2> QED BY <1>1, <1>2, <2>2 DEF Registers
<1> QED BY <1>3, <1>4

\* So is the token that selects one of them.
LEMMA ControlIsUsed ==
    ASSUME NEW cell, WellRouted(cell), NEW p, Fresh(p),
           DOMAIN p.buf = Buffers(cell), NEW ready,
           cell.mode = "mux", Control(cell, p, ready) # <<>>
    PROVE  Registers(cell, p, ready)
<1> DEFINE x == cell.op["c"]
<1>1. x \in DOMAIN cell.to /\ ForkReady(cell, p, ready, x) /\ p.buf[x].q # <<>>
  BY FromSideForked DEF Control
<1>2. p.primed
  BY <1>1 DEF Fresh, Buffers
<1>3. CinReady(cell, p, ready)
  BY <1>1 DEF WellRouted, ForkReady
<1> QED BY <1>2, <1>3 DEF CinReady, Registers, Fires

LEMMA NothingLost ==
    ASSUME NEW cell, IsConfiguration(cell), WellRouted(cell), NEW p, Fresh(p),
           DOMAIN p.buf = Buffers(cell), NEW ready
    PROVE  Lost(cell, p, ready) = {}
<1>1. \A s \in Sides : Selected(cell, p, ready, cell.out[s]) # <<>> => ready[s]
  BY WireKept
<1>2. \A o \in Operands :
        IsToken(cell, o) /\ Selected(cell, p, ready, cell.op[o]) # <<>> => p.buf[o].ready
  BY OperandKept
<1>3. \A o \in Operands :
        Has(p, o) /\ Takes(cell, p, ready, o) => Registers(cell, p, ready)
  BY TakenIsUsed
<1>4. cell.mode = "mux" /\ Control(cell, p, ready) # <<>> => Registers(cell, p, ready)
  BY ControlIsUsed
<1>5. cell.mode = "merge" => \E o \in Operands : ~IsToken(cell, o)
  BY DEF WellRouted
<1> QED BY ONLY <1>1, <1>2, <1>3, <1>4, <1>5 DEF Lost

-----------------------------------------------------------------------------
(* The array                                                               *)

\* What NoTokenLost rests on: the configuration stays the one of the job, the
\* registers of a PE are those of its configuration, and a PE that has not
\* ticked is empty.
LostInv ==
    /\ job \in DOMAIN Jobs /\ conf = Cells[job]
    /\ DOMAIN pe = PEs
    /\ \A p \in PEs : DOMAIN pe[p].buf = Buffers(conf[p]) /\ Fresh(pe[p])
    /\ NoTokenLost

LEMMA LostInit == Init => LostInv
<1> SUFFICES ASSUME Init PROVE LostInv
  OBVIOUS
<1>1. ASSUME NEW p \in PEs
      PROVE  DOMAIN pe[p].buf = Buffers(conf[p]) /\ Fresh(pe[p])
  <2>1. pe[p].buf = [b \in Buffers(conf[p]) |-> EmptyBuffer]
    BY DEF Init, PeReset
  <2>2. EmptyBuffer.q = <<>>
    BY DEF EmptyBuffer
  <2> QED BY <2>1, <2>2 DEF Fresh
<1> QED BY <1>1 DEF Init, LostInv, NoTokenLost, PEs

LEMMA LostStep == LostInv /\ [Next]_vars => LostInv'
<1> SUFFICES ASSUME LostInv, [Next]_vars PROVE LostInv'
  OBVIOUS
<1>1. ASSUME NEW O \in SUBSET Waiting, NEW R \in SUBSET Delivering, Cycle(O, R)
      PROVE  LostInv'
  <2> DEFINE ready == Ready(R)
             in    == In(Out(ready), O)
  <2>1. job' = job /\ conf' = conf /\ PEs' = PEs
    BY <1>1 DEF Cycle, PEs
  <2>2. pe' = [p \in PEs |-> PeTick(conf[p], pe[p], ready[p], in[p])]
    BY <1>1 DEF Cycle
  <2>3. \A p \in PEs' : DOMAIN pe'[p].buf = Buffers(conf'[p]) /\ Fresh(pe'[p])
    BY <2>1, <2>2 DEF PeTick, Fresh
  <2>4. NoTokenLost'
    <3> SUFFICES ASSUME \A p \in PEs : WellRouted(conf[p]) PROVE lost' = {}
      BY <2>1 DEF NoTokenLost
    <3>1. \A p \in PEs : IsConfiguration(conf[p])
      BY CellsAssumption DEF LostInv, PEs
    <3>2. \A p \in PEs : Lost(conf[p], pe[p], ready[p]) = {}
      BY <3>1, NothingLost DEF LostInv
    <3>3. lost' = UNION {{<<p, x>> : x \in Lost(conf[p], pe[p], ready[p])} : p \in PEs}
      BY <1>1 DEF Cycle
    <3> QED BY <3>2, <3>3
  <2> QED BY <2>1, <2>2, <2>3, <2>4 DEF LostInv
<1>2. CASE UNCHANGED vars
  BY <1>2 DEF vars, LostInv, NoTokenLost, PEs
<1> QED BY <1>1, <1>2 DEF Next

\* No cycle of an array whose tables are well routed drops a token, for every
\* kernel, every stream and every stall of the neighbours.
THEOREM CgraNoTokenLost == Spec => []NoTokenLost
<1>1. LostInv => NoTokenLost
  BY DEF LostInv
<1> QED BY LostInit, LostStep, <1>1, PTL DEF Spec

-----------------------------------------------------------------------------
(* Room                                                                    *)

\* A wire carries one word or none.
Wire(w) == w = <<>> \/ \E x \in Int : w = <<x>>

LEMMA WireIsSeq == ASSUME NEW w, Wire(w) PROVE w \in Seq(Int) /\ Len(w) \in Nat /\ Len(w) <= 1
<1>1. CASE w = <<>>
  BY <1>1
<1>2. CASE w # <<>>
  <2>1. PICK x \in Int : w = <<x>>
    BY <1>2 DEF Wire
  <2> QED BY <2>1
<1> QED BY <1>1, <1>2

LEMMA HeadOfQueue ==
    ASSUME NEW q \in Seq(Int), q # <<>>
    PROVE  Head(q) \in Int /\ Tail(q) \in Seq(Int) /\ Len(q) \in Nat /\ Len(q) > 0
           /\ Len(Tail(q)) = Len(q) - 1
OBVIOUS

LEMMA FirstWire == ASSUME NEW q \in Seq(Int) PROVE Wire(First(q))
BY HeadOfQueue DEF First, Wire

\* A buffer that invites a token has room for it, whatever its receiver does.
LEMMA BufferFits ==
    ASSUME NEW buf, buf.ready \in BOOLEAN, Fits(buf), NEW in, Wire(in), NEW take
    PROVE  BufferTick(buf, in, take).ready \in BOOLEAN /\ Fits(BufferTick(buf, in, take))
<1> DEFINE left  == IF take /\ buf.q # <<>> THEN Tail(buf.q) ELSE buf.q
           comes == IF buf.ready THEN in ELSE <<>>
           next  == BufferTick(buf, in, take)
<1>1. /\ left \in Seq(Int) /\ Len(left) \in Nat
      /\ take /\ buf.q # <<>> => Len(left) = Len(buf.q) - 1
      /\ ~(take /\ buf.q # <<>>) => left = buf.q
  BY HeadOfQueue DEF Fits
<1>2. /\ comes \in Seq(Int) /\ Len(comes) \in Nat /\ Len(comes) <= 1
      /\ ~buf.ready => Len(comes) = 0
  BY WireIsSeq
<1>3. next.ready = (take \/ buf.q = <<>>) /\ next.q = left \o comes
  BY DEF BufferTick
<1>4. left \o comes \in Seq(Int) /\ Len(left \o comes) = Len(left) + Len(comes)
  BY <1>1, <1>2
<1>5. Len(buf.q) \in Nat /\ Len(buf.q) <= 2 /\ (buf.ready => Len(buf.q) <= 1)
      /\ (buf.q = <<>> => Len(buf.q) = 0)
  BY DEF Fits
<1> HIDE DEF left, comes, next
<1>6. Len(left \o comes) <= 2
  BY <1>1, <1>2, <1>4, <1>5, SMTT(30)
<1>7. take \/ buf.q = <<>> => Len(left \o comes) <= 1
  BY <1>1, <1>2, <1>4, <1>5
<1>8. next.ready \in BOOLEAN /\ Fits(next)
  BY <1>3, <1>4, <1>6, <1>7 DEF Fits
<1> QED BY <1>8 DEF next

LEMMA FromSideWire ==
    ASSUME NEW cell, NEW p, PeTypeOK(cell, p), NEW ready, NEW s
    PROVE  Wire(FromSide(cell, p, ready, s))
<1>1. CASE s \in DOMAIN cell.to
  <2>1. p.buf[s].q \in Seq(Int)
    BY <1>1 DEF PeTypeOK, Buffers, Fits
  <2> QED BY <2>1, FirstWire DEF FromSide, Wire
<1>2. CASE s \notin DOMAIN cell.to
  BY <1>2 DEF FromSide, Wire
<1> QED BY <1>1, <1>2

LEMMA SelectedWire ==
    ASSUME NEW cell, IsConfiguration(cell), NEW p, PeTypeOK(cell, p), NEW ready,
           NEW x \in Sources
    PROVE  Wire(Selected(cell, p, ready, x))
<1>1. Wire(FromUnit(cell, p, ready)) /\ Wire(<<cell.const>>) /\ Wire(<<>>)
  BY DEF FromUnit, Wire, PeTypeOK, IsConfiguration
<1>2. Wire(FromSide(cell, p, ready, x))
  BY FromSideWire
<1> QED BY <1>1, <1>2 DEF Selected

LEMMA ResultIsWord ==
    ASSUME NEW cell, NEW p, PeTypeOK(cell, p), NEW ready
    PROVE  Result(cell, p, ready) \in Int
<1>1. \A o \in Operands : Operand(p, o) \in Int
  <2> SUFFICES ASSUME NEW o \in Operands, Has(p, o) PROVE Head(p.buf[o].q) \in Int
    BY DEF Operand
  <2> QED BY HeadOfQueue DEF Has, PeTypeOK, Fits
<1>2. Operand(p, "1") \in Int /\ Operand(p, "2") \in Int /\ p.dout \in Int
  BY <1>1 DEF Operands, PeTypeOK
<1>3. \A a, b \in Int : ALU(cell.alu, a, b) \in Int
  BY DEF ALU
<1> QED BY <1>2, <1>3 DEF Result

LEMMA TickKeepsType ==
    ASSUME NEW cell, IsConfiguration(cell), NEW p, PeTypeOK(cell, p), NEW ready,
           NEW in, \A s \in Sides : Wire(in[s])
    PROVE  PeTypeOK(cell, PeTick(cell, p, ready, in))
<1> DEFINE next == PeTick(cell, p, ready, in)
<1>1. DOMAIN next.buf = Buffers(cell)
  BY DEF PeTick
<1>2. ASSUME NEW b \in Buffers(cell)
      PROVE  next.buf[b].ready \in BOOLEAN /\ Fits(next.buf[b])
  <2>2. Wire(BufferIn(cell, p, ready, in, b))
    <3>1. CASE b \in Sides
      BY <3>1 DEF BufferIn
    <3>2. CASE b \notin Sides
      <4>1. b \in Operands
        BY <3>2 DEF Buffers, IsConfiguration
      <4>2. cell.op[b] \in Sources
        BY <4>1 DEF IsConfiguration
      <4> QED BY <3>2, <4>2, SelectedWire DEF BufferIn
    <3> QED BY <3>1, <3>2
  <2>3. next.buf[b] = BufferTick(p.buf[b], BufferIn(cell, p, ready, in, b),
                                 BufferTaken(cell, p, ready, b))
    BY DEF PeTick
  <2>4. p.buf[b].ready \in BOOLEAN /\ Fits(p.buf[b])
    BY DEF PeTypeOK
  <2> QED BY <2>2, <2>3, <2>4, BufferFits
<1>3. next.primed \in BOOLEAN /\ next.v \in BOOLEAN
  BY DEF PeTick, PeTypeOK, FirstToken, IsConfiguration, Fires
<1>4. next.dout \in Int
  BY ResultIsWord DEF PeTick, PeTypeOK, IsConfiguration
<1>5. next.cnt \in 0 .. 2^16 - 1
  BY DEF PeTick, PeTypeOK, NextCount
<1> QED BY <1>1, <1>2, <1>3, <1>4, <1>5 DEF PeTypeOK

LEMMA TypeInit == Init => TypeOK
<1> SUFFICES ASSUME Init PROVE TypeOK
  OBVIOUS
<1>1. ASSUME NEW p \in PEs PROVE PeTypeOK(conf[p], pe[p])
  <2>1. pe[p] = PeReset(conf[p])
    BY DEF Init
  <2>2. EmptyBuffer.ready = FALSE /\ EmptyBuffer.q = <<>> /\ Fits(EmptyBuffer)
    BY DEF EmptyBuffer, Fits
  <2>3. pe[p].buf = [b \in Buffers(conf[p]) |-> EmptyBuffer]
    BY <2>1 DEF PeReset
  <2>4. /\ pe[p].primed = FALSE /\ pe[p].v = FALSE /\ pe[p].dout = 0 /\ pe[p].cnt = 0
    BY <2>1 DEF PeReset
  <2>5. 0 \in 0 .. 2^16 - 1
    OBVIOUS
  <2>6. \A b \in Buffers(conf[p]) : pe[p].buf[b] = EmptyBuffer
    BY <2>3
  <2>7. DOMAIN pe[p].buf = Buffers(conf[p])
    BY <2>3
  <2>8. \A b \in Buffers(conf[p]) : pe[p].buf[b].ready \in BOOLEAN /\ Fits(pe[p].buf[b])
    BY <2>2, <2>6
  <2>9. pe[p].primed \in BOOLEAN /\ pe[p].v \in BOOLEAN
    BY <2>4, Zenon
  <2>10. pe[p].dout \in Int /\ pe[p].cnt \in 0 .. 2^16 - 1
    BY <2>4, <2>5
  <2> QED BY <2>7, <2>8, <2>9, <2>10 DEF PeTypeOK
<1> QED BY <1>1 DEF Init, TypeOK, PEs, Columns

LEMMA TypeStep == TypeOK /\ [Next]_vars => TypeOK'
<1> SUFFICES ASSUME TypeOK, [Next]_vars PROVE TypeOK'
  OBVIOUS
<1>1. ASSUME NEW O \in SUBSET Waiting, NEW R \in SUBSET Delivering, Cycle(O, R)
      PROVE  TypeOK'
  <2> DEFINE ready == Ready(R)
             out   == Out(ready)
             in    == In(out, O)
  <2>1. job' = job /\ conf' = conf /\ PEs' = PEs
    BY <1>1 DEF Cycle, PEs
  <2>2. pe' = [p \in PEs |-> PeTick(conf[p], pe[p], ready[p], in[p])]
    BY <1>1 DEF Cycle
  <2>3. \A p \in PEs : IsConfiguration(conf[p])
    BY CellsAssumption DEF TypeOK, PEs
  <2>4. \A c \in O : NextWord(c) \in Int
    <3> SUFFICES ASSUME NEW c \in O PROVE NextWord(c) \in Int
      OBVIOUS
    <3> DEFINE words == Jobs[job].input[c]
    <3>1. words \in Seq(Int)
      BY InputAssumption DEF TypeOK, Waiting
    <3>2. got[c] \in Nat /\ got[c] < Len(words)
      BY DEF TypeOK, Waiting
    <3> HIDE DEF words
    <3>3. words[got[c] + 1] \in Int
      BY <3>1, <3>2
    <3> QED BY <3>3 DEF words, NextWord
  <2>5. ASSUME NEW p \in PEs, NEW s \in Sides PROVE Wire(out[p][s])
    <3>1. out[p][s] = Selected(conf[p], pe[p], ready[p], conf[p].out[s])
      BY DEF Out
    <3>2. conf[p].out[s] \in Sources
      BY <2>3 DEF IsConfiguration
    <3> QED BY <2>3, <3>1, <3>2, SelectedWire DEF TypeOK
  <2>6. ASSUME NEW p \in PEs, NEW s \in Sides PROVE Wire(in[p][s])
    <3>1. Sender(p, s)[2] \in Sides
      BY DEF Sender, Sides
    <3>2. in[p][s] = IF s = "N" /\ p[2] = 0
                     THEN IF p[1] \in O THEN <<NextWord(p[1])>> ELSE <<>>
                     ELSE IF Sender(p, s)[1] \in PEs
                          THEN out[Sender(p, s)[1]][Sender(p, s)[2]] ELSE <<>>
      BY DEF In
    <3> QED BY <2>4, <2>5, <3>1, <3>2 DEF Wire
  <2>7. \A p \in PEs : PeTypeOK(conf[p], pe'[p])
    BY <2>2, <2>3, <2>6, TickKeepsType DEF TypeOK
  <2>8. got' = [c \in Columns |-> IF c \in Accepting(O) THEN got[c] + 1 ELSE got[c]]
    BY <1>1 DEF Cycle
  <2>9. got' \in [Columns -> Nat]
    BY <2>8 DEF TypeOK
  <2>10. offered' \subseteq Waiting'
    <3> SUFFICES ASSUME NEW c \in O \ Accepting(O) PROVE c \in Waiting'
      BY <1>1 DEF Cycle
    <3>1. c \in Columns /\ got'[c] = got[c] /\ got[c] < Len(Jobs[job].input[c])
      BY <2>8 DEF Waiting
    <3> QED BY <2>1, <3>1 DEF Waiting
  <2> QED BY <2>1, <2>2, <2>7, <2>9, <2>10 DEF TypeOK
<1>2. CASE UNCHANGED vars
  BY <1>2 DEF vars, TypeOK, PEs, Waiting
<1> QED BY <1>1, <1>2 DEF Next

\* In every array no buffer ever holds more than its two places, nor more than
\* one token while it invites another (elastic_buffer.sv), for every kernel,
\* every stream and every stall of the neighbours.
THEOREM CgraTypes == Spec => []TypeOK
BY TypeInit, TypeStep, PTL DEF Spec

-----------------------------------------------------------------------------
(* Streams                                                                 *)

\* A stream is the tokens that one place of the array sees, from token[1] on,
\* and the columns a token of which each of them needs.  t labels a PE: t.at[b]
\* is the stream of buffer b, t.unit what the function unit registers.
Carried(t, x) == IF x = "dout" THEN t.unit ELSE t.at[x]

\* The buffers, and the function unit, that hand tokens on.
Holders(cell) == DOMAIN cell.to \cup {"dout"}

\* A PE that starts with a token registers it before any result.
Begins(cell) == IF cell.starts THEN 1 ELSE 0

\* What the function unit makes of a pair of operands and a control token.
Value(cell, a, b, c) ==
    LET alu == ALU(cell.alu, a, b)
    IN  CASE cell.res = "gtz" -> IF alu > 0 THEN 1 ELSE 0
          [] cell.res = "mux" -> IF c % 2 = 1 THEN b ELSE a
          [] OTHER            -> alu

\* Tables whose PEs pass on and combine every token they get: nothing is
\* merged, held back, or computed from a result that stays.
Steady(cell) ==
    /\ WellRouted(cell) /\ ~cell.feedback
    /\ cell.mode \in {"join", "mux"} /\ (cell.res = "mux" => cell.mode = "mux")
    /\ cell.mode = "mux" => cell.op["c"] \in DOMAIN cell.to
    /\ \A s \in Sides : cell.out[s] \in Holders(cell) \cup {"none"}
    /\ \A o \in Operands : cell.op[o] \in Holders(cell) \cup {"I1", "none"}

\* The labels of a PE agree with what it computes.
Computes(cell, t) ==
    /\ \A o \in Operands :
         /\ cell.op[o] = "I1" => \A i \in Nat : t.at[o].token[i] = cell.const
         /\ cell.op[o] \in Holders(cell) => t.at[o] = Carried(t, cell.op[o])
    /\ cell.starts => t.unit.token[1] = cell.init
    /\ Operands \subseteq Buffers(cell) =>
         \A i \in Nat \ {0} :
            t.unit.token[i + Begins(cell)] =
                Value(cell, t.at["1"].token[i], t.at["2"].token[i], t.at[cell.op["c"]].token[i])

\* n counts the tokens that entered the buffers of a PE and its function unit;
\* those that left are what is not there any more.
Here(p, x) == IF x = "dout" THEN IF p.v THEN 1 ELSE 0 ELSE Len(p.buf[x].q)
Left(p, n, x) == Carried(n, x) - Here(p, x)

\* The places whose tokens the function unit consumes.
Consumed(cell) ==
    {o \in Operands : o \in Buffers(cell)} \cup {x \in {cell.op["c"]} : cell.mode = "mux"}

\* Of the k tokens of f that came the last ones are in queue q; what comes next.
Queued(q, f, k) ==
    k \in Nat /\ Len(q) <= k /\ \A i \in 1 .. Len(q) : q[i] = f[k - Len(q) + i]
NextIs(w, f, k) == Wire(w) /\ (w # <<>> => w = <<f[k + 1]>>)

\* A PE holds consecutive tokens of its streams: those that came last.
InOrder(cell, p, t, n) ==
    /\ n.unit \in Nat /\ DOMAIN n.at = Buffers(cell)
    /\ \A b \in Buffers(cell) : Queued(p.buf[b].q, t.at[b].token, n.at[b])
    /\ p.v => p.primed /\ n.unit > 0 /\ p.dout = t.unit.token[n.unit]
    /\ ~p.primed => n.unit = 0
    /\ \A x \in Consumed(cell) :
         n.unit = Left(p, n, x) + (IF p.primed THEN Begins(cell) ELSE 0)
    /\ \A o \in Operands : cell.op[o] \in Holders(cell) => n.at[o] = Left(p, n, cell.op[o])

\* The counts after a cycle.
Entering(cell, p, ready, in, b) ==
    IF p.buf[b].ready THEN BufferIn(cell, p, ready, in, b) ELSE <<>>
NextCounts(cell, p, ready, in, n) ==
    [at   |-> [b \in Buffers(cell) |-> n.at[b] + Len(Entering(cell, p, ready, in, b))],
     unit |-> IF ~p.primed THEN Begins(cell)
              ELSE n.unit + (IF Registers(cell, p, ready) THEN 1 ELSE 0)]

-----------------------------------------------------------------------------
(* A PE in one cycle                                                       *)

LEMMA HolderKinds ==
    ASSUME NEW cell, IsConfiguration(cell), NEW x \in Holders(cell)
    PROVE  \/ x = "dout" /\ x \notin DOMAIN cell.to /\ x \notin Sides
           \/ x # "dout" /\ x \in DOMAIN cell.to /\ x \in Sides /\ x \in Buffers(cell)
BY DEF Holders, IsConfiguration, Sides, Buffers

\* A queue without its first token, and with one more.
LEMMA QueueHead ==
    ASSUME NEW q \in Seq(Int), q # <<>>, NEW f, NEW k, Queued(q, f, k)
    PROVE  Head(q) = f[k - Len(q) + 1] /\ Len(q) \in Nat /\ Len(q) > 0
<1>1. Head(q) = q[1] /\ 1 \in 1 .. Len(q) /\ Len(q) \in Nat /\ Len(q) > 0
  OBVIOUS
<1> QED BY <1>1 DEF Queued

LEMMA QueueTail ==
    ASSUME NEW q \in Seq(Int), q # <<>>, NEW f, NEW k, Queued(q, f, k)
    PROVE  Tail(q) \in Seq(Int) /\ Len(Tail(q)) = Len(q) - 1 /\ Queued(Tail(q), f, k)
<1>1. Tail(q) \in Seq(Int) /\ Len(Tail(q)) = Len(q) - 1 /\ Len(q) \in Nat /\ Len(q) > 0
  OBVIOUS
<1>2. ASSUME NEW i \in 1 .. Len(Tail(q)) PROVE Tail(q)[i] = f[k - Len(Tail(q)) + i]
  <2>1. Tail(q)[i] = q[i + 1] /\ i + 1 \in 1 .. Len(q) /\ i \in Nat
    BY <1>1
  <2>2. k - Len(q) + (i + 1) = k - (Len(q) - 1) + i
    BY <2>1, <1>1 DEF Queued
  <2> QED BY <1>1, <2>1, <2>2 DEF Queued
<1> QED BY <1>1, <1>2 DEF Queued

LEMMA QueueJoin ==
    ASSUME NEW q \in Seq(Int), NEW f, NEW k, Queued(q, f, k), NEW e, NextIs(e, f, k)
    PROVE  Len(q \o e) = Len(q) + Len(e) /\ Queued(q \o e, f, k + Len(e))
<1>0. e \in Seq(Int) /\ Len(e) \in Nat /\ Len(e) <= 1
  BY WireIsSeq DEF NextIs
<1> DEFINE r == q \o e
<1>1. Len(q) \in Nat /\ Len(r) = Len(q) + Len(e) /\ k \in Nat /\ Len(q) <= k
  BY <1>0 DEF Queued
<1>2. CASE e = <<>>
  <2>1. r = q /\ Len(e) = 0
    BY <1>2
  <2> QED BY <1>1, <2>1
<1>3. CASE e # <<>>
  <2>1. e = <<f[k + 1]>> /\ Len(e) = 1
    BY <1>3 DEF NextIs
  <2>2. Len(r) = Len(q) + 1
    BY <1>1, <2>1
  <2>3. ASSUME NEW i \in 1 .. Len(r) PROVE r[i] = f[k + 1 - Len(r) + i]
    <3>0. i \in Nat /\ i <= Len(q) + 1 /\ i >= 1
      BY <1>1, <2>2
    <3>1. CASE i <= Len(q)
      <4>1. r[i] = q[i] /\ i \in 1 .. Len(q)
        BY <3>0, <3>1
      <4>2. k - Len(q) + i = k + 1 - (Len(q) + 1) + i
        BY <3>0, <1>1
      <4> QED BY <4>1, <4>2, <2>2 DEF Queued
    <3>2. CASE ~(i <= Len(q))
      <4>1. i = Len(q) + 1
        BY <3>0, <3>2, <1>1
      <4>2. k + 1 - (Len(q) + 1) + i = k + 1
        BY <4>1, <1>1
      <4>3. r[i] = e[1]
        BY <4>1, <1>1, <2>1
      <4> QED BY <4>2, <4>3, <2>1, <2>2
    <3> QED BY <3>1, <3>2
  <2> HIDE DEF r
  <2>4. Len(r) <= k + 1 /\ k + 1 \in Nat
    BY <2>2, <1>1
  <2> QED BY <2>1, <1>1, <2>3, <2>4 DEF r, Queued
<1> QED BY <1>2, <1>3

\* What leaves a holder is the next token of its stream.
LEMMA TokenLeaves ==
    ASSUME NEW cell, IsConfiguration(cell), NEW p, PeTypeOK(cell, p), NEW ready,
           NEW t, NEW n, InOrder(cell, p, t, n), NEW x \in Holders(cell),
           Selected(cell, p, ready, x) # <<>>
    PROVE  /\ Selected(cell, p, ready, x) = <<Carried(t, x).token[Left(p, n, x) + 1]>>
           /\ Here(p, x) > 0 /\ Here(p, x) \in Nat
<1>1. CASE x = "dout"
  <2>1. Selected(cell, p, ready, x) = FromUnit(cell, p, ready)
    BY <1>1 DEF Selected, Sides
  <2>2. p.v /\ FromUnit(cell, p, ready) = <<p.dout>>
    BY <2>1 DEF FromUnit
  <2>3. n.unit \in Nat /\ p.dout = t.unit.token[n.unit] /\ n.unit - 1 + 1 = n.unit
    BY <2>2 DEF InOrder
  <2>4. Here(p, x) = 1 /\ Left(p, n, x) = n.unit - 1 /\ Carried(t, x) = t.unit
    BY <1>1, <2>2 DEF Here, Left, Carried
  <2> QED BY <2>1, <2>2, <2>3, <2>4
<1>2. CASE x # "dout"
  <2> DEFINE q == p.buf[x].q
  <2>1. x \in DOMAIN cell.to /\ x \in Sides /\ x \in Buffers(cell)
    BY <1>2, HolderKinds
  <2>2. Selected(cell, p, ready, x) = FromSide(cell, p, ready, x)
    BY <2>1 DEF Selected, Sides
  <2>3. q # <<>> /\ FromSide(cell, p, ready, x) = <<Head(q)>>
    BY <2>2 DEF FromSide, First
  <2>4. q \in Seq(Int)
    BY <2>1 DEF PeTypeOK, Fits
  <2>5. Queued(q, t.at[x].token, n.at[x])
    BY <2>1 DEF InOrder
  <2>6. Head(q) = t.at[x].token[n.at[x] - Len(q) + 1] /\ Len(q) \in Nat /\ Len(q) > 0
    BY <2>3, <2>4, <2>5, QueueHead
  <2>7. Here(p, x) = Len(q) /\ Left(p, n, x) = n.at[x] - Len(q) /\ Carried(t, x) = t.at[x]
    BY <1>2 DEF Here, Left, Carried
  <2> QED BY <2>2, <2>3, <2>6, <2>7
<1> QED BY <1>1, <1>2

LEMMA HolderWire ==
    ASSUME NEW cell, IsConfiguration(cell), NEW p, PeTypeOK(cell, p), NEW ready,
           NEW x \in Holders(cell)
    PROVE  /\ Wire(Selected(cell, p, ready, x))
           /\ Len(Selected(cell, p, ready, x)) = IF Selected(cell, p, ready, x) = <<>> THEN 0 ELSE 1
<1>1. x \in Sources
  BY HolderKinds DEF Sources
<1>2. Wire(Selected(cell, p, ready, x))
  BY <1>1, SelectedWire
<1> QED BY <1>2 DEF Wire

\* What side wires bring: the next token of the buffer they enter.
Brings(cell, t, n, in) == \A b \in DOMAIN cell.to : NextIs(in[b], t.at[b].token, n.at[b])

\* An operand buffer captures all that its source sends.
LEMMA OperandEnters ==
    ASSUME NEW cell, IsConfiguration(cell), Steady(cell), NEW p, PeTypeOK(cell, p), NEW ready,
           NEW in, NEW o \in Operands, cell.op[o] \in Holders(cell)
    PROVE  /\ o \in Buffers(cell)
           /\ Entering(cell, p, ready, in, o) = Selected(cell, p, ready, cell.op[o])
<1>1. o \in Buffers(cell) /\ o \notin Sides /\ IsToken(cell, o)
  <2>1. o \notin Sides
    BY DEF Operands, Sides
  <2>2. cell.op[o] \notin {"none", "I1"}
    BY HolderKinds DEF Sides
  <2> QED BY <2>1, <2>2 DEF Buffers, IsToken
<1>2. BufferIn(cell, p, ready, in, o) = Selected(cell, p, ready, cell.op[o])
  BY <1>1 DEF BufferIn
<1>3. Selected(cell, p, ready, cell.op[o]) # <<>> => p.buf[o].ready
  BY <1>1, OperandKept DEF Steady
<1> QED BY <1>1, <1>2, <1>3 DEF Entering

LEMMA LeavesInOrder ==
    ASSUME NEW cell, IsConfiguration(cell), NEW p, PeTypeOK(cell, p), NEW ready,
           NEW t, NEW n, InOrder(cell, p, t, n), NEW x \in Holders(cell)
    PROVE  NextIs(Selected(cell, p, ready, x), Carried(t, x).token, Left(p, n, x))
<1>1. Wire(Selected(cell, p, ready, x))
  BY HolderWire
<1>2. Selected(cell, p, ready, x) # <<>> =>
        Selected(cell, p, ready, x) = <<Carried(t, x).token[Left(p, n, x) + 1]>>
  BY TokenLeaves
<1> QED BY <1>1, <1>2 DEF NextIs

\* Whatever enters a buffer is the next token of its stream.
LEMMA EntersInOrder ==
    ASSUME NEW cell, IsConfiguration(cell), Steady(cell), NEW p, PeTypeOK(cell, p), NEW ready,
           NEW t, Computes(cell, t), NEW n, InOrder(cell, p, t, n),
           NEW in, Brings(cell, t, n, in), NEW b \in Buffers(cell)
    PROVE  NextIs(Entering(cell, p, ready, in, b), t.at[b].token, n.at[b])
<1> DEFINE e == Entering(cell, p, ready, in, b)
<1>1. CASE b \in Sides
  <2>1. b \in DOMAIN cell.to
    BY <1>1 DEF Buffers, Sides, Operands
  <2>2. NextIs(in[b], t.at[b].token, n.at[b])
    BY <2>1 DEF Brings
  <2>3. e = in[b] \/ e = <<>>
    BY <1>1 DEF Entering, BufferIn
  <2> QED BY <2>2, <2>3 DEF NextIs, Wire
<1>2. CASE b \notin Sides
  <2>1. b \in Operands /\ cell.op[b] # "none"
    BY <1>2 DEF Buffers, IsConfiguration
  <2>2. CASE cell.op[b] \in Holders(cell)
    <3>1. e = Selected(cell, p, ready, cell.op[b])
      BY <2>1, <2>2, OperandEnters
    <3>2. t.at[b] = Carried(t, cell.op[b]) /\ n.at[b] = Left(p, n, cell.op[b])
      BY <2>1, <2>2 DEF Computes, InOrder
    <3>3. NextIs(Selected(cell, p, ready, cell.op[b]), Carried(t, cell.op[b]).token,
                 Left(p, n, cell.op[b]))
      BY <2>2, LeavesInOrder
    <3> QED BY <3>1, <3>2, <3>3
  <2>3. CASE cell.op[b] = "I1"
    <3>1. BufferIn(cell, p, ready, in, b) = <<cell.const>>
      BY <1>2, <2>3 DEF BufferIn, Selected, Sides
    <3>2. e = <<cell.const>> \/ e = <<>>
      BY <3>1 DEF Entering
    <3>3. n.at[b] + 1 \in Nat
      BY DEF InOrder, Queued
    <3>4. t.at[b].token[n.at[b] + 1] = cell.const
      BY <2>1, <2>3, <3>3 DEF Computes
    <3>5. cell.const \in Int
      BY DEF IsConfiguration
    <3> HIDE DEF e
    <3>6. NextIs(e, t.at[b].token, n.at[b])
      BY <3>2, <3>4, <3>5 DEF NextIs, Wire
    <3> QED BY <3>6 DEF e
  <2> QED BY <2>1, <2>2, <2>3 DEF Steady
<1> QED BY <1>1, <1>2

\* A buffer after a cycle.
Gone(cell, p, ready, b) == IF BufferTaken(cell, p, ready, b) /\ p.buf[b].q # <<>> THEN 1 ELSE 0

LEMMA BufferInOrder ==
    ASSUME NEW cell, IsConfiguration(cell), Steady(cell), NEW p, PeTypeOK(cell, p), NEW ready,
           NEW t, Computes(cell, t), NEW n, InOrder(cell, p, t, n),
           NEW in, Brings(cell, t, n, in), NEW b \in Buffers(cell)
    PROVE  LET next == PeTick(cell, p, ready, in).buf[b].q
               more == NextCounts(cell, p, ready, in, n).at[b]
           IN  /\ Queued(next, t.at[b].token, more)
               /\ more - Len(next) = n.at[b] - Len(p.buf[b].q) + Gone(cell, p, ready, b)
<1> DEFINE q    == p.buf[b].q
           e    == Entering(cell, p, ready, in, b)
           left == IF BufferTaken(cell, p, ready, b) /\ q # <<>> THEN Tail(q) ELSE q
           f    == t.at[b].token
           k    == n.at[b]
<1>1. PeTick(cell, p, ready, in).buf[b].q = left \o e
  BY DEF PeTick, BufferTick, Entering
<1>2. NextCounts(cell, p, ready, in, n).at[b] = k + Len(e)
  BY DEF NextCounts
<1>3. NextIs(e, f, k)
  BY EntersInOrder
<1>4. q \in Seq(Int)
  BY DEF PeTypeOK, Fits
<1>5. Queued(q, f, k)
  BY DEF InOrder
<1>6. left \in Seq(Int) /\ Len(left) = Len(q) - Gone(cell, p, ready, b) /\ Queued(left, f, k)
  <2>1. CASE BufferTaken(cell, p, ready, b) /\ q # <<>>
    <3>1. left = Tail(q) /\ Gone(cell, p, ready, b) = 1
      BY <2>1 DEF Gone
    <3>2. Tail(q) \in Seq(Int) /\ Len(Tail(q)) = Len(q) - 1 /\ Queued(Tail(q), f, k)
      BY <1>4, <1>5, <2>1, QueueTail
    <3> QED BY <3>1, <3>2
  <2>2. CASE ~(BufferTaken(cell, p, ready, b) /\ q # <<>>)
    <3>1. left = q /\ Gone(cell, p, ready, b) = 0
      BY <2>2 DEF Gone
    <3>2. Len(q) \in Nat /\ Len(q) - 0 = Len(q)
      BY <1>4
    <3> HIDE DEF q, left, f, k
    <3> QED BY <3>1, <3>2, <1>4, <1>5
  <2> QED BY <2>1, <2>2
<1>7. Len(left \o e) = Len(left) + Len(e) /\ Queued(left \o e, f, k + Len(e))
  <2> HIDE DEF left, e, f, k
  <2> QED BY <1>3, <1>6, QueueJoin
<1>8. Gone(cell, p, ready, b) \in Int /\ Len(q) \in Int /\ Len(e) \in Int /\ k \in Int
  <2>1. Len(e) \in Int
    BY <1>3, WireIsSeq DEF NextIs
  <2> QED BY <1>4, <1>5, <2>1 DEF Gone, Queued
<1>9. k + Len(e) - Len(left \o e) = k - Len(q) + Gone(cell, p, ready, b)
  <2> HIDE DEF left, e, f, k, q, Gone
  <2> QED BY <1>6, <1>7, <1>8
<1> DEFINE next == PeTick(cell, p, ready, in).buf[b].q
           more == NextCounts(cell, p, ready, in, n).at[b]
<1>10. Queued(next, f, more) /\ more - Len(next) = k - Len(q) + Gone(cell, p, ready, b)
  <2> HIDE DEF left, e, f, k, q, Gone, next, more
  <2>1. next = left \o e /\ more = k + Len(e)
    BY <1>1, <1>2 DEF next, more, left, e, q, k
  <2>2. Queued(next, f, more)
    BY <2>1, <1>7
  <2>3. more - Len(next) = k - Len(q) + Gone(cell, p, ready, b)
    <3>1. Len(left) \in Int /\ Len(left \o e) = Len(left) + Len(e)
      BY <1>6, <1>7
    <3>2. more = k + Len(e) /\ Len(next) = Len(left) + Len(e)
      BY <2>1, <3>1
    <3>3. Len(left) = Len(q) - Gone(cell, p, ready, b)
      BY <1>6
    <3>4. Len(q) \in Int /\ Gone(cell, p, ready, b) \in Int /\ k \in Int /\ Len(e) \in Int
      BY <1>8
    <3>5. \A x, y, z, g \in Int : (x + y) - ((z - g) + y) = (x - z) + g
      OBVIOUS
    <3>6. more - (Len(left) + Len(e)) = (k - Len(q)) + Gone(cell, p, ready, b)
      BY <3>2, <3>3, <3>4, <3>5
    <3> QED BY <3>2, <3>6
  <2> QED BY <2>2, <2>3
<1> QED BY <1>10

\* What a PE consumes leaves where it was in the cycle that registers the result.
LEMMA ConsumedKinds ==
    ASSUME NEW cell, IsConfiguration(cell), Steady(cell), NEW x \in Consumed(cell)
    PROVE  /\ x \in Buffers(cell) /\ x # "dout"
           /\ \/ x \in Operands /\ x \notin Sides
              \/ x = cell.op["c"] /\ cell.mode = "mux" /\ x \in DOMAIN cell.to /\ x \in Sides
<1>1. CASE x \in Operands /\ x \in Buffers(cell)
  BY <1>1 DEF Operands, Sides
<1>2. CASE x = cell.op["c"] /\ cell.mode = "mux"
  BY <1>2 DEF Steady, IsConfiguration, Buffers, Sides
<1> QED BY <1>1, <1>2 DEF Consumed

LEMMA FiresTogether ==
    ASSUME NEW cell, IsConfiguration(cell), Steady(cell), NEW p, Fresh(p), p.primed,
           DOMAIN p.buf = Buffers(cell), NEW ready, NEW x \in Consumed(cell)
    PROVE  Gone(cell, p, ready, x) = IF Registers(cell, p, ready) THEN 1 ELSE 0
<1>1. x \in Buffers(cell)
  BY ConsumedKinds
<1>2. CASE x \in Operands /\ x \notin Sides
  <2>1. BufferTaken(cell, p, ready, x) <=> Takes(cell, p, ready, x)
    BY <1>2 DEF BufferTaken
  <2>2. Has(p, x) <=> p.buf[x].q # <<>>
    BY <1>1 DEF Has
  <2>3. Registers(cell, p, ready) <=> Takes(cell, p, ready, x) /\ Has(p, x)
    BY <1>2 DEF Registers, Takes, Fires, Steady, Operands
  <2> QED BY <2>1, <2>2, <2>3 DEF Gone
<1>3. CASE x = cell.op["c"] /\ cell.mode = "mux" /\ x \in DOMAIN cell.to /\ x \in Sides
  <2>1. BufferTaken(cell, p, ready, x) <=> ForkReady(cell, p, ready, x)
    BY <1>3 DEF BufferTaken
  <2>2. Control(cell, p, ready) # <<>> <=> ForkReady(cell, p, ready, x) /\ p.buf[x].q # <<>>
    BY <1>3 DEF Control, FromSide, First
  <2>3. Registers(cell, p, ready) => Control(cell, p, ready) # <<>>
    BY <1>3 DEF Registers, Fires
  <2>4. Control(cell, p, ready) # <<>> => Registers(cell, p, ready)
    BY <1>3, ControlIsUsed DEF Steady
  <2> QED BY <2>1, <2>2, <2>3, <2>4 DEF Gone
<1> QED BY <1>2, <1>3, ConsumedKinds

\* What left a buffer.
LEMMA LeftBuffer ==
    ASSUME NEW cell, IsConfiguration(cell), Steady(cell), NEW p, PeTypeOK(cell, p), NEW ready,
           NEW t, Computes(cell, t), NEW n, InOrder(cell, p, t, n),
           NEW in, Brings(cell, t, n, in), NEW x \in Buffers(cell), x # "dout"
    PROVE  /\ Left(PeTick(cell, p, ready, in), NextCounts(cell, p, ready, in, n), x)
                = Left(p, n, x) + Gone(cell, p, ready, x)
           /\ Left(p, n, x) \in Nat
<1> DEFINE next == PeTick(cell, p, ready, in)
           more == NextCounts(cell, p, ready, in, n)
<1>1. more.at[x] - Len(next.buf[x].q) = n.at[x] - Len(p.buf[x].q) + Gone(cell, p, ready, x)
  BY BufferInOrder
<1>2. /\ Left(next, more, x) = more.at[x] - Len(next.buf[x].q)
      /\ Left(p, n, x) = n.at[x] - Len(p.buf[x].q)
  BY DEF Left, Carried, Here
<1>3. p.buf[x].q \in Seq(Int) /\ Queued(p.buf[x].q, t.at[x].token, n.at[x])
  BY DEF PeTypeOK, Fits, InOrder
<1>4. n.at[x] \in Nat /\ Len(p.buf[x].q) \in Nat /\ Len(p.buf[x].q) <= n.at[x]
  BY <1>3 DEF Queued
<1> HIDE DEF next, more
<1>5. Left(p, n, x) \in Nat
  BY <1>2, <1>4
<1> QED BY <1>1, <1>2, <1>5 DEF next, more

\* The tokens that left the function unit.
LEMMA LeftUnit ==
    ASSUME NEW cell, NEW p, PeTypeOK(cell, p), NEW ready, NEW t, NEW n, InOrder(cell, p, t, n), NEW in
    PROVE  Left(PeTick(cell, p, ready, in), NextCounts(cell, p, ready, in, n), "dout")
              = Left(p, n, "dout") + (IF p.v /\ FuReady(cell, p, ready) THEN 1 ELSE 0)
<1> DEFINE next == PeTick(cell, p, ready, in)
           more == NextCounts(cell, p, ready, in, n)
<1>1. /\ Left(next, more, "dout") = more.unit - (IF next.v THEN 1 ELSE 0)
      /\ Left(p, n, "dout") = n.unit - (IF p.v THEN 1 ELSE 0)
  BY DEF Left, Carried, Here
<1>2. n.unit \in Nat
  BY DEF InOrder
<1>3. CASE ~p.primed
  <2>1. ~p.v /\ n.unit = 0
    BY <1>3 DEF InOrder
  <2>2. more.unit = Begins(cell) /\ next.v = cell.starts
    BY <1>3 DEF NextCounts, PeTick, FirstToken
  <2>3. more.unit - (IF next.v THEN 1 ELSE 0) = 0
    BY <2>2 DEF Begins
  <2> QED BY <1>1, <2>1, <2>3
<1>4. CASE p.primed /\ FuReady(cell, p, ready)
  <2>1. Registers(cell, p, ready) <=> Fires(cell, p, ready)
    BY <1>4 DEF Registers
  <2>2. next.v = Fires(cell, p, ready)
    BY <1>4 DEF PeTick
  <2>3. more.unit = n.unit + (IF Fires(cell, p, ready) THEN 1 ELSE 0)
    BY <1>4, <2>1 DEF NextCounts
  <2>4. more.unit - (IF next.v THEN 1 ELSE 0) = n.unit
    BY <1>2, <2>2, <2>3
  <2> QED BY <1>1, <1>2, <1>4, <2>4
<1>5. CASE p.primed /\ ~FuReady(cell, p, ready)
  <2>1. more.unit = n.unit /\ next.v = p.v
    BY <1>2, <1>5 DEF NextCounts, PeTick, Registers
  <2> QED BY <1>1, <1>2, <1>5, <2>1
<1> QED BY <1>3, <1>4, <1>5

\* A holder hands on one token in a cycle in which it sends, and none in others.
LEMMA LeftNext ==
    ASSUME NEW cell, IsConfiguration(cell), Steady(cell), NEW p, PeTypeOK(cell, p), NEW ready,
           NEW t, Computes(cell, t), NEW n, InOrder(cell, p, t, n),
           NEW in, Brings(cell, t, n, in), NEW x \in Holders(cell)
    PROVE  Left(PeTick(cell, p, ready, in), NextCounts(cell, p, ready, in, n), x)
              = Left(p, n, x) + Len(Selected(cell, p, ready, x))
<1>1. CASE x = "dout"
  <2>1. Selected(cell, p, ready, x) = FromUnit(cell, p, ready)
    BY <1>1 DEF Selected, Sides
  <2>2. Len(Selected(cell, p, ready, x)) = IF p.v /\ FuReady(cell, p, ready) THEN 1 ELSE 0
    <3>1. Len(<<p.dout>>) = 1 /\ Len(<<>>) = 0
      OBVIOUS
    <3> QED BY <2>1, <3>1 DEF FromUnit
  <2>3. Left(PeTick(cell, p, ready, in), NextCounts(cell, p, ready, in, n), "dout")
          = Left(p, n, "dout") + (IF p.v /\ FuReady(cell, p, ready) THEN 1 ELSE 0)
    BY LeftUnit
  <2> QED BY <1>1, <2>2, <2>3
<1>2. CASE x # "dout"
  <2>1. x \in DOMAIN cell.to /\ x \in Sides /\ x \in Buffers(cell)
    BY <1>2, HolderKinds
  <2>2. Selected(cell, p, ready, x) = FromSide(cell, p, ready, x)
    BY <2>1 DEF Selected, Sides
  <2>3. Len(Selected(cell, p, ready, x)) = Gone(cell, p, ready, x)
    <3>1. BufferTaken(cell, p, ready, x) <=> ForkReady(cell, p, ready, x)
      BY <2>1 DEF BufferTaken
    <3>2. Selected(cell, p, ready, x) = <<>> <=> ~(ForkReady(cell, p, ready, x) /\ p.buf[x].q # <<>>)
      BY <2>1, <2>2 DEF FromSide, First
    <3>3. Len(Selected(cell, p, ready, x)) = IF Selected(cell, p, ready, x) = <<>> THEN 0 ELSE 1
      BY HolderWire
    <3> QED BY <3>1, <3>2, <3>3 DEF Gone
  <2> QED BY <1>2, <2>1, <2>3, LeftBuffer
<1> QED BY <1>1, <1>2

\* What the function unit makes of the operands it finds is what the labels say.
LEMMA ResultInOrder ==
    ASSUME NEW cell, IsConfiguration(cell), Steady(cell), NEW p, PeTypeOK(cell, p), Fresh(p),
           NEW ready, NEW t, Computes(cell, t), NEW n, InOrder(cell, p, t, n),
           Registers(cell, p, ready)
    PROVE  Result(cell, p, ready) = t.unit.token[n.unit + 1]
<1> DEFINE i == n.unit - Begins(cell) + 1
<1>1. p.primed /\ Has(p, "1") /\ Has(p, "2") /\ Operands \subseteq Buffers(cell)
  BY DEF Registers, Fires, Steady, Has, Operands, PeTypeOK
<1>2. \A x \in Consumed(cell) : n.unit = Left(p, n, x) + Begins(cell)
  BY <1>1 DEF InOrder
<1>3. ASSUME NEW x \in Consumed(cell)
      PROVE  /\ p.buf[x].q # <<>> => Head(p.buf[x].q) = t.at[x].token[i]
             /\ i \in Nat \ {0}
  <2>1. x \in Buffers(cell) /\ x # "dout"
    BY ConsumedKinds
  <2>2. p.buf[x].q \in Seq(Int) /\ Queued(p.buf[x].q, t.at[x].token, n.at[x])
    BY <2>1 DEF PeTypeOK, Fits, InOrder
  <2>3. n.at[x] \in Nat /\ Len(p.buf[x].q) \in Nat /\ Len(p.buf[x].q) <= n.at[x]
    BY <2>2 DEF Queued
  <2>4. Left(p, n, x) = n.at[x] - Len(p.buf[x].q)
    BY <2>1 DEF Left, Carried, Here
  <2>5. n.unit \in Nat /\ Begins(cell) \in Nat
    BY DEF InOrder, Begins
  <2>6. n.at[x] - Len(p.buf[x].q) + 1 = i /\ i \in Nat \ {0}
    <3>1. n.unit = (n.at[x] - Len(p.buf[x].q)) + Begins(cell)
      BY <1>2, <2>4
    <3> DEFINE l == n.at[x] - Len(p.buf[x].q)
    <3>2. l \in Nat
      BY <2>3
    <3>3. n.unit = l + Begins(cell)
      BY <3>1
    <3> HIDE DEF l
    <3>4. l + 1 = i /\ i \in Nat /\ i # 0
      BY <3>2, <3>3, <2>5
    <3> QED BY <3>4 DEF l
  <2>7. p.buf[x].q # <<>> =>
          Head(p.buf[x].q) = t.at[x].token[n.at[x] - Len(p.buf[x].q) + 1]
    BY <2>2, QueueHead
  <2> QED BY <2>6, <2>7
<1>4. "1" \in Consumed(cell) /\ "2" \in Consumed(cell)
  BY <1>1 DEF Consumed, Operands
<1>5. Operand(p, "1") = t.at["1"].token[i] /\ Operand(p, "2") = t.at["2"].token[i]
      /\ i \in Nat \ {0}
  BY <1>1, <1>3, <1>4 DEF Operand, Has
<1>6. cell.res = "mux" => (PicksSecond(cell, p, ready) <=> t.at[cell.op["c"]].token[i] % 2 = 1)
  <2> SUFFICES ASSUME cell.res = "mux"
               PROVE  PicksSecond(cell, p, ready) <=> t.at[cell.op["c"]].token[i] % 2 = 1
    OBVIOUS
  <2> DEFINE x == cell.op["c"]
  <2>1. cell.mode = "mux" /\ x \in Consumed(cell)
    BY DEF Steady, Consumed
  <2>2. Control(cell, p, ready) # <<>>
    BY <2>1 DEF Registers, Fires
  <2>3. Control(cell, p, ready) = <<Head(p.buf[x].q)>> /\ p.buf[x].q # <<>>
    BY <2>2 DEF Control, FromSide, First
  <2>4. Head(Control(cell, p, ready)) = Head(p.buf[x].q)
    BY <2>3
  <2>5. Head(p.buf[x].q) = t.at[x].token[i]
    BY <2>1, <2>3, <1>3
  <2> QED BY <2>1, <2>2, <2>4, <2>5 DEF PicksSecond
<1>7. Result(cell, p, ready)
        = Value(cell, t.at["1"].token[i], t.at["2"].token[i], t.at[cell.op["c"]].token[i])
  <2>1. ~cell.feedback
    BY DEF Steady
  <2> HIDE DEF i
  <2> QED BY <1>5, <1>6, <2>1 DEF Result, Value
<1>8. i + Begins(cell) = n.unit + 1
  BY DEF InOrder, Begins
<1>9. t.unit.token[i + Begins(cell)]
        = Value(cell, t.at["1"].token[i], t.at["2"].token[i], t.at[cell.op["c"]].token[i])
  <2> HIDE DEF i
  <2> QED BY <1>1, <1>5 DEF Computes
<1> QED BY <1>7, <1>8, <1>9

\* A PE stays in order.
LEMMA TickInOrder ==
    ASSUME NEW cell, IsConfiguration(cell), Steady(cell), NEW p, PeTypeOK(cell, p), Fresh(p),
           NEW ready, NEW t, Computes(cell, t), NEW n, InOrder(cell, p, t, n),
           NEW in, Brings(cell, t, n, in)
    PROVE  InOrder(cell, PeTick(cell, p, ready, in), t, NextCounts(cell, p, ready, in, n))
<1> DEFINE next == PeTick(cell, p, ready, in)
           more == NextCounts(cell, p, ready, in, n)
<1>1. next.primed /\ DOMAIN more.at = Buffers(cell) /\ DOMAIN p.buf = Buffers(cell)
  BY DEF PeTick, NextCounts, PeTypeOK
<1>2. \A b \in Buffers(cell) : Queued(next.buf[b].q, t.at[b].token, more.at[b])
  BY BufferInOrder
<1>3. n.unit \in Nat /\ Begins(cell) \in Nat
  BY DEF InOrder, Begins
<1>4. more.unit = IF p.primed THEN n.unit + (IF Registers(cell, p, ready) THEN 1 ELSE 0)
                  ELSE Begins(cell)
  BY DEF NextCounts
<1>5. more.unit \in Nat
  BY <1>3, <1>4
<1>6. next.v => more.unit > 0 /\ next.dout = t.unit.token[more.unit]
  <2> SUFFICES ASSUME next.v PROVE more.unit > 0 /\ next.dout = t.unit.token[more.unit]
    OBVIOUS
  <2>1. CASE ~p.primed
    <3>1. cell.starts /\ next.dout = cell.init
      BY <2>1 DEF PeTick, FirstToken
    <3>2. more.unit = 1
      BY <2>1, <3>1, <1>4 DEF Begins
    <3> QED BY <3>1, <3>2 DEF Computes
  <2>2. CASE p.primed /\ Registers(cell, p, ready)
    <3>1. next.dout = Result(cell, p, ready)
      BY <2>2 DEF PeTick, Registers
    <3>2. more.unit = n.unit + 1
      BY <2>2, <1>4
    <3>3. Result(cell, p, ready) = t.unit.token[n.unit + 1]
      BY <2>2, ResultInOrder
    <3> QED BY <1>3, <3>1, <3>2, <3>3
  <2>3. CASE p.primed /\ ~Registers(cell, p, ready)
    <3>1. ~FuReady(cell, p, ready) /\ p.v
      BY <2>3 DEF PeTick, Registers
    <3>2. next.dout = p.dout /\ more.unit = n.unit
      BY <2>3, <3>1, <1>3, <1>4 DEF PeTick
    <3> QED BY <3>1, <3>2 DEF InOrder
  <2> QED BY <2>1, <2>2, <2>3
<1>7. \A x \in Consumed(cell) : more.unit = Left(next, more, x) + Begins(cell)
  <2> SUFFICES ASSUME NEW x \in Consumed(cell) PROVE more.unit = Left(next, more, x) + Begins(cell)
    OBVIOUS
  <2>1. x \in Buffers(cell) /\ x # "dout"
    BY ConsumedKinds
  <2>2. Left(next, more, x) = Left(p, n, x) + Gone(cell, p, ready, x) /\ Left(p, n, x) \in Nat
    BY <2>1, LeftBuffer
  <2>3. n.unit = Left(p, n, x) + (IF p.primed THEN Begins(cell) ELSE 0)
    BY DEF InOrder
  <2> HIDE DEF next, more
  <2>4. CASE p.primed
    <3>1. Gone(cell, p, ready, x) = IF Registers(cell, p, ready) THEN 1 ELSE 0
      BY <2>4, <1>1, FiresTogether
    <3> QED BY <2>2, <2>3, <2>4, <3>1, <1>3, <1>4
  <2>5. CASE ~p.primed
    <3>1. p.buf[x].q = <<>>
      BY <2>1, <2>5, <1>1 DEF Fresh
    <3>2. Gone(cell, p, ready, x) = 0
      BY <3>1 DEF Gone
    <3>3. Left(p, n, x) = 0
      BY <2>2, <2>3, <2>5 DEF InOrder
    <3> QED BY <2>2, <2>5, <3>2, <3>3, <1>3, <1>4
  <2> QED BY <2>4, <2>5
<1>8. ASSUME NEW o \in Operands, cell.op[o] \in Holders(cell)
      PROVE  more.at[o] = Left(next, more, cell.op[o])
  <2>1. o \in Buffers(cell)
        /\ Entering(cell, p, ready, in, o) = Selected(cell, p, ready, cell.op[o])
    BY <1>8, OperandEnters
  <2>2. more.at[o] = n.at[o] + Len(Selected(cell, p, ready, cell.op[o]))
    BY <2>1 DEF NextCounts
  <2>3. n.at[o] = Left(p, n, cell.op[o])
    BY <1>8 DEF InOrder
  <2>4. Left(next, more, cell.op[o])
          = Left(p, n, cell.op[o]) + Len(Selected(cell, p, ready, cell.op[o]))
    BY <1>8, LeftNext
  <2> QED BY <2>2, <2>3, <2>4
<1> HIDE DEF next, more
<1> QED BY <1>1, <1>2, <1>5, <1>6, <1>7, <1>8 DEF InOrder, next, more

-----------------------------------------------------------------------------
(* The array                                                               *)

\* A wire that enters the array, and one that comes from another PE.
Outside(p, b) == b = "N" /\ p[2] = 0
Fed(cells, p, b) ==
    /\ ~Outside(p, b) /\ Sender(p, b)[1] \in DOMAIN cells
    /\ cells[Sender(p, b)[1]].out[Sender(p, b)[2]] # "none"
FedFrom(cells, p, b) == cells[Sender(p, b)[1]].out[Sender(p, b)[2]]

\* The i-th token of a stream needs the i-th word of its columns.
Depends(cell, t) ==
    /\ \A b \in Buffers(cell) : t.at[b].of \subseteq Columns
    /\ \A o \in Operands : cell.op[o] = "I1" => t.at[o].of = {}
    /\ t.unit.of \subseteq Columns
    /\ \A d \in t.unit.of : ~cell.starts /\ \E o \in Operands \cap Buffers(cell) : d \in t.at[o].of

\* t labels an array: its PEs compute their streams from those that they
\* receive, and its columns receive the words of input.
Labels(cells, input, t) ==
    \A p \in DOMAIN cells :
        /\ Steady(cells[p]) /\ Computes(cells[p], t[p]) /\ Depends(cells[p], t[p])
        /\ \A b \in DOMAIN cells[p].to :
             /\ Outside(p, b) => /\ t[p].at[b].of \subseteq {p[1]}
                                 /\ \A i \in 1 .. Len(input[p[1]]) :
                                        t[p].at[b].token[i] = input[p[1]][i]
             /\ Fed(cells, p, b) =>
                    t[p].at[b] = Carried(t[Sender(p, b)[1]], FedFrom(cells, p, b))

\* n counts in every PE; what entered on a wire is what left at its other end.
Flow(t, n) ==
    /\ \A p \in PEs : InOrder(conf[p], pe[p], t[p], n[p])
    /\ \A p \in PEs : \A b \in DOMAIN conf[p].to :
         n[p].at[b] =
            IF Outside(p, b) THEN got[p[1]]
            ELSE IF Fed(conf, p, b)
            THEN LET q == Sender(p, b)[1] IN Left(pe[q], n[q], FedFrom(conf, p, b))
            ELSE 0

\* No place has seen more tokens than the columns have given words.
Backed(t, n) ==
    \A p \in PEs :
        /\ \A b \in Buffers(conf[p]) : \A d \in t[p].at[b].of : n[p].at[b] <= got[d]
        /\ \A d \in t[p].unit.of : n[p].unit <= got[d]

\* What a column delivers, and what it has delivered.
Delivers(c) == conf[<<c, 3>>].out["S"]
Delivered(t, n) ==
    \A c \in Columns :
        IF c \in Delivering
        THEN /\ put[c] \in Seq(Int)
             /\ Len(put[c]) = Left(pe[<<c, 3>>], n[<<c, 3>>], Delivers(c))
             /\ \A i \in 1 .. Len(put[c]) :
                    put[c][i] = Carried(t[<<c, 3>>], Delivers(c)).token[i]
        ELSE put[c] = <<>>

LEMMA WireEnds ==
    ASSUME NEW p \in Columns \X Rows, NEW b \in Sides, ~Outside(p, b),
           Sender(p, b)[1] \in Columns \X Rows
    PROVE  /\ Receiver(Sender(p, b)[1], Sender(p, b)[2]) = <<p, b>>
           /\ Sender(p, b)[2] \in Sides
           /\ ~(Sender(p, b)[2] = "S" /\ Sender(p, b)[1][2] = 3)
<1>0. PICK c \in 0 .. 3, r \in 0 .. 3 : p = <<c, r>>
  BY DEF Columns, Rows
<1>1. CASE b = "N"
  <2>1. Sender(p, b) = <<<<c, r - 1>>, "S">>
    BY <1>0, <1>1 DEF Sender
  <2> QED BY <1>0, <1>1, <2>1 DEF Receiver, Sides
<1>2. CASE b = "S"
  <2>1. Sender(p, b) = <<<<c, r + 1>>, "N">>
    BY <1>0, <1>2 DEF Sender
  <2> QED BY <1>0, <1>2, <2>1 DEF Receiver, Sides
<1>3. CASE b = "E" /\ c < 3
  <2>1. Sender(p, b) = <<<<c + 1, r>>, "W">>
    BY <1>0, <1>3 DEF Sender
  <2> QED BY <1>0, <1>3, <2>1 DEF Receiver, Sides
<1>4. CASE b = "E" /\ ~(c < 3)
  <2>1. Sender(p, b) = <<<<c, r - 1>>, "E">>
    BY <1>0, <1>4 DEF Sender
  <2> QED BY <1>0, <1>4, <2>1 DEF Receiver, Sides
<1>5. CASE b = "W" /\ c > 0
  <2>1. Sender(p, b) = <<<<c - 1, r>>, "E">>
    BY <1>0, <1>5 DEF Sender
  <2> QED BY <1>0, <1>5, <2>1 DEF Receiver, Sides
<1>6. CASE b = "W" /\ ~(c > 0)
  <2>1. Sender(p, b) = <<<<c, r - 1>>, "W">>
    BY <1>0, <1>6 DEF Sender
  <2> QED BY <1>0, <1>6, <2>1 DEF Receiver, Sides
<1> QED BY <1>1, <1>2, <1>3, <1>4, <1>5, <1>6 DEF Sides

InFlow(t, n) ==
    /\ TypeOK /\ LostInv /\ Labels(conf, Jobs[job].input, t)
    /\ Flow(t, n) /\ Backed(t, n) /\ Delivered(t, n)

Wires(O, R) == In(Out(Ready(R)), O)
MoreCounts(O, R, n) ==
    [p \in PEs |-> NextCounts(conf[p], pe[p], Ready(R)[p], Wires(O, R)[p], n[p])]

\* What holds of each PE.
LEMMA PlaceFacts ==
    ASSUME NEW t, NEW n, InFlow(t, n), NEW p \in PEs
    PROVE  /\ IsConfiguration(conf[p]) /\ PeTypeOK(conf[p], pe[p]) /\ Fresh(pe[p])
           /\ DOMAIN pe[p].buf = Buffers(conf[p])
           /\ Steady(conf[p]) /\ Computes(conf[p], t[p]) /\ Depends(conf[p], t[p])
           /\ InOrder(conf[p], pe[p], t[p], n[p])
           /\ p \in Columns \X Rows /\ DOMAIN conf[p].to \subseteq Sides
<1>1. job \in DOMAIN Jobs /\ conf = Cells[job] /\ p \in DOMAIN conf
  BY DEF InFlow, TypeOK, PEs
<1>2. IsConfiguration(conf[p]) /\ p \in Columns \X Rows
  BY <1>1, CellsAssumption
<1>3. PeTypeOK(conf[p], pe[p]) /\ Fresh(pe[p]) /\ DOMAIN pe[p].buf = Buffers(conf[p])
  BY DEF InFlow, TypeOK, LostInv
<1>4. Steady(conf[p]) /\ Computes(conf[p], t[p]) /\ Depends(conf[p], t[p])
  BY <1>1 DEF InFlow, Labels
<1>5. InOrder(conf[p], pe[p], t[p], n[p])
  BY DEF InFlow, Flow
<1> QED BY <1>2, <1>3, <1>4, <1>5 DEF IsConfiguration

\* What a wire from another PE brings, and that it is captured.
LEMMA FedWire ==
    ASSUME NEW t, NEW n, InFlow(t, n), NEW O, NEW R, NEW p \in PEs, NEW b \in DOMAIN conf[p].to,
           Fed(conf, p, b)
    PROVE  LET q == Sender(p, b)[1]
               x == FedFrom(conf, p, b)
           IN  /\ q \in PEs /\ x \in Holders(conf[q])
               /\ Wires(O, R)[p][b] = Selected(conf[q], pe[q], Ready(R)[q], x)
               /\ Wires(O, R)[p][b] # <<>> => pe[p].buf[b].ready
<1> DEFINE q == Sender(p, b)[1]
           s == Sender(p, b)[2]
           x == FedFrom(conf, p, b)
<1>1. q \in PEs /\ ~Outside(p, b) /\ x # "none" /\ x = conf[q].out[s]
  BY DEF Fed, FedFrom, PEs
<1>2. p \in Columns \X Rows /\ q \in Columns \X Rows /\ b \in Sides
  BY <1>1, PlaceFacts
<1>3. Receiver(q, s) = <<p, b>> /\ s \in Sides /\ ~(s = "S" /\ q[2] = 3)
  BY <1>1, <1>2, WireEnds
<1>4. Steady(conf[q]) /\ IsConfiguration(conf[q]) /\ DOMAIN pe[p].buf = Buffers(conf[p])
  BY <1>1, PlaceFacts
<1>5. x \in Holders(conf[q])
  BY <1>1, <1>3, <1>4 DEF Steady
<1>6. Wires(O, R)[p][b] = Selected(conf[q], pe[q], Ready(R)[q], x)
  <2>1. Wires(O, R)[p][b] = Out(Ready(R))[q][s]
    BY <1>1, <1>2 DEF Wires, In, Outside
  <2>2. Out(Ready(R))[q][s] = Selected(conf[q], pe[q], Ready(R)[q], conf[q].out[s])
    BY <1>1, <1>3 DEF Out
  <2> QED BY <2>1, <2>2, <1>1
<1>7. ASSUME Wires(O, R)[p][b] # <<>> PROVE pe[p].buf[b].ready
  <2>1. Ready(R)[q][s]
    <3>1. WellRouted(conf[q]) /\ Selected(conf[q], pe[q], Ready(R)[q], conf[q].out[s]) # <<>>
      BY <1>1, <1>4, <1>6, <1>7 DEF Steady
    <3> QED BY <3>1, <1>3, <1>4, WireKept
  <2>2. Ready(R)[q][s] = BufferReady(Receiver(q, s)[1], Receiver(q, s)[2])
    BY <1>1, <1>3 DEF Ready
  <2>3. Ready(R)[q][s] = BufferReady(p, b)
    BY <2>2, <1>3
  <2> QED BY <2>1, <2>3 DEF BufferReady
<1> QED BY <1>1, <1>5, <1>6, <1>7

\* What a column is offered.
Supplied(O, c) == IF c \in O THEN <<NextWord(c)>> ELSE <<>>

LEMMA OutsideWire ==
    ASSUME NEW t, NEW n, InFlow(t, n), NEW O \in SUBSET Waiting, NEW R, NEW p \in PEs,
           NEW b \in DOMAIN conf[p].to, Outside(p, b)
    PROVE  /\ p[1] \in Columns /\ p = <<p[1], 0>> /\ b = "N"
           /\ Wires(O, R)[p][b] = Supplied(O, p[1])
           /\ NextIs(Supplied(O, p[1]), t[p].at[b].token, got[p[1]])
<1>1. p \in Columns \X Rows /\ b = "N" /\ p[2] = 0 /\ b \in Sides
  BY PlaceFacts DEF Outside
<1>2. p[1] \in Columns /\ p = <<p[1], 0>>
  BY <1>1
<1>3. Wires(O, R)[p][b] = Supplied(O, p[1])
  BY <1>1 DEF Wires, In, Supplied
<1>4. ASSUME p[1] \in O
      PROVE  NextWord(p[1]) = t[p].at[b].token[got[p[1]] + 1] /\ NextWord(p[1]) \in Int
  <2> DEFINE words == Jobs[job].input[p[1]]
             k     == got[p[1]]
  <2>1. k \in Nat /\ k < Len(words) /\ words \in Seq(Int)
    BY <1>2, <1>4, InputAssumption DEF InFlow, TypeOK, Waiting
  <2>2. \A i \in 1 .. Len(words) : t[p].at[b].token[i] = words[i]
    BY DEF InFlow, Labels, PEs
  <2>3. NextWord(p[1]) = words[k + 1]
    BY DEF NextWord
  <2> HIDE DEF words, k
  <2>4. k + 1 \in 1 .. Len(words) /\ words[k + 1] \in Int
    BY <2>1
  <2> QED BY <2>2, <2>3, <2>4 DEF k
<1>5. NextIs(Supplied(O, p[1]), t[p].at[b].token, got[p[1]])
  BY <1>4 DEF NextIs, Wire, Supplied
<1> QED BY <1>1, <1>2, <1>3, <1>5

LEMMA DeadWire ==
    ASSUME NEW t, NEW n, InFlow(t, n), NEW O, NEW R, NEW p \in PEs, NEW b \in DOMAIN conf[p].to,
           ~Outside(p, b), ~Fed(conf, p, b)
    PROVE  Wires(O, R)[p][b] = <<>>
<1> DEFINE q == Sender(p, b)[1]
           s == Sender(p, b)[2]
<1>1. b \in Sides /\ p \in Columns \X Rows
  BY PlaceFacts
<1>2. CASE q \notin PEs
  BY <1>1, <1>2 DEF Wires, In, Outside
<1>3. CASE q \in PEs
  <2>1. conf[q].out[s] = "none" /\ q \in Columns \X Rows
    BY <1>3, PlaceFacts DEF Fed, PEs
  <2>2. s \in Sides
    BY <1>1, <2>1, WireEnds
  <2>3. Wires(O, R)[p][b] = Out(Ready(R))[q][s]
    BY <1>1, <1>3 DEF Wires, In, Outside
  <2>4. Out(Ready(R))[q][s] = Selected(conf[q], pe[q], Ready(R)[q], conf[q].out[s])
    BY <1>3, <2>2 DEF Out
  <2>5. Selected(conf[q], pe[q], Ready(R)[q], "none") = <<>>
    BY DEF Selected, Sides
  <2> QED BY <2>1, <2>3, <2>4, <2>5
<1> QED BY <1>2, <1>3

\* All side wires bring the next token of their streams.
LEMMA WiresBring ==
    ASSUME NEW t, NEW n, InFlow(t, n), NEW O \in SUBSET Waiting, NEW R, NEW p \in PEs
    PROVE  Brings(conf[p], t[p], n[p], Wires(O, R)[p])
<1> SUFFICES ASSUME NEW b \in DOMAIN conf[p].to
             PROVE  NextIs(Wires(O, R)[p][b], t[p].at[b].token, n[p].at[b])
  BY DEF Brings
<1>1. CASE Outside(p, b)
  <2>1. n[p].at[b] = got[p[1]]
    BY <1>1 DEF InFlow, Flow
  <2>2. Wires(O, R)[p][b] = Supplied(O, p[1])
        /\ NextIs(Supplied(O, p[1]), t[p].at[b].token, got[p[1]])
    BY <1>1, OutsideWire
  <2> QED BY <2>1, <2>2
<1>2. CASE Fed(conf, p, b)
  <2> DEFINE q == Sender(p, b)[1]
             x == FedFrom(conf, p, b)
  <2>1. q \in PEs /\ x \in Holders(conf[q])
        /\ Wires(O, R)[p][b] = Selected(conf[q], pe[q], Ready(R)[q], x)
    BY <1>2, FedWire
  <2>2. ~Outside(p, b)
    BY <1>2 DEF Fed
  <2>3. n[p].at[b] = Left(pe[q], n[q], x)
    BY <1>2, <2>2 DEF InFlow, Flow
  <2>4. t[p].at[b] = Carried(t[q], x)
    BY <1>2 DEF InFlow, Labels, PEs
  <2>5. IsConfiguration(conf[q]) /\ PeTypeOK(conf[q], pe[q]) /\ InOrder(conf[q], pe[q], t[q], n[q])
    BY <2>1, PlaceFacts
  <2>6. NextIs(Selected(conf[q], pe[q], Ready(R)[q], x), Carried(t[q], x).token, Left(pe[q], n[q], x))
    BY <2>1, <2>5, LeavesInOrder
  <2> QED BY <2>1, <2>3, <2>4, <2>6
<1>3. CASE ~Outside(p, b) /\ ~Fed(conf, p, b)
  BY <1>3, DeadWire DEF NextIs, Wire
<1> QED BY <1>1, <1>2, <1>3

\* One cycle.
LEMMA CyclePe ==
    ASSUME NEW O, NEW R, Cycle(O, R), NEW n
    PROVE  /\ job' = job /\ conf' = conf /\ PEs' = PEs
           /\ \A p \in PEs :
                /\ pe'[p] = PeTick(conf[p], pe[p], Ready(R)[p], Wires(O, R)[p])
                /\ MoreCounts(O, R, n)[p] =
                     NextCounts(conf[p], pe[p], Ready(R)[p], Wires(O, R)[p], n[p])
           /\ got' = [c \in Columns |-> IF c \in Accepting(O) THEN got[c] + 1 ELSE got[c]]
BY DEF Cycle, PEs, MoreCounts, Wires

LEMMA CycleLeft ==
    ASSUME NEW t, NEW n, InFlow(t, n), NEW O \in SUBSET Waiting, NEW R, Cycle(O, R), NEW q \in PEs
    PROVE  InOrder(conf[q], pe'[q], t[q], MoreCounts(O, R, n)[q])
<1>1. /\ IsConfiguration(conf[q]) /\ Steady(conf[q]) /\ PeTypeOK(conf[q], pe[q]) /\ Fresh(pe[q])
      /\ Computes(conf[q], t[q]) /\ InOrder(conf[q], pe[q], t[q], n[q])
  BY PlaceFacts
<1>2. Brings(conf[q], t[q], n[q], Wires(O, R)[q])
  BY WiresBring
<1>3. /\ pe'[q] = PeTick(conf[q], pe[q], Ready(R)[q], Wires(O, R)[q])
      /\ MoreCounts(O, R, n)[q] = NextCounts(conf[q], pe[q], Ready(R)[q], Wires(O, R)[q], n[q])
  BY CyclePe
<1> QED BY <1>1, <1>2, <1>3, TickInOrder

\* What has entered on each wire after the cycle.
LEMMA CycleFlow ==
    ASSUME NEW t, NEW n, InFlow(t, n), NEW O \in SUBSET Waiting, NEW R, Cycle(O, R),
           NEW m, m = MoreCounts(O, R, n)
    PROVE  Flow(t, m)'
<1>1. job' = job /\ conf' = conf /\ PEs' = PEs
      /\ got' = [c \in Columns |-> IF c \in Accepting(O) THEN got[c] + 1 ELSE got[c]]
  BY CyclePe
<1>0. ASSUME NEW q \in PEs, NEW x \in Holders(conf[q])
      PROVE  Left(pe'[q], m[q], x) = Left(pe[q], n[q], x) + Len(Selected(conf[q], pe[q], Ready(R)[q], x))
  <2>1. /\ IsConfiguration(conf[q]) /\ Steady(conf[q]) /\ PeTypeOK(conf[q], pe[q]) /\ Fresh(pe[q])
        /\ Computes(conf[q], t[q]) /\ InOrder(conf[q], pe[q], t[q], n[q])
    BY PlaceFacts
  <2>2. Brings(conf[q], t[q], n[q], Wires(O, R)[q])
    BY WiresBring
  <2>3. /\ pe'[q] = PeTick(conf[q], pe[q], Ready(R)[q], Wires(O, R)[q])
        /\ m[q] = NextCounts(conf[q], pe[q], Ready(R)[q], Wires(O, R)[q], n[q])
    BY CyclePe
  <2> QED BY <2>1, <2>2, <2>3, LeftNext
<1>2. \A p \in PEs : InOrder(conf[p], pe'[p], t[p], m[p])
  BY CycleLeft
<1>3. ASSUME NEW p \in PEs, NEW b \in DOMAIN conf[p].to
      PROVE  m[p].at[b] = n[p].at[b] + Len(IF pe[p].buf[b].ready THEN Wires(O, R)[p][b] ELSE <<>>)
  <2>1. m[p] = NextCounts(conf[p], pe[p], Ready(R)[p], Wires(O, R)[p], n[p])
    BY CyclePe
  <2>2. b \in Buffers(conf[p]) /\ b \in Sides
    BY PlaceFacts DEF Buffers
  <2> QED BY <2>1, <2>2 DEF NextCounts, Entering, BufferIn
<1>4. ASSUME NEW p \in PEs, NEW b \in DOMAIN conf[p].to
      PROVE  m[p].at[b] =
                IF Outside(p, b) THEN got'[p[1]]
                ELSE IF Fed(conf, p, b)
                THEN LET q == Sender(p, b)[1] IN Left(pe'[q], m[q], FedFrom(conf, p, b))
                ELSE 0
  <2>0. Len(<<>>) = 0 /\ \A x : Len(<<x>>) = 1
    OBVIOUS
  <2>1. CASE Outside(p, b)
    <3>1. p[1] \in Columns /\ p = <<p[1], 0>> /\ b = "N"
          /\ Wires(O, R)[p][b] = Supplied(O, p[1])
      BY <2>1, OutsideWire
    <3>2. p[1] \in Accepting(O) <=> p[1] \in O /\ pe[p].buf[b].ready
      <4>1. b \in DOMAIN pe[p].buf
        BY PlaceFacts DEF Buffers
      <4> QED BY <3>1, <4>1 DEF Accepting, BufferReady
    <3>3. n[p].at[b] = got[p[1]] /\ got[p[1]] \in Nat
      BY <2>1, <3>1 DEF InFlow, Flow, TypeOK
    <3>4. got'[p[1]] = IF p[1] \in Accepting(O) THEN got[p[1]] + 1 ELSE got[p[1]]
      BY <1>1, <3>1
    <3>5. CASE p[1] \in Accepting(O)
      <4>1. m[p].at[b] = n[p].at[b] + 1
        BY <1>3, <2>0, <3>1, <3>2, <3>5 DEF Supplied
      <4> QED BY <2>1, <3>3, <3>4, <3>5, <4>1
    <3>6. CASE p[1] \notin Accepting(O)
      <4>1. m[p].at[b] = n[p].at[b] + 0
        BY <1>3, <2>0, <3>1, <3>2, <3>6 DEF Supplied
      <4> QED BY <2>1, <3>3, <3>4, <3>6, <4>1
    <3> QED BY <3>5, <3>6
  <2>2. CASE Fed(conf, p, b)
    <3> DEFINE q == Sender(p, b)[1]
               x == FedFrom(conf, p, b)
    <3>1. q \in PEs /\ x \in Holders(conf[q])
          /\ Wires(O, R)[p][b] = Selected(conf[q], pe[q], Ready(R)[q], x)
          /\ (Wires(O, R)[p][b] # <<>> => pe[p].buf[b].ready)
      BY <2>2, FedWire
    <3>2. ~Outside(p, b)
      BY <2>2 DEF Fed
    <3>3. n[p].at[b] = Left(pe[q], n[q], x)
      BY <2>2, <3>2 DEF InFlow, Flow
    <3>4. Left(pe'[q], m[q], x) = Left(pe[q], n[q], x) + Len(Selected(conf[q], pe[q], Ready(R)[q], x))
      BY <3>1, <1>0
    <3>5. m[p].at[b] = n[p].at[b] + Len(Selected(conf[q], pe[q], Ready(R)[q], x))
      BY <1>3, <2>0, <3>1
    <3>6. m[p].at[b] = Left(pe'[q], m[q], x)
      BY <3>1, <3>3, <3>4, <3>5
    <3> QED BY <2>2, <3>2, <3>6
  <2>3. CASE ~Outside(p, b) /\ ~Fed(conf, p, b)
    <3>1. Wires(O, R)[p][b] = <<>> /\ n[p].at[b] = 0
      BY <2>3, DeadWire DEF InFlow, Flow
    <3> QED BY <1>3, <2>0, <2>3, <3>1
  <2> QED BY <2>1, <2>2, <2>3
<1>5. \A p \in PEs' : InOrder(conf'[p], pe'[p], t[p], m[p])
  BY <1>1, <1>2
<1>6. \A p \in PEs : \A b \in DOMAIN conf[p].to : Fed(conf', p, b) = Fed(conf, p, b)
                                             /\ FedFrom(conf', p, b) = FedFrom(conf, p, b)
  BY <1>1
<1> QED BY <1>1, <1>4, <1>5, <1>6 DEF Flow

\* Results leave in order.
LEMMA DeliverFacts ==
    ASSUME NEW t, NEW n, InFlow(t, n), NEW c \in Delivering
    PROVE  /\ c \in Columns /\ <<c, 3>> \in PEs
           /\ Delivers(c) \in Holders(conf[<<c, 3>>])
<1>1. c \in Columns /\ <<c, 3>> \in PEs /\ Delivers(c) # "none"
  BY DEF Delivering, Delivers
<1> QED BY <1>1, PlaceFacts DEF Delivers, Steady, Sides

LEMMA ResultLeaves ==
    ASSUME NEW t, NEW n, InFlow(t, n), NEW O, NEW R \in SUBSET Delivering, Cycle(O, R),
           NEW c \in Delivering
    PROVE  /\ put'[c] = put[c] \o Selected(conf[<<c, 3>>], pe[<<c, 3>>], Ready(R)[<<c, 3>>], Delivers(c))
           /\ NextIs(Selected(conf[<<c, 3>>], pe[<<c, 3>>], Ready(R)[<<c, 3>>], Delivers(c)),
                     Carried(t[<<c, 3>>], Delivers(c)).token,
                     Left(pe[<<c, 3>>], n[<<c, 3>>], Delivers(c)))
<1> DEFINE q == <<c, 3>>
           w == Selected(conf[q], pe[q], Ready(R)[q], Delivers(c))
<1>1. c \in Columns /\ q \in PEs /\ Delivers(c) \in Holders(conf[q])
  BY DeliverFacts
<1>2. /\ IsConfiguration(conf[q]) /\ Steady(conf[q]) /\ PeTypeOK(conf[q], pe[q])
      /\ InOrder(conf[q], pe[q], t[q], n[q])
  BY <1>1, PlaceFacts
<1>3. NextIs(w, Carried(t[q], Delivers(c)).token, Left(pe[q], n[q], Delivers(c)))
  BY <1>1, <1>2, LeavesInOrder
<1>4. w # <<>> => c \in R
  <2> SUFFICES ASSUME w # <<>> PROVE c \in R
    OBVIOUS
  <2>1. Ready(R)[q]["S"]
    BY <1>2, WireKept DEF Delivers, Steady, Sides
  <2> QED BY <1>1, <2>1 DEF Ready, Sides
<1>5. put'[c] = IF c \in R THEN put[c] \o Out(Ready(R))[q]["S"] ELSE put[c]
  BY <1>1 DEF Cycle
<1>6. Out(Ready(R))[q]["S"] = w
  BY <1>1 DEF Out, Delivers, Sides
<1>7. put[c] \in Seq(Int)
  BY <1>1 DEF InFlow, Delivered
<1>8. put'[c] = put[c] \o w
  <2>1. CASE c \in R
    BY <1>5, <1>6, <2>1
  <2>2. CASE c \notin R
    <3>1. w = <<>> /\ put'[c] = put[c]
      BY <1>4, <1>5, <2>2
    <3> HIDE DEF w
    <3> QED BY <1>7, <3>1
  <2> QED BY <2>1, <2>2
<1> QED BY <1>3, <1>8

\* A holder sends no more tokens than have reached it.
LEMMA LeavesBounded ==
    ASSUME NEW cell, IsConfiguration(cell), NEW p, PeTypeOK(cell, p), NEW ready,
           NEW t, NEW n, InOrder(cell, p, t, n), NEW x \in Holders(cell)
    PROVE  /\ Carried(n, x) \in Nat /\ Here(p, x) \in Nat
           /\ Left(p, n, x) = Carried(n, x) - Here(p, x)
           /\ Left(p, n, x) + Len(Selected(cell, p, ready, x)) <= Carried(n, x)
<1>1. Carried(n, x) \in Nat /\ Here(p, x) \in Nat
  <2>1. CASE x = "dout"
    BY <2>1 DEF Carried, Here, InOrder
  <2>2. CASE x # "dout"
    <3>1. x \in Buffers(cell)
      BY <2>2, HolderKinds
    <3>2. n.at[x] \in Nat
      BY <3>1 DEF InOrder, Queued
    <3>3. Len(p.buf[x].q) \in Nat
      BY <3>1 DEF PeTypeOK, Fits
    <3> QED BY <2>2, <3>2, <3>3 DEF Carried, Here
  <2> QED BY <2>1, <2>2
<1>2. Left(p, n, x) = Carried(n, x) - Here(p, x)
  BY DEF Left
<1>3. CASE Selected(cell, p, ready, x) = <<>>
  <2>1. Len(Selected(cell, p, ready, x)) = 0
    BY <1>3
  <2> QED BY <1>1, <1>2, <2>1
<1>4. CASE Selected(cell, p, ready, x) # <<>>
  <2>1. Len(Selected(cell, p, ready, x)) = 1
    BY <1>4, HolderWire
  <2>2. Here(p, x) > 0
    BY <1>4, TokenLeaves
  <2> QED BY <1>1, <1>2, <2>1, <2>2
<1> QED BY <1>1, <1>2, <1>3, <1>4

\* Columns only take words, and never more than they have.
LEMMA GotGrows ==
    ASSUME NEW t, NEW n, InFlow(t, n), NEW O \in SUBSET Waiting, NEW R, Cycle(O, R),
           NEW c \in Columns
    PROVE  /\ got[c] \in Nat /\ got'[c] \in Nat /\ got[c] <= got'[c]
           /\ got'[c] \in {got[c], got[c] + 1}
           /\ got[c] <= Len(Jobs[job].input[c]) => got'[c] <= Len(Jobs[job].input[c])
<1>1. got[c] \in Nat /\ got'[c] = IF c \in Accepting(O) THEN got[c] + 1 ELSE got[c]
  BY CyclePe DEF InFlow, TypeOK
<1>2. Len(Jobs[job].input[c]) \in Nat
  BY InputAssumption DEF InFlow, TypeOK
<1>3. c \in Accepting(O) => got[c] < Len(Jobs[job].input[c])
  BY DEF Accepting, Waiting
<1> QED BY <1>1, <1>2, <1>3

\* What has passed a wire is backed by words that columns have given.
LEMMA CycleWireBacked ==
    ASSUME NEW t, NEW n, InFlow(t, n), NEW O \in SUBSET Waiting, NEW R, Cycle(O, R),
           NEW q \in PEs, NEW x \in Holders(conf[q]), NEW d \in Carried(t[q], x).of
    PROVE  /\ d \in Columns
           /\ Left(pe[q], n[q], x) + Len(Selected(conf[q], pe[q], Ready(R)[q], x)) <= got[d]
<1>1. /\ IsConfiguration(conf[q]) /\ PeTypeOK(conf[q], pe[q])
      /\ InOrder(conf[q], pe[q], t[q], n[q]) /\ Depends(conf[q], t[q])
  BY PlaceFacts
<1> DEFINE k == Left(pe[q], n[q], x)
           l == Len(Selected(conf[q], pe[q], Ready(R)[q], x))
<1>2. /\ Carried(n[q], x) \in Nat /\ Here(pe[q], x) \in Nat /\ k = Carried(n[q], x) - Here(pe[q], x)
      /\ k + l <= Carried(n[q], x)
  BY <1>1, LeavesBounded
<1>3. l \in Nat
  BY <1>1, HolderWire
<1>4. d \in Columns /\ Carried(n[q], x) <= got[d]
  <2>1. CASE x = "dout"
    BY <1>1, <2>1 DEF Carried, InFlow, Backed, Depends
  <2>2. CASE x # "dout"
    <3>1. x \in Buffers(conf[q])
      BY <1>1, <2>2, HolderKinds
    <3> QED BY <1>1, <2>2, <3>1 DEF Carried, InFlow, Backed, Depends
  <2> QED BY <2>1, <2>2
<1>5. got[d] \in Nat
  BY <1>4, GotGrows
<1> HIDE DEF k, l
<1>6. k + l <= got[d]
  BY <1>2, <1>3, <1>4, <1>5
<1> QED BY <1>4, <1>6 DEF k, l

LEMMA CycleBacked ==
    ASSUME NEW t, NEW n, InFlow(t, n), NEW O \in SUBSET Waiting, NEW R, Cycle(O, R),
           TypeOK', NEW m, m = MoreCounts(O, R, n)
    PROVE  Backed(t, m)'
<1>1. job' = job /\ conf' = conf /\ PEs' = PEs /\ Flow(t, m)'
  BY CyclePe, CycleFlow
<1>2. ASSUME NEW q \in PEs, NEW x \in Holders(conf[q]), NEW d \in Carried(t[q], x).of
      PROVE  d \in Columns /\ Left(pe'[q], m[q], x) <= got'[d]
  <2>1. /\ d \in Columns
        /\ Left(pe[q], n[q], x) + Len(Selected(conf[q], pe[q], Ready(R)[q], x)) <= got[d]
    BY CycleWireBacked
  <2>2. Left(pe'[q], m[q], x) = Left(pe[q], n[q], x) + Len(Selected(conf[q], pe[q], Ready(R)[q], x))
    <3>1. /\ IsConfiguration(conf[q]) /\ Steady(conf[q]) /\ PeTypeOK(conf[q], pe[q]) /\ Fresh(pe[q])
          /\ Computes(conf[q], t[q]) /\ InOrder(conf[q], pe[q], t[q], n[q])
      BY PlaceFacts
    <3>2. Brings(conf[q], t[q], n[q], Wires(O, R)[q])
      BY WiresBring
    <3>3. /\ pe'[q] = PeTick(conf[q], pe[q], Ready(R)[q], Wires(O, R)[q])
          /\ m[q] = NextCounts(conf[q], pe[q], Ready(R)[q], Wires(O, R)[q], n[q])
      BY CyclePe
    <3> QED BY <3>1, <3>2, <3>3, LeftNext
  <2>3. Left(pe'[q], m[q], x) <= got[d]
    BY <2>1, <2>2
  <2>4. Left(pe'[q], m[q], x) \in Int
    <3>1. /\ IsConfiguration(conf[q]) /\ PeTypeOK(conf[q], pe[q]) /\ InOrder(conf[q], pe[q], t[q], n[q])
      BY PlaceFacts
    <3>2. Carried(n[q], x) \in Nat /\ Here(pe[q], x) \in Nat
          /\ Left(pe[q], n[q], x) = Carried(n[q], x) - Here(pe[q], x)
      BY <3>1, LeavesBounded
    <3>3. Left(pe[q], n[q], x) \in Int
      BY <3>2
    <3>4. Len(Selected(conf[q], pe[q], Ready(R)[q], x)) \in Int
      BY <3>1, HolderWire
    <3> QED BY <2>2, <3>3, <3>4
  <2>5. got[d] \in Nat /\ got'[d] \in Nat /\ got[d] <= got'[d]
    BY <2>1, GotGrows
  <2> HIDE DEF Left
  <2>6. Left(pe'[q], m[q], x) <= got'[d]
    BY <2>3, <2>4, <2>5
  <2> QED BY <2>1, <2>6
<1>3. ASSUME NEW p \in PEs, NEW b \in Buffers(conf[p]), NEW d \in t[p].at[b].of
      PROVE  d \in Columns /\ m[p].at[b] <= got'[d]
  <2>0. /\ IsConfiguration(conf[p]) /\ Steady(conf[p]) /\ Computes(conf[p], t[p]) /\ Depends(conf[p], t[p])
        /\ p \in Columns \X Rows
    BY PlaceFacts
  <2>1. d \in Columns /\ got'[d] \in Nat
    BY <2>0, GotGrows DEF Depends
  <2>2. CASE b \in DOMAIN conf[p].to
    <3>1. m[p].at[b] =
            IF Outside(p, b) THEN got'[p[1]]
            ELSE IF Fed(conf, p, b)
            THEN LET q == Sender(p, b)[1] IN Left(pe'[q], m[q], FedFrom(conf, p, b))
            ELSE 0
      BY <1>1, <2>2 DEF Flow
    <3>2. CASE Outside(p, b)
      <4>1. d = p[1]
        BY <2>2, <3>2 DEF InFlow, Labels, PEs
      <4> QED BY <2>1, <3>1, <3>2, <4>1
    <3>3. CASE Fed(conf, p, b)
      <4> DEFINE q == Sender(p, b)[1]
                 x == FedFrom(conf, p, b)
      <4>1. q \in PEs /\ x \in Holders(conf[q])
        BY <2>2, <3>3, FedWire
      <4>2. t[p].at[b] = Carried(t[q], x) /\ ~Outside(p, b)
        BY <2>2, <3>3 DEF InFlow, Labels, PEs, Fed
      <4>3. Left(pe'[q], m[q], x) <= got'[d]
        BY <1>2, <4>1, <4>2
      <4> QED BY <2>1, <3>1, <3>3, <4>2, <4>3
    <3>4. CASE ~Outside(p, b) /\ ~Fed(conf, p, b)
      BY <2>1, <3>1, <3>4
    <3> QED BY <3>2, <3>3, <3>4
  <2>3. CASE b \notin DOMAIN conf[p].to
    <3>1. b \in Operands /\ conf[p].op[b] # "none"
      BY <2>3 DEF Buffers
    <3>2. conf[p].op[b] # "I1"
      BY <2>0, <3>1 DEF Depends
    <3>3. conf[p].op[b] \in Holders(conf[p])
      BY <2>0, <3>1, <3>2 DEF Steady
    <3>4. t[p].at[b] = Carried(t[p], conf[p].op[b])
      BY <2>0, <3>1, <3>3 DEF Computes
    <3>5. InOrder(conf[p], pe'[p], t[p], m[p])
      BY <1>1 DEF Flow
    <3>6. m[p].at[b] = Left(pe'[p], m[p], conf[p].op[b])
      BY <3>1, <3>3, <3>5 DEF InOrder
    <3>7. Left(pe'[p], m[p], conf[p].op[b]) <= got'[d]
      BY <1>2, <3>3, <3>4
    <3> QED BY <2>1, <3>6, <3>7
  <2> QED BY <2>2, <2>3
<1>4. ASSUME NEW p \in PEs, NEW d \in t[p].unit.of
      PROVE  m[p].unit <= got'[d]
  <2>0. /\ IsConfiguration(conf[p]) /\ Steady(conf[p]) /\ Depends(conf[p], t[p])
        /\ InOrder(conf[p], pe'[p], t[p], m[p])
    BY <1>1, PlaceFacts DEF Flow
  <2>1. PICK o \in Operands \cap Buffers(conf[p]) : d \in t[p].at[o].of
    BY <2>0 DEF Depends
  <2>2. ~conf[p].starts /\ o # "dout" /\ o \in Consumed(conf[p])
    BY <2>0, <2>1 DEF Depends, Consumed, Operands
  <2>3. d \in Columns /\ m[p].at[o] <= got'[d]
    BY <1>3, <2>1
  <2>4. m[p].unit = Left(pe'[p], m[p], o) + (IF pe'[p].primed THEN Begins(conf[p]) ELSE 0)
    BY <2>0, <2>2 DEF InOrder
  <2>5. Left(pe'[p], m[p], o) = m[p].at[o] - Len(pe'[p].buf[o].q)
    BY <2>2 DEF Left, Carried, Here
  <2>6. Queued(pe'[p].buf[o].q, t[p].at[o].token, m[p].at[o])
    BY <2>0, <2>1 DEF InOrder
  <2>7. m[p].at[o] \in Nat /\ Len(pe'[p].buf[o].q) \in Nat
    <3>1. pe'[p].buf[o].q \in Seq(Int)
      BY <1>1, <2>1 DEF TypeOK, PeTypeOK, Fits
    <3> QED BY <2>6, <3>1 DEF Queued
  <2>8. Begins(conf[p]) = 0
    BY <2>2 DEF Begins
  <2>9. m[p].unit <= m[p].at[o]
    BY <2>4, <2>5, <2>7, <2>8
  <2>10. m[p].unit \in Nat /\ got'[d] \in Nat
    BY <2>0, <2>3, GotGrows DEF InOrder
  <2> QED BY <2>3, <2>7, <2>9, <2>10
<1> QED BY <1>1, <1>3, <1>4 DEF Backed

LEMMA CycleDelivered ==
    ASSUME NEW t, NEW n, InFlow(t, n), NEW O \in SUBSET Waiting, NEW R \in SUBSET Delivering,
           Cycle(O, R), NEW m, m = MoreCounts(O, R, n)
    PROVE  Delivered(t, m)'
<1>1. job' = job /\ conf' = conf /\ PEs' = PEs /\ Delivering' = Delivering
  BY CyclePe DEF Delivering
<1>2. ASSUME NEW c \in Delivering
      PROVE  /\ put'[c] \in Seq(Int)
             /\ Len(put'[c]) = Left(pe'[<<c, 3>>], m[<<c, 3>>], Delivers(c))
             /\ \A i \in 1 .. Len(put'[c]) :
                    put'[c][i] = Carried(t[<<c, 3>>], Delivers(c)).token[i]
  <2> DEFINE q == <<c, 3>>
             w == Selected(conf[q], pe[q], Ready(R)[q], Delivers(c))
             f == Carried(t[q], Delivers(c)).token
             k == Left(pe[q], n[q], Delivers(c))
  <2>1. put'[c] = put[c] \o w /\ NextIs(w, f, k)
    BY ResultLeaves
  <2>2. c \in Columns /\ q \in PEs /\ Delivers(c) \in Holders(conf[q])
    BY DeliverFacts
  <2>3. /\ put[c] \in Seq(Int) /\ Len(put[c]) = k
        /\ \A i \in 1 .. Len(put[c]) : put[c][i] = f[i]
    BY <2>2 DEF InFlow, Delivered
  <2>4. Left(pe'[q], m[q], Delivers(c)) = k + Len(w)
    <3>1. /\ IsConfiguration(conf[q]) /\ Steady(conf[q]) /\ PeTypeOK(conf[q], pe[q]) /\ Fresh(pe[q])
          /\ Computes(conf[q], t[q]) /\ InOrder(conf[q], pe[q], t[q], n[q])
      BY <2>2, PlaceFacts
    <3>2. Brings(conf[q], t[q], n[q], Wires(O, R)[q])
      BY <2>2, WiresBring
    <3>3. /\ pe'[q] = PeTick(conf[q], pe[q], Ready(R)[q], Wires(O, R)[q])
          /\ m[q] = NextCounts(conf[q], pe[q], Ready(R)[q], Wires(O, R)[q], n[q])
      BY <2>2, CyclePe
    <3> QED BY <2>2, <3>1, <3>2, <3>3, LeftNext
  <2> HIDE DEF w, f, k
  <2>5. Len(put[c]) \in Nat /\ Len(put[c]) - Len(put[c]) = 0
    BY <2>3
  <2>6. Queued(put[c], f, k)
    <3>1. \A i \in 1 .. Len(put[c]) : k - Len(put[c]) + i = i
      BY <2>3, <2>5
    <3> QED BY <2>3, <2>5, <3>1 DEF Queued
  <2>7. Len(put[c] \o w) = Len(put[c]) + Len(w) /\ Queued(put[c] \o w, f, k + Len(w))
    BY <2>1, <2>3, <2>6, QueueJoin
  <2>8. put[c] \o w \in Seq(Int) /\ Len(put[c] \o w) \in Nat
    BY <2>1, <2>3, WireIsSeq DEF NextIs
  <2>9. \A i \in 1 .. Len(put'[c]) : put'[c][i] = f[i]
    <3>1. k + Len(w) = Len(put[c] \o w)
      BY <2>3, <2>7
    <3>2. Queued(put'[c], f, Len(put'[c])) /\ Len(put'[c]) \in Nat
      BY <2>1, <2>7, <2>8, <3>1
    <3>3. \A i \in 1 .. Len(put'[c]) : Len(put'[c]) - Len(put'[c]) + i = i
      BY <3>2
    <3> QED BY <3>2, <3>3 DEF Queued
  <2>10. Len(put'[c]) = k + Len(w)
    BY <2>1, <2>3, <2>7
  <2> QED BY <2>1, <2>4, <2>8, <2>9, <2>10 DEF f
<1>3. ASSUME NEW c \in Columns, c \notin Delivering PROVE put'[c] = <<>>
  <2>1. put'[c] = put[c]
    BY <1>3 DEF Cycle
  <2> QED BY <1>3, <2>1 DEF InFlow, Delivered
<1> QED BY <1>1, <1>2, <1>3 DEF Delivered, Delivers

\* A cycle keeps all that holds of labels and counts.
LEMMA CycleInFlow ==
    ASSUME NEW t, NEW n, InFlow(t, n), NEW O \in SUBSET Waiting, NEW R \in SUBSET Delivering,
           Cycle(O, R), TypeOK', LostInv', NEW m, m = MoreCounts(O, R, n)
    PROVE  InFlow(t, m)'
<1>1. Flow(t, m)' /\ Backed(t, m)' /\ Delivered(t, m)'
  BY CycleFlow, CycleBacked, CycleDelivered
<1>2. Labels(conf, Jobs[job].input, t)'
  BY CyclePe DEF InFlow
<1> QED BY <1>1, <1>2 DEF InFlow

NoCounts == [p \in PEs |-> [at |-> [b \in Buffers(conf[p]) |-> 0], unit |-> 0]]

LEMMA InitInFlow ==
    ASSUME Init, NEW t, Labels(conf, Jobs[job].input, t)
    PROVE  InFlow(t, NoCounts)
<1>1. TypeOK /\ LostInv
  BY TypeInit, LostInit
<1>2. job \in DOMAIN Jobs /\ conf = Cells[job]
  BY DEF Init
<1>3. ASSUME NEW p \in PEs
      PROVE  /\ InOrder(conf[p], pe[p], t[p], NoCounts[p])
             /\ \A x \in Holders(conf[p]) : Left(pe[p], NoCounts[p], x) = 0
             /\ Depends(conf[p], t[p])
  <2> DEFINE cell == conf[p]
             n    == NoCounts[p]
  <2>1. /\ \A b \in Buffers(cell) : pe[p].buf[b].q = <<>>
        /\ pe[p].v = FALSE /\ pe[p].primed = FALSE
    BY DEF Init, PeReset, EmptyBuffer
  <2>2. n.unit = 0 /\ DOMAIN n.at = Buffers(cell) /\ \A b \in Buffers(cell) : n.at[b] = 0
    BY DEF NoCounts
  <2>3. IsConfiguration(cell) /\ Steady(cell) /\ Depends(cell, t[p])
    BY <1>2, CellsAssumption DEF Labels, PEs
  <2>4. \A x \in Buffers(cell) : x # "dout" => Left(pe[p], n, x) = 0
    <3>1. Len(<<>>) = 0
      OBVIOUS
    <3> QED BY <2>1, <2>2, <3>1 DEF Left, Here, Carried
  <2>5. Left(pe[p], n, "dout") = 0
    <3>1. Here(pe[p], "dout") = 0 /\ Carried(n, "dout") = 0
      BY <2>1, <2>2 DEF Here, Carried
    <3> QED BY <3>1 DEF Left
  <2> HIDE DEF n
  <2>6. \A x \in Holders(cell) : Left(pe[p], n, x) = 0
    BY <2>3, <2>4, <2>5, HolderKinds
  <2>7. \A b \in Buffers(cell) : Queued(pe[p].buf[b].q, t[p].at[b].token, n.at[b])
    BY <2>1, <2>2 DEF Queued
  <2>8. \A x \in Consumed(cell) : Left(pe[p], n, x) = 0
    BY <2>3, <2>4, ConsumedKinds
  <2>9. \A o \in Operands : cell.op[o] \in Holders(cell) => n.at[o] = Left(pe[p], n, cell.op[o])
    <3> SUFFICES ASSUME NEW o \in Operands, cell.op[o] \in Holders(cell)
                 PROVE  n.at[o] = Left(pe[p], n, cell.op[o])
      OBVIOUS
    <3>1. cell.op[o] # "none"
      BY <2>3, HolderKinds DEF Sides
    <3>2. n.at[o] = 0
      BY <2>2, <3>1 DEF Buffers
    <3> QED BY <2>6, <3>2
  <2>10. InOrder(cell, pe[p], t[p], n)
    BY <2>1, <2>2, <2>7, <2>8, <2>9 DEF InOrder
  <2> QED BY <2>3, <2>6, <2>10 DEF n
<1>4. Flow(t, NoCounts)
  <2> SUFFICES ASSUME NEW p \in PEs, NEW b \in DOMAIN conf[p].to
               PROVE  NoCounts[p].at[b] =
                        IF Outside(p, b) THEN got[p[1]]
                        ELSE IF Fed(conf, p, b)
                        THEN LET q == Sender(p, b)[1]
                             IN  Left(pe[q], NoCounts[q], FedFrom(conf, p, b))
                        ELSE 0
    BY <1>3 DEF Flow
  <2>1. NoCounts[p].at[b] = 0
    BY DEF NoCounts, Buffers
  <2>2. CASE Outside(p, b)
    <3>1. p[1] \in Columns
      BY <1>2, CellsAssumption DEF PEs
    <3> QED BY <2>1, <2>2, <3>1 DEF Init
  <2>3. CASE Fed(conf, p, b)
    <3> DEFINE q == Sender(p, b)[1]
               s == Sender(p, b)[2]
    <3>1. q \in PEs /\ ~Outside(p, b) /\ conf[q].out[s] # "none"
      BY <2>3 DEF Fed, PEs
    <3>2. p \in Columns \X Rows /\ q \in Columns \X Rows /\ b \in Sides /\ Steady(conf[q])
      BY <1>2, <3>1, CellsAssumption DEF PEs, IsConfiguration, Labels
    <3>3. conf[q].out[s] \in Holders(conf[q])
      BY <3>1, <3>2, WireEnds DEF Steady
    <3>4. Left(pe[q], NoCounts[q], FedFrom(conf, p, b)) = 0
      BY <1>3, <3>1, <3>3 DEF FedFrom
    <3> QED BY <2>1, <2>3, <3>1, <3>4
  <2> QED BY <2>1, <2>2, <2>3
<1>5. Backed(t, NoCounts)
  <2>1. \A d \in Columns : got[d] = 0
    BY DEF Init
  <2>2. ASSUME NEW p \in PEs
        PROVE  /\ \A b \in Buffers(conf[p]) : NoCounts[p].at[b] = 0 /\ t[p].at[b].of \subseteq Columns
               /\ NoCounts[p].unit = 0 /\ t[p].unit.of \subseteq Columns
    BY <1>3 DEF NoCounts, Depends
  <2> QED BY <2>1, <2>2 DEF Backed
<1>6. Delivered(t, NoCounts)
  <2>1. \A c \in Columns : put[c] = <<>>
    BY DEF Init
  <2>2. ASSUME NEW c \in Delivering
        PROVE  Left(pe[<<c, 3>>], NoCounts[<<c, 3>>], Delivers(c)) = 0
    <3>1. <<c, 3>> \in PEs /\ Delivers(c) # "none"
      BY DEF Delivering, Delivers
    <3>2. Steady(conf[<<c, 3>>])
      BY <3>1 DEF Labels, PEs
    <3> QED BY <1>3, <3>1, <3>2 DEF Delivers, Steady, Sides
  <2>3. <<>> \in Seq(Int) /\ Len(<<>>) = 0
    OBVIOUS
  <2>4. Delivering \subseteq Columns
    BY DEF Delivering
  <2>5. ASSUME NEW c \in Delivering
        PROVE  /\ put[c] \in Seq(Int) /\ Len(put[c]) = 0
               /\ \A i \in 1 .. Len(put[c]) :
                    put[c][i] = Carried(t[<<c, 3>>], Delivers(c)).token[i]
    <3>1. put[c] = <<>>
      BY <2>1, <2>4
    <3>2. put[c] \in Seq(Int) /\ Len(put[c]) = 0 /\ 1 .. Len(put[c]) = {}
      BY <2>3, <3>1
    <3> QED BY <3>2
  <2> QED BY <2>1, <2>2, <2>5 DEF Delivered
<1> QED BY <1>1, <1>4, <1>5, <1>6 DEF InFlow

\* L[j] labels the table of job j.
FlowInv(L) == \E n : InFlow(L[job], n)

LEMMA FlowInit ==
    ASSUME NEW L, Labels(Cells[job], Jobs[job].input, L[job]), Init PROVE FlowInv(L)
<1>1. Labels(conf, Jobs[job].input, L[job])
  BY DEF Init
<1>2. InFlow(L[job], NoCounts)
  BY <1>1, InitInFlow
<1> QED BY <1>2 DEF FlowInv

LEMMA FlowCycle ==
    ASSUME NEW L, FlowInv(L), NEW O \in SUBSET Waiting, NEW R \in SUBSET Delivering,
           Cycle(O, R), TypeOK', LostInv'
    PROVE  FlowInv(L)'
<1>1. PICK n : InFlow(L[job], n)
  BY DEF FlowInv
<1>2. PICK m : m = MoreCounts(O, R, n)
  OBVIOUS
<1>3. PICK t : t = L[job]
  OBVIOUS
<1>4. InFlow(t, m)'
  BY <1>1, <1>2, <1>3, CycleInFlow
<1>5. t = L[job']
  BY <1>3, CyclePe
<1> QED BY <1>4, <1>5 DEF FlowInv

LEMMA FlowStep == ASSUME NEW L, FlowInv(L), [Next]_vars PROVE FlowInv(L)'
<1>1. TypeOK /\ LostInv
  BY DEF FlowInv, InFlow
<1>2. TypeOK' /\ LostInv'
  BY <1>1, TypeStep, LostStep
<1>3. CASE Next
  <2>1. PICK O \in SUBSET Waiting, R \in SUBSET Delivering : Cycle(O, R)
    BY <1>3 DEF Next
  <2> QED BY <1>2, <2>1, FlowCycle
<1>4. CASE UNCHANGED vars
  <2>1. PICK n : InFlow(L[job], n)
    BY DEF FlowInv
  <2>2. /\ Labels(conf, Jobs[job].input, L[job])'
        /\ Flow(L[job], n)' /\ Backed(L[job], n)' /\ Delivered(L[job], n)'
    BY <1>4, <2>1 DEF vars, InFlow, Flow, Backed, Delivered, PEs, Delivering, Delivers
  <2> QED BY <1>2, <2>2 DEF FlowInv, InFlow
<1> QED BY <1>3, <1>4

-----------------------------------------------------------------------------
(* From labels to the stream functions                                     *)

\* The results of a kernel begin with what its labels deliver, as far as the
\* words that they need were taken.
Given(input, g) == [c \in Columns |-> SubSeq(input[c], 1, g[c])]
Sends(cells, c) == <<c, 3>> \in DOMAIN cells /\ cells[<<c, 3>>].out["S"] # "none"
Sent(cells, t, c) == Carried(t[<<c, 3>>], cells[<<c, 3>>].out["S"])
Faithful(j, t) ==
    \A g \in [Columns -> Nat] : \A c \in Columns :
        /\ \A d \in Columns : g[d] <= Len(Jobs[j].input[d])
        /\ Sends(Cells[j], c)
        => \A k \in Nat \ {0} :
              (\A d \in Sent(Cells[j], t, c).of : k <= g[d])
              => LET r == Kernel!Outputs(Jobs[j].kernel, Jobs[j].words,
                                         Given(Jobs[j].input, g))[c]
                 IN  k <= Len(r) /\ r[k] = Sent(Cells[j], t, c).token[k]

GotInv == \A c \in Columns : got[c] <= Len(Jobs[job].input[c])

LEMMA GotStep == ASSUME NEW L, FlowInv(L), GotInv, [Next]_vars PROVE GotInv'
<1>1. PICK n : InFlow(L[job], n)
  BY DEF FlowInv
<1>2. CASE Next
  <2>1. PICK O \in SUBSET Waiting, R \in SUBSET Delivering : Cycle(O, R)
    BY <1>2 DEF Next
  <2>2. \A c \in Columns : got'[c] <= Len(Jobs[job].input[c])
    BY <1>1, <2>1, GotGrows DEF GotInv
  <2> QED BY <2>1, <2>2, CyclePe DEF GotInv
<1>3. CASE UNCHANGED vars
  BY <1>3 DEF vars, GotInv
<1> QED BY <1>2, <1>3

LEMMA SameColumns == Kernel!Columns = Columns
BY DEF Kernel!Columns, Columns

LEMMA CycleImplements ==
    ASSUME NEW t, NEW n, InFlow(t, n), GotInv, Faithful(job, t),
           NEW O \in SUBSET Waiting, NEW R \in SUBSET Delivering, Cycle(O, R)
    PROVE  Kernel!KernelNext
<1>1. job' = job /\ conf = Cells[job] /\ PEs = DOMAIN Cells[job]
  BY CyclePe DEF InFlow, TypeOK, PEs
<1>2. ASSUME NEW c \in Columns
      PROVE  got'[c] \in {got[c], got[c] + 1} /\ got'[c] <= Len(Jobs[job].input[c])
  BY GotGrows DEF GotInv
<1>3. ASSUME NEW c \in Columns, c \notin Delivering
      PROVE  put'[c] = put[c]
  BY <1>3 DEF Cycle
<1>4. ASSUME NEW c \in Delivering
      PROVE  \/ put'[c] = put[c]
             \/ /\ Len(put[c]) < Len(Kernel!Result(got)[c])
                /\ put'[c] = Append(put[c], Kernel!Result(got)[c][Len(put[c]) + 1])
  <2> DEFINE q == <<c, 3>>
             w == Selected(conf[q], pe[q], Ready(R)[q], Delivers(c))
             s == Carried(t[q], Delivers(c))
             k == Left(pe[q], n[q], Delivers(c))
             r == Kernel!Result(got)[c]
  <2>1. put'[c] = put[c] \o w /\ NextIs(w, s.token, k)
    BY ResultLeaves
  <2>2. c \in Columns /\ q \in PEs /\ Delivers(c) \in Holders(conf[q])
    BY DeliverFacts
  <2>3. put[c] \in Seq(Int) /\ Len(put[c]) = k
    BY <2>2 DEF InFlow, Delivered
  <2>4. CASE w = <<>>
    <3>1. put'[c] = put[c]
      BY <2>1, <2>3, <2>4
    <3> QED BY <3>1
  <2>5. CASE w # <<>>
    <3>1. w = <<s.token[k + 1]>>
      BY <2>1, <2>5 DEF NextIs
    <3>2. \A d \in s.of : k + Len(w) <= got[d]
      BY <2>2, CycleWireBacked
    <3>3. Sent(Cells[job], t, c) = s /\ Sends(Cells[job], c)
      BY <1>1, <2>2 DEF Sent, Sends, Delivers, Delivering
    <3>4. got \in [Columns -> Nat]
      BY DEF InFlow, TypeOK
    <3>5. r = Kernel!Outputs(Jobs[job].kernel, Jobs[job].words, Given(Jobs[job].input, got))[c]
      BY SameColumns DEF Kernel!Result, Kernel!Taken, Given
    <3> HIDE DEF w, s, k, r
    <3>6. k \in Nat /\ k + 1 \in Nat \ {0}
      BY <2>3
    <3>7. \A d \in s.of : k + 1 <= got[d]
      <4>1. Len(w) = 1
        BY <3>1
      <4> QED BY <3>2, <4>1
    <3>8. k + 1 <= Len(r) /\ r[k + 1] = s.token[k + 1]
      BY <2>2, <3>3, <3>4, <3>5, <3>6, <3>7 DEF Faithful, GotInv
    <3>9. Len(r) \in Int
      OBVIOUS
    <3>10. Len(put[c]) < Len(r)
      BY <2>3, <3>6, <3>8, <3>9
    <3>11. put'[c] = Append(put[c], r[Len(put[c]) + 1])
      BY <2>1, <2>3, <3>1, <3>8
    <3> QED BY <3>10, <3>11 DEF r
  <2> QED BY <2>4, <2>5
<1>5. \A c \in Columns :
        \/ put'[c] = put[c]
        \/ /\ Len(put[c]) < Len(Kernel!Result(got)[c])
           /\ put'[c] = Append(put[c], Kernel!Result(got)[c][Len(put[c]) + 1])
  BY <1>3, <1>4
<1> QED BY <1>1, <1>2, <1>5, SameColumns DEF Kernel!KernelNext

\* Whatever table is labelled by streams, and whatever stalls: the array
\* delivers these streams in order, and nothing before the words it needs came.
LEMMA LabelsImplement ==
    ASSUME NEW CONSTANT J, NEW CONSTANT L,
           \A j \in J : Labels(Cells[j], Jobs[j].input, L[j]) /\ Faithful(j, L[j])
    PROVE  Spec /\ job \in J => ImplementsKernel
<1> DEFINE I == FlowInv(L) /\ GotInv /\ job \in J
<1>1. Init => Kernel!KernelInit
  BY SameColumns DEF Init, Kernel!KernelInit
<1>2. Init /\ job \in J => I
  <2> SUFFICES ASSUME Init, job \in J PROVE FlowInv(L) /\ GotInv
    OBVIOUS
  <2>1. \A c \in Columns : got[c] = 0 /\ Len(Jobs[job].input[c]) \in Nat
    BY InputAssumption DEF Init
  <2> QED BY <2>1, FlowInit DEF GotInv
<1>3. I /\ [Next]_vars => I'
  <2> SUFFICES ASSUME I, [Next]_vars PROVE I'
    OBVIOUS
  <2>1. FlowInv(L)' /\ GotInv'
    BY FlowStep, GotStep
  <2>2. job' = job
    BY DEF Next, Cycle, vars
  <2> QED BY <2>1, <2>2
<1>4. I /\ [Next]_vars => [Kernel!KernelNext]_<<job, got, put>>
  <2> SUFFICES ASSUME FlowInv(L), GotInv, job \in J, [Next]_vars
               PROVE  Kernel!KernelNext \/ UNCHANGED <<job, got, put>>
    OBVIOUS
  <2>1. CASE UNCHANGED vars
    BY <2>1 DEF vars
  <2>2. CASE Next
    <3>1. PICK n : InFlow(L[job], n)
      BY DEF FlowInv
    <3>2. PICK O \in SUBSET Waiting, R \in SUBSET Delivering : Cycle(O, R)
      BY <2>2 DEF Next
    <3> QED BY <3>1, <3>2, CycleImplements
  <2> QED BY <2>1, <2>2
<1> QED BY <1>1, <1>2, <1>3, <1>4, PTL DEF Spec, ImplementsKernel, Kernel!KernelSpec
=============================================================================
