-------------------------- MODULE ProcessingElement --------------------------
(***************************************************************************)
(* cgra/PE_superpolyvalent.sv and the processing cell inside it: a buffer  *)
(* per side that the kernel uses, each followed by a fork, two operand     *)
(* buffers, the join or merge, and the function unit with its output fork. *)
(* An elastic buffer is kept as the queue it implements (ElasticBuffer),   *)
(* with its registered ready.                                              *)
(*                                                                         *)
(* cell is the decoded configuration, pe the registers, ready[s] whether   *)
(* the receiver on side s is ready.  A wire is <<>> or <<token>>.          *)
(***************************************************************************)
EXTENDS Integers, Sequences

Sides    == {"N", "E", "S", "W"}
Operands == {"1", "2"}

\* cell.to[b] is where the fork behind the buffer of side b sends, cell.op[o]
\* and cell.out[s] what the multiplexers of an operand and of a side select.
Sources == Sides \cup {"dout", "delayed", "I1", "none"}
Targets == Sides \cup Operands \cup {"c"}

\* The buffers that eb_en turns on.
Buffers(cell) == DOMAIN cell.to \cup {o \in Operands : cell.op[o] # "none"}

EmptyBuffer == [ready |-> FALSE, q |-> <<>>]
PeReset(cell) == [buf |-> [b \in Buffers(cell) |-> EmptyBuffer],
                  primed |-> FALSE, v |-> FALSE, dout |-> 0, cnt |-> 0]

First(q) == IF q = <<>> THEN <<>> ELSE <<Head(q)>>

Has(pe, o) == o \in DOMAIN pe.buf /\ pe.buf[o].q # <<>>
Operand(pe, o) == IF Has(pe, o) THEN Head(pe.buf[o].q) ELSE 0

-----------------------------------------------------------------------------
(* Ready, backwards                                                        *)

\* The receivers of a fork beside the control input of the join.
Receivers(pe, ready) ==
    [t \in Sides \cup Operands |->
        IF t \in Sides THEN ready[t] ELSE t \in DOMAIN pe.buf /\ pe.buf[t].ready]

\* Mutant: a fork that goes on as soon as one of its targets can.
ForkAny(T, ready) == T = {} \/ \E t \in T : ready[t]

\* fork_sender: all of the targets at once, or none.
Fork(T, ready) == \A t \in T : ready[t]

FuReady(cell, pe, ready) == Fork(cell.fork, Receivers(pe, ready))

\* join_merge, mode 1: the control token goes with both operands.
CinReady(cell, pe, ready) ==
    cell.mode = "mux" /\ FuReady(cell, pe, ready) /\ Has(pe, "1") /\ Has(pe, "2")

ForkReady(cell, pe, ready, b) ==
    /\ Fork(cell.to[b] \ {"c"}, Receivers(pe, ready))
    /\ "c" \in cell.to[b] => CinReady(cell, pe, ready)

-----------------------------------------------------------------------------
(* Tokens, forwards                                                        *)

\* What leaves the buffer of side b: its oldest token, when the fork accepts.
FromSide(cell, pe, ready, b) ==
    IF b \in DOMAIN cell.to /\ ForkReady(cell, pe, ready, b) THEN First(pe.buf[b].q) ELSE <<>>

FromUnit(cell, pe, ready) == IF pe.v /\ FuReady(cell, pe, ready) THEN <<pe.dout>> ELSE <<>>

\* A delay of 0 is never reached: the sum is wider than the counter.
Counted(cell, pe) == pe.cnt + 1 = cell.delay

Selected(cell, pe, ready, source) ==
    CASE source \in Sides   -> FromSide(cell, pe, ready, source)
      [] source = "dout"    -> FromUnit(cell, pe, ready)
      [] source = "delayed" -> IF Counted(cell, pe) THEN FromUnit(cell, pe, ready) ELSE <<>>
      [] source = "I1"      -> <<cell.const>>
      [] OTHER              -> <<>>

Control(cell, pe, ready) == FromSide(cell, pe, ready, cell.op["c"])

\* join_merge, out_v_o.
Fires(cell, pe, ready) ==
    CASE cell.mode = "merge" -> Has(pe, "1") \/ Has(pe, "2")
      [] cell.mode = "mux"   -> Has(pe, "1") /\ Has(pe, "2") /\ Control(cell, pe, ready) # <<>>
      [] OTHER               -> Has(pe, "1") /\ Has(pe, "2")

\* Mutant: an operand is taken although the other one is not there.
TakesAlone(cell, pe, ready, o) ==
    /\ FuReady(cell, pe, ready)
    /\ cell.mode = "mux" => Control(cell, pe, ready) # <<>>

\* join_merge, din_1_r_o and din_2_r_o.
Takes(cell, pe, ready, o) ==
    /\ FuReady(cell, pe, ready)
    /\ cell.mode = "merge" \/ \A p \in Operands \ {o} : Has(pe, p)
    /\ cell.mode = "mux" => Control(cell, pe, ready) # <<>>

-----------------------------------------------------------------------------
(* The function unit                                                       *)

ALU(op, a, b) == CASE op = "mul" -> a * b [] op = "sub" -> a - b [] OTHER -> a + b

PicksSecond(cell, pe, ready) ==
    IF cell.mode = "merge" THEN ~Has(pe, "1")
    ELSE Control(cell, pe, ready) # <<>> /\ Head(Control(cell, pe, ready)) % 2 = 1

\* FU_data, pre_dout: the ALU, its comparator, or one of the operands.
Result(cell, pe, ready) ==
    LET a == Operand(pe, "1")
        b == Operand(pe, "2")
        alu == ALU(cell.alu, a, IF cell.feedback THEN pe.dout ELSE b)
    IN  CASE cell.res = "gtz" -> IF alu > 0 THEN 1 ELSE 0
          [] cell.res = "mux" -> IF PicksSecond(cell, pe, ready) THEN b ELSE a
          [] OTHER            -> alu

NextCount(cell, pe) == IF Counted(cell, pe) THEN 0 ELSE (pe.cnt + 1) % 2^16

-----------------------------------------------------------------------------
(* A clock edge                                                            *)

\* Mutant: ready stays up although the receiver refuses.
BufferAlwaysReady(buf, in, take) ==
    [ready |-> TRUE,
     q |-> (IF take /\ buf.q # <<>> THEN Tail(buf.q) ELSE buf.q)
           \o (IF buf.ready THEN in ELSE <<>>)]

\* elastic_buffer (ElasticBuffer, Cycle).
BufferTick(buf, in, take) ==
    [ready |-> take \/ buf.q = <<>>,
     q |-> (IF take /\ buf.q # <<>> THEN Tail(buf.q) ELSE buf.q)
           \o (IF buf.ready THEN in ELSE <<>>)]

\* in[s] is the wire that enters on side s.
BufferIn(cell, pe, ready, in, b) ==
    IF b \in Sides THEN in[b] ELSE Selected(cell, pe, ready, cell.op[b])
BufferTaken(cell, pe, ready, b) ==
    IF b \in Sides THEN ForkReady(cell, pe, ready, b) ELSE Takes(cell, pe, ready, b)

\* Mutant: the token of initial_valid_i is forgotten.
NoFirstToken(cell) == FALSE

FirstToken(cell) == cell.starts

\* The first cycle after a clear loads the initial token.
PeTick(cell, pe, ready, in) ==
    [buf |-> [b \in Buffers(cell) |->
                BufferTick(pe.buf[b], BufferIn(cell, pe, ready, in, b),
                           BufferTaken(cell, pe, ready, b))],
     primed |-> TRUE,
     v    |-> IF ~pe.primed THEN FirstToken(cell)
              ELSE IF FuReady(cell, pe, ready) THEN Fires(cell, pe, ready) ELSE pe.v,
     dout |-> IF ~pe.primed THEN cell.init
              ELSE IF Fires(cell, pe, ready) /\ FuReady(cell, pe, ready)
              THEN Result(cell, pe, ready) ELSE pe.dout,
     cnt  |-> IF FromUnit(cell, pe, ready) # <<>> THEN NextCount(cell, pe) ELSE pe.cnt]

-----------------------------------------------------------------------------
(* Where a token can be lost in a cycle                                    *)

\* The result of this cycle reaches the register of the function unit.
Registers(cell, pe, ready) ==
    pe.primed /\ FuReady(cell, pe, ready) /\ Fires(cell, pe, ready)

\* A constant is offered in every cycle: it is not a token.
IsToken(cell, o) == cell.op[o] \notin {"I1", "none"}

\* By the wire or operand it is lost on: a token that leaves and whose receiver
\* is not ready, an operand or a control token that is taken without a result,
\* the second one of two that meet in a merge.
Lost(cell, pe, ready) ==
    {s \in Sides : Selected(cell, pe, ready, cell.out[s]) # <<>> /\ ~ready[s]}
    \cup {o \in Operands :
            IsToken(cell, o) /\ Selected(cell, pe, ready, cell.op[o]) # <<>> /\ ~pe.buf[o].ready}
    \cup {o \in Operands :
            Has(pe, o) /\ Takes(cell, pe, ready, o) /\ ~Registers(cell, pe, ready)}
    \cup {x \in {"c"} :
            cell.mode = "mux" /\ Control(cell, pe, ready) # <<>> /\ ~Registers(cell, pe, ready)}
    \cup {o \in {"2"} :
            /\ cell.mode = "merge" /\ FuReady(cell, pe, ready)
            /\ \A p \in Operands : IsToken(cell, p) /\ Has(pe, p)}

\* Every fork waits for all that its token is sent to, and a merge has one
\* stream: what a table must satisfy.
WellRouted(cell) ==
    /\ \A s \in Sides :
         /\ cell.out[s] \in DOMAIN cell.to => s \in cell.to[cell.out[s]]
         /\ cell.out[s] \in {"dout", "delayed"} => s \in cell.fork
    /\ \A o \in Operands :
         /\ cell.op[o] \in DOMAIN cell.to => o \in cell.to[cell.op[o]]
         /\ cell.op[o] \in {"dout", "delayed"} => o \in cell.fork
    /\ cell.mode = "mux" /\ cell.op["c"] \in DOMAIN cell.to => "c" \in cell.to[cell.op["c"]]
    /\ cell.mode = "merge" => \E o \in Operands : ~IsToken(cell, o)
=============================================================================
