------------------------------- MODULE FifoV3 -------------------------------
(***************************************************************************)
(* pulp_platform_common_cells/src/fifo_v3.sv as STRELA instantiates it in  *)
(* every memory node: DEPTH > 0 and FALL_THROUGH = 0.  A circular memory   *)
(* with two pointers and a counter of its own; nothing in the code ties    *)
(* the counter to the pointers but the updates below.                      *)
(*                                                                         *)
(* One step is one clock edge.  push_i, data_i, pop_i and flush_i are free *)
(* in every cycle: a push while full and a pop while empty are ignored.    *)
(***************************************************************************)
EXTENDS Integers, Sequences

CONSTANTS
    DEPTH,      \* places
    Data,       \* word values the checks tell apart
    Zero        \* what the memory holds after reset

ASSUME DepthAssumption == DEPTH \in Nat \ {0}
ASSUME ZeroAssumption  == Zero \in Data

VARIABLES mem, read_pointer, write_pointer, status_cnt,
          io            \* tokens accepted and given away in the last cycle

vars == <<mem, read_pointer, write_pointer, status_cnt, io>>

Slots == 0 .. DEPTH - 1

full  == status_cnt = DEPTH
empty == status_cnt = 0

NoTransfer == [in |-> <<>>, out |-> <<>>]

Init ==
    /\ mem = [s \in Slots |-> Zero]
    /\ read_pointer = 0 /\ write_pointer = 0 /\ status_cnt = 0
    /\ io = NoTransfer

\* Mutants of the updates below.
AdvanceLate(p)      == IF p = DEPTH THEN 0 ELSE p + 1
CountLast(in, out)  == IF out THEN status_cnt - 1
                       ELSE IF in THEN status_cnt + 1 ELSE status_cnt
CountSpill(in, out) == IF in THEN status_cnt + 1
                       ELSE IF out THEN status_cnt - 1 ELSE status_cnt

Advance(p) == IF p = DEPTH - 1 THEN 0 ELSE p + 1

\* The counter is stable when a token enters and one leaves.
Count(in, out) ==
    IF in /\ ~out THEN status_cnt + 1
    ELSE IF out /\ ~in THEN status_cnt - 1 ELSE status_cnt

Store(in, data) ==
    mem' = IF in THEN [mem EXCEPT ![write_pointer] = data] ELSE mem

Cycle(push, data, pop) ==
    LET in  == push /\ ~full
        out == pop /\ ~empty
    IN  /\ Store(in, data)
        /\ write_pointer' = IF in THEN Advance(write_pointer) ELSE write_pointer
        /\ read_pointer' = IF out THEN Advance(read_pointer) ELSE read_pointer
        /\ status_cnt' = Count(in, out)
        /\ io' = [in  |-> IF in THEN <<data>> ELSE <<>>,
                  out |-> IF out THEN <<mem[read_pointer]>> ELSE <<>>]

\* flush_i wins over push and pop; a pushed word is still written to the memory.
Flush(push, data) ==
    /\ Store(push /\ ~full, data)
    /\ read_pointer' = 0 /\ write_pointer' = 0 /\ status_cnt' = 0
    /\ io' = NoTransfer

Next ==
    \E push \in BOOLEAN, data \in Data :
        \/ \E pop \in BOOLEAN : Cycle(push, data, pop)
        \/ Flush(push, data)

Spec == Init /\ [][Next]_vars

-----------------------------------------------------------------------------

\* The slot of the k-th token, counted from the read pointer around the ring.
Slot(k) == IF read_pointer + k - 1 < DEPTH THEN read_pointer + k - 1
           ELSE read_pointer + k - 1 - DEPTH

Content == [k \in 1 .. status_cnt |-> mem[Slot(k)]]

\* The counter stays within the depth and the pointers within the memory.
TypeOK ==
    /\ mem \in [Slots -> Data]
    /\ read_pointer \in Slots /\ write_pointer \in Slots
    /\ status_cnt \in 0 .. DEPTH
    /\ io \in [in  : {<<>>} \cup {<<d>> : d \in Data},
               out : {<<>>} \cup {<<d>> : d \in Data}]

\* The counter and the two pointers, updated by separate conditions, always
\* describe the same stretch of the ring: the write pointer is count places
\* ahead of the read pointer, also across the wrap (fifo_v3.sv:71-100).
PointersAgree ==
    \/ write_pointer = read_pointer + status_cnt
    \/ write_pointer = read_pointer + status_cnt - DEPTH

\* The circular memory is a FIFO of DEPTH places: no sequence of pushes, pops
\* and wraps loses, repeats or reorders a word (fifo_v3.sv:61-138).
Fifo == INSTANCE BoundedFifo WITH q <- Content, Capacity <- DEPTH
ImplementsFifo == Fifo!FifoSpec
=============================================================================
