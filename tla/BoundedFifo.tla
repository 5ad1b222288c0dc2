---------------------------- MODULE BoundedFifo ----------------------------
(***************************************************************************)
(* The promise every token buffer of STRELA makes to the two sides of its  *)
(* valid/ready handshake: a queue of at most Capacity tokens that loses,   *)
(* repeats and reorders nothing, and whose output never depends on the     *)
(* input of the same cycle.  elastic_buffer.sv (two places) and fifo_v3.sv *)
(* (DEPTH places) are shown to implement it.                               *)
(***************************************************************************)
EXTENDS Naturals, Sequences

CONSTANTS Data, Capacity

VARIABLES
    q,      \* the tokens held, oldest first
    io      \* what crossed the two sides in the last clock cycle

fifoVars == <<q, io>>

\* At most one token crosses a side in a cycle.
Transfers == [in  : {<<>>} \cup {<<d>> : d \in Data},
              out : {<<>>} \cup {<<d>> : d \in Data}]

NoTransfer == [in |-> <<>>, out |-> <<>>]

FifoInit == q = <<>> /\ io = NoTransfer

\* What was held, followed by what came in, is what went out followed by what
\* is held now.
FifoCycle ==
    /\ io' \in Transfers
    /\ Len(io'.out) <= Len(q)
    /\ q \o io'.in = io'.out \o q'
    /\ Len(q') <= Capacity

\* A clear drops the tokens of a kernel that is over.
FifoFlush == q' = <<>> /\ io' = NoTransfer

FifoNext == FifoCycle \/ FifoFlush

FifoSpec == FifoInit /\ [][FifoNext]_fifoVars
=============================================================================
