------------------------------ MODULE MCFifoV3 ------------------------------
(* Three places, not a power of two, so that the wrap of both pointers and *)
(* the push-and-pop in one cycle at every fill level happen.               *)
EXTENDS FifoV3
CONSTANTS zero, w1
MCData == {zero, w1}
=============================================================================
