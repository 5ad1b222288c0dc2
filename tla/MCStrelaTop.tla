----------------------------- MODULE MCStrelaTop -----------------------------
(* Small instances of the accelerator: two columns, so that grants and      *)
(* responses of different nodes interleave, FIFOs of four places and a      *)
(* request limit of two, so that a node reaches it, and two kernels and two *)
(* runs whose words are told apart.                                         *)
EXTENDS StrelaTop
CONSTANTS k1, k2
NoKernels  == {}
Never      == {}
Executing  == {"execute"}
Always     == {"load", "execute"}
Second     == {k2}
OneKernel  == {k1}
TwoKernels == {k1, k2}
TwoSizes   == {0, 12}
OneSize    == {12}
LongRun    == {40}
=============================================================================
