------------------------------ MODULE StrelaPkg ------------------------------
(***************************************************************************)
(* rtl/include/strela_pkg.sv: the parameters the memory nodes share.       *)
(***************************************************************************)
EXTENDS Naturals, Sequences

CONSTANTS
    FIFO_DEPTH,         \* places of a node's FIFO
    WORST_MEM_LATENCY,  \* fill level at which an input node stops requesting
    CONF_SIZE,          \* bytes of configuration of one column
    CONF_STRIDE,        \* bytes of a word
    OFFSET_RANGE        \* 2^16: address offsets are 16 bits wide

\* One more word than the level may arrive on a bus that allows each master a
\* single outstanding transaction, and the level must stay below the depth,
\* at which the truncated count would read zero.
ASSUME StrelaPkgAssumption ==
    /\ FIFO_DEPTH \in Nat /\ WORST_MEM_LATENCY \in Nat \ {0}
    /\ WORST_MEM_LATENCY + 1 < FIFO_DEPTH
    /\ CONF_STRIDE \in Nat \ {0} /\ CONF_SIZE \in Nat \ {0}
    /\ OFFSET_RANGE \in Nat \ {0} /\ CONF_SIZE < OFFSET_RANGE

NodeReset == [state |-> "IDLE", addr_offset |-> 0, fifo |-> <<>>]
=============================================================================
