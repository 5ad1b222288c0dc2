--------------------------- MODULE ElasticBuffer ---------------------------
(***************************************************************************)
(* cgra/elastic_buffer.sv: the two-place buffer at every input of a        *)
(* processing element and at both operands of a processing cell.  It cuts  *)
(* the ready path: din_r_o is the register areg, so the sender learns one  *)
(* cycle late that the receiver stalled and the token then under way needs *)
(* the second place.                                                       *)
(*                                                                         *)
(* One step is one clock edge.  The neighbours are free: in each cycle the *)
(* sender offers any token or none, the receiver is ready or not.          *)
(***************************************************************************)
EXTENDS Naturals, Sequences

CONSTANTS
    Data,       \* the values of a 32-bit word the checks tell apart
    Zero        \* the reset value of the data registers

ASSUME DataAssumption == Zero \in Data

VARIABLES
    data_0, data_1,     \* newest and second newest captured word
    valid_0, valid_1,   \* whether each is a token
    areg,               \* ready, registered
    en,                 \* the PE's configuration bit for this buffer
    io                  \* tokens that crossed in the last cycle

vars == <<data_0, data_1, valid_0, valid_1, areg, en, io>>

vaux   == IF areg THEN valid_0 ELSE valid_1
dout   == IF areg THEN data_0 ELSE data_1
dout_v == vaux
din_r  == areg

NoTransfer == [in |-> <<>>, out |-> <<>>]

Init ==
    /\ data_0 = Zero /\ data_1 = Zero
    /\ valid_0 = FALSE /\ valid_1 = FALSE
    /\ areg = FALSE
    /\ en \in BOOLEAN
    /\ io = NoTransfer

\* Mutants of the two updates below: a shift while the receiver stalls, ready
\* that ignores an empty buffer, that ignores the enable, or that stays down.
CaptureStalled(din, din_v) ==
    IF en
    THEN data_0' = din /\ data_1' = data_0 /\ valid_0' = din_v /\ valid_1' = valid_0
    ELSE UNCHANGED <<data_0, data_1, valid_0, valid_1>>
ReadyOnlyIfTaken(dout_r)  == IF en THEN dout_r ELSE areg
ReadyEvenDisabled(dout_r) == dout_r \/ ~vaux
ReadyNeverReturns(dout_r) == IF en THEN (areg /\ dout_r) \/ ~vaux ELSE areg

\* The shift of the two places on a captured cycle.
Capture(din, din_v) ==
    IF en /\ areg
    THEN /\ data_0' = din
         /\ data_1' = data_0
         /\ valid_0' = din_v
         /\ valid_1' = valid_0
    ELSE UNCHANGED <<data_0, data_1, valid_0, valid_1>>

\* areg falls only when the receiver refuses a token that is being offered.
NextReady(dout_r) == IF en THEN dout_r \/ ~vaux ELSE areg

Cycle(din, din_v, dout_r) ==
    /\ Capture(din, din_v)
    /\ areg' = NextReady(dout_r)
    /\ io' = [in  |-> IF din_v /\ din_r THEN <<din>> ELSE <<>>,
              out |-> IF dout_v /\ dout_r THEN <<dout>> ELSE <<>>]
    /\ UNCHANGED en

\* clr_i.  The configuration bit changes only while a kernel is loaded, and
\* the control unit ends the loading with clr_cgra (control_unit.sv:104).
Clear ==
    /\ data_0' = Zero /\ data_1' = Zero
    /\ valid_0' = FALSE /\ valid_1' = FALSE
    /\ areg' = FALSE
    /\ en' \in BOOLEAN
    /\ io' = NoTransfer

Next ==
    \/ \E din \in Data, din_v, dout_r \in BOOLEAN : Cycle(din, din_v, dout_r)
    \/ Clear

Spec == Init /\ [][Next]_vars

-----------------------------------------------------------------------------
(* What the buffer promises                                                *)

\* The tokens held, oldest first.  While areg is up data_1 was delivered
\* already and only data_0 counts.
Held(d, v) == IF v THEN <<d>> ELSE <<>>
Content == IF areg THEN Held(data_0, valid_0)
           ELSE Held(data_1, valid_1) \o Held(data_0, valid_0)

\* The registers hold words and flags.
TypeOK ==
    /\ data_0 \in Data /\ data_1 \in Data
    /\ valid_0 \in BOOLEAN /\ valid_1 \in BOOLEAN
    /\ areg \in BOOLEAN /\ en \in BOOLEAN
    /\ io.in  \in {<<>>} \cup {<<d>> : d \in Data}
    /\ io.out \in {<<>>} \cup {<<d>> : d \in Data}

\* A stalled buffer never hides a token: when ready is down the older place is
\* the one that is offered, so a token in the newer place always waits behind
\* one in the older place (elastic_buffer.sv:66, the mux on areg).
OldestOffered == ~areg => valid_1 \/ ~valid_0

\* A disabled buffer holds nothing and accepts nothing: the tokens of a
\* neighbour that the kernel does not route here are never taken
\* (elastic_buffer.sv:45,60).
DisabledIsEmpty == ~en => ~areg /\ Content = <<>>

\* The buffer is a two-place FIFO: with Content as the queue, every cycle
\* transfers tokens without loss, repetition or reordering, whatever the
\* sequence of stalls on the two sides (elastic_buffer.sv:33-69).
Fifo == INSTANCE BoundedFifo WITH q <- Content, Capacity <- 2
ImplementsFifo == Fifo!FifoSpec

\* The queue that the processing elements of Cgra keep for a buffer is this
\* buffer: the same tokens and the same registered ready after every cycle, so
\* the array is checked with the stalls that the two places really cause
\* (elastic_buffer.sv:52-69).
Element == INSTANCE ProcessingElement
TicksAsQueue ==
    [][\/ Clear
       \/ en => [ready |-> areg', q |-> Content'] =
                 Element!BufferTick([ready |-> areg, q |-> Content], io'.in, io'.out # <<>>)]_vars

\* The receiver takes what it is offered again and again.
FairSpec ==
    Spec /\ WF_vars(\E din \in Data, din_v \in BOOLEAN : Cycle(din, din_v, TRUE))

\* An enabled buffer that refused its sender accepts again
\* (elastic_buffer.sv:61), so no chain of buffers stays blocked behind a
\* receiver that has resumed.
ReadyReturns == en ~> areg \/ ~en
=============================================================================
