------------------------ MODULE ElasticBuffer_proofs ------------------------
(***************************************************************************)
(* For every set of word values: the elastic buffer keeps its invariants   *)
(* and implements the two-place FIFO.                                      *)
(***************************************************************************)
EXTENDS ElasticBuffer, SequenceTheorems, TLAPS

\* The inductive invariant is the conjunction the runs check: OldestOffered
\* says which place the mux shows, DisabledIsEmpty that en never cuts a
\* transfer short.
IInv == TypeOK /\ OldestOffered /\ DisabledIsEmpty

LEMMA EmptyLaw == ASSUME NEW s \in Seq(Data)
                  PROVE  <<>> \o s = s /\ s \o <<>> = s
BY ConcatEmptySeq

\* Held yields no token or one.
LEMMA HeldSeq == ASSUME NEW d \in Data, NEW v \in BOOLEAN
                 PROVE  /\ Held(d, v) \in Seq(Data)
                        /\ v => Held(d, v) = <<d>>
                        /\ ~v => Held(d, v) = <<>>
BY DEF Held

LEMMA ContentSeq == TypeOK => Content \in Seq(Data)
<1> SUFFICES ASSUME TypeOK PROVE Content \in Seq(Data)
  OBVIOUS
<1>1. Held(data_0, valid_0) \in Seq(Data) /\ Held(data_1, valid_1) \in Seq(Data)
  BY HeldSeq DEF TypeOK
<1> QED BY <1>1, ConcatProperties DEF Content

LEMMA ContentSeqNext == TypeOK' => Content' \in Seq(Data)
<1> SUFFICES ASSUME TypeOK' PROVE Content' \in Seq(Data)
  OBVIOUS
<1>1. Held(data_0', valid_0') \in Seq(Data) /\ Held(data_1', valid_1') \in Seq(Data)
  BY HeldSeq DEF TypeOK
<1>2. Content' = IF areg' THEN Held(data_0', valid_0')
                 ELSE Held(data_1', valid_1') \o Held(data_0', valid_0')
  BY DEF Content, Held
<1> QED BY <1>1, <1>2, ConcatProperties

LEMMA EmptyContent == <<>> \o <<>> = <<>>
BY EmptyLaw, EmptySeq

LEMMA InitInv == Init => IInv
<1> SUFFICES ASSUME Init PROVE IInv
  OBVIOUS
<1>1. TypeOK
  BY DataAssumption DEF Init, TypeOK, NoTransfer
<1>2. Content = <<>>
  BY EmptyContent DEF Init, Content, Held
<1> QED BY <1>1, <1>2 DEF Init, IInv, OldestOffered, DisabledIsEmpty

LEMMA StepInv == IInv /\ [Next]_vars => IInv'
<1> SUFFICES ASSUME IInv, [Next]_vars PROVE IInv'
  OBVIOUS
<1> USE DEF IInv, TypeOK, OldestOffered, DisabledIsEmpty, Content, Held
<1>1. ASSUME NEW din \in Data, NEW din_v \in BOOLEAN, NEW dout_r \in BOOLEAN,
             Cycle(din, din_v, dout_r)
      PROVE  IInv'
  <2>1. TypeOK'
    BY <1>1 DEF Cycle, Capture, NextReady, vaux, dout, dout_v, din_r
  <2>2. OldestOffered'
    BY <1>1 DEF Cycle, Capture, NextReady, vaux
  <2>3. ASSUME ~en' PROVE UNCHANGED <<data_0, data_1, valid_0, valid_1, areg>>
    BY <1>1, <2>3 DEF Cycle, Capture, NextReady
  <2>4. DisabledIsEmpty'
    BY <1>1, <2>3 DEF Cycle
  <2> QED BY <2>1, <2>2, <2>4
<1>2. CASE Clear
  <2>1. TypeOK' /\ OldestOffered'
    BY <1>2, DataAssumption DEF Clear, NoTransfer
  <2>2. Content' = <<>>
    BY <1>2, EmptyContent DEF Clear
  <2> QED BY <1>2, <2>1, <2>2 DEF Clear
<1>3. CASE UNCHANGED vars
  BY <1>3 DEF vars
<1> QED BY <1>1, <1>2, <1>3 DEF Next

LEMMA Invariant == Spec => []IInv
BY InitInv, StepInv, PTL DEF Spec

\* The buffer never hides a token behind an empty place (elastic_buffer.sv:66),
\* for every set of words.
THEOREM BufferOldestOffered == Spec => []OldestOffered
<1>1. IInv => OldestOffered
  BY DEF IInv
<1> QED BY Invariant, <1>1, PTL

\* A disabled buffer holds nothing and accepts nothing (elastic_buffer.sv:45,60).
THEOREM BufferDisabledIsEmpty == Spec => []DisabledIsEmpty
<1>1. IInv => DisabledIsEmpty
  BY DEF IInv
<1> QED BY Invariant, <1>1, PTL

-----------------------------------------------------------------------------
(* The refinement, cycle by cycle                                          *)

LEMMA CycleIsFifoCycle ==
  ASSUME IInv, NEW din \in Data, NEW din_v \in BOOLEAN, NEW dout_r \in BOOLEAN,
         Cycle(din, din_v, dout_r)
  PROVE  Fifo!FifoCycle
<1> USE DEF IInv, TypeOK
<1>1. io' \in Fifo!Transfers
  BY DEF Cycle, Fifo!Transfers, dout, din_r, dout_v, vaux
<1>2. Len(io'.out) <= Len(Content)
  BY DEF Cycle, dout, dout_v, vaux, Content, Held
<1>3. Content \o io'.in = io'.out \o Content'
  <2>0. Content \in Seq(Data) /\ Content' \in Seq(Data)
    <3>1. TypeOK'
      BY StepInv DEF Next
    <3> QED BY <3>1, ContentSeq, ContentSeqNext
  <2>1. CASE areg /\ areg'
    <3>1. io'.out = Content /\ io'.in = Content'
      BY <2>1 DEF Cycle, Capture, NextReady, dout, dout_v, din_r, vaux, Content, Held, DisabledIsEmpty
    <3> QED BY <3>1
  <2>2. CASE areg /\ ~areg'
    <3>1. io'.out = <<>> /\ Content' = Content \o io'.in
      BY <2>2 DEF Cycle, Capture, NextReady, dout, dout_v, din_r, vaux, Content, Held, DisabledIsEmpty
    <3> QED BY <3>1, <2>0, EmptyLaw
  <2>3. CASE ~areg /\ areg'
    <3>1. io'.in = <<>>
      BY <2>3 DEF Cycle, din_r
    <3>2. CASE valid_1
      <4>1. io'.out = <<data_1>> /\ Content = <<data_1>> \o Content'
        BY <2>3, <3>2 DEF Cycle, Capture, NextReady, dout, dout_v, vaux, Content, Held
      <4> QED BY <3>1, <4>1, <2>0, EmptyLaw
    <3>3. CASE ~valid_1
      <4>1. io'.out = <<>> /\ ~valid_0 /\ Content' = <<>>
        BY <2>3, <3>3 DEF Cycle, Capture, NextReady, dout, dout_v, vaux, Content, Held, OldestOffered
      <4>2. Content = <<>>
        BY <2>3, <3>3, <4>1, EmptyContent DEF Content, Held
      <4> QED BY <3>1, <4>1, <4>2
    <3> QED BY <3>2, <3>3
  <2>4. CASE ~areg /\ ~areg'
    <3>1. io'.in = <<>> /\ Content' = Content
      BY <2>4 DEF Cycle, Capture, din_r, Content, Held
    <3>2. io'.out = <<>>
      BY <2>4 DEF Cycle, Capture, NextReady, dout, dout_v, vaux, Content, Held, DisabledIsEmpty
    <3> QED BY <3>1, <3>2, <2>0, EmptyLaw
  <2> QED BY <2>1, <2>2, <2>3, <2>4
<1>4. Len(Content') <= 2
  BY DEF Cycle, Content, Held
<1> QED BY <1>1, <1>2, <1>3, <1>4 DEF Fifo!FifoCycle

LEMMA ClearIsFlush == Clear => Fifo!FifoFlush
BY EmptyContent DEF Clear, Content, Held, Fifo!FifoFlush, Fifo!NoTransfer, NoTransfer

LEMMA StepRefines == IInv /\ [Next]_vars => [Fifo!FifoNext]_(Fifo!fifoVars)
<1> SUFFICES ASSUME IInv, [Next]_vars PROVE [Fifo!FifoNext]_(Fifo!fifoVars)
  OBVIOUS
<1>1. ASSUME NEW din \in Data, NEW din_v \in BOOLEAN, NEW dout_r \in BOOLEAN,
             Cycle(din, din_v, dout_r)
      PROVE  Fifo!FifoNext
  BY <1>1, CycleIsFifoCycle DEF Fifo!FifoNext
<1>2. CASE Clear
  BY <1>2, ClearIsFlush DEF Fifo!FifoNext
<1>3. CASE UNCHANGED vars
  BY <1>3 DEF vars, Fifo!fifoVars, Content, Held
<1> QED BY <1>1, <1>2, <1>3 DEF Next

\* The buffer implements the two-place FIFO: no sequence of stalls on the two
\* sides loses, repeats or reorders a token (elastic_buffer.sv:33-69).
THEOREM BufferImplementsFifo == Spec => ImplementsFifo
<1>1. Init => Fifo!FifoInit
  BY EmptyContent DEF Init, Content, Held, Fifo!FifoInit, Fifo!NoTransfer, NoTransfer
<1> QED BY <1>1, InitInv, StepInv, StepRefines, PTL
        DEF Spec, ImplementsFifo, Fifo!FifoSpec

-----------------------------------------------------------------------------
(* The queue of Cgra                                                       *)

LEMMA TailOfOne == ASSUME NEW d \in Data PROVE <<d>> # <<>> /\ Tail(<<d>>) = <<>>
OBVIOUS

LEMMA TailOfTwo == ASSUME NEW d \in Data, NEW s \in Seq(Data)
                   PROVE  <<d>> \o s # <<>> /\ Tail(<<d>> \o s) = s
<1>1. <<d>> \in Seq(Data) /\ <<d>> # <<>> /\ Head(<<d>>) = d /\ Tail(<<d>>) = <<>>
  OBVIOUS
<1>2. Len(<<d>> \o s) = 1 + Len(s)
  BY <1>1, ConcatProperties
<1>3. Tail(<<d>> \o s) = Tail(<<d>>) \o s
  BY <1>1, ConcatProperties
<1> QED BY <1>1, <1>2, <1>3, EmptyLaw

LEMMA CycleTicks ==
  ASSUME IInv, NEW din \in Data, NEW din_v \in BOOLEAN, NEW dout_r \in BOOLEAN,
         Cycle(din, din_v, dout_r), en
  PROVE  [ready |-> areg', q |-> Content'] =
             Element!BufferTick([ready |-> areg, q |-> Content], io'.in, io'.out # <<>>)
<1> USE DEF IInv, TypeOK
<1> DEFINE left == IF io'.out # <<>> /\ Content # <<>> THEN Tail(Content) ELSE Content
<1>1. Content \in Seq(Data) /\ Content' \in Seq(Data)
  <2>1. TypeOK'
    BY StepInv DEF Next
  <2> QED BY <2>1, ContentSeq, ContentSeqNext
<1>0. areg \in BOOLEAN /\ areg' \in BOOLEAN
  BY DEF Cycle, NextReady, vaux
<1>2. areg' = (io'.out # <<>> \/ Content = <<>>)
      /\ Content' = left \o (IF areg THEN io'.in ELSE <<>>)
  <2>1. CASE areg /\ areg'
    <3>1. io'.out = Content /\ Content' = io'.in /\ Content' \in Seq(Data)
      BY <1>1, <2>1 DEF Cycle, Capture, NextReady, dout, dout_v, din_r, vaux, Content, Held
    <3>2. left = <<>>
      <4>1. CASE valid_0
        <5>1. Content = <<data_0>>
          BY <2>1, <4>1 DEF Content, Held
        <5> QED BY <3>1, <5>1, TailOfOne
      <4>2. CASE ~valid_0
        <5>1. Content = <<>>
          BY <2>1, <4>2 DEF Content, Held
        <5> QED BY <5>1
      <4> QED BY <4>1, <4>2
    <3> QED BY <2>1, <3>1, <3>2, EmptyLaw
  <2>2. CASE areg /\ ~areg'
    <3>1. /\ io'.out = <<>> /\ Content = <<data_0>>
          /\ Content' = Content \o io'.in
      BY <2>2 DEF Cycle, Capture, NextReady, dout, dout_v, din_r, vaux, Content, Held
    <3>2. Content # <<>>
      BY <3>1, TailOfOne
    <3>3. left = Content
      BY <3>1
    <3> QED BY <1>0, <2>2, <3>1, <3>2, <3>3
  <2>3. CASE ~areg /\ areg'
    <3>1. CASE valid_1
      <4>1. io'.out = <<data_1>> /\ Content = <<data_1>> \o Content'
        BY <2>3, <3>1 DEF Cycle, Capture, NextReady, dout, dout_v, vaux, Content, Held
      <4>2. io'.out # <<>> /\ left = Content'
        BY <4>1, <1>1, TailOfTwo
      <4> QED BY <2>3, <4>2, <1>1, EmptyLaw
    <3>2. CASE ~valid_1
      <4>1. io'.out = <<>> /\ ~valid_0 /\ Content' = <<>>
        BY <2>3, <3>2 DEF Cycle, Capture, NextReady, dout, dout_v, vaux, Content, Held, OldestOffered
      <4>2. Content = <<>>
        BY <2>3, <3>2, <4>1, EmptyContent DEF Content, Held
      <4> QED BY <2>3, <4>1, <4>2, EmptyContent
    <3> QED BY <3>1, <3>2
  <2>4. CASE ~areg /\ ~areg'
    <3>1. io'.out = <<>> /\ Content' = Content /\ valid_1
      BY <2>4 DEF Cycle, Capture, NextReady, dout, dout_v, vaux, Content, Held
    <3>2. Content # <<>>
      <4>1. Content = <<data_1>> \o Held(data_0, valid_0)
        BY <2>4, <3>1 DEF Content, Held
      <4> QED BY <4>1, TailOfTwo, HeldSeq
    <3>3. left = Content /\ left \o <<>> = Content'
      BY <3>1, <1>1, EmptyLaw
    <3> QED BY <1>0, <2>4, <3>1, <3>2, <3>3
  <2> QED BY <2>1, <2>2, <2>3, <2>4
<1> QED BY <1>2 DEF Element!BufferTick

\* The queue that Cgra keeps for a buffer is the buffer, cycle by cycle, for every
\* set of words (elastic_buffer.sv:52-69).
THEOREM BufferTicksAsQueue == Spec => TicksAsQueue
<1>1. ASSUME IInv, Next, ~Clear
      PROVE  en => [ready |-> areg', q |-> Content'] =
                   Element!BufferTick([ready |-> areg, q |-> Content], io'.in, io'.out # <<>>)
  BY <1>1, CycleTicks DEF Next
<1>2. IInv /\ [Next]_vars =>
        [\/ Clear
         \/ en => [ready |-> areg', q |-> Content'] =
                   Element!BufferTick([ready |-> areg, q |-> Content], io'.in, io'.out # <<>>)]_vars
  BY <1>1
<1> QED BY Invariant, <1>2, PTL DEF Spec, TicksAsQueue
=============================================================================
