---------------------------- MODULE FifoV3_proofs ----------------------------
(***************************************************************************)
(* For every depth and every set of words: fifo_v3 keeps its counter and   *)
(* pointers consistent and implements the bounded FIFO.                    *)
(***************************************************************************)
EXTENDS FifoV3, SequenceTheorems, TLAPS

\* TypeOK alone is not inductive about what the slots hold: PointersAgree is
\* what makes a stored word the last of Content and no other word of it.
IInv == TypeOK /\ PointersAgree

LEMMA InitInv == Init => IInv
BY DepthAssumption, ZeroAssumption
   DEF Init, IInv, TypeOK, PointersAgree, Slots, NoTransfer

LEMMA StepInv == IInv /\ [Next]_vars => IInv'
<1> SUFFICES ASSUME IInv, [Next]_vars PROVE IInv'
  OBVIOUS
<1> USE DepthAssumption DEF IInv, TypeOK, PointersAgree, Slots
<1>1. ASSUME NEW push \in BOOLEAN, NEW data \in Data, NEW pop \in BOOLEAN,
             Cycle(push, data, pop)
      PROVE  IInv'
  <2>1. TypeOK'
    BY <1>1, SMTT(30) DEF Cycle, Store, Count, Advance, full, empty
  <2>2. PointersAgree'
    BY <1>1 DEF Cycle, Count, Advance, full, empty
  <2> QED BY <2>1, <2>2
<1>2. ASSUME NEW push \in BOOLEAN, NEW data \in Data, Flush(push, data)
      PROVE  IInv'
  BY <1>2 DEF Flush, Store, NoTransfer
<1>3. CASE UNCHANGED vars
  BY <1>3 DEF vars
<1> QED BY <1>1, <1>2, <1>3 DEF Next

LEMMA Invariant == Spec => []IInv
BY InitInv, StepInv, PTL DEF Spec

\* The pointers stay in the memory and the counter within the depth.
THEOREM FifoV3Types == Spec => []TypeOK
<1>1. IInv => TypeOK
  BY DEF IInv
<1> QED BY Invariant, <1>1, PTL

\* The counter and the pointers of fifo_v3 describe the same stretch of the
\* ring at every depth, power of two or not (fifo_v3.sv:71-100).
THEOREM FifoV3PointersAgree == Spec => []PointersAgree
<1>1. IInv => PointersAgree
  BY DEF IInv
<1> QED BY Invariant, <1>1, PTL

-----------------------------------------------------------------------------
(* The refinement                                                          *)

LEMMA ContentSeq == TypeOK => /\ Content \in Seq(Data)
                              /\ Len(Content) = status_cnt
                              /\ \A k \in 1 .. status_cnt : Content[k] = mem[Slot(k)]
BY DepthAssumption, SMTT(30) DEF TypeOK, Content, Slot, Slots

LEMMA ContentSeqNext == TypeOK' => /\ Content' \in Seq(Data)
                                   /\ Len(Content') = status_cnt'
                                   /\ \A k \in 1 .. status_cnt' : Content'[k] = mem'[Slot(k)']
BY DepthAssumption, SMTT(30) DEF TypeOK, Content, Slot, Slots

\* A word is pushed into the slot behind the last token and into no other.
LEMMA PushSlot ==
  ASSUME IInv, ~full
  PROVE  /\ Slot(status_cnt + 1) = write_pointer
         /\ \A k \in 1 .. status_cnt : Slot(k) # write_pointer
BY DepthAssumption DEF IInv, TypeOK, PointersAgree, Slot, Slots, full

\* A pop makes the second token the first.
LEMMA PopSlot ==
  ASSUME IInv, NEW k \in 1 .. DEPTH
  PROVE  /\ read_pointer' = Advance(read_pointer) /\ k < DEPTH => Slot(k)' = Slot(k + 1)
         /\ read_pointer' = read_pointer => Slot(k)' = Slot(k)
BY DepthAssumption DEF IInv, TypeOK, Slot, Slots, Advance

LEMMA CycleIsFifoCycle ==
  ASSUME IInv, NEW push \in BOOLEAN, NEW data \in Data, NEW pop \in BOOLEAN,
         Cycle(push, data, pop)
  PROVE  Fifo!FifoCycle
<1> DEFINE in  == push /\ ~full
           out == pop /\ ~empty
           lhs == Content \o io'.in
           rhs == io'.out \o Content'
<1>0. IInv'
  BY StepInv DEF Next
<1>1. io' \in Fifo!Transfers
  BY <1>0 DEF IInv, TypeOK, Fifo!Transfers
<1>2. /\ io'.in = (IF in THEN <<data>> ELSE <<>>)
      /\ io'.out = (IF out THEN <<mem[read_pointer]>> ELSE <<>>)
      /\ mem[read_pointer] \in Data
  BY DEF Cycle, IInv, TypeOK
<1>3. /\ Content \in Seq(Data) /\ Len(Content) = status_cnt
      /\ Content' \in Seq(Data) /\ Len(Content') = status_cnt'
  BY <1>0, ContentSeq, ContentSeqNext DEF IInv
<1>4. io'.in \in Seq(Data) /\ io'.out \in Seq(Data)
  BY <1>2
<1>8. /\ Len(io'.in) = IF in THEN 1 ELSE 0
      /\ Len(io'.out) = IF out THEN 1 ELSE 0
  BY <1>2
<1>9. status_cnt' = status_cnt + Len(io'.in) - Len(io'.out)
  BY <1>8 DEF Cycle, Count, IInv, TypeOK
<1>10. /\ status_cnt \in 0 .. DEPTH /\ status_cnt' \in 0 .. DEPTH
       /\ read_pointer \in Slots
       /\ read_pointer' = IF out THEN Advance(read_pointer) ELSE read_pointer
  BY <1>0 DEF Cycle, IInv, TypeOK
<1>5. Len(io'.out) <= Len(Content)
  BY <1>2, <1>3 DEF IInv, TypeOK, empty
<1>6. Len(Content') <= DEPTH
  BY <1>0, <1>3 DEF IInv, TypeOK
<1>7. lhs = rhs
  <2>1. lhs \in Seq(Data) /\ rhs \in Seq(Data)
    BY <1>3, <1>4, ConcatProperties
  <2>2. Len(lhs) = status_cnt + Len(io'.in) /\ Len(rhs) = Len(io'.out) + status_cnt'
    BY <1>3, <1>4, ConcatProperties
  <2>3. Len(lhs) = Len(rhs)
    BY <2>2, <1>8, <1>9, <1>10
  <2>4. ASSUME NEW i \in 1 .. Len(lhs) PROVE lhs[i] = rhs[i]
    <3>1. lhs[i] = IF i <= status_cnt THEN Content[i] ELSE io'.in[i - status_cnt]
      BY <1>3, <1>4, <2>2, ConcatProperties
    <3>2. rhs[i] = IF i <= Len(io'.out) THEN io'.out[i] ELSE Content'[i - Len(io'.out)]
      BY <1>3, <1>4, <2>2, <2>3, ConcatProperties
    <3>3. CASE i <= Len(io'.out)
      BY <3>1, <3>2, <3>3, <1>2, <1>3, ContentSeq, DepthAssumption
         DEF IInv, TypeOK, empty, Slot, Slots
    <3>4. CASE i > Len(io'.out)
      <4>0. PICK j \in Int : j = i - Len(io'.out)
        BY <1>8
      <4>1. j \in 1 .. status_cnt' /\ j \in 1 .. DEPTH /\ i \in 1 .. status_cnt + Len(io'.in)
        BY <4>0, <3>4, <2>2, <1>8, <1>9, <1>10, DepthAssumption
      <4>2. Content'[j] = mem'[Slot(j)']
        BY <4>1, <1>0, ContentSeqNext DEF IInv
      <4>3. Slot(j)' = Slot(i)
        <5>1. CASE out
          <6>1. i = j + 1 /\ j < DEPTH
            BY <5>1, <4>0, <4>1, <1>8, <1>9, <1>10, DepthAssumption DEF full
          <6>2. read_pointer' = Advance(read_pointer)
            BY <5>1, <1>10
          <6> QED BY <6>1, <6>2, <4>1, PopSlot
        <5>2. CASE ~out
          <6>1. i = j /\ read_pointer' = read_pointer
            BY <5>2, <4>0, <4>1, <1>8, <1>10
          <6> QED BY <6>1, <4>1, PopSlot
        <5> QED BY <5>1, <5>2
      <4>4. rhs[i] = mem'[Slot(i)]
        BY <3>2, <3>4, <4>0, <4>2, <4>3, <1>8
      <4>5. CASE i <= status_cnt
        <5>1. lhs[i] = mem[Slot(i)]
          BY <3>1, <4>5, ContentSeq, <4>1 DEF IInv
        <5>2. mem'[Slot(i)] = mem[Slot(i)]
          BY <4>5, <4>1, PushSlot DEF Cycle, Store, IInv, TypeOK, Slot, Slots
        <5> QED BY <5>1, <5>2, <4>4
      <4>6. CASE i > status_cnt
        <5>1. in /\ i = status_cnt + 1
          BY <4>6, <4>1, <1>8, <1>10
        <5>2. lhs[i] = data
          BY <3>1, <5>1, <1>2 DEF IInv, TypeOK
        <5>3. Slot(i) = write_pointer
          BY <5>1, PushSlot
        <5>4. mem'[write_pointer] = data
          BY <5>1 DEF Cycle, Store, IInv, TypeOK
        <5> QED BY <5>2, <5>3, <5>4, <4>4
      <4> HIDE DEF lhs, rhs
      <4> QED BY <4>5, <4>6, <4>1, <1>8, <1>10
    <3> HIDE DEF lhs, rhs
    <3> QED BY <3>3, <3>4, <1>8, <2>2, <1>10
  <2> QED BY <2>1, <2>3, <2>4, SeqEqual
<1> QED BY <1>1, <1>5, <1>6, <1>7 DEF Fifo!FifoCycle

LEMMA StepRefines == IInv /\ [Next]_vars => [Fifo!FifoNext]_(Fifo!fifoVars)
<1> SUFFICES ASSUME IInv, [Next]_vars PROVE [Fifo!FifoNext]_(Fifo!fifoVars)
  OBVIOUS
<1>1. ASSUME NEW push \in BOOLEAN, NEW data \in Data, NEW pop \in BOOLEAN,
             Cycle(push, data, pop)
      PROVE  Fifo!FifoNext
  BY <1>1, CycleIsFifoCycle DEF Fifo!FifoNext
<1>2. ASSUME NEW push \in BOOLEAN, NEW data \in Data, Flush(push, data)
      PROVE  Fifo!FifoNext
  <2>1. Content' = <<>>
    BY <1>2 DEF Flush, Content
  <2> QED BY <1>2, <2>1 DEF Flush, NoTransfer, Fifo!FifoNext, Fifo!FifoFlush, Fifo!NoTransfer
<1>3. CASE UNCHANGED vars
  BY <1>3 DEF vars, Fifo!fifoVars, Content, Slot
<1> QED BY <1>1, <1>2, <1>3 DEF Next

\* fifo_v3 implements the bounded FIFO of its depth: across every wrap of the
\* two pointers no word is lost, repeated or reordered (fifo_v3.sv:61-138).
THEOREM FifoV3ImplementsFifo == Spec => ImplementsFifo
<1>1. Init => Fifo!FifoInit
  BY DEF Init, Content, Fifo!FifoInit, Fifo!NoTransfer, NoTransfer
<1> QED BY <1>1, InitInv, StepInv, StepRefines, PTL
        DEF Spec, ImplementsFifo, Fifo!FifoSpec
=============================================================================
