--------------------------- MODULE StrelaTop_proofs ---------------------------
(***************************************************************************)
(* For every number of columns and rows, every set of kernels and sizes,   *)
(* every order of grants and responses and every legal depth and request   *)
(* limit: the state machines of the accelerator stay in step, an input     *)
(* FIFO always has room for the word under way, "done" is never stale, and *)
(* a memory that answers in one cycle leaves nothing behind a run.  Every  *)
(* run of whole sizes writes exactly its own words, in order, as long as   *)
(* the configuration is exact, which StrelaConfig_proofs shows where no    *)
(* other master takes a bank while it is read.  That argument numbers the  *)
(* words of a column: memory, output FIFO, path, input FIFO and bus hold   *)
(* consecutive parts of one block, and each node's offset counts them.     *)
(***************************************************************************)
EXTENDS StrelaTop, SequenceTheorems, TLAPS

\* Software never starts while a node has yet to see the exec level of a run
\* that needed no configuration: CTRL bits come at least two cycles apart.
StartAlone ==
    \A c \in Cols : ctl.state = "EXEC" /\ imn[c].state = "IDLE" => ~ctrl.start

\* Only the cycle after a clear adds a token of the kernel's own.
FreshIsEmpty == \A c \in Cols : cgra[c].fresh => cgra[c].path = <<>>

-----------------------------------------------------------------------------
(* One step of each part                                                   *)

LEMMA ClockedNodes ==
  ASSUME NEW gi, NEW go, NEW ri, NEW ro, NEW s, Clock(gi, go, ri, ro, s), NEW c \in Cols
  PROVE  /\ imn'[c] = InputTick(imn[c], InputIn(c, gi, ri, s))
         /\ omn'[c] = OutputTick(omn[c], OutputIn(c, go, s))
         /\ cgra'[c] = ColumnTick(cgra[c], ShiftIn(c), clr_cgra, TokenIn(c, s), TokenOut(c, s))
         /\ rd'[c] = IF c \in gi THEN <<Addressed(c)>> ELSE IF c \in ri THEN <<>> ELSE rd[c]
BY DEF Clock

LEMMA ClockedStates ==
  ASSUME NEW gi, NEW go, NEW ri, NEW ro, NEW s, Clock(gi, go, ri, ro, s)
  PROVE  /\ ctl'.state = IF ctrl.clr THEN "IDLE" ELSE ControlNextState(ctl, controlIn)
         /\ \A c \in Cols :
              /\ imn'[c].state = IF clr_nodes THEN "IDLE"
                                 ELSE InputNextState(imn[c], InputIn(c, gi, ri, s))
              /\ omn'[c].state = IF clr_nodes THEN "IDLE"
                                 ELSE OutputNextState(omn[c], OutputIn(c, go, s))
BY ClockedNodes
   DEF Clock, ControlTick, ControlReset, controlIn, InputTick, InputIn, OutputTick,
       OutputIn, NodeReset

LEMMA PhasesStep ==
  ASSUME TypeOK, PhasesAgree, StartAlone,
         NEW gi, NEW go, NEW ri, NEW ro, NEW s, Clock(gi, go, ri, ro, s)
  PROVE  PhasesAgree'
<1> SUFFICES ASSUME NEW c \in Cols
             PROVE /\ ctl'.state = "IDLE" => imn'[c].state = "IDLE" /\ omn'[c].state = "IDLE"
                   /\ ctl'.state = "WAIT" => imn'[c].state \in {"CONF", "WAIT"} /\ omn'[c].state = "IDLE"
                   /\ ctl'.state = "EXEC" => imn'[c].state \in {"IDLE", "WAIT", "MREQ", "DONE"}
                   /\ ctl'.state = "DONE" => imn'[c].state = "DONE" /\ omn'[c].state = "DONE"
  BY DEF PhasesAgree
<1>1. /\ ctl.state \in ControlStates
      /\ imn[c].state \in InputStates /\ omn[c].state \in OutputStates
  BY DEF TypeOK, NodeType
<1>2. /\ ctl'.state = IF ctrl.clr THEN "IDLE" ELSE ControlNextState(ctl, controlIn)
      /\ imn'[c].state = IF clr_nodes THEN "IDLE"
                         ELSE InputNextState(imn[c], InputIn(c, gi, ri, s))
      /\ omn'[c].state = IF clr_nodes THEN "IDLE"
                         ELSE OutputNextState(omn[c], OutputIn(c, go, s))
  BY ClockedStates
<1>3. CASE clr_nodes
  BY <1>1, <1>2, <1>3 DEF clr_nodes, ClearNodes, ControlNextState
<1>4. CASE ~clr_nodes
  <2> USE <1>4 DEF clr_nodes, ClearNodes
  <2>1. CASE ctl.state = "IDLE"
    BY <1>1, <1>2, <2>1
       DEF PhasesAgree, ControlNextState, StartState, controlIn, InputNextState, InputIn,
           OutputNextState, OutputIn, Exec, exec, ConfNeeded
  <2>2. CASE ctl.state = "WAIT"
    BY <1>1, <1>2, <2>2
       DEF PhasesAgree, ControlNextState, controlIn, InputNextState, InputIn,
           OutputNextState, OutputIn, Exec, exec, conf_done, ConfDone
  <2>3. CASE ctl.state = "EXEC"
    BY <1>1, <1>2, <2>3
       DEF PhasesAgree, StartAlone, ControlNextState, controlIn, InputNextState, InputIn,
           BeginExec, OutputNextState, OutputIn, Exec, exec, mn_done, InputDone, OutputDone
  <2> QED BY <1>1, <2>1, <2>2, <2>3 DEF ControlStates
<1> QED BY <1>3, <1>4

\* Every access waits for CTRL to be quiet.
LEMMA QuietBeforeWrite ==
  ASSUME Next
  PROVE  ctrl # Quiet => ctrl' = Quiet
BY DEF Next, NoAccess, WriteStart, PollDone, WriteClear, WriteClearConf,
       WriteClearParam, WriteParams, Write

LEMMA StartAloneStep ==
  ASSUME TypeOK, PhasesAgree, StartAlone, Next
  PROVE  StartAlone'
<1> SUFFICES ASSUME NEW c \in Cols, ctl'.state = "EXEC", imn'[c].state = "IDLE"
             PROVE  ~ctrl'.start
  BY DEF StartAlone
<1>1. PICK gi, go, ri, ro, s : Clock(gi, go, ri, ro, s)
  BY DEF Next, Hardware
<1>2. /\ ctl.state \in ControlStates /\ imn[c].state \in InputStates
      /\ ctl'.state = IF ctrl.clr THEN "IDLE" ELSE ControlNextState(ctl, controlIn)
      /\ imn'[c].state = IF clr_nodes THEN "IDLE"
                         ELSE InputNextState(imn[c], InputIn(c, gi, ri, s))
  BY <1>1, ClockedStates DEF TypeOK, NodeType
<1>3. ctrl.start
  BY <1>2 DEF PhasesAgree, ControlStates, ControlNextState, StartState, controlIn, InputNextState,
       InputIn, BeginExec, Exec, exec, clr_nodes, ClearNodes
<1> QED BY <1>3, QuietBeforeWrite DEF Quiet, Pulse

\* Raising the flag needs every node done, which no phase but EXEC and DONE
\* allows; keeping it needs that no start was taken.
LEMMA DoneMeansIdleStep ==
  ASSUME TypeOK, PhasesAgree, DoneMeansIdle,
         NEW gi, NEW go, NEW ri, NEW ro, NEW s, Clock(gi, go, ri, ro, s)
  PROVE  DoneMeansIdle'
<1> SUFFICES ASSUME status'.exec_done PROVE ctl'.state \in {"IDLE", "DONE"}
  BY DEF DoneMeansIdle
<1>1. ~ctrl.start /\ ~ctrl.clr /\ (mn_done \/ status.exec_done)
  BY DEF Clock, NextStatus
<1>2. ctl.state \in ControlStates /\ ctl'.state = ControlNextState(ctl, controlIn)
  BY <1>1, ClockedStates DEF TypeOK
<1>3. CASE mn_done
  <2>1. PICK c \in Cols : imn[c].state = "DONE"
    BY <1>3, StrelaAssumption DEF mn_done, InputDone
  <2>2. ctl.state \in {"EXEC", "DONE"}
    BY <1>2, <2>1 DEF PhasesAgree, ControlStates
  <2> QED BY <1>2, <1>3, <2>2 DEF ControlNextState, controlIn
<1>4. CASE status.exec_done
  <2>1. ctl.state \in {"IDLE", "DONE"}
    BY <1>1, <1>4 DEF DoneMeansIdle
  <2> QED BY <1>1, <1>2, <2>1 DEF ControlNextState, StartState, controlIn
<1> QED BY <1>1, <1>3, <1>4

-----------------------------------------------------------------------------
(* The input FIFO and the read under way                                   *)

\* Below its depth the count of a FIFO is what usage_o says.
LEMMA CountIsLength ==
  ASSUME NEW n, Len(n.fifo) \in Nat, Len(n.fifo) <= WORST_MEM_LATENCY + 1
  PROVE  DataCount(n) = Len(n.fifo)
<1>1. PICK len \in Nat : len = Len(n.fifo)
  OBVIOUS
<1>2. FIFO_DEPTH \in Nat /\ len < FIFO_DEPTH
  BY <1>1, StrelaPkgAssumption
<1>3. len % FIFO_DEPTH = len
  BY <1>2
<1> QED BY <1>1, <1>3 DEF DataCount

\* What a pop and a push of the same cycle do to a sequence of words.
LEMMA PopPush ==
  ASSUME NEW S, NEW s \in Seq(S), NEW t \in Seq(S), NEW pop, pop => s # <<>>
  PROVE  /\ (IF pop THEN Tail(s) ELSE s) \o t \in Seq(S)
         /\ Len((IF pop THEN Tail(s) ELSE s) \o t)
              = (IF pop THEN Len(s) - 1 ELSE Len(s)) + Len(t)
<1>1. PICK q \in Seq(S) : /\ q = IF pop THEN Tail(s) ELSE s
                          /\ Len(q) = IF pop THEN Len(s) - 1 ELSE Len(s)
  BY HeadTailProperties
<1>2. q \o t \in Seq(S) /\ Len(q \o t) = Len(q) + Len(t)
  BY ConcatProperties
<1> QED BY <1>1, <1>2

LEMMA PopHasWord == ASSUME NEW n, NEW in PROVE Pops(n, in) => n.fifo # <<>>
BY DEF Pops, ConfEnable, OffersData

\* A FIFO grows by no more than the word that answers its read.
LEMMA FifoGrowth ==
  ASSUME NEW S, NEW n, NEW in, n.fifo \in Seq(S), in.rvalid \in Seq(S)
  PROVE  /\ InputNextFifo(n, in) \in Seq(S)
         /\ Len(InputNextFifo(n, in)) <= Len(n.fifo) + Len(in.rvalid)
<1>1. PICK s \in Seq(S), v \in Seq(S) : s = n.fifo /\ v = in.rvalid
  OBVIOUS
<1>2. PICK t \in Seq(S) : /\ t = IF Len(s) < FIFO_DEPTH THEN v ELSE <<>>
                          /\ Len(t) <= Len(v)
  <2>1. <<>> \in Seq(S) /\ Len(<<>>) = 0 /\ Len(v) \in Nat
    BY EmptySeq, LenProperties
  <2>2. CASE Len(s) < FIFO_DEPTH
    BY <2>1, <2>2
  <2>3. CASE ~(Len(s) < FIFO_DEPTH)
    <3>1. Len(<<>>) <= Len(v)
      BY <2>1
    <3> QED BY <2>1, <2>3, <3>1, Zenon
  <2> QED BY <2>2, <2>3
<1>3. PICK pop : pop = Pops(n, in)
  OBVIOUS
<1>4. pop => s # <<>>
  BY <1>1, <1>3, PopHasWord
<1>5. InputNextFifo(n, in) = (IF pop THEN Tail(s) ELSE s) \o t
  BY <1>1, <1>2, <1>3 DEF InputNextFifo
<1>6. /\ InputNextFifo(n, in) \in Seq(S)
      /\ Len(InputNextFifo(n, in)) = (IF pop THEN Len(s) - 1 ELSE Len(s)) + Len(t)
  BY <1>4, <1>5, PopPush
<1>7. PICK ls \in Nat, lt \in Nat, lv \in Nat :
        ls = Len(s) /\ lt = Len(t) /\ lv = Len(v) /\ lt <= lv
  BY <1>2, LenProperties
<1>8. (IF pop THEN ls - 1 ELSE ls) + lt <= ls + lv
  BY <1>7
<1> QED BY <1>1, <1>6, <1>7, <1>8

LEMMA RoomStep ==
  ASSUME TypeOK, RoomForEveryRead,
         NEW gi, NEW go, NEW ri, NEW ro, NEW s, Clock(gi, go, ri, ro, s)
  PROVE  RoomForEveryRead'
<1> SUFFICES ASSUME NEW c \in Cols
             PROVE  Len(imn'[c].fifo) + Len(rd'[c]) <= WORST_MEM_LATENCY + 1
  BY DEF RoomForEveryRead
<1>1. /\ imn[c].fifo \in Seq(Word) /\ rd[c] \in Seq(Word) /\ Len(rd[c]) <= 1
      /\ Len(imn[c].fifo) \in Nat /\ Len(rd[c]) \in Nat
      /\ Len(imn[c].fifo) + Len(rd[c]) <= WORST_MEM_LATENCY + 1
      /\ WORST_MEM_LATENCY \in Nat \ {0}
  BY StrelaPkgAssumption, LenProperties DEF TypeOK, NodeType, RoomForEveryRead
<1>2. PICK in : in = InputIn(c, gi, ri, s)
  OBVIOUS
<1>3. in.rvalid = IF c \in ri THEN rd[c] ELSE <<>>
  BY <1>2 DEF InputIn
<1>4. in.rvalid \in Seq(Word)
  BY <1>1, <1>3, EmptySeq
<1>5. rd'[c] = IF c \in gi THEN <<Addressed(c)>> ELSE IF c \in ri THEN <<>> ELSE rd[c]
  BY ClockedNodes
<1>6. imn'[c] = InputTick(imn[c], in)
  <2>1. imn'[c] = InputTick(imn[c], InputIn(c, gi, ri, s))
    BY DEF Clock
  <2> QED BY <1>2, <2>1
<1>7. imn'[c].fifo = IF in.clr THEN <<>> ELSE InputNextFifo(imn[c], in)
  BY <1>6 DEF InputTick, NodeReset
<1>8. PICK f \in Nat, r \in Nat, v \in Nat, W \in Nat \ {0} :
        f = Len(imn[c].fifo) /\ r = Len(rd[c]) /\ v = Len(in.rvalid)
        /\ W = WORST_MEM_LATENCY
  BY <1>1, <1>4, LenProperties
<1>9. /\ r <= 1 /\ f + r <= W + 1
      /\ v = IF c \in ri THEN r ELSE 0
  BY <1>1, <1>3, <1>8, EmptySeq
<1>10. PICK r2 \in Nat : r2 = Len(rd'[c]) /\ r2 = IF c \in gi THEN 1 ELSE r - v
  BY <1>5, <1>8, <1>9
<1>11. PICK f2 \in Nat : f2 = Len(imn'[c].fifo) /\ f2 <= f + v /\ (in.clr => f2 = 0)
  <2>1. CASE in.clr
    <3>1. imn'[c].fifo = <<>>
      BY <1>7, <2>1
    <3>2. 0 <= f + v
      OBVIOUS
    <3> QED BY <2>1, <3>1, <3>2
  <2>2. CASE ~in.clr
    <3>1. /\ imn'[c].fifo \in Seq(Word)
          /\ Len(imn'[c].fifo) <= f + v
      BY <1>1, <1>4, <1>7, <1>8, <2>2, FifoGrowth
    <3> QED BY <2>2, <3>1, LenProperties
  <2> QED BY <2>1, <2>2
<1>12. CASE c \in gi
  <2>1. InputRequests(imn[c]) /\ (rd[c] = <<>> \/ c \in ri)
    BY <1>12 DEF Clock, GrantsAllowed, ReadsEligible
  <2>2. f < W
    <3>0. f <= W + 1
      BY <1>9
    <3>1. Len(imn[c].fifo) \in Nat /\ Len(imn[c].fifo) <= WORST_MEM_LATENCY + 1
      BY <1>8, <3>0
    <3>2. DataCount(imn[c]) = f
      BY <1>8, <3>1, CountIsLength
    <3> QED BY <1>8, <2>1, <3>2 DEF InputRequests
  <2>3. f2 + r2 <= W + 1
    BY <1>9, <1>10, <1>11, <1>12, <2>2
  <2> QED BY <1>8, <1>10, <1>11, <2>3
<1>13. CASE c \notin gi
  <2>1. r2 = r - v /\ f2 <= f + v
    BY <1>10, <1>11, <1>13
  <2>2. f2 + r2 <= W + 1
    BY <1>9, <2>1
  <2> QED BY <1>8, <1>10, <1>11, <2>2
<1> QED BY <1>12, <1>13

-----------------------------------------------------------------------------
(* Nothing left behind                                                     *)

\* Software whose last access was not a start sees an accelerator at rest.
DriverKnows ==
    /\ driver # "running" => ctl.state = "IDLE" /\ ~ctrl.start
    /\ ctrl.start \/ ctrl.clr \/ ctrl.clr_param => ctl.state = "IDLE"
    /\ ctrl.start => ~ctrl.clr /\ ~ctrl.clr_param

LEMMA DriverKnowsStep ==
  ASSUME TypeOK, DoneMeansIdle, DriverKnows, ~ClearAnytime, Next
  PROVE  DriverKnows'
<1>1. PICK gi, go, ri, ro, s : Clock(gi, go, ri, ro, s)
  BY DEF Next, Hardware
<1>2. ctl.state = "IDLE" /\ ~ctrl.start => ctl'.state = "IDLE"
  BY <1>1, ClockedStates DEF ControlNextState, StartState, controlIn
<1>3. ctl.state = "DONE" => ctl'.state = "IDLE"
  BY <1>1, ClockedStates DEF ControlNextState
<1>4. CASE NoAccess
  BY <1>2, <1>4 DEF NoAccess, DriverKnows, Quiet, Pulse
<1>5. CASE WriteStart
  BY <1>2, <1>5 DEF WriteStart, Write, DriverKnows, Quiet, Pulse
<1>6. CASE PollDone
  <2>1. ~ctrl.start /\ ~ctrl'.start /\ ~ctrl'.clr /\ ~ctrl'.clr_param
    BY <1>6 DEF PollDone, Write, Quiet, Pulse
  <2>2. ctl.state \in {"IDLE", "DONE"}
    BY <1>6, <2>1 DEF PollDone, DoneMeansIdle
  <2> QED BY <1>2, <1>3, <2>1, <2>2 DEF DriverKnows
<1>7. CASE WriteClear
  BY <1>2, <1>7 DEF WriteClear, Write, DriverKnows, Quiet, Pulse
<1>8. CASE WriteClearConf \/ WriteClearParam \/ WriteParams
  BY <1>2, <1>8 DEF WriteClearConf, WriteClearParam, WriteParams, Write, DriverKnows,
                    Quiet, Pulse
<1> QED BY <1>4, <1>5, <1>6, <1>7, <1>8 DEF Next

\* An idle node asks for nothing, and a read of the run that ends is answered
\* while the accelerator is still in DONE.
LEMMA NothingLeftStep ==
  ASSUME TypeOK, PhasesAgree, NothingLeftBehind, DriverKnows, Slow = {}, Next
  PROVE  NothingLeftBehind'
<1> SUFFICES ASSUME ctl'.state = "IDLE", NEW c \in Cols
             PROVE  imn'[c].fifo = <<>> /\ rd'[c] = <<>>
  BY DEF NothingLeftBehind
<1>1. PICK ri \in Responses(ReadsPending), ro \in Responses(WritesPending),
          gi \in SUBSET Cols, go \in SUBSET Cols, s \in Strays : Clock(gi, go, ri, ro, s)
  BY DEF Next, Hardware
<1>2. ctl.state \in ControlStates
  BY DEF TypeOK
<1>3. /\ ctl.state \in {"IDLE", "DONE"}
      /\ ctl.state = "IDLE" => ~ctrl.start \/ ctrl.clr
  BY <1>1, <1>2, ClockedStates
     DEF ControlNextState, ControlStates, StartState, controlIn, DriverKnows
<1>4. c \notin gi
  BY <1>1, <1>3 DEF Clock, GrantsAllowed, ReadsEligible, InputRequests, PhasesAgree
<1>5. c \in ri <=> rd[c] # <<>>
  BY <1>1 DEF Responses, ReadsPending
<1>6. rd'[c] = <<>>
  BY <1>1, <1>4, <1>5 DEF Clock
<1>7. imn'[c] = InputTick(imn[c], InputIn(c, gi, ri, s))
  BY <1>1 DEF Clock
<1>8. CASE clr_nodes
  BY <1>6, <1>7, <1>8 DEF InputTick, InputIn, NodeReset
<1>9. CASE ~clr_nodes
  <2>1. ctl.state = "IDLE" /\ ~ctrl.clr
    BY <1>3, <1>9 DEF clr_nodes, ClearNodes
  <2>2. imn[c].fifo = <<>> /\ rd[c] = <<>>
    BY <2>1 DEF NothingLeftBehind
  <2>3. imn'[c].fifo = InputNextFifo(imn[c], InputIn(c, gi, ri, s))
    BY <1>7, <1>9 DEF InputTick, InputIn
  <2>4. InputIn(c, gi, ri, s).rvalid = <<>>
    BY <1>5, <2>2 DEF InputIn
  <2>5. ~Pops(imn[c], InputIn(c, gi, ri, s))
    BY <2>2, PopHasWord
  <2>6. InputNextFifo(imn[c], InputIn(c, gi, ri, s)) = <<>> \o <<>>
    BY <2>2, <2>4, <2>5 DEF InputNextFifo
  <2> QED BY <1>6, <2>3, <2>6, ConcatEmptySeq, EmptySeq
<1> QED BY <1>8, <1>9

-----------------------------------------------------------------------------
(* Type correctness                                                        *)

LEMMA OffsetRange ==
  ASSUME NEW a \in Nat, NEW b \in Nat
  PROVE  (a + b) % OFFSET_RANGE \in 0 .. OFFSET_RANGE - 1
BY StrelaPkgAssumption

LEMMA NodeResetType ==
  /\ NodeReset \in NodeType(InputStates)
  /\ NodeReset \in NodeType(OutputStates)
<1>1. 0 \in 0 .. OFFSET_RANGE - 1
  BY StrelaPkgAssumption
<1> QED BY <1>1, EmptySeq DEF NodeReset, NodeType, InputStates, OutputStates

LEMMA InputTickType ==
  ASSUME NEW n \in NodeType(InputStates), NEW in,
         in.rvalid \in Seq(Word), in.stride \in Nat
  PROVE  InputTick(n, in) \in NodeType(InputStates)
<1>1. n.state \in InputStates /\ n.addr_offset \in 0 .. OFFSET_RANGE - 1 /\ n.fifo \in Seq(Word)
  BY DEF NodeType
<1>2. InputNextState(n, in) \in InputStates
  BY <1>1 DEF InputNextState, InputStates, BeginExec
<1>3. NextOffset(n, in) \in 0 .. OFFSET_RANGE - 1
  <2>1. n.addr_offset \in Nat /\ CONF_STRIDE \in Nat
    BY <1>1, StrelaPkgAssumption
  <2>2. PICK s \in Nat : s = IF in.conf_needed THEN CONF_STRIDE ELSE in.stride
    BY <2>1
  <2> QED BY <2>1, <2>2, OffsetRange DEF NextOffset
<1>4. 0 \in 0 .. OFFSET_RANGE - 1
  BY StrelaPkgAssumption
<1>5. InputNextOffset(n, in) \in 0 .. OFFSET_RANGE - 1
  BY <1>1, <1>3, <1>4 DEF InputNextOffset
<1>6. InputNextFifo(n, in) \in Seq(Word)
  BY <1>1, FifoGrowth
<1> QED BY <1>2, <1>5, <1>6, NodeResetType DEF InputTick, NodeType

\* A push into a writer's FIFO needs room, so that the FIFO never spills.
LEMMA OutputTickType ==
  ASSUME NEW n \in NodeType(OutputStates), Len(n.fifo) <= FIFO_DEPTH,
         NEW in, in.din \in Seq(Word), Len(in.din) <= 1
  PROVE  /\ OutputTick(n, in) \in NodeType(OutputStates)
         /\ Len(OutputTick(n, in).fifo) <= FIFO_DEPTH
<1>1. n.state \in OutputStates /\ n.addr_offset \in 0 .. OFFSET_RANGE - 1 /\ n.fifo \in Seq(Word)
  BY DEF NodeType
<1>2. OutputNextState(n, in) \in OutputStates
  BY <1>1 DEF OutputNextState, OutputStates
<1>3. OutputOffset(n) \in 0 .. OFFSET_RANGE - 1
  <2>1. n.addr_offset \in Nat /\ CONF_STRIDE \in Nat
    BY <1>1, StrelaPkgAssumption
  <2> QED BY <2>1, OffsetRange DEF OutputOffset
<1>4. PICK s \in Seq(Word), d \in Seq(Word) : s = n.fifo /\ d = in.din
  BY <1>1
<1>5. PICK pop : pop = Written(n, in)
  OBVIOUS
<1>6. pop => s # <<>>
  BY <1>4, <1>5 DEF Written, OutputRequests
<1>7. PICK ls \in Nat, ld \in Nat, D \in Nat :
        ls = Len(s) /\ ld = Len(d) /\ D = FIFO_DEPTH /\ ls <= D /\ ld <= 1
  BY <1>4, LenProperties, StrelaPkgAssumption
<1>8. PICK t \in Seq(Word), lt \in Nat :
        t = (IF OutputReady(n) THEN d ELSE <<>>) /\ lt = Len(t) /\ ls + lt <= D
  <2>1. CASE OutputReady(n)
    <3>0. ls < D /\ ld <= 1
      BY <1>4, <1>7, <2>1 DEF OutputReady
    <3>1. ls + ld <= D
      BY <3>0
    <3> QED BY <1>7, <2>1, <3>1
  <2>2. CASE ~OutputReady(n)
    <3>1. <<>> \in Seq(Word) /\ 0 = Len(<<>>) /\ ls + 0 <= D
      BY <1>7, EmptySeq
    <3> QED BY <2>2, <3>1, Zenon
  <2> QED BY <2>1, <2>2
<1>9. OutputNextFifo(n, in) = (IF pop THEN Tail(s) ELSE s) \o t
  BY <1>4, <1>5, <1>8 DEF OutputNextFifo
<1>10. /\ OutputNextFifo(n, in) \in Seq(Word)
       /\ Len(OutputNextFifo(n, in)) = (IF pop THEN Len(s) - 1 ELSE Len(s)) + Len(t)
  BY <1>6, <1>9, PopPush
<1>11. (IF pop THEN ls - 1 ELSE ls) + lt <= D
  <2>1. ls + lt <= D
    BY <1>8
  <2> QED BY <2>1
<1>12. Len(OutputNextFifo(n, in)) <= FIFO_DEPTH
  BY <1>7, <1>8, <1>10, <1>11
<1>13. CASE in.clr
  <2>1. Len(<<>>) <= FIFO_DEPTH
    BY StrelaPkgAssumption
  <2> QED BY <1>13, <2>1, NodeResetType DEF OutputTick, NodeReset
<1>14. CASE ~in.clr
  BY <1>1, <1>2, <1>3, <1>10, <1>12, <1>14 DEF OutputTick, NodeType
<1> QED BY <1>13, <1>14

\* What the wires of a column carry: no word or one.
LEMMA WireTypes ==
  ASSUME TypeOK, NEW c \in Cols, NEW s
  PROVE  /\ ShiftIn(c) = <<>> \/ \E w \in Word : ShiftIn(c) = <<w>>
         /\ TokenOut(c, s) = <<>> \/ \E w \in Word : TokenOut(c, s) = <<w>>
         /\ TokenOut(c, s) # <<>> => Astray \/ cgra[c].path # <<>>
         /\ TokenIn(c, s) = <<>> \/ \E w \in Word : TokenIn(c, s) = <<w>>
         /\ TokenIn(c, s) # <<>> => PathReady(c, s)
<1>1. imn[c].fifo \in Seq(Word) /\ cgra[c].path \in Seq(Word)
  BY DEF TypeOK, NodeType, ColumnType
<1>2. imn[c].fifo # <<>> => Head(imn[c].fifo) \in Word
  BY <1>1, HeadTailProperties
<1>3. cgra[c].path # <<>> => Head(cgra[c].path) \in Word
  BY <1>1, HeadTailProperties
<1>4. NoWord \in Word
  BY DEF Word
<1> QED BY <1>2, <1>3, <1>4 DEF ShiftIn, TokenOut, PathOffers, TokenIn, ConfEnable, OffersData

LEMMA OwnTokenType ==
  ASSUME NEW g
  PROVE  /\ OwnToken(g) = <<>> \/ \E w \in Word : OwnToken(g) = <<w>>
         /\ OwnToken(g) # <<>> => g.fresh
BY StrelaAssumption DEF OwnToken, InitWord, Word

\* Shifting keeps the number of words a PE holds.
LEMMA ShiftRegsType ==
  ASSUME NEW g, g.regs \in [1 .. Rows -> [1 .. WordsPerPE -> Word]],
         NEW w, w = <<>> \/ \E x \in Word : w = <<x>>
  PROVE  ShiftRegs(g, w) \in [1 .. Rows -> [1 .. WordsPerPE -> Word]]
<1>1. CASE w = <<>>
  BY <1>1 DEF ShiftRegs
<1>2. ASSUME NEW x \in Word, w = <<x>>
      PROVE  ShiftRegs(g, w) \in [1 .. Rows -> [1 .. WordsPerPE -> Word]]
  <2>1. ASSUME NEW r \in 1 .. Rows
        PROVE  Tail(g.regs[r]) \o w \in [1 .. WordsPerPE -> Word]
    <3>1. PICK W \in Nat \ {0} : W = WordsPerPE
      BY StrelaAssumption
    <3>0. g.regs[r] \in [1 .. W -> Word]
      BY <3>1
    <3>2. PICK s \in Seq(Word) : s = g.regs[r] /\ Len(s) = W
      BY <3>0
    <3>3. s # <<>>
      BY <3>1, <3>2, EmptySeq
    <3>4. Tail(s) \in Seq(Word) /\ Len(Tail(s)) = W - 1
      BY <3>2, <3>3, HeadTailProperties
    <3>5. w \in Seq(Word) /\ Len(w) = 1
      BY <1>2
    <3>6. Tail(s) \o w \in Seq(Word) /\ Len(Tail(s) \o w) = Len(Tail(s)) + Len(w)
      BY <3>4, <3>5, ConcatProperties
    <3>7. (W - 1) + 1 = W
      BY <3>1
    <3> QED BY <3>1, <3>2, <3>4, <3>5, <3>6, <3>7, LenProperties
  <2>2. PICK q : q = (g.cnt \div WordsPerPE) + 1
    OBVIOUS
  <2>3. ShiftRegs(g, w) = IF w # <<>> /\ q <= Rows
                          THEN [g.regs EXCEPT ![q] = Tail(g.regs[q]) \o w] ELSE g.regs
    BY <2>2 DEF ShiftRegs
  <2> QED BY <2>1, <2>3
<1> QED BY <1>1, <1>2

LEMMA ShiftCountType ==
  ASSUME NEW g, g.cnt \in 0 .. Rows * WordsPerPE, NEW w, NEW clr \in BOOLEAN
  PROVE  ShiftCount(g, w, clr) \in 0 .. Rows * WordsPerPE
<1>1. PICK N \in Nat : N = Rows * WordsPerPE
  BY StrelaAssumption
<1>2. PICK k \in 0 .. N : k = g.cnt
  BY <1>1
<1>3. k < N => k + 1 \in 0 .. N
  OBVIOUS
<1>4. 0 \in 0 .. N
  OBVIOUS
<1> QED BY <1>1, <1>2, <1>3, <1>4 DEF ShiftCount

LEMMA ColumnTickType ==
  ASSUME ~Astray, NEW g \in ColumnType, Len(g.path) <= PATH_SLOTS, g.fresh => g.path = <<>>,
         NEW w, w = <<>> \/ \E x \in Word : w = <<x>>,
         NEW clr \in BOOLEAN,
         NEW in, in = <<>> \/ \E x \in Word : in = <<x>>,
         in # <<>> => Len(g.path) < PATH_SLOTS,
         NEW out, out # <<>> => g.path # <<>>
  PROVE  /\ ColumnTick(g, w, clr, in, out) \in ColumnType
         /\ Len(ColumnTick(g, w, clr, in, out).path) <= PATH_SLOTS
         /\ clr => ColumnTick(g, w, clr, in, out).path = <<>>
<1>1. /\ g.regs \in [1 .. Rows -> [1 .. WordsPerPE -> Word]]
      /\ g.cnt \in 0 .. Rows * WordsPerPE /\ g.fresh \in BOOLEAN /\ g.path \in Seq(Word)
  BY DEF ColumnType
<1>2. ShiftRegs(g, w) \in [1 .. Rows -> [1 .. WordsPerPE -> Word]]
  BY <1>1, ShiftRegsType
<1>3. ShiftCount(g, w, clr) \in 0 .. Rows * WordsPerPE
  BY <1>1, ShiftCountType
<1>4. PICK p \in Seq(Word), lp \in Nat, S \in Nat \ {0, 1} :
        p = g.path /\ lp = Len(p) /\ S = PATH_SLOTS /\ lp <= S
  BY <1>1, LenProperties, StrelaAssumption
<1>5. PICK own \in Seq(Word), lo \in {0, 1} :
        own = OwnToken(g) /\ lo = Len(own) /\ (lo = 1 => lp = 0)
  <2>1. OwnToken(g) # <<>> => lp = 0
    BY <1>4, OwnTokenType, EmptySeq
  <2>2. CASE OwnToken(g) = <<>>
    <3>1. <<>> \in Seq(Word) /\ 0 = Len(<<>>)
      BY EmptySeq
    <3>2. 0 \in {0, 1} /\ 0 # 1
      OBVIOUS
    <3> QED BY <2>2, <3>1, <3>2, Zenon
  <2>3. ASSUME NEW x \in Word, OwnToken(g) = <<x>>
        PROVE  \E own \in Seq(Word), lo \in {0, 1} :
                 own = OwnToken(g) /\ lo = Len(own) /\ (lo = 1 => lp = 0)
    <3>1. <<x>> \in Seq(Word) /\ 1 = Len(<<x>>) /\ <<x>> # <<>>
      OBVIOUS
    <3> QED BY <2>1, <2>3, <3>1
  <2> QED BY <2>2, <2>3, OwnTokenType
<1>6. PICK i \in Seq(Word), li \in {0, 1} : i = in /\ li = Len(i) /\ (li = 1 => lp < S)
  <2>1. CASE in = <<>>
    <3>1. <<>> \in Seq(Word) /\ 0 = Len(<<>>)
      BY EmptySeq
    <3>2. 0 \in {0, 1} /\ 0 # 1
      OBVIOUS
    <3> QED BY <2>1, <3>1, <3>2, Zenon
  <2>2. ASSUME NEW x \in Word, in = <<x>>
        PROVE  \E i \in Seq(Word), li \in {0, 1} : i = in /\ li = Len(i) /\ (li = 1 => lp < S)
    <3>1. <<x>> \in Seq(Word) /\ 1 = Len(<<x>>) /\ <<x>> # <<>>
      OBVIOUS
    <3>2. lp < S
      BY <1>4, <2>2, <3>1
    <3> QED BY <2>2, <3>1, <3>2
  <2> QED BY <2>1, <2>2
<1>7. PICK pop : pop = (out # <<>>)
  OBVIOUS
<1>8. PICK q \in Seq(Word), lq \in Nat :
        q = (IF pop THEN Tail(p) ELSE p) \o own /\ lq = Len(q) /\ lq <= lp + lo
  <2>1. pop => p # <<>>
    BY <1>4, <1>7
  <2>2. /\ (IF pop THEN Tail(p) ELSE p) \o own \in Seq(Word)
        /\ Len((IF pop THEN Tail(p) ELSE p) \o own) = (IF pop THEN Len(p) - 1 ELSE Len(p)) + Len(own)
    BY <2>1, PopPush
  <2>3. (IF pop THEN lp - 1 ELSE lp) + lo <= lp + lo
    OBVIOUS
  <2> QED BY <1>4, <1>5, <2>2, <2>3, LenProperties
<1>9. q \o i \in Seq(Word) /\ Len(q \o i) = Len(q) + Len(i)
  BY ConcatProperties
<1>10. lq + li <= S
  <2>1. /\ lq <= lp + lo /\ lp <= S
        /\ lo = 1 => lp = 0
        /\ li = 1 => lp < S
    BY <1>4, <1>5, <1>6, <1>8
  <2> QED BY <2>1
<1>11. ColumnTick(g, w, clr, in, out).path = IF clr THEN <<>> ELSE q \o i
  BY <1>4, <1>5, <1>6, <1>7, <1>8 DEF ColumnTick
<1>12. /\ ColumnTick(g, w, clr, in, out).path \in Seq(Word)
       /\ Len(ColumnTick(g, w, clr, in, out).path) <= PATH_SLOTS
  <2>1. CASE clr
    <3>1. Len(<<>>) <= S
      BY EmptySeq
    <3> QED BY <1>4, <1>11, <2>1, <3>1, EmptySeq
  <2>2. CASE ~clr
    BY <1>4, <1>6, <1>8, <1>9, <1>10, <1>11, <2>2
  <2> QED BY <2>1, <2>2
<1> QED BY <1>2, <1>3, <1>11, <1>12 DEF ColumnTick, ColumnType

LEMMA ColumnsStep ==
  ASSUME TypeOK, FreshIsEmpty,
         NEW gi, NEW go, NEW ri, NEW ro, NEW s, Clock(gi, go, ri, ro, s)
  PROVE  /\ cgra' \in [Cols -> ColumnType]
         /\ \A c \in Cols : Len(cgra'[c].path) <= PATH_SLOTS
         /\ FreshIsEmpty'
<1>1. ASSUME NEW c \in Cols
      PROVE  /\ cgra'[c] \in ColumnType /\ Len(cgra'[c].path) <= PATH_SLOTS
             /\ cgra'[c].fresh => cgra'[c].path = <<>>
  <2>1. PICK g, w, in, out : g = cgra[c] /\ w = ShiftIn(c) /\ in = TokenIn(c, s) /\ out = TokenOut(c, s)
    OBVIOUS
  <2>2. PICK clr \in BOOLEAN : clr = clr_cgra
    BY DEF clr_cgra
  <2>3. cgra'[c] = ColumnTick(g, w, clr, in, out)
    BY <2>1, <2>2 DEF Clock
  <2>4. g \in ColumnType /\ Len(g.path) <= PATH_SLOTS /\ (g.fresh => g.path = <<>>)
    BY <2>1 DEF TypeOK, FreshIsEmpty
  <2>5. /\ w = <<>> \/ \E x \in Word : w = <<x>>
        /\ in = <<>> \/ \E x \in Word : in = <<x>>
        /\ in # <<>> => Astray \/ Len(g.path) < PATH_SLOTS
        /\ out # <<>> => Astray \/ g.path # <<>>
    BY <2>1, WireTypes DEF PathReady
  <2>6. /\ ColumnTick(g, w, clr, in, out) \in ColumnType
        /\ Len(ColumnTick(g, w, clr, in, out).path) <= PATH_SLOTS
        /\ clr => ColumnTick(g, w, clr, in, out).path = <<>>
    <3>1. CASE ~Astray
      BY <2>4, <2>5, <3>1, ColumnTickType
    <3>2. CASE Astray
      <4>1. ColumnTick(g, w, clr, in, out).path = <<>>
        BY <3>2 DEF ColumnTick
      <4>2. /\ g.regs \in [1 .. Rows -> [1 .. WordsPerPE -> Word]]
            /\ g.cnt \in 0 .. Rows * WordsPerPE
        BY <2>4 DEF ColumnType
      <4>3. /\ ShiftRegs(g, w) \in [1 .. Rows -> [1 .. WordsPerPE -> Word]]
            /\ ShiftCount(g, w, clr) \in 0 .. Rows * WordsPerPE
        BY <2>5, <4>2, ShiftRegsType, ShiftCountType
      <4>4. <<>> \in Seq(Word) /\ Len(<<>>) <= PATH_SLOTS
        BY EmptySeq, StrelaAssumption
      <4> QED BY <4>1, <4>3, <4>4 DEF ColumnTick, ColumnType
    <3> QED BY <3>1, <3>2
  <2>7. ColumnTick(g, w, clr, in, out).fresh = clr
    BY DEF ColumnTick
  <2> QED BY <2>3, <2>6, <2>7
<1>2. cgra' = [c \in Cols |->
                  ColumnTick(cgra[c], ShiftIn(c), clr_cgra, TokenIn(c, s), TokenOut(c, s))]
  BY DEF Clock
<1> QED BY <1>1, <1>2 DEF FreshIsEmpty

LEMMA AddressedWord == TypeOK => \A c \in Cols : Addressed(c) \in Word
<1> SUFFICES ASSUME TypeOK, NEW c \in Cols PROVE Addressed(c) \in Word
  OBVIOUS
<1>1. /\ params.conf_addr \in Kernels \cup {NoWord} /\ run \in {0, 1}
      /\ imn[c].addr_offset \in 0 .. OFFSET_RANGE - 1
  BY DEF TypeOK, NodeType
<1>2. ASSUME NEW k \in Kernels \cup {NoWord}, NEW o \in 0 .. OFFSET_RANGE - 1
      PROVE  ConfWord(k, c, o) \in Word
  <2>1. PICK K : K = Kernels \cup {NoWord}
    OBVIOUS
  <2>2. k \in K
    BY <2>1
  <2>3. ConfWord(k, c, o) \in {ConfWord(k2, c2, o2) : k2 \in K,
                                c2 \in Cols, o2 \in 0 .. OFFSET_RANGE - 1}
    BY <2>2
  <2> QED BY <2>1, <2>3 DEF Word
<1>3. ASSUME NEW r \in {0, 1}, NEW o \in 0 .. OFFSET_RANGE - 1
      PROVE  DataWord(r, c, o) \in Word
  <2>1. DataWord(r, c, o) \in {DataWord(r2, c2, o2) : r2 \in {0, 1},
                                c2 \in Cols, o2 \in 0 .. OFFSET_RANGE - 1}
    OBVIOUS
  <2> QED BY <2>1 DEF Word
<1> QED BY <1>1, <1>2, <1>3 DEF Addressed

LEMMA BusStep ==
  ASSUME TypeOK, NEW gi, NEW go, NEW ri, NEW ro, NEW s, Clock(gi, go, ri, ro, s)
  PROVE  /\ rd' \in [Cols -> Seq(Word)] /\ wr' \in [Cols -> BOOLEAN]
         /\ \A c \in Cols : Len(rd'[c]) <= 1
         /\ written' \in [Cols -> Seq(Word)]
<1>1. ASSUME NEW c \in Cols PROVE rd'[c] \in Seq(Word) /\ Len(rd'[c]) <= 1
  <2>1. rd[c] \in Seq(Word) /\ Len(rd[c]) <= 1
    BY DEF TypeOK
  <2>2. PICK a \in Word : a = Addressed(c)
    BY AddressedWord
  <2>3. rd'[c] = IF c \in gi THEN <<a>> ELSE IF c \in ri THEN <<>> ELSE rd[c]
    BY <2>2, ClockedNodes
  <2>4. <<a>> \in Seq(Word) /\ Len(<<a>>) <= 1 /\ <<>> \in Seq(Word) /\ Len(<<>>) <= 1
    OBVIOUS
  <2> QED BY <2>1, <2>3, <2>4
<1>2. DOMAIN rd' = Cols /\ rd' = [c \in DOMAIN rd' |-> rd'[c]]
  BY DEF Clock
<1>3. rd' \in [Cols -> Seq(Word)]
  BY <1>1, <1>2
<1>4. wr' \in [Cols -> BOOLEAN]
  BY DEF Clock, TypeOK
<1>5. ASSUME NEW c \in Cols
      PROVE  (IF ctrl.start THEN <<>>
              ELSE IF c \in go THEN Append(written[c], Head(omn[c].fifo))
              ELSE written[c]) \in Seq(Word)
  <2>1. written[c] \in Seq(Word) /\ omn[c].fifo \in Seq(Word)
    BY DEF TypeOK, NodeType
  <2>2. CASE c \in go
    <3>1. omn[c].fifo # <<>>
      BY <2>2 DEF Clock, GrantsAllowed, WritesEligible, OutputRequests
    <3>2. Head(omn[c].fifo) \in Word
      BY <2>1, <3>1, HeadTailProperties
    <3>3. Append(written[c], Head(omn[c].fifo)) \in Seq(Word)
      BY <2>1, <3>2, AppendProperties
    <3> QED BY <3>3, <2>2, EmptySeq
  <2>3. CASE c \notin go
    BY <2>1, <2>3, EmptySeq
  <2> QED BY <2>2, <2>3
<1>6. written' \in [Cols -> Seq(Word)]
  BY <1>5 DEF Clock
<1> QED BY <1>1, <1>3, <1>4, <1>6

LEMMA NodesStep ==
  ASSUME TypeOK, NEW gi, NEW go, NEW ri, NEW ro, NEW s, Clock(gi, go, ri, ro, s)
  PROVE  /\ imn' \in [Cols -> NodeType(InputStates)]
         /\ omn' \in [Cols -> NodeType(OutputStates)]
         /\ \A c \in Cols : Len(omn'[c].fifo) <= FIFO_DEPTH
<1>1. ASSUME NEW c \in Cols
      PROVE  InputTick(imn[c], InputIn(c, gi, ri, s)) \in NodeType(InputStates)
  <2>1. PICK n, in : n = imn[c] /\ in = InputIn(c, gi, ri, s)
    OBVIOUS
  <2>2. n \in NodeType(InputStates)
    BY <2>1 DEF TypeOK
  <2>3. in.stride \in Nat
    BY <2>1, StrelaPkgAssumption DEF InputIn
  <2>4. in.rvalid \in Seq(Word)
    <3>1. in.rvalid = IF c \in ri THEN rd[c] ELSE <<>>
      BY <2>1 DEF InputIn
    <3> QED BY <3>1, EmptySeq DEF TypeOK
  <2> QED BY <2>1, <2>2, <2>3, <2>4, InputTickType
<1>2. ASSUME NEW c \in Cols
      PROVE  /\ OutputTick(omn[c], OutputIn(c, go, s)) \in NodeType(OutputStates)
             /\ Len(OutputTick(omn[c], OutputIn(c, go, s)).fifo) <= FIFO_DEPTH
  <2>1. PICK n, in : n = omn[c] /\ in = OutputIn(c, go, s)
    OBVIOUS
  <2>2. n \in NodeType(OutputStates) /\ Len(n.fifo) <= FIFO_DEPTH
    BY <2>1 DEF TypeOK
  <2>3. in.din = TokenOut(c, s)
    BY <2>1 DEF OutputIn
  <2>4. in.din \in Seq(Word) /\ Len(in.din) <= 1
    <3>1. CASE TokenOut(c, s) = <<>>
      BY <2>3, <3>1, EmptySeq
    <3>2. ASSUME NEW x \in Word, TokenOut(c, s) = <<x>> PROVE in.din \in Seq(Word) /\ Len(in.din) <= 1
      BY <2>3, <3>2
    <3> QED BY <3>1, <3>2, WireTypes
  <2> QED BY <2>1, <2>2, <2>4, OutputTickType
<1> QED BY <1>1, <1>2 DEF Clock

LEMMA ControlStep ==
  ASSUME TypeOK, NEW gi, NEW go, NEW ri, NEW ro, NEW s, Clock(gi, go, ri, ro, s)
  PROVE  /\ ctl' \in [state : ControlStates, conf_done_reg : BOOLEAN]
         /\ status' \in [exec_done : BOOLEAN, conf_done : BOOLEAN]
<1>1. ctl.state \in ControlStates
  BY DEF TypeOK
<1>2. ControlNextState(ctl, controlIn) \in ControlStates
  BY <1>1 DEF ControlNextState, StartState, ControlStates
<1>3. NextConfReg(ctl, controlIn) \in BOOLEAN
  BY DEF NextConfReg
<1>4. ctl' \in [state : ControlStates, conf_done_reg : BOOLEAN]
  BY <1>2, <1>3 DEF Clock, ControlTick, ControlReset, ControlStates
<1> QED BY <1>4 DEF Clock, NextStatus

LEMMA SoftwareStep ==
  ASSUME TypeOK, Next
  PROVE  /\ ctrl' \in [start : BOOLEAN, clr : BOOLEAN, clr_param : BOOLEAN, clr_conf : BOOLEAN]
         /\ params' \in [conf_addr : Kernels \cup {NoWord}, size : [Cols -> Nat]]
         /\ driver' \in {"ready", "running", "cleared", "resized"}
         /\ kernel' \in Kernels /\ run' \in {0, 1}
<1> USE DEF TypeOK, Write, Quiet, Pulse
<1>1. NoParams \in [conf_addr : Kernels \cup {NoWord}, size : [Cols -> Nat]]
  BY DEF NoParams
<1>2. CASE NoAccess
  BY <1>1, <1>2 DEF NoAccess, ParamsKept
<1>3. CASE WriteStart
  BY <1>3 DEF WriteStart
<1>4. CASE PollDone
  BY <1>4 DEF PollDone
<1>5. CASE WriteClear
  BY <1>5 DEF WriteClear
<1>6. CASE WriteClearConf
  BY <1>6 DEF WriteClearConf
<1>7. CASE WriteClearParam
  BY <1>7 DEF WriteClearParam
<1>8. CASE WriteParams
  <2>1. kernel' \in Kernels
    BY <1>8 DEF WriteParams
  <2>2. PICK size \in [Cols -> Sizes] : params' = [conf_addr |-> kernel', size |-> size]
    BY <1>8 DEF WriteParams
  <2>3. size \in [Cols -> Nat]
    BY StrelaAssumption
  <2> QED BY <1>8, <2>1, <2>2, <2>3 DEF WriteParams
<1> QED BY <1>2, <1>3, <1>4, <1>5, <1>6, <1>7, <1>8 DEF Next

-----------------------------------------------------------------------------
(* The invariant and the theorems                                          *)

\* Each part needs others: the step of TypeOK needs FreshIsEmpty for the
\* places of the path, that of PhasesAgree needs StartAlone, and that of
\* DoneMeansIdle needs PhasesAgree.
IInv == TypeOK /\ FreshIsEmpty /\ PhasesAgree /\ StartAlone /\ RoomForEveryRead
        /\ DoneMeansIdle

LEMMA InitInv == Init => IInv
<1> SUFFICES ASSUME Init PROVE IInv
  OBVIOUS
<1>1. /\ <<>> \in Seq(Word) /\ Len(<<>>) = 0 /\ NoWord \in Word
      /\ 0 <= FIFO_DEPTH /\ 0 <= PATH_SLOTS /\ 0 <= 1 /\ 0 + 0 <= WORST_MEM_LATENCY + 1
  BY EmptySeq, StrelaPkgAssumption, StrelaAssumption DEF Word
<1>2. 0 \in 0 .. Rows * WordsPerPE
  <2>1. PICK N \in Nat : N = Rows * WordsPerPE
    BY StrelaAssumption
  <2> QED BY <2>1
<1>3. EmptyColumn \in ColumnType
  BY <1>1, <1>2 DEF EmptyColumn, ColumnType
<1>4. NoParams \in [conf_addr : Kernels \cup {NoWord}, size : [Cols -> Nat]]
  BY DEF NoParams
<1>5. ctl \in [state : ControlStates, conf_done_reg : BOOLEAN]
  BY DEF Init, ControlReset, ControlStates
<1>6. TypeOK
  BY <1>1, <1>3, <1>4, <1>5, NodeResetType
     DEF Init, TypeOK, Quiet, Pulse, NodeReset, EmptyColumn
<1>7. FreshIsEmpty /\ PhasesAgree /\ StartAlone /\ DoneMeansIdle
  BY DEF Init, FreshIsEmpty, PhasesAgree, StartAlone, DoneMeansIdle, EmptyColumn,
         NodeReset, ControlReset
<1>8. RoomForEveryRead
  BY <1>1 DEF Init, RoomForEveryRead, NodeReset
<1> QED BY <1>6, <1>7, <1>8 DEF IInv

LEMMA StepInv == IInv /\ [Next]_vars => IInv'
<1> SUFFICES ASSUME IInv, [Next]_vars PROVE IInv'
  OBVIOUS
<1>1. CASE Next
  <2>1. PICK gi, go, ri, ro, s : Clock(gi, go, ri, ro, s)
    BY <1>1 DEF Next, Hardware
  <2>2. cgra' \in [Cols -> ColumnType] /\ FreshIsEmpty'
        /\ \A c \in Cols : Len(cgra'[c].path) <= PATH_SLOTS
    BY <2>1, ColumnsStep DEF IInv
  <2>3. /\ rd' \in [Cols -> Seq(Word)] /\ wr' \in [Cols -> BOOLEAN]
        /\ \A c \in Cols : Len(rd'[c]) <= 1
        /\ written' \in [Cols -> Seq(Word)]
    BY <2>1, BusStep DEF IInv
  <2>4. /\ imn' \in [Cols -> NodeType(InputStates)]
        /\ omn' \in [Cols -> NodeType(OutputStates)]
        /\ \A c \in Cols : Len(omn'[c].fifo) <= FIFO_DEPTH
    BY <2>1, NodesStep DEF IInv
  <2>5. /\ ctl' \in [state : ControlStates, conf_done_reg : BOOLEAN]
        /\ status' \in [exec_done : BOOLEAN, conf_done : BOOLEAN]
    BY <2>1, ControlStep DEF IInv
  <2>6. TypeOK'
    BY <1>1, <2>2, <2>3, <2>4, <2>5, SoftwareStep DEF IInv, TypeOK
  <2>7. PhasesAgree'
    BY <2>1, PhasesStep DEF IInv
  <2>8. StartAlone'
    BY <1>1, StartAloneStep DEF IInv
  <2>9. RoomForEveryRead'
    BY <2>1, RoomStep DEF IInv
  <2>10. DoneMeansIdle'
    BY <2>1, DoneMeansIdleStep DEF IInv
  <2> QED BY <2>2, <2>6, <2>7, <2>8, <2>9, <2>10 DEF IInv
<1>2. CASE UNCHANGED vars
  BY <1>2 DEF vars, IInv, TypeOK, FreshIsEmpty, PhasesAgree, StartAlone, RoomForEveryRead,
              DoneMeansIdle
<1> QED BY <1>1, <1>2

LEMMA Invariant == Spec => []IInv
BY InitInv, StepInv, PTL DEF Spec

\* Type correctness, with the bounds of every FIFO: a writer's FIFO never
\* takes more words than it has places and a data path never more tokens
\* (output_memory_node.sv:102-121, fifo_v3.sv:75-97).
THEOREM StrelaTypes == Spec => []TypeOK
<1>1. IInv => TypeOK
  BY DEF IInv
<1> QED BY Invariant, <1>1, PTL

\* The three kinds of state machine stay in step, whatever the order of
\* grants, responses and register accesses (control_unit.sv:65-99,
\* input_memory_node.sv:102-152, output_memory_node.sv:69-100).
THEOREM StrelaPhases == Spec => []PhasesAgree
<1>1. IInv => PhasesAgree
  BY DEF IInv
<1> QED BY Invariant, <1>1, PTL

\* No word read from memory is ever without a place in its FIFO, for every
\* request limit that leaves one place beside the depth
\* (input_memory_node.sv:127,145,159-171; fifo_v3.sv:49).
THEOREM StrelaRoom == Spec => []RoomForEveryRead
<1>1. IInv => RoomForEveryRead
  BY DEF IInv
<1> QED BY Invariant, <1>1, PTL

\* A done flag that software can see is never the flag of an earlier run
\* while this one executes (mmio_interface.sv:90-91).
THEOREM StrelaDoneIsFresh == Spec => []DoneMeansIdle
<1>1. IInv => DoneMeansIdle
  BY DEF IInv
<1> QED BY Invariant, <1>1, PTL

\* When the memory answers in one cycle and software clears only between
\* runs, an idle accelerator has no word in an input FIFO or on its way
\* there, however the bus orders the reads (input_memory_node.sv:94,162,
\* strela_top.sv:96).
THEOREM StrelaNothingLeft ==
  Slow = {} /\ ~ClearAnytime => (Spec => []NothingLeftBehind)
<1> SUFFICES ASSUME Slow = {}, ~ClearAnytime PROVE Spec => []NothingLeftBehind
  OBVIOUS
<1>1. Init => DriverKnows /\ NothingLeftBehind
  BY DEF Init, DriverKnows, NothingLeftBehind, ControlReset, NodeReset, Quiet, Pulse
<1>2. IInv /\ DriverKnows /\ NothingLeftBehind /\ [Next]_vars
        => DriverKnows' /\ NothingLeftBehind'
  <2> SUFFICES ASSUME IInv, DriverKnows, NothingLeftBehind, [Next]_vars
               PROVE  DriverKnows' /\ NothingLeftBehind'
    OBVIOUS
  <2>1. CASE Next
    BY <2>1, DriverKnowsStep, NothingLeftStep DEF IInv
  <2>2. CASE UNCHANGED vars
    BY <2>2 DEF vars, DriverKnows, NothingLeftBehind
  <2> QED BY <2>1, <2>2
<1> QED BY Invariant, <1>1, <1>2, PTL DEF Spec

-----------------------------------------------------------------------------
(* The run that software sees                                              *)

\* Every node is done only at the end of EXEC and in DONE.
LEMMA AllDonePhase ==
  ASSUME PhasesAgree, mn_done
  PROVE  ctl.state \notin {"IDLE", "WAIT"}
<1>1. PICK c \in Cols : imn[c].state = "DONE"
  BY StrelaAssumption DEF mn_done, InputDone
<1> QED BY <1>1 DEF PhasesAgree

\* A cycle of the hardware, by the phase it begins in.
LEMMA RunRefines ==
  ASSUME TypeOK, PhasesAgree, DriverKnows, Next
  PROVE  Abstract!AccNext
<1> DEFINE quiet == ~ctrl.start /\ ~ctrl.clr /\ ~ctrl.clr_param
<1> USE DEF AccState, Abstract!AccNext
<1>1. PICK gi, go, ri, ro, s : Clock(gi, go, ri, ro, s)
  BY DEF Next, Hardware
<1>2. /\ ctl'.state = IF ctrl.clr THEN "IDLE" ELSE ControlNextState(ctl, controlIn)
      /\ status'.exec_done = (quiet /\ (mn_done \/ status.exec_done))
  BY <1>1, ClockedStates DEF Clock, NextStatus
<1>3. /\ ctl.state \in ControlStates
      /\ quiet /\ ~mn_done => status'.exec_done = status.exec_done
      /\ quiet /\ mn_done => status'.exec_done = TRUE
      /\ ~quiet => status'.exec_done = FALSE
  <2>1. ctl.state \in ControlStates /\ status.exec_done \in BOOLEAN
    BY DEF TypeOK
  <2> HIDE DEF quiet
  <2> QED BY <1>2, <2>1, Zenon
<1>4. ctl.state # "IDLE" => quiet /\ ~ctrl'.start
  <2>1. ctl.state # "IDLE" => quiet /\ driver = "running"
    BY DEF DriverKnows
  <2>2. driver = "running" => ~ctrl'.start
    BY DEF Next, NoAccess, WriteStart, PollDone, WriteClear, WriteClearConf,
           WriteClearParam, WriteParams, Write, Quiet, Pulse
  <2> QED BY <2>1, <2>2
<1>5. CASE ctrl.start
  <2>1. ctl.state = "IDLE" /\ ~ctrl.clr /\ ~ctrl'.start
    BY <1>5, QuietBeforeWrite DEF DriverKnows, Quiet, Pulse
  <2>2. ctl'.state \in {"WAIT", "EXEC"}
    BY <1>2, <1>5, <2>1 DEF ControlNextState, StartState, controlIn
  <2> QED BY <1>3, <1>5, <2>1, <2>2 DEF Abstract!Begin
<1>6. CASE ~ctrl.start /\ ctl.state = "IDLE"
  <2>1. ctl'.state = "IDLE" /\ ~mn_done
    BY <1>2, <1>6, AllDonePhase DEF ControlNextState, StartState, controlIn
  <2>2. CASE quiet /\ ctrl'.start
    BY <1>3, <1>6, <2>1, <2>2 DEF Abstract!Start
  <2>3. CASE quiet /\ ~ctrl'.start
    BY <1>3, <1>6, <2>1, <2>3 DEF Abstract!Work
  <2>4. CASE ~quiet
    <3>1. ~ctrl'.start
      BY <1>6, <2>4, QuietBeforeWrite DEF Quiet, Pulse
    <3> QED BY <1>3, <1>6, <2>1, <2>4, <3>1 DEF Abstract!Clear
  <2> QED BY <2>2, <2>3, <2>4
<1>7. CASE ctl.state = "WAIT"
  <2>1. ctl'.state \in {"WAIT", "EXEC"} /\ ~mn_done
    BY <1>2, <1>4, <1>7, AllDonePhase DEF ControlNextState
  <2> QED BY <1>3, <1>4, <1>7, <2>1 DEF Abstract!Work
<1>8. CASE ctl.state = "EXEC"
  <2>1. ctl'.state = IF mn_done THEN "DONE" ELSE "EXEC"
    BY <1>2, <1>4, <1>8 DEF ControlNextState, controlIn
  <2> QED BY <1>3, <1>4, <1>8, <2>1 DEF Abstract!Finish, Abstract!Work
<1>9. CASE ctl.state = "DONE"
  <2>1. ctl'.state = "IDLE" /\ mn_done
    BY <1>2, <1>4, <1>9 DEF ControlNextState, PhasesAgree, mn_done, InputDone, OutputDone
  <2> QED BY <1>3, <1>4, <1>9, <2>1 DEF Abstract!Rest
<1> QED BY <1>3, <1>5, <1>6, <1>7, <1>8, <1>9 DEF ControlStates

\* Software that clears only between runs sees of a run exactly what
\* AcceleratorRun promises, however many columns there are and however long the
\* memory takes (control_unit.sv:59-104, mmio_interface.sv:89-91).
THEOREM StrelaImplementsRun == ~ClearAnytime => (Spec => ImplementsRun)
<1> SUFFICES ASSUME ~ClearAnytime PROVE Spec => ImplementsRun
  OBVIOUS
<1>1. Init => DriverKnows /\ Abstract!AccInit
  BY DEF Init, DriverKnows, ControlReset, Quiet, Pulse, Abstract!AccInit, AccState
<1>2. IInv /\ DriverKnows /\ [Next]_vars => DriverKnows'
  BY DriverKnowsStep DEF IInv, vars, DriverKnows
<1>3. IInv /\ DriverKnows /\ [Next]_vars => [Abstract!AccNext]_<<AccState, status.exec_done>>
  BY RunRefines DEF IInv, vars, AccState
<1> QED BY Invariant, <1>1, <1>2, <1>3, PTL DEF Spec, ImplementsRun, Abstract!AccSpec

-----------------------------------------------------------------------------
(* Consecutive words                                                       *)

\* s holds words k, k + 1, ... of a block of memory.
Numbered(kind, x, c, i) == <<kind, x, c, i * CONF_STRIDE>>
Consecutive(kind, x, c, k, s) ==
    \A i \in 1 .. Len(s) : s[i] = Numbered(kind, x, c, k + i - 1)

LEMMA ConsecutiveEmpty ==
  ASSUME NEW kind, NEW x, NEW c, NEW k
  PROVE  Consecutive(kind, x, c, k, <<>>)
BY EmptySeq DEF Consecutive

LEMMA ConsecutiveTail ==
  ASSUME NEW S, NEW s \in Seq(S), s # <<>>, NEW k \in Nat, NEW kind, NEW x, NEW c,
         Consecutive(kind, x, c, k, s)
  PROVE  /\ Head(s) = Numbered(kind, x, c, k)
         /\ Consecutive(kind, x, c, k + 1, Tail(s))
         /\ Tail(s) \in Seq(S) /\ Len(Tail(s)) = Len(s) - 1
<1>1. /\ Tail(s) \in Seq(S) /\ Len(Tail(s)) = Len(s) - 1 /\ Len(s) \in Nat \ {0}
      /\ Head(s) = s[1] /\ \A i \in 1 .. Len(s) - 1 : Tail(s)[i] = s[i + 1]
  BY HeadTailProperties, LenProperties, EmptySeq
<1>2. \A i \in 1 .. Len(s) : s[i] = Numbered(kind, x, c, k + i - 1)
  BY DEF Consecutive
<1>3. s[1] = Numbered(kind, x, c, k + 1 - 1) /\ k + 1 - 1 = k
  BY <1>1, <1>2
<1>4. ASSUME NEW i \in 1 .. Len(s) - 1
      PROVE  Tail(s)[i] = Numbered(kind, x, c, (k + 1) + i - 1)
  <2>1. i + 1 \in 1 .. Len(s) /\ k + (i + 1) - 1 = (k + 1) + i - 1
    BY <1>1
  <2> QED BY <1>1, <1>2, <2>1
<1> QED BY <1>1, <1>3, <1>4 DEF Consecutive

LEMMA ConsecutiveConcat ==
  ASSUME NEW S, NEW s \in Seq(S), NEW t \in Seq(S), NEW k \in Nat, NEW kind, NEW x, NEW c,
         Consecutive(kind, x, c, k, s), Consecutive(kind, x, c, k + Len(s), t)
  PROVE  /\ Consecutive(kind, x, c, k, s \o t)
         /\ s \o t \in Seq(S) /\ Len(s \o t) = Len(s) + Len(t)
<1>1. PICK l \in Nat, m \in Nat : l = Len(s) /\ m = Len(t)
  BY LenProperties
<1>2. s \o t \in Seq(S) /\ Len(s \o t) = l + m
  BY <1>1, ConcatProperties
<1>3. ASSUME NEW i \in 1 .. l + m PROVE (s \o t)[i] = Numbered(kind, x, c, k + i - 1)
  <2>0. /\ \A j \in 1 .. l : s[j] = Numbered(kind, x, c, k + j - 1)
        /\ \A j \in 1 .. m : t[j] = Numbered(kind, x, c, (k + l) + j - 1)
    BY <1>1 DEF Consecutive
  <2>1. CASE i <= l
    <3>1. (s \o t)[i] = s[i] /\ i \in 1 .. l
      BY <1>1, <2>1, ConcatProperties
    <3> QED BY <2>0, <3>1
  <2>2. CASE i > l
    <3>1. PICK j \in 1 .. m : j = i - l
      BY <2>2
    <3>2. (s \o t)[i] = t[j] /\ (k + l) + j - 1 = k + i - 1
      BY <1>1, <2>2, <3>1, ConcatProperties
    <3>3. t[j] = Numbered(kind, x, c, (k + l) + j - 1)
      BY <2>0, <3>1
    <3> QED BY <3>2, <3>3
  <2>3. i <= l \/ i > l
    OBVIOUS
  <2> QED BY <2>1, <2>2, <2>3, Zenon
<1> QED BY <1>1, <1>2, <1>3 DEF Consecutive

LEMMA ConsecutiveOne ==
  ASSUME NEW k \in Nat, NEW kind, NEW x, NEW c
  PROVE  Consecutive(kind, x, c, k, <<Numbered(kind, x, c, k)>>)
<1>1. \A i \in 1 .. 1 : i = 1 /\ k + i - 1 = k
  OBVIOUS
<1>2. PICK w : w = Numbered(kind, x, c, k)
  OBVIOUS
<1>3. Len(<<w>>) = 1 /\ <<w>>[1] = w
  OBVIOUS
<1> QED BY <1>1, <1>2, <1>3 DEF Consecutive

LEMMA Sums ==
  /\ \A k, l, m, n \in Nat : m = k + l => k + (l + n) = m + n
  /\ \A k, l, m, n \in Nat : m = k + l /\ l # 0 =>
       /\ l - 1 \in Nat /\ k + 1 \in Nat /\ (k + 1) + (l - 1) = m
       /\ (k + 1) + ((l - 1) + n) = m + n
OBVIOUS

\* A part of a block that takes the words t that follow it.
LEMMA PartKeeps ==
  ASSUME NEW S, NEW b \in Seq(S), NEW t \in Seq(S), NEW k \in Nat, NEW m \in Nat,
         m = k + Len(b), NEW kind, NEW x, NEW c,
         Consecutive(kind, x, c, k, b), Consecutive(kind, x, c, m, t)
  PROVE  /\ b \o t \in Seq(S) /\ Consecutive(kind, x, c, k, b \o t)
         /\ k + Len(b \o t) = m + Len(t)
<1>1. PICK l \in Nat, n \in Nat : l = Len(b) /\ n = Len(t) /\ m = k + l
  BY LenProperties
<1>2. Consecutive(kind, x, c, k + Len(b), t)
  BY <1>1
<1>3. Consecutive(kind, x, c, k, b \o t) /\ b \o t \in Seq(S) /\ Len(b \o t) = l + n
  BY <1>1, <1>2, ConsecutiveConcat
<1>4. k + (l + n) = m + n
  BY <1>1, Sums
<1> QED BY <1>1, <1>3, <1>4

\* The same for a part that gives its first word in that cycle.
LEMMA PartGives ==
  ASSUME NEW S, NEW b \in Seq(S), b # <<>>, NEW t \in Seq(S), NEW k \in Nat, NEW m \in Nat,
         m = k + Len(b), NEW kind, NEW x, NEW c,
         Consecutive(kind, x, c, k, b), Consecutive(kind, x, c, m, t)
  PROVE  /\ Tail(b) \o t \in Seq(S) /\ Consecutive(kind, x, c, k + 1, Tail(b) \o t)
         /\ (k + 1) + Len(Tail(b) \o t) = m + Len(t)
<1>1. PICK l \in Nat, n \in Nat : l = Len(b) /\ n = Len(t) /\ m = k + l /\ l # 0
  BY LenProperties, EmptySeq
<1>2. l - 1 \in Nat /\ k + 1 \in Nat /\ (k + 1) + (l - 1) = m /\ (k + 1) + ((l - 1) + n) = m + n
  BY <1>1, Sums
<1>3. PICK r \in Seq(S), p \in Nat :
        /\ r = Tail(b) /\ p = k + 1 /\ Len(r) = l - 1 /\ Consecutive(kind, x, c, p, r)
  BY <1>1, <1>2, ConsecutiveTail
<1>4. Consecutive(kind, x, c, p + Len(r), t)
  BY <1>2, <1>3, Zenon
<1>5. Consecutive(kind, x, c, p, r \o t) /\ r \o t \in Seq(S) /\ Len(r \o t) = Len(r) + Len(t)
  BY <1>3, <1>4, ConsecutiveConcat
<1> QED BY <1>1, <1>2, <1>3, <1>5, Zenon

\* The word that a part gives to the next one is its first.
LEMMA FirstWord ==
  ASSUME NEW S, NEW b \in Seq(S), b # <<>>, NEW k \in Nat, NEW kind, NEW x, NEW c,
         Consecutive(kind, x, c, k, b)
  PROVE  /\ <<Head(b)>> \in Seq(S) /\ Len(<<Head(b)>>) = 1 /\ Head(b) \in S
         /\ Consecutive(kind, x, c, k, <<Head(b)>>)
<1>1. Head(b) \in S /\ Head(b) = Numbered(kind, x, c, k)
  BY ConsecutiveTail, HeadTailProperties
<1>2. PICK w \in S : w = Head(b) /\ w = Numbered(kind, x, c, k)
  BY <1>1
<1>3. <<w>> \in Seq(S) /\ Len(<<w>>) = 1
  OBVIOUS
<1> QED BY <1>2, <1>3, ConsecutiveOne

\* A part in a cycle: it gives its first word when g, and takes the words t.
Moves(S, b, t, after, k, m, j, x, c, g) ==
    /\ b \in Seq(S) /\ t \in Seq(S) /\ k \in Nat /\ m \in Nat /\ j \in Nat
    /\ m = k + Len(b) /\ Consecutive("data", x, c, k, b) /\ Consecutive("data", x, c, m, t)
    /\ g => b # <<>> /\ after = Tail(b) \o t /\ j = k + 1
    /\ ~g => after = b \o t /\ j = k

Follows(S, s, k, n, x, c) ==
    s \in Seq(S) /\ Consecutive("data", x, c, k, s) /\ k + Len(s) = n

LEMMA PartMoves ==
  ASSUME NEW S, NEW b, NEW t, NEW after, NEW k, NEW m, NEW j, NEW x, NEW c, NEW g,
         Moves(S, b, t, after, k, m, j, x, c, g)
  PROVE  Follows(S, after, j, m + Len(t), x, c)
<1>1. /\ b \in Seq(S) /\ t \in Seq(S) /\ k \in Nat /\ m \in Nat /\ m = k + Len(b)
      /\ Consecutive("data", x, c, k, b) /\ Consecutive("data", x, c, m, t)
  BY DEF Moves
<1>2. CASE g
  <2>1. b # <<>> /\ after = Tail(b) \o t /\ j = k + 1
    BY <1>2, Zenon DEF Moves
  <2>2. /\ Tail(b) \o t \in Seq(S) /\ Consecutive("data", x, c, k + 1, Tail(b) \o t)
        /\ (k + 1) + Len(Tail(b) \o t) = m + Len(t)
    BY <1>1, <2>1, PartGives
  <2> QED BY <2>1, <2>2, Zenon DEF Follows
<1>3. CASE ~g
  <2>1. after = b \o t /\ j = k
    BY <1>3, Zenon DEF Moves
  <2>2. /\ b \o t \in Seq(S) /\ Consecutive("data", x, c, k, b \o t)
        /\ k + Len(b \o t) = m + Len(t)
    BY <1>1, PartKeeps
  <2> QED BY <2>1, <2>2, Zenon DEF Follows
<1> QED BY <1>2, <1>3, Zenon

\* What it gives.
HandsOn(S, b, t, k, j, x, c, g) ==
    /\ b \in Seq(S) /\ k \in Nat /\ Consecutive("data", x, c, k, b)
    /\ g => b # <<>> /\ t = <<Head(b)>> /\ j = k + 1
    /\ ~g => t = <<>> /\ j = k

LEMMA PartHandsOn ==
  ASSUME NEW S, NEW b, NEW t, NEW k, NEW j, NEW x, NEW c, NEW g, HandsOn(S, b, t, k, j, x, c, g)
  PROVE  Follows(S, t, k, j, x, c)
<1>1. b \in Seq(S) /\ k \in Nat /\ Consecutive("data", x, c, k, b)
  BY DEF HandsOn
<1>2. CASE g
  <2>1. b # <<>> /\ t = <<Head(b)>> /\ j = k + 1
    BY <1>2, Zenon DEF HandsOn
  <2>2. /\ <<Head(b)>> \in Seq(S) /\ Len(<<Head(b)>>) = 1
        /\ Consecutive("data", x, c, k, <<Head(b)>>)
    BY <1>1, <2>1, FirstWord
  <2> QED BY <2>1, <2>2, Zenon DEF Follows
<1>3. CASE ~g
  <2>1. t = <<>> /\ j = k
    BY <1>3, Zenon DEF HandsOn
  <2>2. <<>> \in Seq(S) /\ Consecutive("data", x, c, k, <<>>) /\ k + Len(<<>>) = k
    BY <1>1, EmptySeq, ConsecutiveEmpty
  <2> QED BY <2>1, <2>2, Zenon DEF Follows
<1> QED BY <1>2, <1>3, Zenon

-----------------------------------------------------------------------------
(* The stream of a column                                                  *)

\* The configuration stands from the moment the array executes, and CLR_CONF
\* is written between runs only.
FlagAgrees ==
    /\ ctrl.clr_conf => ctl.state = "IDLE" /\ ~ctrl.start
    /\ ctl.state \in {"EXEC", "DONE"} => ctl.conf_done_reg
    /\ ctl.state = "WAIT" => ~ctl.conf_done_reg

\* A node that waits for its phase begins at the first word.
OffsetsRest ==
    \A c \in Cols : /\ imn[c].state \in {"IDLE", "WAIT"} => imn[c].addr_offset = 0
                    /\ omn[c].state = "IDLE" => omn[c].addr_offset = 0

Words(c) == params.size[c] \div CONF_STRIDE

SizesWhole ==
    \A c \in Cols : params.size[c] = Words(c) * CONF_STRIDE /\ params.size[c] < OFFSET_RANGE

\* Words of column c's block that are stored, that have left the array, entered
\* it, arrived at the input node, been asked for.
Stored(c)    == Len(written[c])
Left(c)      == Stored(c) + Len(omn[c].fifo)
Entered(c)   == Left(c) + Len(cgra[c].path)
Arrived(c)   == Entered(c) + Len(imn[c].fifo)
Requested(c) == Arrived(c) + Len(rd[c])

Block(c, k, s) == Consecutive("data", run, c, k, s)

\* Memory, output FIFO, path, input FIFO and bus hold the block, each the part
\* that follows the one before it.
Carries(c) ==
    /\ Block(c, 0, written[c])
    /\ Block(c, Stored(c), omn[c].fifo)
    /\ Block(c, Left(c), cgra[c].path)
    /\ Block(c, Entered(c), imn[c].fifo)
    /\ Block(c, Arrived(c), rd[c])

Drained(c) == omn[c].fifo = <<>> /\ cgra[c].path = <<>>

\* An input node that has yet to see exec may hold the last configuration word
\* of a contended bus, which it shifts and never offers.
InputFollows(c) ==
    /\ imn[c].state = "IDLE" => imn[c].fifo = <<>>
    /\ imn[c].state = "WAIT" => Len(imn[c].fifo) <= 1
    /\ imn[c].state \in {"IDLE", "WAIT"} =>
         rd[c] = <<>> /\ Drained(c) /\ written[c] = <<>>
    /\ imn[c].state \in {"MREQ", "DONE"} => Carries(c)
    /\ imn[c].state = "MREQ" =>
         imn[c].addr_offset = Requested(c) * CONF_STRIDE /\ Requested(c) < Words(c)
    /\ imn[c].state = "DONE" => Requested(c) = Words(c)

OutputFollows(c) ==
    /\ omn[c].state = "IDLE" => written[c] = <<>>
    /\ omn[c].state = "MREQ" =>
         omn[c].addr_offset = Stored(c) * CONF_STRIDE /\ Stored(c) < Words(c)
    /\ omn[c].state = "DONE" => Stored(c) = Words(c)

Flow ==
    \A c \in Cols :
        /\ ctl.state \in {"IDLE", "WAIT"} => Drained(c)
        /\ ctl.state = "WAIT" => written[c] = <<>>
        /\ ctl.state = "EXEC" => InputFollows(c) /\ OutputFollows(c)
        /\ ctl.state = "DONE" => Block(c, 0, written[c]) /\ Stored(c) = Words(c)

\* An array with a kernel keeps it between runs, and one without any word
\* neither takes nor gives a token.
Sound == ctl.state # "WAIT" => ~Astray \/ \A c \in Cols : Blank(c)

\* What the theorem asks of the instance: whole words below the wrap of the
\* offset, a memory that answers in the next cycle, software that clears between
\* runs, and kernels whose own tokens do not go straight to an output.
Plain ==
    /\ Slow = {} /\ ~ClearAnytime /\ Initial = {}
    /\ \A s \in Sizes : s = (s \div CONF_STRIDE) * CONF_STRIDE /\ s < OFFSET_RANGE

LEMMA FlagAgreesStep ==
  ASSUME TypeOK, PhasesAgree, DriverKnows, FlagAgrees, ~ClearAnytime, Next
  PROVE  FlagAgrees'
<1>1. PICK gi, go, ri, ro, s : Clock(gi, go, ri, ro, s)
  BY DEF Next, Hardware
<1>2. ctl.state \in ControlStates /\ ctl.conf_done_reg \in BOOLEAN
  BY DEF TypeOK
<1>3. /\ ctl'.state = IF ctrl.clr THEN "IDLE" ELSE ControlNextState(ctl, controlIn)
      /\ ctl'.conf_done_reg = (~ctrl.clr /\ ~ctrl.clr_conf /\ (conf_done \/ ctl.conf_done_reg))
  BY <1>1 DEF Clock, ControlTick, ControlReset, NextConfReg, controlIn
<1>4. ctl.state = "IDLE" => ~conf_done
  <2>1. PICK c \in Cols : TRUE
    BY StrelaAssumption
  <2> QED BY <2>1 DEF conf_done, ConfDone, PhasesAgree
<1>5. ctrl'.clr_conf => ctl'.state = "IDLE" /\ ~ctrl'.start
  <2>1. driver # "running" => ctl.state = "IDLE" /\ ~ctrl.start
    BY DEF DriverKnows
  <2>2. ctl.state = "IDLE" /\ ~ctrl.start => ctl'.state = "IDLE"
    BY <1>3 DEF ControlNextState, StartState, controlIn
  <2>3. ctrl'.clr_conf => driver # "running" /\ ~ctrl'.start
    BY DEF Next, NoAccess, WriteStart, PollDone, WriteClear, WriteClearConf,
           WriteClearParam, WriteParams, Write, Quiet, Pulse
  <2> QED BY <2>1, <2>2, <2>3
<1>6. ctl'.state \in {"EXEC", "DONE"} => ctl'.conf_done_reg
  BY <1>2, <1>3, <1>4 DEF FlagAgrees, ControlNextState, ControlStates, StartState, controlIn
<1>7. ctl'.state = "WAIT" => ~ctl'.conf_done_reg
  BY <1>2, <1>3, <1>4 DEF FlagAgrees, ControlNextState, ControlStates, StartState, controlIn
<1> QED BY <1>5, <1>6, <1>7 DEF FlagAgrees

\* From START to the interrupt the parameters and the buffers stay.
LEMMA RunHeld ==
  ASSUME DriverKnows, Next, ctl.state # "IDLE" \/ ctrl.start
  PROVE  /\ params' = params /\ run' = run /\ kernel' = kernel
         /\ ~ctrl.clr /\ ~ctrl.clr_param
<1>1. driver = "running" /\ ~ctrl.clr /\ ~ctrl.clr_param
  BY DEF DriverKnows
<1>2. ~WriteStart
  BY <1>1 DEF WriteStart
<1>3. CASE NoAccess
  BY <1>1, <1>3 DEF NoAccess, ParamsKept
<1>4. CASE PollDone
  BY <1>1, <1>4 DEF PollDone
<1>5. CASE WriteClear
  BY <1>1, <1>5 DEF WriteClear
<1>6. ~WriteClearConf /\ ~WriteClearParam /\ ~WriteParams
  BY <1>1 DEF WriteClearConf, WriteClearParam, WriteParams
<1> QED BY <1>1, <1>2, <1>3, <1>4, <1>5, <1>6 DEF Next

LEMMA SizesWholeStep ==
  ASSUME Plain, TypeOK, SizesWhole, Next
  PROVE  SizesWhole'
<1>1. 0 \div CONF_STRIDE = 0 /\ 0 * CONF_STRIDE = 0 /\ 0 < OFFSET_RANGE
  BY StrelaPkgAssumption
<1>2. CASE params' = params
  BY <1>2 DEF SizesWhole, Words
<1>3. CASE params' = NoParams
  BY <1>1, <1>3 DEF SizesWhole, Words, NoParams
<1>4. CASE WriteParams
  <2>1. PICK size \in [Cols -> Sizes] : params' = [conf_addr |-> kernel', size |-> size]
    BY <1>4 DEF WriteParams
  <2>2. \A c \in Cols : params'.size[c] \in Sizes
    BY <2>1
  <2> QED BY <2>2 DEF SizesWhole, Words, Plain
<1> QED BY <1>2, <1>3, <1>4 DEF Next, NoAccess, ParamsKept, WriteStart, PollDone, WriteClear,
                                WriteClearConf, WriteClearParam

LEMMA OffsetsRestStep ==
  ASSUME TypeOK, OffsetsRest, Next
  PROVE  OffsetsRest'
<1>1. PICK gi, go, ri, ro, s : Clock(gi, go, ri, ro, s)
  BY DEF Next, Hardware
<1> SUFFICES ASSUME NEW c \in Cols
             PROVE  /\ imn'[c].state \in {"IDLE", "WAIT"} => imn'[c].addr_offset = 0
                    /\ omn'[c].state = "IDLE" => omn'[c].addr_offset = 0
  BY DEF OffsetsRest
<1>0. /\ imn'[c] = InputTick(imn[c], InputIn(c, gi, ri, s))
      /\ omn'[c] = OutputTick(omn[c], OutputIn(c, go, s))
  BY <1>1 DEF Clock
<1>2. PICK n, in : n = imn[c] /\ in = InputIn(c, gi, ri, s) /\ imn'[c] = InputTick(n, in)
  BY <1>0
<1>3. n.state \in InputStates /\ (n.state \in {"IDLE", "WAIT"} => n.addr_offset = 0)
  BY <1>2 DEF TypeOK, NodeType, OffsetsRest
<1>4. imn'[c].state \in {"IDLE", "WAIT"} => imn'[c].addr_offset = 0
  BY <1>2, <1>3 DEF InputTick, NodeReset, InputStates, InputNextState, InputNextOffset, BeginExec,
                    InputRequests
<1>5. PICK m, on : m = omn[c] /\ on = OutputIn(c, go, s) /\ omn'[c] = OutputTick(m, on)
  BY <1>0
<1>6. m.state \in OutputStates /\ (m.state = "IDLE" => m.addr_offset = 0)
  BY <1>5 DEF TypeOK, NodeType, OffsetsRest
<1>7. omn'[c].state = "IDLE" => omn'[c].addr_offset = 0
  BY <1>5, <1>6 DEF OutputTick, NodeReset, OutputStates, OutputNextState, Written, OutputRequests
<1> QED BY <1>4, <1>7

-----------------------------------------------------------------------------
(* One cycle of a column while the array executes                          *)

\* What every word of a column does in a cycle: exec is up, and each place takes
\* what the one before it gives.
Streaming(c, ri, gi, go, s) ==
    /\ ~clr_nodes /\ ~clr_cgra /\ exec /\ ~ConfNeeded(ctl)
    /\ imn'[c] = InputTick(imn[c], InputIn(c, gi, ri, s))
    /\ omn'[c] = OutputTick(omn[c], OutputIn(c, go, s))
    /\ c \in go => written'[c] = Append(written[c], Head(omn[c].fifo))
    /\ c \notin go => written'[c] = written[c]
    /\ c \in go => omn'[c].fifo = Tail(omn[c].fifo) \o TokenOut(c, s)
    /\ c \notin go => omn'[c].fifo = omn[c].fifo \o TokenOut(c, s)
    /\ TokenOut(c, s) # <<>> => cgra'[c].path = Tail(cgra[c].path) \o TokenIn(c, s)
    /\ ~(TokenOut(c, s) # <<>>) => cgra'[c].path = cgra[c].path \o TokenIn(c, s)
    /\ Pops(imn[c], InputIn(c, gi, ri, s)) => imn'[c].fifo = Tail(imn[c].fifo) \o rd[c]
    /\ ~Pops(imn[c], InputIn(c, gi, ri, s)) => imn'[c].fifo = imn[c].fifo \o rd[c]
    /\ c \in gi => rd'[c] = <<Addressed(c)>>
    /\ c \notin gi => rd'[c] = <<>>
    /\ c \in go => OutputRequests(omn[c])
    /\ c \in gi => InputRequests(imn[c])

LEMMA ExecCycle ==
  ASSUME Plain, ~Astray, TypeOK, RoomForEveryRead, DriverKnows, FlagAgrees, ctl.state = "EXEC",
         NEW ri \in Responses(ReadsPending), NEW ro, NEW s, NEW gi, NEW go,
         Clock(gi, go, ri, ro, s), NEW c \in Cols
  PROVE  Streaming(c, ri, gi, go, s)
<1>1. ~ctrl.clr /\ ~ctrl.start /\ ctl.conf_done_reg
  BY DEF DriverKnows, FlagAgrees
<1>2. ~clr_nodes /\ ~clr_cgra /\ exec /\ ~ConfNeeded(ctl)
  BY <1>1 DEF clr_nodes, clr_cgra, ClearNodes, ClearCGRA, exec, Exec, ConfNeeded
<1>3. /\ imn'[c] = InputTick(imn[c], InputIn(c, gi, ri, s))
      /\ omn'[c] = OutputTick(omn[c], OutputIn(c, go, s))
      /\ cgra'[c] = ColumnTick(cgra[c], ShiftIn(c), clr_cgra, TokenIn(c, s), TokenOut(c, s))
      /\ rd'[c] = IF c \in gi THEN <<Addressed(c)>> ELSE IF c \in ri THEN <<>> ELSE rd[c]
  BY ClockedNodes
<1>4. /\ c \in go => OutputRequests(omn[c])
      /\ c \in gi => InputRequests(imn[c])
  BY DEF Clock, GrantsAllowed, ReadsEligible, WritesEligible
<1>5. c \in ri <=> rd[c] # <<>>
  BY DEF Plain, Responses, ReadsPending
<1>6. rd'[c] = IF c \in gi THEN <<Addressed(c)>> ELSE <<>>
  BY <1>3, <1>5
<1>7. imn'[c].fifo = (IF Pops(imn[c], InputIn(c, gi, ri, s)) THEN Tail(imn[c].fifo)
                      ELSE imn[c].fifo) \o rd[c]
  <2>1. imn'[c].fifo = InputNextFifo(imn[c], InputIn(c, gi, ri, s))
    BY <1>2, <1>3 DEF InputTick, InputIn
  <2>2. Len(imn[c].fifo) < FIFO_DEPTH \/ rd[c] = <<>>
    <3>1. Len(imn[c].fifo) \in Nat /\ Len(rd[c]) \in Nat
      BY LenProperties DEF TypeOK, NodeType
    <3>2. PICK f \in Nat, r \in Nat : f = Len(imn[c].fifo) /\ r = Len(rd[c])
      BY <3>1
    <3>3. f + r <= WORST_MEM_LATENCY + 1
      BY <3>2 DEF RoomForEveryRead
    <3>4. f < FIFO_DEPTH \/ r = 0
      BY <3>3, StrelaPkgAssumption
    <3> QED BY <3>2, <3>4, EmptySeq DEF TypeOK
  <2>3. InputIn(c, gi, ri, s).rvalid = rd[c]
    BY <1>5 DEF InputIn
  <2> QED BY <2>1, <2>2, <2>3 DEF InputNextFifo
<1>8. omn'[c].fifo = (IF c \in go THEN Tail(omn[c].fifo) ELSE omn[c].fifo) \o TokenOut(c, s)
  <2>1. omn'[c].fifo = OutputNextFifo(omn[c], OutputIn(c, go, s))
    BY <1>2, <1>3 DEF OutputTick, OutputIn
  <2>2. Written(omn[c], OutputIn(c, go, s)) <=> c \in go
    BY <1>4 DEF Written, OutputIn
  <2>3. ~OutputReady(omn[c]) => TokenOut(c, s) = <<>>
    BY DEF TokenOut
  <2> QED BY <2>1, <2>2, <2>3 DEF OutputNextFifo, OutputIn
<1>9. cgra'[c].path = (IF TokenOut(c, s) # <<>> THEN Tail(cgra[c].path) ELSE cgra[c].path)
                        \o TokenIn(c, s)
  <2>1. OwnToken(cgra[c]) = <<>>
    BY DEF OwnToken, Plain
  <2>2. cgra[c].path \in Seq(Word) /\ (TokenOut(c, s) # <<>> => Tail(cgra[c].path) \in Seq(Word))
    BY WireTypes, HeadTailProperties DEF TypeOK, ColumnType
  <2>3. PICK q \in Seq(Word) : q = IF TokenOut(c, s) # <<>> THEN Tail(cgra[c].path) ELSE cgra[c].path
    BY <2>2
  <2>4. cgra'[c].path = (q \o <<>>) \o TokenIn(c, s)
    <3>1. PICK g, w, in, out : g = cgra[c] /\ w = ShiftIn(c) /\ in = TokenIn(c, s) /\ out = TokenOut(c, s)
      OBVIOUS
    <3>2. cgra'[c] = ColumnTick(g, w, clr_cgra, in, out)
      BY <1>3, <3>1
    <3>3. cgra'[c].path = (IF out = <<>> THEN g.path ELSE Tail(g.path)) \o OwnToken(g) \o in
      BY <1>2, <3>2 DEF ColumnTick
    <3>4. q = IF out = <<>> THEN g.path ELSE Tail(g.path)
      BY <2>3, <3>1
    <3> QED BY <2>1, <3>1, <3>3, <3>4
  <2> QED BY <2>3, <2>4, ConcatEmptySeq
<1>10. written'[c] = IF c \in go THEN Append(written[c], Head(omn[c].fifo)) ELSE written[c]
  BY <1>1 DEF Clock
<1> QED BY <1>2, <1>3, <1>4, <1>6, <1>7, <1>8, <1>9, <1>10 DEF Streaming

\* Every place hands on what the next one takes.
LEMMA CarriesStep ==
  ASSUME Plain, ~Astray, TypeOK, RoomForEveryRead, DriverKnows, FlagAgrees, ctl.state = "EXEC",
         NEW ri \in Responses(ReadsPending), NEW ro, NEW s, NEW gi, NEW go,
         Clock(gi, go, ri, ro, s),
         Next, NEW c \in Cols, imn[c].state \in {"MREQ", "DONE"}, Carries(c),
         c \in gi => imn[c].addr_offset = Requested(c) * CONF_STRIDE
  PROVE  /\ Carries(c)'
         /\ Stored(c)' = IF c \in go THEN Stored(c) + 1 ELSE Stored(c)
         /\ Requested(c)' = IF c \in gi THEN Requested(c) + 1 ELSE Requested(c)
<1>0. Streaming(c, ri, gi, go, s)
  BY ExecCycle, Zenon
<1>1. PICK a \in Seq(Word), b \in Seq(Word), d \in Seq(Word), e \in Seq(Word), h \in Seq(Word) :
        /\ a = written[c] /\ b = omn[c].fifo /\ d = cgra[c].path /\ e = imn[c].fifo /\ h = rd[c]
        /\ Len(h) <= 1
  BY DEF TypeOK, NodeType, ColumnType
<1>2. PICK ka \in Nat, kb \in Nat, kd \in Nat, ke \in Nat, kh \in Nat :
        /\ ka = Len(a) /\ kb = ka + Len(b) /\ kd = kb + Len(d) /\ ke = kd + Len(e)
        /\ kh = ke + Len(h)
        /\ Stored(c) = ka /\ Left(c) = kb /\ Entered(c) = kd /\ Arrived(c) = ke
        /\ Requested(c) = kh
  <2>1. /\ Len(a) \in Nat /\ Len(a) + Len(b) \in Nat /\ Len(a) + Len(b) + Len(d) \in Nat
        /\ Len(a) + Len(b) + Len(d) + Len(e) \in Nat
        /\ Len(a) + Len(b) + Len(d) + Len(e) + Len(h) \in Nat
    BY LenProperties
  <2> QED BY <1>1, <2>1, Zenon DEF Stored, Left, Entered, Arrived, Requested
<1>3. PICK u, v, z : /\ u = (c \in go) /\ v = (TokenOut(c, s) # <<>>)
                     /\ z = Pops(imn[c], InputIn(c, gi, ri, s))
  OBVIOUS
<1>4. /\ u => b # <<>>
      /\ v => d # <<>>
      /\ z => e # <<>>
  <2>0. c \in go => OutputRequests(omn[c])
    BY <1>0, Zenon DEF Streaming
  <2>1. c \in go => omn[c].fifo # <<>>
    BY <2>0 DEF OutputRequests
  <2>2. TokenOut(c, s) # <<>> => cgra[c].path # <<>>
    BY DEF TokenOut, PathOffers
  <2>3. Pops(imn[c], InputIn(c, gi, ri, s)) => imn[c].fifo # <<>>
    BY PopHasWord
  <2> QED BY <1>1, <1>3, <2>1, <2>2, <2>3, Zenon
<1>5. /\ v => TokenOut(c, s) = <<Head(d)>>
      /\ ~v => TokenOut(c, s) = <<>>
      /\ z => TokenIn(c, s) = <<Head(e)>>
      /\ ~z => TokenIn(c, s) = <<>>
  <2>1. TokenOut(c, s) = IF v THEN <<Head(d)>> ELSE <<>>
    BY <1>1, <1>3 DEF TokenOut
  <2>2. ~ConfEnable(imn[c])
    BY DEF ConfEnable
  <2> QED BY <1>1, <1>3, <2>1, <2>2 DEF TokenIn, Pops, InputIn
<1>6. PICK run0 : run0 = run /\ run' = run0
  BY RunHeld
<1> DEFINE B(k, q) == Consecutive("data", run0, c, k, q)
<1>7. B(0, a) /\ B(ka, b) /\ B(kb, d) /\ B(kd, e) /\ B(ke, h)
  BY <1>1, <1>2, <1>6 DEF Carries, Block
<1>8. PICK a2, b2, d2, e2, h2 :
        /\ a2 = written'[c] /\ b2 = omn'[c].fifo /\ d2 = cgra'[c].path
        /\ e2 = imn'[c].fifo /\ h2 = rd'[c]
  OBVIOUS
<1>9. /\ u => a2 = Append(a, Head(b))
      /\ ~u => a2 = a
      /\ u => b2 = Tail(b) \o TokenOut(c, s)
      /\ ~u => b2 = b \o TokenOut(c, s)
      /\ v => d2 = Tail(d) \o TokenIn(c, s)
      /\ ~v => d2 = d \o TokenIn(c, s)
      /\ z => e2 = Tail(e) \o h
      /\ ~z => e2 = e \o h
      /\ c \in gi => h2 = <<Addressed(c)>>
      /\ c \notin gi => h2 = <<>>
  <2>1. /\ c \in go => written'[c] = Append(written[c], Head(omn[c].fifo))
        /\ c \notin go => written'[c] = written[c]
        /\ c \in go => omn'[c].fifo = Tail(omn[c].fifo) \o TokenOut(c, s)
        /\ c \notin go => omn'[c].fifo = omn[c].fifo \o TokenOut(c, s)
    BY <1>0, Zenon DEF Streaming
  <2>2. /\ TokenOut(c, s) # <<>> => cgra'[c].path = Tail(cgra[c].path) \o TokenIn(c, s)
        /\ ~(TokenOut(c, s) # <<>>) => cgra'[c].path = cgra[c].path \o TokenIn(c, s)
        /\ Pops(imn[c], InputIn(c, gi, ri, s)) => imn'[c].fifo = Tail(imn[c].fifo) \o rd[c]
        /\ ~Pops(imn[c], InputIn(c, gi, ri, s)) => imn'[c].fifo = imn[c].fifo \o rd[c]
    BY <1>0, Zenon DEF Streaming
  <2>3. /\ c \in gi => rd'[c] = <<Addressed(c)>>
        /\ c \notin gi => rd'[c] = <<>>
    BY <1>0, Zenon DEF Streaming
  <2> QED BY <1>1, <1>3, <1>8, <2>1, <2>2, <2>3, Zenon
<1>10. PICK je \in Nat, jd \in Nat, jb \in Nat :
         /\ z => je = kd + 1
         /\ ~z => je = kd
         /\ v => jd = kb + 1
         /\ ~v => jd = kb
         /\ u => jb = ka + 1
         /\ ~u => jb = ka
  <2>1. ka + 1 \in Nat /\ kb + 1 \in Nat /\ kd + 1 \in Nat
    OBVIOUS
  <2>2. /\ \E je \in Nat : (z => je = kd + 1) /\ (~z => je = kd)
        /\ \E jd \in Nat : (v => jd = kb + 1) /\ (~v => jd = kb)
        /\ \E jb \in Nat : (u => jb = ka + 1) /\ (~u => jb = ka)
    BY <2>1, Zenon
  <2> QED BY <2>2, Zenon
<1> DEFINE Part(k, q, n) == Follows(Word, q, k, n, run0, c)
<1>11. Part(je, e2, kh)
  <2>1. Moves(Word, e, h, e2, kd, ke, je, run0, c, z)
    BY <1>2, <1>4, <1>7, <1>9, <1>10, Zenon DEF Moves
  <2>2. kh = ke + Len(h)
    BY <1>2, Zenon
  <2> QED BY <2>1, <2>2, PartMoves, Zenon
<1>12. Part(jd, d2, je)
  <2>1. HandsOn(Word, e, TokenIn(c, s), kd, je, run0, c, z)
    BY <1>4, <1>5, <1>7, <1>10, Zenon DEF HandsOn
  <2>2. Part(kd, TokenIn(c, s), je)
    BY <2>1, PartHandsOn, Zenon
  <2>3. Moves(Word, d, TokenIn(c, s), d2, kb, kd, jd, run0, c, v)
    BY <1>2, <1>4, <1>7, <1>9, <1>10, <2>2, Zenon DEF Moves, Follows
  <2>4. kd + Len(TokenIn(c, s)) = je
    BY <2>2 DEF Follows
  <2> QED BY <2>3, <2>4, PartMoves, Zenon
<1>13. Part(jb, b2, jd)
  <2>1. HandsOn(Word, d, TokenOut(c, s), kb, jd, run0, c, v)
    BY <1>4, <1>5, <1>7, <1>10, Zenon DEF HandsOn
  <2>2. Part(kb, TokenOut(c, s), jd)
    BY <2>1, PartHandsOn, Zenon
  <2>3. Moves(Word, b, TokenOut(c, s), b2, ka, kb, jb, run0, c, u)
    BY <1>2, <1>4, <1>7, <1>9, <1>10, <2>2, Zenon DEF Moves, Follows
  <2>4. kb + Len(TokenOut(c, s)) = jd
    BY <2>2 DEF Follows
  <2> QED BY <2>3, <2>4, PartMoves, Zenon
<1>14. a2 \in Seq(Word) /\ B(0, a2) /\ Len(a2) = jb
  <2>1. CASE u
    <3>1. /\ Head(b) \in Word /\ <<Head(b)>> \in Seq(Word) /\ Len(<<Head(b)>>) = 1
          /\ B(ka, <<Head(b)>>)
      BY <1>4, <1>7, <2>1, FirstWord
    <3>2. a2 = a \o <<Head(b)>>
      BY <1>9, <2>1, <3>1, AppendIsConcat
    <3>3. 0 \in Nat /\ 0 + Len(a) = ka
      BY <1>2
    <3>4. B(0 + Len(a), <<Head(b)>>)
      BY <3>1, <3>3
    <3>5. /\ B(0, a \o <<Head(b)>>) /\ a \o <<Head(b)>> \in Seq(Word)
          /\ Len(a \o <<Head(b)>>) = Len(a) + Len(<<Head(b)>>)
      BY <1>7, <3>1, <3>3, <3>4, ConsecutiveConcat, Zenon
    <3> QED BY <1>2, <1>10, <2>1, <3>1, <3>2, <3>5
  <2>2. CASE ~u
    BY <1>2, <1>7, <1>9, <1>10, <2>2
  <2> QED BY <2>1, <2>2
<1>15. B(kh, h2) /\ Len(h2) = IF c \in gi THEN 1 ELSE 0
  <2>1. CASE c \in gi
    <3>1. ~ConfNeeded(ctl)
      BY <1>0, Zenon DEF Streaming
    <3>2. Addressed(c) = <<"data", run0, c, kh * CONF_STRIDE>>
      BY <1>2, <1>6, <2>1, <3>1 DEF Addressed, DataWord
    <3>3. h2 = <<Numbered("data", run0, c, kh)>>
      BY <1>9, <2>1, <3>2 DEF Numbered
    <3> QED BY <2>1, <3>3, ConsecutiveOne
  <2>2. CASE c \notin gi
    BY <1>9, <2>2, ConsecutiveEmpty, EmptySeq
  <2> QED BY <2>1, <2>2
<1>16. /\ Stored(c)' = jb /\ Left(c)' = jd /\ Entered(c)' = je /\ Arrived(c)' = kh
       /\ Requested(c)' = kh + Len(h2)
  <2>1. /\ Stored(c)' = Len(a2) /\ Left(c)' = Len(a2) + Len(b2)
        /\ Entered(c)' = (Len(a2) + Len(b2)) + Len(d2)
        /\ Arrived(c)' = ((Len(a2) + Len(b2)) + Len(d2)) + Len(e2)
        /\ Requested(c)' = (((Len(a2) + Len(b2)) + Len(d2)) + Len(e2)) + Len(h2)
    BY <1>8, Zenon DEF Stored, Left, Entered, Arrived, Requested
  <2>2. Len(a2) = jb /\ jb + Len(b2) = jd /\ jd + Len(d2) = je /\ je + Len(e2) = kh
    BY <1>11, <1>12, <1>13, <1>14, Zenon DEF Follows
  <2> QED BY <2>1, <2>2, Zenon
<1>17. Carries(c)'
  <2>1. /\ Consecutive("data", run', c, 0, written'[c])
        /\ Consecutive("data", run', c, Stored(c)', omn'[c].fifo)
        /\ Consecutive("data", run', c, Left(c)', cgra'[c].path)
        /\ Consecutive("data", run', c, Entered(c)', imn'[c].fifo)
        /\ Consecutive("data", run', c, Arrived(c)', rd'[c])
    BY <1>6, <1>8, <1>11, <1>12, <1>13, <1>14, <1>15, <1>16, Zenon DEF Follows
  <2> QED BY <2>1 DEF Carries, Block, Consecutive
<1>18. Stored(c)' = IF c \in go THEN Stored(c) + 1 ELSE Stored(c)
  <2>1. CASE c \in go
    BY <1>2, <1>3, <1>10, <1>16, <2>1
  <2>2. CASE c \notin go
    BY <1>2, <1>3, <1>10, <1>16, <2>2
  <2> QED BY <2>1, <2>2
<1>19. Requested(c)' = IF c \in gi THEN Requested(c) + 1 ELSE Requested(c)
  <2>1. CASE c \in gi
    BY <1>2, <1>15, <1>16, <2>1
  <2>2. CASE c \notin gi
    BY <1>2, <1>15, <1>16, <2>2
  <2> QED BY <2>1, <2>2
<1> QED BY <1>17, <1>18, <1>19

LEMMA Products ==
  /\ \A q, s \in Nat : q * s \in Nat /\ (q + 1) * s = q * s + s
  /\ \A q, n, s \in Nat : q <= n => q * s <= n * s
  /\ \A q, n, s \in Nat : q < n /\ s # 0 => q * s < n * s
  /\ \A n, s \in Nat : s # 0 => n \div s \in Nat
OBVIOUS

\* One transaction of a node at word q of n.
LEMMA NextWord ==
  ASSUME NEW q \in Nat, NEW n \in Nat, q < n, n * CONF_STRIDE < OFFSET_RANGE
  PROVE  /\ (q * CONF_STRIDE + CONF_STRIDE) % OFFSET_RANGE = (q + 1) * CONF_STRIDE
         /\ (q + 1) * CONF_STRIDE >= n * CONF_STRIDE <=> q + 1 = n
         /\ n * CONF_STRIDE # 0
<1>1. PICK S \in Nat : S = CONF_STRIDE /\ S # 0
  BY StrelaPkgAssumption
<1>2. PICK R \in Nat : R = OFFSET_RANGE
  BY StrelaPkgAssumption
<1>3. /\ (q + 1) * S = q * S + S /\ q * S \in Nat /\ (q + 1) * S \in Nat
      /\ (q + 1) * S <= n * S /\ n * S \in Nat
      /\ q + 1 < n => (q + 1) * S < n * S
      /\ q * S < n * S
  BY <1>1, Products
<1>4. PICK a \in Nat, b \in Nat, d \in Nat :
        /\ a = q * S /\ b = (q + 1) * S /\ d = n * S
        /\ b = a + S /\ b <= d /\ a < d /\ (q + 1 < n => b < d)
  BY <1>3
<1>5. d < R
  BY <1>1, <1>2, <1>4
<1>6. (a + S) % R = b
  BY <1>1, <1>4, <1>5
<1>7. b >= d <=> q + 1 = n
  BY <1>4
<1>8. d # 0
  BY <1>4
<1> QED BY <1>1, <1>2, <1>4, <1>6, <1>7, <1>8

\* Outside EXEC nothing enters the path or the output FIFO.
LEMMA DrainedStep ==
  ASSUME Plain, TypeOK, PhasesAgree, Sound, Flow, ctl.state \in {"IDLE", "WAIT"},
         NEW ri, NEW ro, NEW s \in Strays, NEW gi, NEW go,
         Clock(gi, go, ri, ro, s), NEW c \in Cols
  PROVE  /\ Drained(c)' /\ c \notin go
         /\ written'[c] = IF ctrl.start THEN <<>> ELSE written[c]
<1>1. omn[c].fifo = <<>> /\ cgra[c].path = <<>>
  BY DEF Flow, Drained
<1>2. TokenOut(c, s) = <<>> /\ TokenIn(c, s) = <<>> /\ OwnToken(cgra[c]) = <<>>
  <2>1. ~PathOffers(c, s)
    <3>1. CASE Astray
      <4>1. s = Stuck
        BY <3>1 DEF Sound, Astray, Strays
      <4> QED BY <3>1, <4>1 DEF PathOffers, Stuck
    <3>2. CASE ~Astray
      BY <1>1, <3>2 DEF PathOffers
    <3> QED BY <3>1, <3>2
  <2> QED BY <2>1 DEF TokenOut, TokenIn, OffersData, exec, Exec, OwnToken, Plain
<1>3. c \notin go
  BY <1>1 DEF Clock, GrantsAllowed, WritesEligible, OutputRequests
<1>4. omn'[c] = OutputTick(omn[c], OutputIn(c, go, s))
      /\ cgra'[c] = ColumnTick(cgra[c], ShiftIn(c), clr_cgra, TokenIn(c, s), TokenOut(c, s))
  BY DEF Clock
<1>5. <<>> \o <<>> = <<>> /\ (<<>> \o <<>>) \o <<>> = <<>>
  BY EmptySeq, ConcatEmptySeq
<1>6. omn'[c].fifo = <<>>
  BY <1>1, <1>2, <1>4, <1>5 DEF OutputTick, NodeReset, OutputNextFifo, OutputIn, Written,
                                OutputRequests
<1>7. cgra'[c].path = <<>>
  BY <1>1, <1>2, <1>4, <1>5 DEF ColumnTick
<1>8. written'[c] = IF ctrl.start THEN <<>> ELSE written[c]
  BY <1>3 DEF Clock
<1> QED BY <1>3, <1>6, <1>7, <1>8 DEF Drained

\* At the edge that begins EXEC nothing of the run has moved.
LEMMA ExecBegins ==
  ASSUME Plain, TypeOK, PhasesAgree, NothingLeftBehind, DriverKnows, FlagAgrees, Sound, Flow,
         ctl.state \in {"IDLE", "WAIT"}, ctl'.state = "EXEC",
         NEW ri \in Responses(ReadsPending), NEW ro, NEW s \in Strays, NEW gi, NEW go,
         Clock(gi, go, ri, ro, s), NEW c \in Cols
  PROVE  InputFollows(c)' /\ OutputFollows(c)'
<1>1. Drained(c)' /\ written'[c] = IF ctrl.start THEN <<>> ELSE written[c]
  BY DrainedStep, Zenon
<1>2. ctl'.state = IF ctrl.clr THEN "IDLE" ELSE ControlNextState(ctl, controlIn)
  BY ClockedStates
<1>3. /\ ~ctrl.clr /\ ~clr_nodes /\ ~exec
      /\ ctl.state = "IDLE" => ctrl.start /\ ctl.conf_done_reg
      /\ ctl.state = "WAIT" => conf_done /\ ~ctrl.start
  BY <1>2 DEF ControlNextState, StartState, controlIn, clr_nodes, ClearNodes, exec, Exec,
              DriverKnows
<1>4. written'[c] = <<>>
  BY <1>1, <1>3 DEF Flow
<1>5. /\ imn'[c] = InputTick(imn[c], InputIn(c, gi, ri, s))
      /\ omn'[c] = OutputTick(omn[c], OutputIn(c, go, s))
      /\ rd'[c] = IF c \in gi THEN <<Addressed(c)>> ELSE IF c \in ri THEN <<>> ELSE rd[c]
  BY DEF Clock
<1>6. imn[c].state \in {"IDLE", "WAIT"} /\ omn[c].state = "IDLE" /\ imn[c].fifo = <<>>
  BY <1>3 DEF PhasesAgree, NothingLeftBehind, conf_done, ConfDone
<1>7. c \notin gi /\ (c \in ri <=> rd[c] # <<>>)
  BY <1>6, StrelaAssumption
     DEF Clock, GrantsAllowed, ReadsEligible, InputRequests, Plain, Responses, ReadsPending
<1>8. rd'[c] = <<>>
  BY <1>5, <1>7
<1>9. ctl.state = "IDLE" => imn[c].state = "IDLE" /\ rd[c] = <<>>
  BY DEF PhasesAgree, NothingLeftBehind
<1>10. ctl.state = "WAIT" => imn[c].state = "WAIT"
  BY <1>3 DEF conf_done, ConfDone
<1>11. imn'[c].state = imn[c].state /\ omn'[c].state = "IDLE"
  <2>1. PICK n, in : n = imn[c] /\ in = InputIn(c, gi, ri, s) /\ imn'[c] = InputTick(n, in)
    BY <1>5
  <2>2. ~in.clr /\ ~in.exec /\ (n.state = "IDLE" => ~in.conf_needed)
    BY <1>3, <1>9, <1>10, <2>1 DEF InputIn, ConfNeeded
  <2>3. imn'[c].state = n.state
    BY <1>6, <2>1, <2>2 DEF InputTick, InputNextState
  <2>4. PICK m, on : m = omn[c] /\ on = OutputIn(c, go, s) /\ omn'[c] = OutputTick(m, on)
    BY <1>5
  <2>5. ~on.clr /\ ~on.exec
    BY <1>3, <2>4 DEF OutputIn
  <2>6. omn'[c].state = "IDLE"
    BY <1>6, <2>4, <2>5 DEF OutputTick, OutputNextState
  <2> QED BY <2>1, <2>3, <2>6
<1>12. /\ Len(imn'[c].fifo) <= 1
       /\ rd[c] = <<>> => imn'[c].fifo = <<>>
  <2>1. rd[c] \in Seq(Word) /\ Len(rd[c]) <= 1 /\ <<>> \o rd[c] = rd[c] /\ <<>> \o <<>> = <<>>
        /\ Len(<<>>) <= 1
    BY ConcatEmptySeq, EmptySeq DEF TypeOK
  <2>2. InputIn(c, gi, ri, s).rvalid = rd[c]
    BY <1>7 DEF InputIn
  <2>3. imn'[c].fifo = <<>> \o (IF Len(imn[c].fifo) < FIFO_DEPTH THEN rd[c] ELSE <<>>)
    BY <1>3, <1>5, <1>6, <2>2, PopHasWord DEF InputTick, InputIn, InputNextFifo
  <2> QED BY <2>1, <2>3
<1>13. InputFollows(c)'
  <2>1. imn'[c].state \in {"IDLE", "WAIT"}
    BY <1>6, <1>11
  <2>2. imn'[c].state = "IDLE" => imn'[c].fifo = <<>>
    BY <1>9, <1>10, <1>11, <1>12
  <2> QED BY <1>1, <1>4, <1>8, <1>12, <2>1, <2>2 DEF InputFollows
<1>14. OutputFollows(c)'
  BY <1>4, <1>11 DEF OutputFollows
<1> QED BY <1>13, <1>14

\* A node that sees exec for the first time begins with nothing under way.
LEMMA InputBegins ==
  ASSUME Plain, ~Astray, TypeOK, RoomForEveryRead, DriverKnows, FlagAgrees, OffsetsRest, SizesWhole,
         ctl.state = "EXEC", NEW ri \in Responses(ReadsPending), NEW ro, NEW s, NEW gi, NEW go,
         Clock(gi, go, ri, ro, s), Next,
         NEW c \in Cols, InputFollows(c), imn[c].state \in {"IDLE", "WAIT"}
  PROVE  InputFollows(c)'
<1>0. Streaming(c, ri, gi, go, s)
  BY ExecCycle, Zenon
<1>1. rd[c] = <<>> /\ omn[c].fifo = <<>> /\ cgra[c].path = <<>> /\ written[c] = <<>>
  BY DEF InputFollows, Drained
<1>2. /\ imn[c].fifo = <<>> \/ (imn[c].state = "WAIT" /\ Len(imn[c].fifo) = 1)
      /\ imn[c].fifo \in Seq(Word)
  <2>1. imn[c].fifo \in Seq(Word)
    BY DEF TypeOK, NodeType
  <2>2. PICK l \in Nat : l = Len(imn[c].fifo) /\ (l = 0 => imn[c].fifo = <<>>)
    BY <2>1, LenProperties, EmptySeq
  <2>3. CASE imn[c].state = "IDLE"
    BY <2>1, <2>3, Zenon DEF InputFollows
  <2>4. CASE imn[c].state = "WAIT"
    <3>1. l <= 1
      BY <2>2, <2>4 DEF InputFollows
    <3>2. l = 0 \/ l = 1
      BY <3>1
    <3> QED BY <2>1, <2>2, <2>4, <3>2, Zenon
  <2> QED BY <2>3, <2>4
<1>3. TokenIn(c, s) = <<>> /\ TokenOut(c, s) = <<>>
  BY <1>1, <1>2 DEF TokenIn, TokenOut, PathOffers, OffersData, ConfEnable
<1>4. c \notin gi /\ c \notin go
  BY <1>1 DEF Clock, GrantsAllowed, ReadsEligible, WritesEligible, InputRequests, OutputRequests
<1>5. <<>> \o <<>> = <<>>
  BY EmptySeq, ConcatEmptySeq
<1>6. written'[c] = <<>> /\ omn'[c].fifo = <<>> /\ cgra'[c].path = <<>> /\ rd'[c] = <<>>
  <2>1. /\ c \notin go => written'[c] = written[c]
        /\ c \notin go => omn'[c].fifo = omn[c].fifo \o TokenOut(c, s)
        /\ ~(TokenOut(c, s) # <<>>) => cgra'[c].path = cgra[c].path \o TokenIn(c, s)
        /\ c \notin gi => rd'[c] = <<>>
    BY <1>0, Zenon DEF Streaming
  <2> QED BY <1>1, <1>3, <1>4, <1>5, <2>1
<1>7. imn'[c].fifo = <<>>
  <2>1. /\ Pops(imn[c], InputIn(c, gi, ri, s)) => imn'[c].fifo = Tail(imn[c].fifo) \o rd[c]
        /\ ~Pops(imn[c], InputIn(c, gi, ri, s)) => imn'[c].fifo = imn[c].fifo \o rd[c]
    BY <1>0, Zenon DEF Streaming
  <2>2. CASE imn[c].fifo = <<>>
    BY <1>1, <1>5, <2>1, <2>2, PopHasWord
  <2>3. CASE imn[c].state = "WAIT" /\ Len(imn[c].fifo) = 1
    <3>0. PICK f \in Seq(Word) : f = imn[c].fifo /\ Len(f) = 1
      BY <1>2, <2>3
    <3>1. f # <<>>
      <4>1. PICK l : l = Len(f) /\ l = 1
        BY <3>0
      <4>2. Len(<<>>) = 0 /\ 0 # 1
        OBVIOUS
      <4> QED BY <4>1, <4>2, Zenon
    <3>2. Pops(imn[c], InputIn(c, gi, ri, s))
      BY <2>3, <3>0, <3>1 DEF Pops, ConfEnable
    <3>3. Tail(f) \in Seq(Word) /\ Len(Tail(f)) = 0
      BY <3>0, <3>1, HeadTailProperties
    <3>4. Tail(f) = <<>>
      BY <3>3, EmptySeq
    <3> QED BY <1>1, <1>5, <2>1, <3>0, <3>2, <3>4
  <2> QED BY <1>2, <2>2, <2>3
<1>8. ~clr_nodes /\ exec
  BY <1>0, Zenon DEF Streaming
<1>9. imn'[c] = InputTick(imn[c], InputIn(c, gi, ri, s))
  BY DEF Clock
<1>10. /\ imn'[c].state = BeginExec(InputIn(c, gi, ri, s)) /\ imn'[c].addr_offset = 0
  <2>1. PICK n, in : n = imn[c] /\ in = InputIn(c, gi, ri, s) /\ imn'[c] = InputTick(n, in)
    BY <1>9
  <2>2. ~in.clr /\ in.exec /\ ~in.gnt
    BY <1>4, <1>8, <2>1 DEF InputIn
  <2>3. ~(in.start /\ in.conf_needed)
    <3>1. ~ConfNeeded(ctl)
      BY <1>0, Zenon DEF Streaming
    <3> QED BY <2>1, <3>1 DEF InputIn
  <2>4. n.state \in {"IDLE", "WAIT"} /\ n.addr_offset = 0
    BY <2>1 DEF OffsetsRest
  <2>5. imn'[c].state = BeginExec(in)
    BY <2>1, <2>2, <2>3, <2>4 DEF InputTick, InputNextState
  <2>6. imn'[c].addr_offset = 0
    BY <2>1, <2>2, <2>4 DEF InputTick, InputNextOffset
  <2> QED BY <2>1, <2>5, <2>6
<1>11. imn'[c].state = IF params.size[c] # 0 THEN "MREQ" ELSE "DONE"
  BY <1>10 DEF BeginExec, InputIn
<1>12. PICK n \in Nat : n = Words(c) /\ n = Words(c)' /\ params.size[c] = n * CONF_STRIDE
  BY RunHeld, Products, StrelaPkgAssumption DEF SizesWhole, Words, TypeOK
<1>13. n # 0 <=> params.size[c] # 0
  BY <1>12, Products, StrelaPkgAssumption
<1>14. Carries(c)' /\ Requested(c)' = 0 /\ 0 * CONF_STRIDE = 0
  <2>1. /\ Block(c, 0, written[c])' /\ Block(c, Stored(c), omn[c].fifo)'
        /\ Block(c, Left(c), cgra[c].path)' /\ Block(c, Entered(c), imn[c].fifo)'
        /\ Block(c, Arrived(c), rd[c])'
    BY <1>6, <1>7, ConsecutiveEmpty DEF Block
  <2>2. Requested(c)' = 0
    BY <1>6, <1>7, EmptySeq DEF Requested, Arrived, Entered, Left, Stored
  <2> QED BY <2>1, <2>2, StrelaPkgAssumption DEF Carries
<1> QED BY <1>10, <1>11, <1>12, <1>13, <1>14 DEF InputFollows

\* One request more of a node that reads its block.
LEMMA InputGoesOn ==
  ASSUME Plain, ~Astray, TypeOK, RoomForEveryRead, DriverKnows, FlagAgrees, SizesWhole,
         ctl.state = "EXEC", NEW ri \in Responses(ReadsPending), NEW ro, NEW s, NEW gi, NEW go,
         Clock(gi, go, ri, ro, s), Next,
         NEW c \in Cols, InputFollows(c), imn[c].state \in {"MREQ", "DONE"}
  PROVE  InputFollows(c)'
<1>0. Streaming(c, ri, gi, go, s)
  BY ExecCycle, Zenon
<1>1. ~clr_nodes /\ exec /\ (c \in gi => InputRequests(imn[c]))
  BY <1>0, Zenon DEF Streaming
<1>2. PICK n, in : n = imn[c] /\ in = InputIn(c, gi, ri, s) /\ imn'[c] = InputTick(n, in)
  BY DEF Clock
<1>3. /\ ~in.clr /\ in.size = params.size[c] /\ in.stride = CONF_STRIDE
      /\ in.gnt <=> c \in gi
      /\ n.state \in {"MREQ", "DONE"} /\ (c \in gi => n.state = "MREQ")
  BY <1>1, <1>2 DEF InputIn, InputRequests
<1>4. /\ Carries(c)
      /\ n.state = "MREQ" => n.addr_offset = Requested(c) * CONF_STRIDE /\ Requested(c) < Words(c)
      /\ n.state = "DONE" => Requested(c) = Words(c)
  BY <1>2, <1>3 DEF InputFollows
<1>5. /\ Carries(c)'
      /\ c \in gi => Requested(c)' = Requested(c) + 1
      /\ c \notin gi => Requested(c)' = Requested(c)
  <2>1. c \in gi => imn[c].addr_offset = Requested(c) * CONF_STRIDE
    BY <1>2, <1>3, <1>4
  <2>2. imn[c].state \in {"MREQ", "DONE"} /\ Carries(c)
    BY <1>2, <1>3, <1>4
  <2> QED BY <2>1, <2>2, CarriesStep, Zenon
<1>6. PICK q \in Nat, w \in Nat :
        /\ q = Requested(c) /\ w = Words(c) /\ w = Words(c)'
        /\ params.size[c] = w * CONF_STRIDE /\ w * CONF_STRIDE < OFFSET_RANGE
  <2>1. Requested(c) \in Nat
    <3>1. /\ Len(written[c]) \in Nat /\ Len(omn[c].fifo) \in Nat /\ Len(cgra[c].path) \in Nat
          /\ Len(imn[c].fifo) \in Nat /\ Len(rd[c]) \in Nat
      BY LenProperties DEF TypeOK, NodeType, ColumnType
    <3>2. PICK a \in Nat, b \in Nat, d \in Nat, e \in Nat, h \in Nat :
            /\ a = Len(written[c]) /\ b = Len(omn[c].fifo) /\ d = Len(cgra[c].path)
            /\ e = Len(imn[c].fifo) /\ h = Len(rd[c])
      BY <3>1
    <3>3. Requested(c) = a + b + d + e + h
      BY <3>2 DEF Requested, Arrived, Entered, Left, Stored
    <3> QED BY <3>3
  <2>2. Words(c) \in Nat /\ Words(c)' = Words(c)
    BY RunHeld, Products, StrelaPkgAssumption DEF Words, TypeOK
  <2>3. params.size[c] = Words(c) * CONF_STRIDE /\ params.size[c] < OFFSET_RANGE
    BY DEF SizesWhole
  <2> QED BY <2>1, <2>2, <2>3
<1>7. CASE c \in gi
  <2>1. n.state = "MREQ" /\ n.addr_offset = q * CONF_STRIDE /\ q < w /\ in.gnt
    BY <1>3, <1>4, <1>6, <1>7
  <2>2. ~in.conf_needed
    <3>1. ~ConfNeeded(ctl)
      BY <1>0, Zenon DEF Streaming
    <3> QED BY <1>2, <3>1 DEF InputIn
  <2>3. /\ NextOffset(n, in) = (q + 1) * CONF_STRIDE
        /\ NextOffset(n, in) >= in.size <=> q + 1 = w
    <3>1. NextOffset(n, in) = (q * CONF_STRIDE + CONF_STRIDE) % OFFSET_RANGE
      BY <1>3, <2>1, <2>2 DEF NextOffset
    <3>2. /\ (q * CONF_STRIDE + CONF_STRIDE) % OFFSET_RANGE = (q + 1) * CONF_STRIDE
          /\ (q + 1) * CONF_STRIDE >= w * CONF_STRIDE <=> q + 1 = w
      BY <1>6, <2>1, NextWord
    <3> QED BY <1>3, <1>6, <3>1, <3>2
  <2>4. InputRequests(n)
    BY <1>1, <1>2, <1>7
  <2>5. /\ imn'[c].state = IF q + 1 = w THEN "DONE" ELSE "MREQ"
        /\ imn'[c].addr_offset = (q + 1) * CONF_STRIDE
    BY <1>2, <1>3, <2>1, <2>3, <2>4 DEF InputTick, InputNextState, InputNextOffset, LastGranted
  <2>6. q + 1 = w \/ q + 1 < w
    BY <2>1
  <2>7. Requested(c)' = q + 1
    BY <1>5, <1>6, <1>7
  <2> QED BY <1>5, <1>6, <2>5, <2>6, <2>7 DEF InputFollows
<1>8. CASE c \notin gi
  <2>1. imn'[c].state = n.state /\ imn'[c].addr_offset = n.addr_offset
    BY <1>2, <1>3, <1>8 DEF InputTick, InputNextState, InputNextOffset, LastGranted
  <2>2. Requested(c)' = Requested(c)
    BY <1>5, <1>8
  <2> QED BY <1>3, <1>4, <1>5, <1>6, <2>1, <2>2 DEF InputFollows
<1> QED BY <1>7, <1>8

\* One word more of a node that writes them.
LEMMA OutputGoesOn ==
  ASSUME Plain, ~Astray, TypeOK, RoomForEveryRead, DriverKnows, FlagAgrees, SizesWhole, OffsetsRest,
         ctl.state = "EXEC", NEW ri \in Responses(ReadsPending), NEW ro, NEW s, NEW gi, NEW go,
         Clock(gi, go, ri, ro, s), Next, NEW c \in Cols, OutputFollows(c)
  PROVE  OutputFollows(c)'
<1>0. Streaming(c, ri, gi, go, s)
  BY ExecCycle, Zenon
<1>1. ~clr_nodes /\ exec /\ (c \in go => OutputRequests(omn[c]))
  BY <1>0, Zenon DEF Streaming
<1>2. PICK n, in : n = omn[c] /\ in = OutputIn(c, go, s) /\ omn'[c] = OutputTick(n, in)
  BY DEF Clock
<1>3. /\ ~in.clr /\ in.exec /\ in.size = params.size[c]
      /\ in.gnt <=> c \in go
      /\ n.state \in OutputStates /\ (c \in go => n.state = "MREQ" /\ OutputRequests(n))
  BY <1>1, <1>2 DEF OutputIn, OutputRequests, TypeOK, NodeType
<1>4. PICK q \in Nat, w \in Nat :
        /\ q = Stored(c) /\ w = Words(c) /\ w = Words(c)'
        /\ params.size[c] = w * CONF_STRIDE /\ w * CONF_STRIDE < OFFSET_RANGE
  <2>1. Stored(c) \in Nat
    BY LenProperties DEF Stored, TypeOK
  <2>2. Words(c) \in Nat /\ Words(c)' = Words(c)
    BY RunHeld, Products, StrelaPkgAssumption DEF Words, TypeOK
  <2>3. params.size[c] = Words(c) * CONF_STRIDE /\ params.size[c] < OFFSET_RANGE
    BY DEF SizesWhole
  <2> QED BY <2>1, <2>2, <2>3
<1>5. /\ c \in go => Stored(c)' = q + 1
      /\ c \notin go => Stored(c)' = q /\ written'[c] = written[c]
  <2>1. /\ c \in go => written'[c] = Append(written[c], Head(omn[c].fifo))
        /\ c \notin go => written'[c] = written[c]
    BY <1>0, Zenon DEF Streaming
  <2>2. c \in go => Head(omn[c].fifo) \in Word
    <3>1. omn[c].fifo \in Seq(Word) /\ (c \in go => omn[c].fifo # <<>>)
      BY <1>1 DEF TypeOK, NodeType, OutputRequests
    <3> QED BY <3>1, HeadTailProperties
  <2>3. written[c] \in Seq(Word)
    BY DEF TypeOK
  <2>4. c \in go => Len(written'[c]) = Len(written[c]) + 1
    BY <2>1, <2>2, <2>3, AppendProperties
  <2> QED BY <1>4, <2>1, <2>4 DEF Stored
<1>6. CASE n.state = "IDLE"
  <2>1. written[c] = <<>> /\ c \notin go /\ n.addr_offset = 0
    BY <1>2, <1>3, <1>6 DEF OutputFollows, OffsetsRest
  <2>2. Stored(c)' = 0 /\ 0 * CONF_STRIDE = 0
    BY <1>5, <2>1, StrelaPkgAssumption DEF Stored
  <2>3. /\ omn'[c].state = IF params.size[c] = 0 THEN "DONE" ELSE "MREQ"
        /\ omn'[c].addr_offset = 0
    BY <1>2, <1>3, <1>6, <2>1 DEF OutputTick, OutputNextState, Written
  <2>4. w = 0 <=> params.size[c] = 0
    BY <1>4, Products, StrelaPkgAssumption
  <2>5. w = 0 \/ 0 < w
    OBVIOUS
  <2> QED BY <1>4, <2>2, <2>3, <2>4, <2>5 DEF OutputFollows
<1>7. CASE n.state = "MREQ" /\ c \in go
  <2>1. n.addr_offset = q * CONF_STRIDE /\ q < w
    BY <1>2, <1>4, <1>7 DEF OutputFollows
  <2>2. /\ OutputOffset(n) = (q + 1) * CONF_STRIDE
        /\ OutputOffset(n) >= in.size <=> q + 1 = w
    <3>1. /\ (q * CONF_STRIDE + CONF_STRIDE) % OFFSET_RANGE = (q + 1) * CONF_STRIDE
          /\ (q + 1) * CONF_STRIDE >= w * CONF_STRIDE <=> q + 1 = w
      BY <1>4, <2>1, NextWord
    <3> QED BY <1>3, <1>4, <2>1, <3>1 DEF OutputOffset
  <2>3. /\ omn'[c].state = IF q + 1 = w THEN "DONE" ELSE "MREQ"
        /\ omn'[c].addr_offset = (q + 1) * CONF_STRIDE
    BY <1>2, <1>3, <1>7, <2>2 DEF OutputTick, OutputNextState, LastWritten, Written
  <2>4. Stored(c)' = q + 1 /\ (q + 1 = w \/ q + 1 < w)
    BY <1>5, <1>7, <2>1
  <2> QED BY <1>4, <2>3, <2>4 DEF OutputFollows
<1>8. CASE n.state # "IDLE" /\ c \notin go
  <2>1. omn'[c].state = n.state /\ omn'[c].addr_offset = n.addr_offset
    BY <1>2, <1>3, <1>8 DEF OutputTick, OutputNextState, LastWritten, Written, OutputStates
  <2>2. Stored(c)' = Stored(c) /\ n.state \in {"MREQ", "DONE"}
    BY <1>3, <1>4, <1>5, <1>8 DEF OutputStates
  <2>3. /\ n.state = "MREQ" => n.addr_offset = q * CONF_STRIDE /\ q < w
        /\ n.state = "DONE" => q = w
    BY <1>2, <1>4 DEF OutputFollows
  <2> QED BY <1>4, <2>1, <2>2, <2>3 DEF OutputFollows
<1> QED BY <1>3, <1>6, <1>7, <1>8

\* Once a kernel is in place only a load moves the words of the array.
LEMMA SoundStep ==
  ASSUME TypeOK, PhasesAgree, DriverKnows, Sound, ConfigExact, ConfigExact', TypeOK', Next
  PROVE  Sound'
<1>1. PICK gi, go, ri, ro, s : Clock(gi, go, ri, ro, s)
  BY DEF Next, Hardware
<1>2. /\ ctl.state \in ControlStates /\ ctl'.state \in ControlStates
      /\ ctl'.state = IF ctrl.clr THEN "IDLE" ELSE ControlNextState(ctl, controlIn)
  BY <1>1, ClockedStates DEF TypeOK
<1>3. ctl.state = "EXEC" => ~Astray
  BY DEF ConfigExact, exec, Exec, Astray, TypeOK
<1>4. CASE ctl'.state = "EXEC"
  <2>1. ~Astray'
    BY <1>4 DEF ConfigExact, exec, Exec, Astray, TypeOK
  <2> QED BY <2>1 DEF Sound
<1>5. CASE ctl'.state \in {"IDLE", "DONE"}
  <2>1. /\ ctl.state = "IDLE" \/ ctl.state = "DONE" \/ (ctl.state = "EXEC" /\ mn_done)
    BY <1>2, <1>5 DEF ControlNextState, StartState, ControlStates, controlIn, DriverKnows
  <2>2. ~Astray \/ \A c \in Cols : Blank(c)
    BY <1>3, <2>1 DEF Sound
  <2>3. ASSUME NEW c \in Cols PROVE cgra'[c].regs = cgra[c].regs
    <3>1. imn[c].state \in {"IDLE", "DONE"}
      BY <2>1 DEF PhasesAgree, mn_done, InputDone
    <3>2. ShiftIn(c) = <<>>
      BY <3>1 DEF ShiftIn, ConfEnable
    <3> QED BY <1>1, <3>2 DEF Clock, ColumnTick, ShiftRegs
  <2>4. ASSUME NEW c \in Cols
        PROVE  /\ Blank(c)' <=> Blank(c)
               /\ \A k \in Kernels : Configured(c, k)' <=> Configured(c, k)
    BY <2>3 DEF Blank, Configured
  <2>5. Astray' => Astray
    BY <1>5, <2>1, <2>4 DEF Astray
  <2> QED BY <2>2, <2>4, <2>5 DEF Sound
<1>6. CASE ctl'.state = "WAIT"
  BY <1>6 DEF Sound
<1> QED BY <1>2, <1>4, <1>5, <1>6 DEF ControlStates

LEMMA FlowStep ==
  ASSUME Plain, TypeOK, PhasesAgree, RoomForEveryRead, NothingLeftBehind, DriverKnows,
         FlagAgrees, OffsetsRest, SizesWhole, Sound, ConfigExact, Flow, Next
  PROVE  Flow'
<1> SUFFICES ASSUME NEW c \in Cols
             PROVE  /\ ctl'.state \in {"IDLE", "WAIT"} => Drained(c)'
                    /\ ctl'.state = "WAIT" => written'[c] = <<>>
                    /\ ctl'.state = "EXEC" => InputFollows(c)' /\ OutputFollows(c)'
                    /\ ctl'.state = "DONE" => Block(c, 0, written[c])' /\ Stored(c)' = Words(c)'
  BY DEF Flow
<1>1. PICK ri \in Responses(ReadsPending), ro \in Responses(WritesPending),
          gi \in SUBSET Cols, go \in SUBSET Cols, s \in Strays : Clock(gi, go, ri, ro, s)
  BY DEF Next, Hardware
<1>2. /\ ctl.state \in ControlStates
      /\ ctl'.state = IF ctrl.clr THEN "IDLE" ELSE ControlNextState(ctl, controlIn)
  BY <1>1, ClockedStates DEF TypeOK
<1>3. CASE ctl.state \in {"IDLE", "WAIT"}
  <2>1. /\ Drained(c)'
        /\ written'[c] = IF ctrl.start THEN <<>> ELSE written[c]
    BY <1>1, <1>3, DrainedStep, Zenon
  <2>2. ctl'.state \in {"IDLE", "WAIT", "EXEC"}
    BY <1>2, <1>3 DEF ControlNextState, StartState
  <2>3. ASSUME ctl'.state = "WAIT" PROVE written'[c] = <<>>
    <3>1. ctrl.start \/ ctl.state = "WAIT"
      BY <1>2, <1>3, <2>3 DEF ControlNextState, StartState, controlIn
    <3> QED BY <2>1, <3>1 DEF Flow
  <2>4. ASSUME ctl'.state = "EXEC" PROVE InputFollows(c)' /\ OutputFollows(c)'
    BY <1>1, <1>3, <2>4, ExecBegins, Zenon
  <2> QED BY <2>1, <2>2, <2>3, <2>4
<1>4. CASE ctl.state = "EXEC"
  <2>0. ~Astray
    BY <1>4 DEF ConfigExact, exec, Exec, Astray, TypeOK
  <2>1. InputFollows(c) /\ OutputFollows(c)
    BY <1>4 DEF Flow
  <2>2. imn[c].state \in {"IDLE", "WAIT", "MREQ", "DONE"}
    BY <1>4 DEF PhasesAgree
  <2>3. InputFollows(c)'
    <3>1. CASE imn[c].state \in {"IDLE", "WAIT"}
      BY <1>1, <1>4, <2>0, <2>1, <3>1, InputBegins, Zenon
    <3>2. CASE imn[c].state \in {"MREQ", "DONE"}
      BY <1>1, <1>4, <2>0, <2>1, <3>2, InputGoesOn, Zenon
    <3> QED BY <2>2, <3>1, <3>2
  <2>4. OutputFollows(c)'
    BY <1>1, <1>4, <2>0, <2>1, OutputGoesOn, Zenon
  <2>5. ctl'.state = IF mn_done THEN "DONE" ELSE "EXEC"
    BY <1>2, <1>4 DEF ControlNextState, controlIn, DriverKnows
  <2>6. ASSUME mn_done PROVE Block(c, 0, written[c])' /\ Stored(c)' = Words(c)'
    <3>1. imn[c].state = "DONE" /\ omn[c].state = "DONE"
      BY <2>6 DEF mn_done, InputDone, OutputDone
    <3>2. Block(c, 0, written[c]) /\ Stored(c) = Words(c)
      BY <2>1, <3>1 DEF InputFollows, OutputFollows, Carries
    <3>3. c \notin go
      BY <1>1, <3>1 DEF Clock, GrantsAllowed, WritesEligible, OutputRequests
    <3>4. written'[c] = written[c]
      <4>1. ~ctrl.start
        BY <1>4 DEF DriverKnows
      <4> QED BY <1>1, <3>3, <4>1 DEF Clock
    <3>5. params' = params /\ run' = run
      BY <1>4, RunHeld
    <3> QED BY <3>2, <3>4, <3>5 DEF Block, Stored, Words
  <2> QED BY <2>3, <2>4, <2>5, <2>6
<1>5. CASE ctl.state = "DONE"
  <2>1. ctl'.state = "IDLE" /\ clr_nodes /\ clr_cgra
    BY <1>2, <1>5 DEF ControlNextState, clr_nodes, clr_cgra, ClearNodes, ClearCGRA
  <2>2. omn'[c].fifo = <<>> /\ cgra'[c].path = <<>>
    BY <1>1, <2>1 DEF Clock, OutputTick, OutputIn, NodeReset, ColumnTick
  <2> QED BY <2>1, <2>2 DEF Drained
<1> QED BY <1>2, <1>3, <1>4, <1>5 DEF ControlStates

-----------------------------------------------------------------------------
(* The invariant and the theorem                                           *)

OutputsInv ==
    DriverKnows /\ NothingLeftBehind /\ FlagAgrees /\ OffsetsRest /\ SizesWhole /\ Sound /\ Flow

LEMMA OutputsInvInit == ASSUME Plain, Init PROVE OutputsInv
<1>1. DriverKnows /\ NothingLeftBehind
  BY DEF Init, DriverKnows, NothingLeftBehind, ControlReset, NodeReset, Quiet, Pulse
<1>2. FlagAgrees /\ OffsetsRest
  BY DEF Init, FlagAgrees, OffsetsRest, ControlReset, NodeReset, Quiet, Pulse
<1>3. SizesWhole
  <2>1. 0 \div CONF_STRIDE = 0 /\ 0 * CONF_STRIDE = 0 /\ 0 < OFFSET_RANGE
    BY StrelaPkgAssumption
  <2> QED BY <2>1 DEF Init, SizesWhole, Words, NoParams
<1>4. Flow
  BY DEF Init, Flow, Drained, ControlReset, NodeReset, EmptyColumn
<1>5. Sound
  BY DEF Init, Sound, Blank, EmptyColumn
<1> QED BY <1>1, <1>2, <1>3, <1>4, <1>5 DEF OutputsInv

LEMMA OutputsInvStep ==
  ASSUME Plain, IInv, IInv', OutputsInv, ConfigExact, ConfigExact', [Next]_vars
  PROVE  OutputsInv'
<1>1. CASE Next
  <2>1. /\ TypeOK /\ PhasesAgree /\ RoomForEveryRead /\ DoneMeansIdle /\ Slow = {} /\ ~ClearAnytime
        /\ DriverKnows /\ NothingLeftBehind /\ FlagAgrees /\ OffsetsRest /\ SizesWhole
        /\ Sound /\ Flow /\ TypeOK'
    BY DEF IInv, OutputsInv, Plain
  <2>2. DriverKnows' /\ NothingLeftBehind'
    BY <1>1, <2>1, DriverKnowsStep, NothingLeftStep
  <2>3. FlagAgrees' /\ OffsetsRest' /\ SizesWhole'
    BY <1>1, <2>1, FlagAgreesStep, OffsetsRestStep, SizesWholeStep
  <2>4. Flow'
    BY <1>1, <2>1, FlowStep
  <2>5. Sound'
    BY <1>1, <2>1, SoundStep
  <2> QED BY <2>2, <2>3, <2>4, <2>5 DEF OutputsInv
<1>2. CASE UNCHANGED vars
  <2>1. DriverKnows' /\ NothingLeftBehind' /\ FlagAgrees' /\ OffsetsRest' /\ SizesWhole'
    BY <1>2 DEF vars, OutputsInv, DriverKnows, NothingLeftBehind, FlagAgrees, OffsetsRest,
                SizesWhole, Words
  <2>2. ASSUME NEW c \in Cols
        PROVE  /\ Stored(c)' = Stored(c) /\ Left(c)' = Left(c) /\ Entered(c)' = Entered(c)
               /\ Arrived(c)' = Arrived(c) /\ Requested(c)' = Requested(c)
               /\ Words(c)' = Words(c) /\ Drained(c)' = Drained(c)
    BY <1>2, Zenon DEF vars, Stored, Left, Entered, Arrived, Requested, Words, Drained
  <2>3. ASSUME NEW c \in Cols PROVE Block(c, 0, written[c])' = Block(c, 0, written[c])
                                  /\ Carries(c)' = Carries(c)
    BY <1>2, <2>2, Zenon DEF vars, Carries, Block
  <2>4. ASSUME NEW c \in Cols
        PROVE  InputFollows(c)' = InputFollows(c) /\ OutputFollows(c)' = OutputFollows(c)
    BY <1>2, <2>2, <2>3, Zenon DEF vars, InputFollows, OutputFollows
  <2>5. Flow'
    BY <1>2, <2>2, <2>3, <2>4, Zenon DEF vars, OutputsInv, Flow
  <2>6. Sound'
    BY <1>2 DEF vars, OutputsInv, Sound, Astray, Configured, Blank
  <2> QED BY <2>1, <2>5, <2>6 DEF OutputsInv
<1> QED BY <1>1, <1>2

LEMMA OutputsInvariant == Plain => (Spec /\ []ConfigExact => []OutputsInv)
<1>1. Plain /\ Init => OutputsInv
  BY OutputsInvInit
<1>2. Plain /\ IInv /\ IInv' /\ OutputsInv /\ ConfigExact /\ ConfigExact' /\ [Next]_vars
        => OutputsInv'
  BY OutputsInvStep
<1> SUFFICES ASSUME Plain PROVE Spec /\ []ConfigExact => []OutputsInv
  OBVIOUS
<1>3. Init => OutputsInv
  BY <1>1
<1>4. IInv /\ IInv' /\ OutputsInv /\ ConfigExact /\ ConfigExact' /\ [Next]_vars => OutputsInv'
  BY <1>2
<1> QED BY Invariant, <1>3, <1>4, PTL DEF Spec

\* A whole block in order is what the run is expected to write.
LEMMA BlockIsExpected ==
  ASSUME Plain, TypeOK, NEW c \in Cols, Block(c, 0, written[c]), Stored(c) = Words(c)
  PROVE  written[c] = Expected(c)
<1>1. PICK s \in Seq(Word), n \in Nat : s = written[c] /\ n = Len(s) /\ n = Words(c)
  BY LenProperties DEF TypeOK, Stored
<1> DEFINE data == [i \in 1 .. n |-> DataWord(run, c, (i - 1) * CONF_STRIDE)]
<1>2. \A i \in 1 .. n : s[i] = DataWord(run, c, (i - 1) * CONF_STRIDE)
  <2>1. \A i \in 1 .. n : s[i] = Numbered("data", run, c, 0 + i - 1) /\ 0 + i - 1 = i - 1
    BY <1>1 DEF Block, Consecutive
  <2> QED BY <2>1 DEF Numbered, DataWord
<1>3. s = data
  <2>1. s = [i \in 1 .. n |-> s[i]]
    BY <1>1, LenProperties
  <2> QED BY <1>2, <2>1, Zenon
<1>4. kernel \notin Initial
  BY DEF Plain
<1>5. Expected(c) = SubSeq(<<>> \o data, 1, Len(data))
  BY <1>1, <1>4 DEF Expected, Words
<1>6. <<>> \o s = s /\ SubSeq(s, 1, Len(s)) = s
  BY ConcatEmptySeq, SubSeqFull
<1> QED BY <1>1, <1>3, <1>5, <1>6

\* As long as every configuration is exact, memory holds in every column when
\* the interrupt rises the words of this run, each once and in order, and none
\* of an earlier run or of a configuration, although grants come in any order
\* and the nodes finish at different times
\* (strela_top.sv:82, input_memory_node.sv:102-171, output_memory_node.sv:69-121).
THEOREM StrelaOutputs == Plain => (Spec /\ []ConfigExact => []OutputsExact)
<1> SUFFICES ASSUME Plain PROVE Spec /\ []ConfigExact => []OutputsExact
  OBVIOUS
<1>1. IInv /\ OutputsInv => OutputsExact
  <2> SUFFICES ASSUME IInv, OutputsInv, ctl.state = "DONE", NEW c \in Cols
               PROVE  written[c] = Expected(c)
    BY DEF OutputsExact, Interrupt
  <2>1. TypeOK /\ Block(c, 0, written[c]) /\ Stored(c) = Words(c)
    BY DEF IInv, OutputsInv, Flow
  <2> QED BY <2>1, BlockIsExpected
<1> QED BY Invariant, OutputsInvariant, <1>1, PTL
=============================================================================
