-------------------------- MODULE DecoderFeedProofs --------------------------
(***************************************************************************)
(* Proofs about DecoderFeed for any number of access units and any size of *)
(* the decoder's input.  FeedInv is inductive, and the safety properties   *)
(* follow from it.                                                         *)
(***************************************************************************)
EXTENDS DecoderFeed, SequenceTheorems, TLAPS

USE DEF Eos, PullGoes, MainGoes, decVars, rxVars

\* The program starts with nothing pulled, nothing fed and no pipeline.
LEMMA InitInv == Init => FeedInv
<1> SUFFICES ASSUME Init PROVE FeedInv
  OBVIOUS
<1> USE FeedAssumption DEF Init
<1>1. TypeOK
  <2>1. fed \in Seq(0..MaxPackets) /\ recorded \in Seq(1..MaxPackets)
    BY EmptySeq
  <2>2. 0 \in 0..MaxPackets /\ 0 \in 0..Capacity
    OBVIOUS
  <2>3. lpc \in PullPC /\ mpc \in MainPC
    BY DEF PullPC, MainPC
  <2> QED
    BY <2>1, <2>2, <2>3 DEF TypeOK
<1>2. PullAlive /\ PacketOwner
  BY DEF PullAlive, PacketOwner
<1>3. UnitsFed = 0 /\ Offered = 0 /\ Enqueued = 0
  BY DEF UnitsFed, Offered, Enqueued
<1>4. FedSoFar
  BY <1>3 DEF FedSoFar
<1>5. Account
  BY <1>3, <<>> = [n \in 1..0 |-> n] DEF Account
<1> QED
  BY <1>1, <1>2, <1>4, <1>5 DEF FeedInv

\* What the decoder accepts goes behind what it has.
LEMMA Accepted ==
  ASSUME TypeOK, DecoderAccepts
  PROVE  /\ Len(fed) \in Nat /\ Len(fed') = Len(fed) + 1
         /\ fed'[Len(fed) + 1] = packet
         /\ \A n \in 1..Len(fed) : fed'[n] = fed[n]
         /\ fed' \in Seq(0..MaxPackets) /\ backlog' \in 0..Capacity
  BY FeedAssumption DEF TypeOK, DecoderAccepts

\* The counters of a state of the right type are numbers.
LEMMA Counts ==
  ASSUME TypeOK
  PROVE  UnitsFed \in Int /\ Offered \in Int /\ Enqueued \in Int /\ Len(fed) \in Nat
  BY FeedAssumption DEF TypeOK, UnitsFed, Offered, Enqueued

\* Every step of the pull thread preserves the invariant.
LEMMA PullStep == FeedInv /\ PullBody => FeedInv'
<1> SUFFICES ASSUME FeedInv, PullBody PROVE FeedInv'
  OBVIOUS
<1> USE FeedAssumption DEF FeedInv, TypeOK, PullPC, MainPC, PullAlive
<1>1. CASE LoopTest \/ PullSample \/ FillPacket
  <2>1. UnitsFed' = UnitsFed /\ Offered' = Offered /\ Enqueued' = Enqueued
    BY <1>1 DEF LoopTest, PullSample, FillPacket, UnitsFed, Offered, Enqueued
  <2>2. Account' /\ FedSoFar'
    BY <1>1, <2>1 DEF LoopTest, PullSample, FillPacket, Account, FedSoFar
  <2> QED
    BY <1>1, <2>2 DEF LoopTest, PullSample, FillPacket, PacketOwner
<1>2. CASE PutPacket
  <2>1. /\ lpc = "put" /\ lpc' = "enqueue" /\ mpc # "done" /\ packet = pulled
        /\ pulled >= 1
        /\ UNCHANGED <<signal_flag, mpc, rxVars, packet, pulled, recorded>>
    BY <1>2 DEF PutPacket, PacketOwner
  <2>2. /\ UnitsFed = Len(fed) /\ UnitsFed' = Len(fed')
        /\ Offered = pulled - 1 /\ Offered' = pulled /\ Enqueued' = Enqueued
    BY <2>1 DEF UnitsFed, Offered, Enqueued
  <2>3. CASE Interrupted /\ UNCHANGED <<decoder_stalled_count, decVars>>
    <3>1. Account'
      BY <2>1, <2>2, <2>3 DEF Account, Interrupted
    <3>2. unfed' \in 0..MaxPackets
      BY <2>1, <2>2, <2>3, <3>1, Counts DEF Account, Interrupted
    <3>3. FedSoFar'
      BY <2>1, <2>2, <2>3 DEF FedSoFar
    <3> QED
      BY <2>1, <2>3, <3>1, <3>2, <3>3 DEF PacketOwner
  <2>4. CASE ~signal_flag /\ DecoderAccepts /\ UNCHANGED <<decoder_stalled_count, unfed>>
    <3>1. Account'
      BY <2>1, <2>2, <2>4, Accepted DEF Account
    <3>2. \A n \in 1..Len(fed) : fed'[n] = fed[n] /\ fed[n] \in 1..(pulled - 1)
      BY <2>2, <2>4, Accepted DEF FedSoFar
    <3>3. \A k, n \in 1..Len(fed) : k < n => fed[k] < fed[n]
      BY <2>2 DEF FedSoFar
    <3>4. Len(fed') = Len(fed) + 1 /\ fed'[Len(fed) + 1] = pulled /\ Len(fed) \in Nat
      BY <2>1, <2>4, Accepted
    <3>5. pulled \in Nat
      OBVIOUS
    <3>6. ASSUME NEW n \in 1..(Len(fed) + 1)
          PROVE  fed'[n] \in 1..pulled
      <4>1. CASE n = Len(fed) + 1
        BY <2>1, <3>4, <3>5, <4>1
      <4>2. CASE n \in 1..Len(fed)
        BY <3>2, <3>5, <4>2
      <4> QED
        BY <3>4, <4>1, <4>2
    <3>7. ASSUME NEW k \in 1..(Len(fed) + 1), NEW n \in 1..(Len(fed) + 1), k < n
          PROVE  fed'[k] < fed'[n]
      <4>1. k \in 1..Len(fed)
        BY <3>4, <3>7
      <4>2. CASE n = Len(fed) + 1
        BY <3>2, <3>4, <3>5, <4>1, <4>2
      <4>3. CASE n \in 1..Len(fed)
        BY <3>2, <3>3, <3>7, <4>1, <4>3
      <4> QED
        BY <3>4, <4>2, <4>3
    <3>8. FedSoFar'
      BY <2>1, <2>2, <3>4, <3>6, <3>7 DEF FedSoFar
    <3>9. TypeOK'
      BY <2>1, <2>4, Accepted
    <3> QED
      BY <2>1, <3>1, <3>8, <3>9 DEF PacketOwner
  <2>5. CASE GivesUp /\ UNCHANGED <<unfed, decVars>>
    <3>1. Account'
      BY <2>1, <2>2, <2>5 DEF Account, GivesUp
    <3>2. decoder_stalled_count' \in 0..MaxPackets
      BY <2>1, <2>2, <2>5, <3>1, Counts DEF Account, GivesUp
    <3>3. FedSoFar'
      BY <2>1, <2>2, <2>5 DEF FedSoFar
    <3> QED
      BY <2>1, <2>5, <3>1, <3>2, <3>3 DEF PacketOwner
  <2> QED
    BY <1>2, <2>3, <2>4, <2>5 DEF PutPacket
<1>3. CASE EnqueueDvr
  <2>1. /\ UnitsFed' = UnitsFed /\ Offered' = Offered
        /\ Enqueued = pulled - 1 /\ Enqueued' = pulled
    BY <1>3 DEF EnqueueDvr, UnitsFed, Offered, Enqueued
  <2>2. recorded' = [n \in 1..pulled |-> n] /\ recorded' \in Seq(1..MaxPackets)
    BY <1>3, <2>1 DEF EnqueueDvr, Account, PacketOwner
  <2>3. Account' /\ FedSoFar'
    BY <1>3, <2>1, <2>2 DEF EnqueueDvr, Account, FedSoFar
  <2> QED
    BY <1>3, <2>2, <2>3 DEF EnqueueDvr, PacketOwner
<1> QED
  BY <1>1, <1>2, <1>3 DEF PullBody

\* Every step of main() preserves the invariant.
LEMMA MainStep == FeedInv /\ MainBody => FeedInv'
<1> SUFFICES ASSUME FeedInv, MainBody PROVE FeedInv'
  OBVIOUS
<1> USE FeedAssumption DEF FeedInv, TypeOK, PullPC, MainPC, PullAlive, pullVars
<1>1. CASE StartReceiving \/ StopReceiving \/ JoinPull \/ ReleasePipeline \/ SetEos
  <2>1. UnitsFed' = UnitsFed /\ Offered' = Offered /\ Enqueued' = Enqueued
    BY <1>1 DEF StartReceiving, StopReceiving, JoinPull, ReleasePipeline, SetEos,
                UnitsFed, Offered, Enqueued
  <2>2. Account' /\ FedSoFar'
    BY <1>1, <2>1 DEF StartReceiving, StopReceiving, JoinPull, ReleasePipeline, SetEos,
                      Account, FedSoFar
  <2>3. TypeOK' /\ PullAlive' /\ PacketOwner'
    <3>1. CASE StartReceiving
      BY <3>1 DEF StartReceiving, PacketOwner
    <3>2. CASE StopReceiving \/ JoinPull
      BY <3>2 DEF StopReceiving, JoinPull, PacketOwner
    <3>3. CASE ReleasePipeline
      BY <3>3 DEF ReleasePipeline, PacketOwner
    <3>4. CASE SetEos
      BY <3>4 DEF SetEos, PacketOwner
    <3> QED
      BY <1>1, <3>1, <3>2, <3>3, <3>4
  <2> QED
    BY <1>1, <2>2, <2>3
    DEF StartReceiving, StopReceiving, JoinPull, ReleasePipeline, SetEos
<1>2. CASE PutEos
  <2>1. /\ mpc = "puteos" /\ mpc' = "done" /\ DecoderAccepts /\ packet = Eos
        /\ UNCHANGED <<packet, pullVars, rxVars, signal_flag>>
    BY <1>2 DEF PutEos, PacketOwner
  <2>2. /\ UnitsFed = Len(fed) /\ UnitsFed' = UnitsFed
        /\ Offered' = Offered /\ Enqueued' = Enqueued
    BY <2>1, Accepted DEF UnitsFed, Offered, Enqueued
  <2>3. TypeOK'
    BY <2>1, Accepted
  <2>4. PullAlive' /\ PacketOwner'
    BY <2>1 DEF PacketOwner
  <2>5. Account'
    BY <2>1, <2>2 DEF Account
  <2>6. FedSoFar'
    BY <2>1, <2>2, Accepted DEF FedSoFar
  <2>7. fed' # <<>> /\ fed'[Len(fed')] = Eos
    BY <2>1, Accepted
  <2> QED
    BY <2>1, <2>3, <2>4, <2>5, <2>6, <2>7
<1> QED
  BY <1>1, <1>2 DEF MainBody

\* The signal, the decoder and a step that changes nothing preserve it.
LEMMA OtherStep == FeedInv /\ (Signal \/ Decode \/ UNCHANGED vars) => FeedInv'
<1> SUFFICES ASSUME FeedInv, Signal \/ Decode \/ UNCHANGED vars PROVE FeedInv'
  OBVIOUS
<1> USE FeedAssumption
    DEF FeedInv, TypeOK, PullPC, MainPC, PullAlive, PacketOwner, Account, FedSoFar,
        UnitsFed, Offered, Enqueued, pullVars
<1>1. CASE Signal
  BY <1>1 DEF Signal
<1>2. CASE Decode
  BY <1>2 DEF Decode
<1>3. CASE UNCHANGED vars
  BY <1>3 DEF vars
<1> QED
  BY <1>1, <1>2, <1>3

\* The invariant is inductive, so that it holds in every reachable state.
THEOREM FeedInvariance == Spec => []FeedInv
<1>1. FeedInv /\ [Next]_vars => FeedInv'
  BY PullStep, MainStep, OtherStep DEF Next
<1> QED
  BY <1>1, InitInv, PTL DEF Spec

-----------------------------------------------------------------------------
\* Every variable keeps its type: the counters stay below the units received.
THEOREM FeedTypeCorrect == Spec => []TypeOK
  BY FeedInvariance, PTL DEF FeedInv

\* Access units are fed in order and at most once, the end of the stream last
\* and once, for any number of units and retries (main.cpp:395-415, 446-453).
THEOREM FedInOrderCorrect == Spec => []FedInOrder
<1>1. FeedInv => FedInOrder
  <2> SUFFICES ASSUME FeedInv PROVE FedInOrder
    OBVIOUS
  <2> USE DEF FeedInv
  <2>1. /\ Len(fed) \in Nat /\ Offered \in Int
        /\ IF mpc = "done" THEN UnitsFed = Len(fed) - 1 ELSE UnitsFed = Len(fed)
    BY Counts DEF UnitsFed
  <2>2. /\ \A n \in 1..UnitsFed : fed[n] \in 1..Offered
        /\ \A k, n \in 1..UnitsFed : k < n => fed[k] < fed[n]
    BY DEF FedSoFar
  <2>3. ASSUME NEW i \in 1..Len(fed), NEW j \in 1..Len(fed), i < j
        PROVE  fed[i] # Eos /\ (fed[j] # Eos => fed[i] < fed[j])
    BY <2>1, <2>2, <2>3
  <2> QED
    BY <2>3 DEF FedInOrder
<1> QED
  BY <1>1, FeedInvariance, PTL

\* Every access unit is accounted for, and recorded (main.cpp:395-415, 437-439).
THEOREM NothingLostCorrect == Spec => []NothingLostSilently
<1>1. FeedInv => NothingLostSilently
  BY DEF FeedInv, Account, Offered, Enqueued, NothingLostSilently
<1> QED
  BY <1>1, FeedInvariance, PTL

\* The pipeline outlives the pull thread (gstrtpreceiver.cpp:171-186).
THEOREM PipelineCorrect == Spec => []PipelineOutlivesPull
<1>1. FeedInv => PipelineOutlivesPull
  BY DEF FeedInv, PullAlive, PipelineOutlivesPull
<1> QED
  BY <1>1, FeedInvariance, PTL
=============================================================================
