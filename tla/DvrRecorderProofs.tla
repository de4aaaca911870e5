-------------------------- MODULE DvrRecorderProofs --------------------------
(***************************************************************************)
(* Proofs about DvrRecorder for any stream, any number of packets and any  *)
(* number of resolutions: what was received before the signal is written   *)
(* before the file is closed, a recording starts at a key picture and has  *)
(* no gap, its samples are found as long as one resolution was announced,  *)
(* and the multiplexer is misused in the known cases only.                 *)
(***************************************************************************)
EXTENDS DvrRecorder, TLAPS

-----------------------------------------------------------------------------
(* Sequences                                                               *)

\* Adding one element.
LEMMA Added ==
  ASSUME NEW S, NEW q \in Seq(S), NEW e \in S
  PROVE  /\ Append(q, e) \in Seq(S) /\ Len(Append(q, e)) = Len(q) + 1
         /\ \A i \in 1..Len(q) : Append(q, e)[i] = q[i]
         /\ Append(q, e)[Len(q) + 1] = e
         /\ Append(q, e) # <<>>
  OBVIOUS

\* Taking the first element.
LEMMA Taken ==
  ASSUME NEW S, NEW q \in Seq(S), q # <<>>
  PROVE  /\ Head(q) = q[1] /\ Head(q) \in S
         /\ Tail(q) \in Seq(S) /\ Len(Tail(q)) = Len(q) - 1 /\ Len(q) \in Nat \ {0}
         /\ \A i \in 1..(Len(q) - 1) : Tail(q)[i] = q[i + 1]
  OBVIOUS

\* The length and the elements of a sequence.
LEMMA Elements ==
  ASSUME NEW S, NEW q \in Seq(S)
  PROVE  /\ Len(q) \in Nat /\ (q # <<>> <=> Len(q) # 0)
         /\ \A i \in 1..Len(q) : q[i] \in S
  OBVIOUS

-----------------------------------------------------------------------------
(* The parts of the type invariant, and what the options decide            *)

TypeFlow ==
  /\ [codec |-> codec, fragmented |-> mp4_fragmentation_mode] \in Options
  /\ dvrQueue \in Seq(Packets) /\ popped \in Seq(Packets)
  /\ ppc \in PullPC /\ packet \in Packets \cup {<<>>} /\ fed \in 0..MaxPackets
  /\ signal_flag \in BOOLEAN /\ atSignal \in 0..MaxPackets

TypeWriter ==
  /\ mux \in 0..MaxInfoChanges /\ stores \subseteq Fields
  /\ mp4wr \in Writer
  /\ sets \in [1..MaxInfoChanges -> SUBSET ParameterSets]
  /\ crashed \in BOOLEAN /\ raced \in BOOLEAN

TypeFile ==
  /\ dvr_file \in {"none", "open", "closed"} /\ finalized \in 0..MaxInfoChanges
  /\ track \in Seq(Sample)
  /\ dpc \in DvrPC /\ nals \in Seq(Nals)
  /\ mpc \in MainPC

\* The three of them are the type invariant, once the packets are counted.
LEMMA TypesTogether ==
  /\ TypeOK => TypeFlow /\ TypeWriter /\ TypeFile
  /\ TypeFlow /\ TypeWriter /\ TypeFile /\ Counted => TypeOK
<1>1. TypeOK => TypeFlow /\ TypeWriter /\ TypeFile
  BY Zenon DEF TypeOK, TypeFlow, TypeWriter, TypeFile
<1>2. TypeFlow /\ Counted => Len(popped) + Len(dvrQueue) <= MaxPackets
  BY Elements, DvrAssumption DEF TypeFlow, Counted
<1>3. TypeFlow /\ TypeWriter /\ TypeFile /\ Counted => TypeOK
  BY <1>2, Zenon DEF TypeOK, TypeFlow, TypeWriter, TypeFile
<1> QED
  BY <1>1, <1>3, Zenon

\* The options do not change, nor what they decide.
LEMMA OptionsStay ==
  UNCHANGED options =>
    /\ codec' = codec /\ mp4_fragmentation_mode' = mp4_fragmentation_mode
    /\ Hevc' = Hevc /\ Packets' = Packets
    /\ Required' = Required /\ Unrecorded' = Unrecorded
  BY DEF options, Hevc, Packets, Required, Unrecorded

\* A packet has NAL units.
LEMMA PacketsFit == Packets \subseteq Seq(Nals) \ {<<>>}
  BY DvrAssumption DEF Packets

-----------------------------------------------------------------------------
(* Steps that do not concern the recording                                 *)

recording == <<options, popped, nals, mux, stores, mp4wr, sets, raced, track, finalized>>

\* The part of the invariant that is about the recording.
RecordingInv == /\ PacketInHand /\ WriterReady /\ SamplesFound /\ WriterWhole
                /\ NothingAfter /\ StartsAtKey /\ NoGap

Between == {"loop", "waiting", "close"}

\* It stays when __DVR_THREAD__ goes from one packet to the next, or stays where it
\* is, and the recording is left alone.
LEMMA RecordingStays ==
  RecordingInv /\ UNCHANGED recording /\ (dpc' = dpc \/ (dpc \in Between /\ dpc' \in Between))
    => RecordingInv'
<1> SUFFICES ASSUME RecordingInv, UNCHANGED recording,
                    dpc' = dpc \/ (dpc \in Between /\ dpc' \in Between)
             PROVE  RecordingInv'
  OBVIOUS
<1>0. /\ UNCHANGED options
      /\ popped' = popped /\ nals' = nals /\ mux' = mux /\ stores' = stores /\ mp4wr' = mp4wr
      /\ sets' = sets /\ raced' = raced /\ track' = track /\ finalized' = finalized
  BY DEF recording
<1>1. /\ (dpc = "write") = (dpc' = "write") /\ (dpc = "none") = (dpc' = "none")
      /\ (dpc \in {"fclose", "done"}) = (dpc' \in {"fclose", "done"})
      /\ (dpc \in Ending \ {"close"}) = (dpc' \in Ending \ {"close"})
  BY DEF Between, Ending
<1>2. PacketInHand'
  BY <1>0, <1>1 DEF RecordingInv, PacketInHand, InHand
<1>3. WriterReady'
  BY <1>0, <1>1 DEF RecordingInv, WriterReady
<1>4. SamplesFound'
  BY <1>0, <1>1, OptionsStay DEF RecordingInv, SamplesFound
<1>5. HasSamples' = HasSamples /\ FreshWriter' = FreshWriter
  BY <1>0, OptionsStay DEF HasSamples, FreshWriter
<1>6. WriterWhole'
  BY <1>0, <1>1, <1>5, OptionsStay DEF RecordingInv, WriterWhole
<1>7. NothingAfter'
  BY <1>0, <1>1, <1>5, OptionsStay DEF RecordingInv, NothingAfter, Pictureless
<1>8. StartsAtKey'
  BY <1>0, OptionsStay DEF RecordingInv, StartsAtKey, FirstSample
<1>9. NoGap'
  BY <1>0, OptionsStay DEF RecordingInv, NoGap
<1> QED
  BY <1>2, <1>3, <1>4, <1>6, <1>7, <1>8, <1>9 DEF RecordingInv

\* The invariant by its parts.
LEMMA Parts ==
  DvrInv <=> /\ TypeFlow /\ TypeWriter /\ TypeFile
             /\ Counted /\ EndsDrained /\ RecordingInv
  BY TypesTogether, Zenon DEF DvrInv, RecordingInv

\* The same of the next state.
LEMMA PartsNext ==
  ASSUME TypeFlow', TypeWriter', TypeFile', Counted', EndsDrained', RecordingInv'
  PROVE  DvrInv'
<1>1. TypeFlow' /\ Counted' => Len(popped') + Len(dvrQueue') <= MaxPackets
  BY Elements, DvrAssumption DEF TypeFlow, Counted
<1>2. TypeFlow' /\ TypeWriter' /\ TypeFile' /\ Counted' => TypeOK'
  BY <1>1, Zenon DEF TypeOK, TypeFlow, TypeWriter, TypeFile
<1> QED
  BY <1>2, Zenon DEF DvrInv, RecordingInv

\* The types stay where the variables do.
LEMMA TypesStay ==
  /\ TypeWriter /\ UNCHANGED <<mux, stores, mp4wr, sets, crashed, raced>> => TypeWriter'
  /\ TypeFile /\ UNCHANGED <<dvr_file, finalized, track, dpc, nals, mpc>> => TypeFile'
  /\ TypeFlow /\ UNCHANGED <<options, dvrQueue, popped, ppc, packet, fed, signal_flag, atSignal>>
       => TypeFlow'
<1>1. TypeWriter /\ UNCHANGED <<mux, stores, mp4wr, sets, crashed, raced>> => TypeWriter'
  BY DEF TypeWriter
<1>2. TypeFile /\ UNCHANGED <<dvr_file, finalized, track, dpc, nals, mpc>> => TypeFile'
  BY DEF TypeFile
<1>3. TypeFlow /\ UNCHANGED <<options, dvrQueue, popped, ppc, packet, fed, signal_flag, atSignal>>
        => TypeFlow'
  BY OptionsStay DEF TypeFlow
<1> QED
  BY <1>1, <1>2, <1>3, Zenon

\* So do the other two parts.
LEMMA AccountsStay ==
  /\ Counted /\ UNCHANGED <<options, fed, popped, dvrQueue, ppc, packet, atSignal>> => Counted'
  /\ EndsDrained /\ UNCHANGED <<dpc, signal_flag, popped, atSignal, dvr_file, mpc>>
       => EndsDrained'
<1>1. Counted /\ UNCHANGED <<options, fed, popped, dvrQueue, ppc, packet, atSignal>> => Counted'
  BY OptionsStay DEF Counted
<1>2. EndsDrained /\ UNCHANGED <<dpc, signal_flag, popped, atSignal, dvr_file, mpc>>
        => EndsDrained'
  BY DEF EndsDrained
<1> QED
  BY <1>1, <1>2, Zenon

-----------------------------------------------------------------------------
(* The pull thread                                                         *)

\* A packet arrives.
LEMMA PullPacketStep == DvrInv /\ PullPacket => DvrInv'
<1> SUFFICES ASSUME DvrInv, PullPacket PROVE DvrInv'
  OBVIOUS
<1>0. /\ TypeFlow /\ TypeWriter /\ TypeFile
      /\ Counted /\ EndsDrained /\ RecordingInv
  BY Parts, Zenon
<1>1. /\ UNCHANGED <<popped, muxVars, fileVars, signalVars, writeVars, nals, mpc, options>>
      /\ ppc = "pull" /\ ppc' = "push" /\ UNCHANGED <<dvrQueue, dpc>>
      /\ fed < MaxPackets /\ fed' = fed + 1 /\ packet' \in Packets
  BY DEF PullPacket, PullGoes
<1>2. TypeFlow'
  BY <1>0, <1>1, OptionsStay, DvrAssumption DEF TypeFlow, signalVars, PullPC
<1>3. TypeWriter' /\ TypeFile'
  BY <1>0, <1>1, TypesStay DEF muxVars, fileVars, writeVars, recVars
<1>4. Counted'
  BY <1>0, <1>1, OptionsStay, Elements DEF Counted, TypeFlow, signalVars
<1>5. EndsDrained'
  BY <1>0, <1>1, AccountsStay DEF fileVars, signalVars
<1>6. RecordingInv'
  BY <1>0, <1>1, RecordingStays DEF recording, muxVars, fileVars, writeVars, recVars
<1> QED
  BY <1>2, <1>3, <1>4, <1>5, <1>6, PartsNext, Zenon

\* It is enqueued.
LEMMA PushStep == DvrInv /\ Push => DvrInv'
<1> SUFFICES ASSUME DvrInv, Push PROVE DvrInv'
  OBVIOUS
<1>0. /\ TypeFlow /\ TypeWriter /\ TypeFile
      /\ Counted /\ EndsDrained /\ RecordingInv
  BY Parts, Zenon
<1>1. /\ UNCHANGED <<popped, muxVars, fileVars, signalVars, writeVars, nals, mpc, options>>
      /\ ppc = "push" /\ ppc' = "notify" /\ UNCHANGED <<packet, fed, dpc>>
      /\ dvrQueue' = Append(dvrQueue, packet)
  BY DEF Push, PullGoes
<1>2. /\ packet \in Packets /\ dvrQueue' \in Seq(Packets)
      /\ Len(dvrQueue') = Len(dvrQueue) + 1
  BY <1>0, <1>1, Added DEF Counted, TypeFlow
<1>3. TypeFlow'
  BY <1>0, <1>1, <1>2, OptionsStay DEF TypeFlow, signalVars, PullPC
<1>4. TypeWriter' /\ TypeFile'
  BY <1>0, <1>1, TypesStay DEF muxVars, fileVars, writeVars, recVars
<1>5. Counted'
  BY <1>0, <1>1, <1>2, OptionsStay, Elements DEF Counted, TypeFlow, signalVars
<1>6. EndsDrained'
  BY <1>0, <1>1, AccountsStay DEF fileVars, signalVars
<1>7. RecordingInv'
  BY <1>0, <1>1, RecordingStays DEF recording, muxVars, fileVars, writeVars, recVars
<1> QED
  BY <1>3, <1>4, <1>5, <1>6, <1>7, PartsNext, Zenon

\* __DVR_THREAD__ is notified; the thread ends.
LEMMA NotifyStep == DvrInv /\ (Notify \/ PullEnds) => DvrInv'
<1> SUFFICES ASSUME DvrInv, Notify \/ PullEnds PROVE DvrInv'
  OBVIOUS
<1>0. /\ TypeFlow /\ TypeWriter /\ TypeFile
      /\ Counted /\ EndsDrained /\ RecordingInv
  BY Parts, Zenon
<1>1. /\ UNCHANGED <<popped, muxVars, fileVars, signalVars, writeVars, nals, mpc, options>>
      /\ ppc # "push" /\ ppc' \in {"pull", "done"} /\ UNCHANGED <<dvrQueue, packet, fed>>
      /\ dpc' = dpc \/ (dpc = "waiting" /\ dpc' = "loop")
  BY DEF Notify, PullEnds, PullGoes
<1>2. TypeFlow'
  BY <1>0, <1>1, OptionsStay DEF TypeFlow, signalVars, PullPC
<1>3. TypeWriter' /\ TypeFile'
  BY <1>0, <1>1, TypesStay DEF muxVars, fileVars, writeVars, recVars, TypeFile, DvrPC
<1>4. Counted'
  BY <1>0, <1>1, OptionsStay DEF Counted, signalVars
<1>5. EndsDrained'
  BY <1>0, <1>1 DEF EndsDrained, Ending, fileVars, signalVars
<1>6. RecordingInv'
  BY <1>0, <1>1, RecordingStays DEF recording, Between, muxVars, fileVars, writeVars, recVars
<1> QED
  BY <1>2, <1>3, <1>4, <1>5, <1>6, PartsNext, Zenon

-----------------------------------------------------------------------------
(* sig_handler and main()                                                  *)

\* The signal comes.
LEMMA SignalStep == DvrInv /\ Signal => DvrInv'
<1> SUFFICES ASSUME DvrInv, Signal PROVE DvrInv'
  OBVIOUS
<1>0. /\ TypeOK /\ TypeFlow /\ TypeWriter /\ TypeFile
      /\ Counted /\ EndsDrained /\ RecordingInv
  BY Parts, TypesTogether, Zenon
<1>1. /\ UNCHANGED <<queueVars, pullVars, muxVars, fileVars, writeVars, dpc, nals, mpc, options>>
      /\ ~signal_flag /\ signal_flag' = TRUE /\ atSignal' = Len(popped) + Len(dvrQueue)
  BY DEF Signal
<1>2. atSignal' \in 0..MaxPackets
  BY <1>0, <1>1, Elements, DvrAssumption DEF TypeOK
<1>3. TypeFlow'
  BY <1>0, <1>1, <1>2, OptionsStay DEF TypeFlow, queueVars, pullVars
<1>4. TypeWriter' /\ TypeFile'
  BY <1>0, <1>1, TypesStay DEF muxVars, fileVars, writeVars, recVars
<1>5. Counted'
  BY <1>0, <1>1, <1>2, OptionsStay DEF Counted, queueVars, pullVars
<1>6. EndsDrained'
  BY <1>0, <1>1 DEF EndsDrained, fileVars
<1>7. RecordingInv'
  BY <1>0, <1>1, RecordingStays DEF recording, queueVars, muxVars, fileVars, writeVars, recVars
<1> QED
  BY <1>3, <1>4, <1>5, <1>6, <1>7, PartsNext, Zenon

\* main() stops the pull thread and waits for the threads.
LEMMA MainStep == DvrInv /\ MainBody => DvrInv'
<1> SUFFICES ASSUME DvrInv, MainBody PROVE DvrInv'
  OBVIOUS
<1>0. /\ TypeFlow /\ TypeWriter /\ TypeFile
      /\ Counted /\ EndsDrained /\ RecordingInv
  BY Parts, Zenon
<1>1. /\ UNCHANGED <<queueVars, pullVars, muxVars, fileVars, signalVars, writeVars, dpc, nals,
                     options>>
      /\ mpc' \in MainPC /\ (mpc' = "exit" => dpc \in {"none", "done"})
  BY DEF MainBody, StopReceiving, JoinPull, JoinFrame, JoinDvr, MainGoes, MainPC
<1>2. TypeFlow' /\ TypeWriter'
  BY <1>0, <1>1, TypesStay DEF queueVars, pullVars, muxVars, signalVars, writeVars, recVars
<1>3. TypeFile'
  BY <1>0, <1>1 DEF TypeFile, fileVars, writeVars, recVars
<1>4. Counted'
  BY <1>0, <1>1, AccountsStay DEF queueVars, pullVars, signalVars
<1>5. EndsDrained'
  BY <1>0, <1>1 DEF EndsDrained, fileVars, signalVars, queueVars
<1>6. RecordingInv'
  BY <1>0, <1>1, RecordingStays DEF recording, queueVars, muxVars, fileVars, writeVars, recVars
<1> QED
  BY <1>2, <1>3, <1>4, <1>5, <1>6, PartsNext, Zenon

\* Where nothing changes the invariant stays.
LEMMA StutterStep == DvrInv /\ UNCHANGED vars => DvrInv'
<1> SUFFICES ASSUME DvrInv, UNCHANGED vars PROVE DvrInv'
  OBVIOUS
<1>0. /\ TypeFlow /\ TypeWriter /\ TypeFile
      /\ Counted /\ EndsDrained /\ RecordingInv
  BY Parts, Zenon
<1>1. UNCHANGED <<queueVars, pullVars, muxVars, fileVars, signalVars, writeVars, dpc, nals, mpc,
                  options>>
  BY DEF vars
<1>2. TypeFlow' /\ TypeWriter' /\ TypeFile'
  BY <1>0, <1>1, TypesStay
  DEF queueVars, pullVars, muxVars, fileVars, signalVars, writeVars, recVars
<1>3. Counted' /\ EndsDrained'
  BY <1>0, <1>1, AccountsStay DEF queueVars, pullVars, fileVars, signalVars
<1>4. RecordingInv'
  BY <1>0, <1>1, RecordingStays DEF recording, queueVars, muxVars, fileVars, writeVars, recVars
<1> QED
  BY <1>2, <1>3, <1>4, PartsNext, Zenon

-----------------------------------------------------------------------------
(* __FRAME_THREAD__                                                        *)

\* The parts about packets and samples stay where what they are about does.
LEMMA PacketsStay ==
  /\ PacketInHand /\ UNCHANGED <<popped, nals, dpc>> => PacketInHand'
  /\ StartsAtKey /\ UNCHANGED <<options, raced, track, sets>> => StartsAtKey'
  /\ NoGap /\ UNCHANGED <<options, raced, track, popped>> => NoGap'
<1>1. PacketInHand /\ UNCHANGED <<popped, nals, dpc>> => PacketInHand'
  BY DEF PacketInHand, InHand
<1>2. StartsAtKey /\ UNCHANGED <<options, raced, track, sets>> => StartsAtKey'
  BY OptionsStay DEF StartsAtKey, FirstSample
<1>3. NoGap /\ UNCHANGED <<options, raced, track, popped>> => NoGap'
  BY OptionsStay DEF NoGap
<1> QED
  BY <1>1, <1>2, <1>3, Zenon

\* The last sample is one of them.
LEMMA LastSample ==
  ASSUME TypeFile, track # <<>>
  PROVE  /\ Len(track) \in Nat \ {0} /\ Len(track) \in 1..Len(track)
         /\ track[Len(track)] \in Sample
         /\ SamplesFound => /\ track[Len(track)].mux \in 1..mux
                            /\ track[Len(track)].packet \in 1..Len(popped)
<1>1. Len(track) \in Nat \ {0} /\ track[Len(track)] \in Sample
  BY Elements DEF TypeFile
<1>2. Len(track) \in 1..Len(track)
  BY <1>1
<1> QED
  BY <1>1, <1>2 DEF SamplesFound

\* A multiplexer is opened.
LEMMA OpenMuxStep == DvrInv /\ OpenMux => DvrInv'
<1> SUFFICES ASSUME DvrInv, OpenMux PROVE DvrInv'
  OBVIOUS
<1>0. /\ TypeFlow /\ TypeWriter /\ TypeFile
      /\ Counted /\ EndsDrained /\ RecordingInv
  BY Parts, Zenon
<1>1. /\ UNCHANGED <<queueVars, pullVars, fileVars, signalVars, writeVars, dpc, nals, mpc,
                     options>>
      /\ mux < MaxInfoChanges /\ stores = {} /\ mux' = mux + 1 /\ stores' = Fields
      /\ dvr_file # "none"
  BY DEF OpenMux, AtInfoChange
<1>2. mux \in Nat /\ mux' # 0 /\ "mux" \in stores' /\ stores' # {}
  BY <1>0, <1>1 DEF TypeWriter, Fields
<1>3. TypeFlow' /\ TypeFile'
  BY <1>0, <1>1, TypesStay
  DEF queueVars, pullVars, signalVars, fileVars, writeVars, recVars
<1>4. TypeWriter'
  BY <1>0, <1>1, DvrAssumption DEF TypeWriter, writeVars, recVars
<1>5. Counted' /\ EndsDrained'
  BY <1>0, <1>1, AccountsStay DEF queueVars, pullVars, fileVars, signalVars
<1>6. PacketInHand' /\ StartsAtKey' /\ NoGap'
  BY <1>0, <1>1, PacketsStay DEF RecordingInv, queueVars, writeVars, recVars
<1>7. WriterReady'
  BY <1>0, <1>1, <1>2 DEF RecordingInv, WriterReady, TypeWriter, Writer, writeVars
<1>8. track # <<>> => track[Len(track)].mux \in 1..mux
  BY <1>0, LastSample DEF RecordingInv
<1>9. ~HasSamples'
  BY <1>1, <1>2, <1>8 DEF HasSamples, writeVars, recVars
<1>10. SamplesFound'
  <2>1. /\ track' = track /\ popped' = popped /\ dpc' = dpc /\ finalized' = finalized
        /\ mp4_fragmentation_mode' = mp4_fragmentation_mode
    BY <1>1 DEF queueVars, fileVars, writeVars, recVars, options
  <2>2. \A i \in 1..Len(track) : track[i].mux \in 1..mux' /\ track[i].packet \in 1..Len(popped)
    BY <1>0, <1>1, <1>2 DEF RecordingInv, SamplesFound
  <2>3. track # <<>> => mux' # 1
    BY <1>1, <1>2, <1>8
  <2> QED
    BY <1>0, <2>1, <2>2, <2>3 DEF RecordingInv, SamplesFound
<1>11. WriterWhole' /\ NothingAfter'
  BY <1>1, <1>2, <1>9 DEF WriterWhole, NothingAfter
<1> QED
  BY <1>3, <1>4, <1>5, <1>6, <1>7, <1>10, <1>11, PartsNext, Zenon DEF RecordingInv

\* It cannot be opened.
LEMMA OpenMuxFailsStep == DvrInv /\ OpenMuxFails => DvrInv'
<1> SUFFICES ASSUME DvrInv, OpenMuxFails PROVE DvrInv'
  OBVIOUS
<1>0. /\ TypeFlow /\ TypeWriter /\ TypeFile
      /\ Counted /\ EndsDrained /\ RecordingInv
  BY Parts, Zenon
<1>1. /\ UNCHANGED <<queueVars, pullVars, muxVars, fileVars, signalVars, mp4wr, recVars, raced,
                     dpc, nals, mpc, options>>
      /\ crashed' = TRUE
  BY DEF OpenMuxFails, AtInfoChange
<1>2. TypeFlow' /\ TypeFile'
  BY <1>0, <1>1, TypesStay DEF queueVars, pullVars, signalVars, fileVars, recVars
<1>3. TypeWriter'
  BY <1>0, <1>1 DEF TypeWriter, muxVars, recVars
<1>4. Counted' /\ EndsDrained'
  BY <1>0, <1>1, AccountsStay DEF queueVars, pullVars, fileVars, signalVars
<1>5. RecordingInv'
  BY <1>0, <1>1, RecordingStays DEF recording, queueVars, muxVars, fileVars, recVars
<1> QED
  BY <1>2, <1>3, <1>4, <1>5, PartsNext, Zenon

\* What the writer starts with.
LEMMA Fresh ==
  ASSUME TypeWriter
  PROVE  /\ FreshWriter \in Writer
         /\ FreshWriter.mux = mux /\ FreshWriter.hevc = Hevc
         /\ FreshWriter.need \subseteq Gates /\ Required \subseteq FreshWriter.need
         /\ "idr" \in FreshWriter.need
  BY DEF TypeWriter, FreshWriter, Writer, Hevc, Required, ParameterSets, Gates

\* One of the three fields of mp4wr is stored.
LEMMA StoreFieldStep == DvrInv /\ StoreField => DvrInv'
<1> SUFFICES ASSUME DvrInv, StoreField PROVE DvrInv'
  OBVIOUS
<1>0. /\ TypeFlow /\ TypeWriter /\ TypeFile
      /\ Counted /\ EndsDrained /\ RecordingInv
  BY Parts, Zenon
<1>1. UNCHANGED <<queueVars, pullVars, mux, fileVars, signalVars, recVars, crashed, raced, dpc,
                  nals, mpc, options>>
  BY DEF StoreField
<1>2. PICK f \in stores : /\ stores' = stores \ {f}
                          /\ mp4wr' = [mp4wr EXCEPT ![f] = FreshWriter[f]]
  BY DEF StoreField
<1>3. f \in Fields /\ mux \in Nat /\ stores # {} /\ mux # 0
  BY <1>0 DEF TypeWriter, RecordingInv, WriterReady
<1>4. /\ mp4wr' \in Writer /\ mp4wr'[f] = FreshWriter[f]
      /\ \A g \in Fields \ {f} : mp4wr'[g] = mp4wr[g]
  <2>1. CASE f = "mux"
    BY <1>0, <1>2, <2>1, Fresh DEF TypeWriter, Writer, Fields
  <2>2. CASE f = "hevc"
    BY <1>0, <1>2, <2>2, Fresh DEF TypeWriter, Writer, Fields
  <2>3. CASE f = "need"
    BY <1>0, <1>2, <2>3, Fresh DEF TypeWriter, Writer, Fields
  <2> QED
    BY <1>3, <2>1, <2>2, <2>3 DEF Fields
<1>5. TypeFlow' /\ TypeFile'
  BY <1>0, <1>1, TypesStay DEF queueVars, pullVars, signalVars, fileVars, recVars
<1>6. TypeWriter'
  BY <1>0, <1>1, <1>2, <1>4 DEF TypeWriter, recVars
<1>7. Counted' /\ EndsDrained'
  BY <1>0, <1>1, AccountsStay DEF queueVars, pullVars, fileVars, signalVars
<1>8. PacketInHand' /\ StartsAtKey' /\ NoGap'
  BY <1>0, <1>1, PacketsStay DEF RecordingInv, queueVars, recVars
<1>9. WriterReady'
  <2>1. "mux" \in Fields /\ mux' = mux /\ dpc' = dpc
    BY <1>1 DEF Fields
  <2>2. mp4wr'["mux"] = mux \/ mp4wr'["mux"] = mp4wr["mux"]
    BY <1>0, <1>4, <2>1, Fresh
  <2>3. mp4wr'["mux"] <= mux
    BY <1>0, <1>3, <2>2 DEF RecordingInv, WriterReady
  <2>4. "mux" \notin stores' => mp4wr'["mux"] = mux \/ "mux" \notin stores
    BY <1>0, <1>2, <1>4, Fresh
  <2> QED
    BY <1>0, <1>2, <1>3, <1>4, <2>1, <2>2, <2>3, <2>4 DEF RecordingInv, WriterReady
<1>10. SamplesFound'
  BY <1>0, <1>1, OptionsStay DEF RecordingInv, SamplesFound, queueVars, fileVars, recVars
<1>11. HasSamples' = HasSamples /\ FreshWriter' = FreshWriter
  BY <1>1, OptionsStay DEF HasSamples, FreshWriter, recVars
<1>12. WriterWhole'
  <2> SUFFICES ASSUME ~raced, dpc \notin {"fclose", "done"}
               PROVE  WriterWhole'
    BY <1>1 DEF WriterWhole
  <2>1. ~HasSamples /\ \A g \in Fields \ stores : mp4wr[g] = FreshWriter[g]
    BY <1>0, <1>3 DEF RecordingInv, WriterWhole
  <2>2. \A g \in Fields \ stores' : mp4wr'[g] = FreshWriter[g]
    BY <1>2, <1>4, <2>1
  <2>3. CASE stores' # {}
    BY <1>11, <2>1, <2>2, <2>3 DEF WriterWhole
  <2>4. CASE stores' = {}
    <3>1. mp4wr'.mux = mux /\ mp4wr'.hevc = Hevc /\ mp4wr'.need = FreshWriter.need
      BY <1>0, <2>2, <2>4, Fresh DEF Fields
    <3>2. mux' = mux /\ Hevc' = Hevc /\ Required' = Required
      BY <1>1, OptionsStay
    <3> QED
      BY <1>0, <1>11, <2>1, <2>4, <3>1, <3>2, Fresh DEF WriterWhole
  <2> QED
    BY <2>3, <2>4
<1>13. NothingAfter'
  BY <1>0, <1>1, <1>11, OptionsStay
  DEF RecordingInv, NothingAfter, Pictureless, queueVars, recVars
<1> QED
  BY <1>5, <1>6, <1>7, <1>8, <1>9, <1>10, <1>12, <1>13, PartsNext, Zenon DEF RecordingInv

-----------------------------------------------------------------------------
(* __DVR_THREAD__ between two NAL units                                    *)

\* The writer is left alone, before the end.
LEMMA WriterStays ==
  ASSUME UNCHANGED <<options, mux, stores, mp4wr, sets, raced, track>>,
         dpc \notin {"fclose", "done"}, dpc' \notin {"fclose", "done"},
         WriterReady, WriterWhole
  PROVE  WriterReady' /\ WriterWhole'
<1>1. HasSamples' = HasSamples /\ FreshWriter' = FreshWriter
  BY OptionsStay DEF HasSamples, FreshWriter
<1>2. WriterReady'
  BY DEF WriterReady
<1>3. WriterWhole'
  BY <1>1, OptionsStay DEF WriterWhole
<1> QED
  BY <1>2, <1>3

\* The types after a step of __DVR_THREAD__ that leaves the writer alone.
LEMMA DvrTypesStay ==
  ASSUME TypeWriter, UNCHANGED <<muxVars, writeVars>>
  PROVE  TypeWriter'
  BY TypesStay DEF muxVars, writeVars, recVars

\* A packet is taken from the queue.
LEMMA PopStep ==
  DvrInv /\ Pop /\ DvrGoes("loop", "write") /\ UNCHANGED <<fileVars, writeVars>> => DvrInv'
<1> SUFFICES ASSUME DvrInv, Pop, DvrGoes("loop", "write"), UNCHANGED <<fileVars, writeVars>>
             PROVE  DvrInv'
  OBVIOUS
<1>0. /\ TypeFlow /\ TypeWriter /\ TypeFile
      /\ Counted /\ EndsDrained /\ RecordingInv
  BY Parts, Zenon
<1>1. /\ UNCHANGED <<pullVars, muxVars, fileVars, writeVars, signalVars, mpc, options>>
      /\ dpc = "loop" /\ dpc' = "write"
      /\ dvrQueue # <<>> /\ nals' = Head(dvrQueue)
      /\ popped' = Append(popped, Head(dvrQueue)) /\ dvrQueue' = Tail(dvrQueue)
  BY DEF Pop, DvrGoes
<1>2. /\ dvrQueue \in Seq(Packets) /\ popped \in Seq(Packets)
      /\ Len(popped) \in Nat /\ Len(dvrQueue) \in Nat
  BY <1>0, Elements DEF TypeFlow
<1>3. /\ Head(dvrQueue) \in Packets /\ dvrQueue' \in Seq(Packets)
      /\ Len(dvrQueue') = Len(dvrQueue) - 1
  BY <1>1, <1>2, Taken
<1>4. /\ popped' \in Seq(Packets) /\ Len(popped') = Len(popped) + 1 /\ popped' # <<>>
      /\ \A i \in 1..Len(popped) : popped'[i] = popped[i]
      /\ popped'[Len(popped')] = nals'
  <2>1. /\ popped' \in Seq(Packets) /\ Len(popped') = Len(popped) + 1 /\ popped' # <<>>
        /\ \A i \in 1..Len(popped) : popped'[i] = popped[i]
        /\ popped'[Len(popped) + 1] = Head(dvrQueue)
    BY <1>1, <1>2, <1>3, Added
  <2> QED
    BY <1>1, <2>1
<1>5. nals' \in Seq(Nals) /\ Len(nals') \in Nat /\ \A j \in 1..Len(nals') : nals'[j + 0] = nals'[j]
  BY <1>1, <1>3, PacketsFit, Elements
<1>6. TypeFlow'
  BY <1>0, <1>1, <1>3, <1>4, OptionsStay DEF TypeFlow, pullVars, signalVars
<1>7. TypeWriter'
  BY <1>0, <1>1, DvrTypesStay
<1>8. TypeFile'
  BY <1>0, <1>1, <1>5 DEF TypeFile, DvrPC, fileVars, writeVars, recVars
<1>9. Counted'
  BY <1>0, <1>1, <1>2, <1>3, <1>4, OptionsStay DEF Counted, TypeFlow, pullVars, signalVars
<1>10. EndsDrained'
  BY <1>0, <1>1 DEF EndsDrained, Ending, fileVars, signalVars
<1>11. PacketInHand'
  <2>1. InHand' = nals'
    BY <1>4, Zenon DEF InHand
  <2>2. Len(nals') - Len(nals') = 0
    BY <1>5
  <2> QED
    BY <1>4, <1>5, <2>1, <2>2 DEF PacketInHand
<1>12. WriterReady' /\ WriterWhole'
  BY <1>0, <1>1, WriterStays DEF RecordingInv, muxVars, writeVars, recVars
<1>13. SamplesFound'
  BY <1>0, <1>1, <1>2, <1>4, OptionsStay, LastSample
  DEF RecordingInv, SamplesFound, Ending, fileVars, muxVars, writeVars, recVars
<1>14. NothingAfter'
  <2>1. raced' = raced /\ HasSamples' = HasSamples /\ track' = track
    BY <1>1 DEF HasSamples, muxVars, writeVars, recVars
  <2> SUFFICES ASSUME ~raced, HasSamples,
                      NEW k \in (track[Len(track)].packet + 1)..Len(popped'),
                      NEW j \in 1..(IF k = Len(popped') THEN Len(popped'[k]) - Len(nals')
                                                        ELSE Len(popped'[k]))
               PROVE  popped'[k][j] \in Unrecorded'
    BY <1>1, <2>1 DEF NothingAfter, Pictureless
  <2>2. track[Len(track)].packet \in 1..Len(popped)
    BY <1>0, LastSample DEF RecordingInv, HasSamples
  <2>3. CASE k = Len(popped')
    <3>1. Len(popped'[k]) - Len(nals') = 0
      BY <1>4, <1>5, <2>3
    <3> QED
      BY <2>3, <3>1
  <2>4. CASE k # Len(popped')
    <3>1. k \in (track[Len(track)].packet + 1)..Len(popped) /\ k \in 1..Len(popped)
      BY <1>2, <1>4, <2>2, <2>4
    <3>2. popped'[k] = popped[k]
      BY <1>4, <3>1
    <3>3. Pictureless(k, Len(popped[k]))
      BY <1>0, <1>1, <3>1 DEF RecordingInv, NothingAfter
    <3>4. j \in 1..Len(popped[k])
      BY <2>4, <3>2
    <3> QED
      BY <1>1, <3>2, <3>3, <3>4, OptionsStay DEF Pictureless
  <2> QED
    BY <2>3, <2>4
<1>15. StartsAtKey'
  BY <1>0, <1>1, PacketsStay DEF RecordingInv, writeVars, recVars
<1>16. NoGap'
  <2>1. /\ UNCHANGED <<raced, track>> /\ Unrecorded' = Unrecorded
    BY <1>1, OptionsStay DEF writeVars, recVars
  <2>2. \A i \in 2..Len(track) : \A k \in (track[i - 1].packet + 1)..(track[i].packet - 1) :
          popped'[k] = popped[k]
    <3> TAKE i \in 2..Len(track)
    <3>1. i \in 1..Len(track) /\ i - 1 \in 1..Len(track)
      BY <1>0, Elements DEF TypeFile
    <3>2. track[i - 1].packet \in 1..Len(popped) /\ track[i].packet \in 1..Len(popped)
      BY <1>0, <3>1 DEF RecordingInv, SamplesFound
    <3> TAKE k \in (track[i - 1].packet + 1)..(track[i].packet - 1)
    <3>3. k \in 1..Len(popped)
      BY <1>2, <3>2
    <3> QED
      BY <1>4, <3>3
  <2> QED
    BY <1>0, <2>1, <2>2 DEF RecordingInv, NoGap
<1> QED
  BY <1>6, <1>7, <1>8, <1>9, <1>10, <1>11, <1>12, <1>13, <1>14, <1>15, <1>16, PartsNext, Zenon
  DEF RecordingInv

\* There is none: __DVR_THREAD__ waits, or ends once it has seen the signal; a wait
\* returns early.
LEMMA WaitStep ==
  ASSUME DvrInv, UNCHANGED <<queueVars, nals, fileVars, writeVars>>,
         \/ DvrGoes("loop", "waiting") \/ DvrGoes("waiting", "loop")
         \/ DvrGoes("loop", "close") /\ signal_flag /\ dvrQueue = <<>>
  PROVE  DvrInv'
<1>0. /\ TypeFlow /\ TypeWriter /\ TypeFile
      /\ Counted /\ EndsDrained /\ RecordingInv
  BY Parts, Zenon
<1>1. /\ UNCHANGED <<pullVars, muxVars, signalVars, mpc, options>>
      /\ dpc \in {"loop", "waiting"}
      /\ \/ dpc' \in {"loop", "waiting"}
         \/ dpc' = "close" /\ signal_flag /\ dvrQueue = <<>>
  BY DEF DvrGoes
<1>2. TypeFlow' /\ TypeWriter'
  BY <1>0, <1>1, TypesStay, DvrTypesStay DEF queueVars, pullVars, signalVars
<1>3. TypeFile'
  BY <1>0, <1>1 DEF TypeFile, DvrPC, fileVars, writeVars, recVars
<1>4. Counted'
  BY <1>0, <1>1, AccountsStay DEF queueVars, pullVars, signalVars
<1>5. dvrQueue = <<>> => Len(popped) >= atSignal
  BY <1>0, Elements DEF Counted, TypeFlow
<1>6. EndsDrained'
  BY <1>0, <1>1, <1>5 DEF EndsDrained, Ending, queueVars, fileVars, signalVars
<1>7. RecordingInv'
  BY <1>0, <1>1, RecordingStays
  DEF recording, Between, queueVars, muxVars, fileVars, writeVars, recVars
<1> QED
  BY <1>2, <1>3, <1>4, <1>6, <1>7, PartsNext, Zenon

\* All of these.
LEMMA TakeStep == DvrInv /\ (DvrTake \/ DvrWakes) => DvrInv'
<1> SUFFICES ASSUME DvrInv, DvrTake \/ DvrWakes PROVE DvrInv'
  OBVIOUS
<1>1. CASE DvrWakes
  BY <1>1, WaitStep DEF DvrWakes
<1>2. CASE DvrTake
  <2>1. CASE Pop /\ DvrGoes("loop", "write")
    BY <1>2, <2>1, PopStep DEF DvrTake
  <2>2. CASE /\ dvrQueue = <<>> /\ UNCHANGED <<queueVars, nals>>
             /\ DvrGoes("loop", IF signal_flag THEN "close" ELSE "waiting")
    <3>1. UNCHANGED <<queueVars, nals, fileVars, writeVars>>
      BY <1>2, <2>2 DEF DvrTake
    <3>2. CASE signal_flag
      BY <2>2, <3>1, <3>2, WaitStep
    <3>3. CASE ~signal_flag
      BY <2>2, <3>1, <3>3, WaitStep
    <3> QED
      BY <3>2, <3>3
  <2> QED
    BY <1>2, <2>1, <2>2 DEF DvrTake
<1> QED
  BY <1>1, <1>2

\* All NAL units of a packet are written.
LEMMA PacketWrittenStep == DvrInv /\ PacketWritten => DvrInv'
<1> SUFFICES ASSUME DvrInv, PacketWritten PROVE DvrInv'
  OBVIOUS
<1>0. /\ TypeFlow /\ TypeWriter /\ TypeFile
      /\ Counted /\ EndsDrained /\ RecordingInv
  BY Parts, Zenon
<1>1. /\ UNCHANGED <<pullVars, muxVars, signalVars, mpc, options>>
      /\ UNCHANGED <<queueVars, nals, fileVars, writeVars>>
      /\ nals = <<>> /\ dpc = "write" /\ dpc' = "loop"
  BY DEF PacketWritten, DvrGoes
<1>2. TypeFlow' /\ TypeWriter'
  BY <1>0, <1>1, TypesStay, DvrTypesStay DEF queueVars, pullVars, signalVars
<1>3. TypeFile'
  BY <1>0, <1>1 DEF TypeFile, DvrPC, fileVars, writeVars, recVars
<1>4. Counted'
  BY <1>0, <1>1, AccountsStay DEF queueVars, pullVars, signalVars
<1>5. EndsDrained'
  BY <1>0, <1>1 DEF EndsDrained, Ending, queueVars, fileVars, signalVars
<1>6. PacketInHand'
  BY <1>1 DEF PacketInHand
<1>7. WriterReady' /\ WriterWhole'
  BY <1>0, <1>1, WriterStays DEF RecordingInv, muxVars, writeVars, recVars
<1>8. SamplesFound'
  BY <1>0, <1>1, OptionsStay
  DEF RecordingInv, SamplesFound, Ending, queueVars, fileVars, muxVars, writeVars, recVars
<1>9. NothingAfter'
  <2>1. /\ raced' = raced /\ HasSamples' = HasSamples /\ track' = track /\ popped' = popped
        /\ Unrecorded' = Unrecorded
    BY <1>1, OptionsStay DEF HasSamples, queueVars, muxVars, writeVars, recVars
  <2> SUFFICES ASSUME ~raced, HasSamples,
                      NEW k \in (track[Len(track)].packet + 1)..Len(popped),
                      NEW j \in 1..Len(popped[k])
               PROVE  popped[k][j] \in Unrecorded
    BY <1>1, <2>1 DEF NothingAfter, Pictureless
  <2>2. k \in 1..Len(popped)
    BY <1>0, LastSample, Elements DEF RecordingInv, HasSamples, TypeFlow
  <2>3. popped[k] \in Seq(Nals)
    BY <1>0, <2>2, PacketsFit, Elements DEF TypeFlow
  <2>4. Len(popped[k]) - Len(nals) = Len(popped[k])
    BY <1>1, <2>3, Elements
  <2> QED
    BY <1>0, <1>1, <2>4 DEF RecordingInv, NothingAfter, Pictureless
<1>10. StartsAtKey' /\ NoGap'
  BY <1>0, <1>1, PacketsStay DEF RecordingInv, queueVars, writeVars, recVars
<1> QED
  BY <1>2, <1>3, <1>4, <1>5, <1>6, <1>7, <1>8, <1>9, <1>10, PartsNext, Zenon DEF RecordingInv

-----------------------------------------------------------------------------
(* __DVR_THREAD__ at its end                                               *)

\* A step of the end leaves what was taken and recorded alone.
LEMMA RecordStays ==
  ASSUME DvrInv, UNCHANGED <<options, popped, nals, track, raced, sets, mux>>,
         dpc # "write", dpc' # "write"
  PROVE  PacketInHand' /\ NothingAfter' /\ StartsAtKey' /\ NoGap'
<1>0. RecordingInv
  BY Parts, Zenon
<1>1. HasSamples' = HasSamples
  BY DEF HasSamples
<1>2. PacketInHand'
  BY DEF PacketInHand
<1>3. NothingAfter'
  BY <1>0, <1>1, OptionsStay DEF RecordingInv, NothingAfter, Pictureless
<1>4. StartsAtKey' /\ NoGap'
  BY <1>0, PacketsStay DEF RecordingInv
<1> QED
  BY <1>2, <1>3, <1>4, Zenon

\* The index is written.
LEMMA CloseMuxStep == DvrInv /\ CloseMux => DvrInv'
<1> SUFFICES ASSUME DvrInv, CloseMux PROVE DvrInv'
  OBVIOUS
<1>0. /\ TypeFlow /\ TypeWriter /\ TypeFile
      /\ Counted /\ EndsDrained /\ RecordingInv
  BY Parts, Zenon
<1>1. /\ UNCHANGED <<pullVars, muxVars, signalVars, mpc, options>>
      /\ UNCHANGED <<queueVars, nals, dvr_file, writeVars>>
      /\ dpc = "close" /\ dpc' = "clear"
      /\ finalized' = IF mux # 0 /\ ~mp4_fragmentation_mode THEN mux ELSE finalized
  BY DEF CloseMux, DvrGoes, FlushIndex
<1>2. TypeFlow' /\ TypeWriter'
  BY <1>0, <1>1, TypesStay, DvrTypesStay DEF queueVars, pullVars, signalVars
<1>3. TypeFile'
  BY <1>0, <1>1 DEF TypeFile, TypeWriter, DvrPC, writeVars, recVars
<1>4. Counted'
  BY <1>0, <1>1, AccountsStay DEF queueVars, pullVars, signalVars
<1>5. EndsDrained'
  BY <1>0, <1>1 DEF EndsDrained, Ending, queueVars, signalVars
<1>6. WriterReady' /\ WriterWhole'
  BY <1>0, <1>1, WriterStays DEF RecordingInv, muxVars, writeVars, recVars
<1>7. SamplesFound'
  BY <1>0, <1>1, OptionsStay
  DEF RecordingInv, SamplesFound, Ending, queueVars, muxVars, writeVars, recVars
<1>8. PacketInHand' /\ NothingAfter' /\ StartsAtKey' /\ NoGap'
  BY <1>1, RecordStays DEF queueVars, muxVars, writeVars, recVars
<1> QED
  BY <1>2, <1>3, <1>4, <1>5, <1>6, <1>7, <1>8, PartsNext, Zenon DEF RecordingInv

\* The writer is cleared.
LEMMA ClearWriterStep == DvrInv /\ ClearWriter => DvrInv'
<1> SUFFICES ASSUME DvrInv, ClearWriter PROVE DvrInv'
  OBVIOUS
<1>0. /\ TypeFlow /\ TypeWriter /\ TypeFile
      /\ Counted /\ EndsDrained /\ RecordingInv
  BY Parts, Zenon
<1>1. /\ UNCHANGED <<pullVars, muxVars, signalVars, mpc, options>>
      /\ UNCHANGED <<queueVars, nals, fileVars, recVars, crashed, raced>>
      /\ dpc = "clear" /\ dpc' = "fclose" /\ mp4wr' = ZeroWriter
  BY DEF ClearWriter, DvrGoes
<1>2. TypeFlow'
  BY <1>0, <1>1, TypesStay DEF queueVars, pullVars, signalVars
<1>3. TypeWriter'
  BY <1>0, <1>1, DvrAssumption DEF TypeWriter, ZeroWriter, Writer, muxVars, recVars
<1>4. TypeFile'
  BY <1>0, <1>1 DEF TypeFile, DvrPC, fileVars, recVars
<1>5. Counted'
  BY <1>0, <1>1, AccountsStay DEF queueVars, pullVars, signalVars
<1>6. EndsDrained'
  BY <1>0, <1>1 DEF EndsDrained, Ending, queueVars, fileVars, signalVars
<1>7. WriterReady' /\ WriterWhole'
  BY <1>0, <1>1 DEF RecordingInv, WriterReady, WriterWhole, ZeroWriter, TypeWriter, muxVars
<1>8. SamplesFound'
  BY <1>0, <1>1, OptionsStay
  DEF RecordingInv, SamplesFound, Ending, queueVars, muxVars, fileVars, recVars
<1>9. PacketInHand' /\ NothingAfter' /\ StartsAtKey' /\ NoGap'
  BY <1>1, RecordStays DEF queueVars, muxVars, recVars
<1> QED
  BY <1>2, <1>3, <1>4, <1>5, <1>6, <1>7, <1>8, <1>9, PartsNext, Zenon DEF RecordingInv

\* The file is closed.
LEMMA CloseFileStep == DvrInv /\ CloseFile => DvrInv'
<1> SUFFICES ASSUME DvrInv, CloseFile PROVE DvrInv'
  OBVIOUS
<1>0. /\ TypeFlow /\ TypeWriter /\ TypeFile
      /\ Counted /\ EndsDrained /\ RecordingInv
  BY Parts, Zenon
<1>1. /\ UNCHANGED <<pullVars, muxVars, signalVars, mpc, options>>
      /\ UNCHANGED <<queueVars, nals, finalized, writeVars>>
      /\ dpc = "fclose" /\ dpc' = "done" /\ dvr_file' = "closed"
  BY DEF CloseFile, DvrGoes
<1>2. TypeFlow' /\ TypeWriter'
  BY <1>0, <1>1, TypesStay, DvrTypesStay DEF queueVars, pullVars, signalVars
<1>3. TypeFile'
  BY <1>0, <1>1 DEF TypeFile, DvrPC, writeVars, recVars
<1>4. Counted'
  BY <1>0, <1>1, AccountsStay DEF queueVars, pullVars, signalVars
<1>5. EndsDrained'
  BY <1>0, <1>1 DEF EndsDrained, Ending, queueVars, signalVars
<1>6. WriterReady' /\ WriterWhole'
  BY <1>0, <1>1 DEF RecordingInv, WriterReady, WriterWhole, muxVars, writeVars
<1>7. SamplesFound'
  BY <1>0, <1>1, OptionsStay
  DEF RecordingInv, SamplesFound, Ending, queueVars, muxVars, writeVars, recVars
<1>8. PacketInHand' /\ NothingAfter' /\ StartsAtKey' /\ NoGap'
  BY <1>1, RecordStays DEF queueVars, muxVars, writeVars, recVars
<1> QED
  BY <1>2, <1>3, <1>4, <1>5, <1>6, <1>7, <1>8, PartsNext, Zenon DEF RecordingInv

-----------------------------------------------------------------------------
(* __DVR_THREAD__ writes a NAL unit                                        *)

unit == Head(nals)

\* A parameter set is stored.
NalStored ==
  /\ StoresParameterSet(mp4wr, unit) /\ crashed' = (mp4wr.mux = 0)
  /\ mp4wr' = [mp4wr EXCEPT !.need = Need(mp4wr, unit) \ {View(mp4wr, unit)}]
  /\ sets' = [m \in DOMAIN sets |->
                sets[m] \cup (IF m = mp4wr.mux THEN {View(mp4wr, unit)} ELSE {})]
  /\ nals' = Tail(nals) /\ UNCHANGED <<track, finalized>>

\* Something else comes.
NalOther ==
  /\ ~StoresParameterSet(mp4wr, unit)
  /\ mp4wr' = [mp4wr EXCEPT !.need = Need(mp4wr, unit)]
  /\ UNCHANGED <<sets, crashed>>

\* It is skipped, or refused, or becomes a sample.
NalSkipped == /\ NalOther /\ Skips(mp4wr, unit)
              /\ nals' = Tail(nals) /\ UNCHANGED <<track, finalized>>
NalRefused == /\ NalOther /\ ~Skips(mp4wr, unit) /\ Refuses(mp4wr, unit)
              /\ nals' = <<>> /\ UNCHANGED <<track, finalized>>
NalPut     == /\ NalOther /\ ~Skips(mp4wr, unit) /\ ~Refuses(mp4wr, unit)
              /\ nals' = Tail(nals)
              /\ track' = Append(track, [mux |-> mp4wr.mux, packet |-> Len(popped),
                                         nal |-> unit])
              /\ finalized' = IF mp4_fragmentation_mode THEN mp4wr.mux ELSE finalized

\* One of the four happens, and little else.
LEMMA NalCases ==
  ASSUME WriteNal
  PROVE  /\ UNCHANGED <<queueVars, pullVars, muxVars, dvr_file, signalVars, dpc, mpc, options>>
         /\ dpc = "write" /\ nals # <<>> /\ raced' = (raced \/ stores # {})
         /\ NalStored \/ NalSkipped \/ NalRefused \/ NalPut
<1>1. /\ UNCHANGED <<queueVars, pullVars, muxVars, dvr_file, signalVars, dpc, mpc, options>>
      /\ dpc = "write" /\ nals # <<>> /\ raced' = (raced \/ stores # {})
  BY Zenon DEF WriteNal
<1>2. NalStored \/ NalSkipped \/ NalRefused \/ NalPut
  BY Zenon
  DEF WriteNal, NalStored, NalSkipped, NalRefused, NalPut, NalOther, unit, PutSample, FlushIndex
<1> QED
  BY <1>1, <1>2, Zenon

\* The gates a NAL unit may open.
LEMMA GatesOf ==
  ASSUME TypeWriter, NEW n \in Nals
  PROVE  /\ Need(mp4wr, n) \subseteq mp4wr.need
         /\ mp4wr.need \ {"idr"} \subseteq Need(mp4wr, n)
         /\ mp4wr.hevc /\ "idr" \in mp4wr.need /\ "idr" \notin Need(mp4wr, n)
              => n \in Key /\ Need(mp4wr, n) = {}
         /\ View(mp4wr, n) \in Nals
         /\ mp4wr.need \subseteq Gates
  BY DEF TypeWriter, Writer, Need, HevcNeed, AvcNeed, View, AvcView, Gates, ParameterSets, Nals

\* What a whole writer makes of a NAL unit.
LEMMA ViewOf ==
  ASSUME mp4wr.hevc = Hevc, NEW n \in Nals
  PROVE  /\ View(mp4wr, n) = n
         /\ StoresParameterSet(mp4wr, n) <=> n \in Required
         /\ n \in Required => Need(mp4wr, n) = mp4wr.need
  BY DEF View, AvcView, StoresParameterSet, Required, Need, HevcNeed, AvcNeed, Key,
         ParameterSets, Hevc

\* The NAL unit is one, and its packet has the rest.
LEMMA NalTaken ==
  ASSUME DvrInv, WriteNal
  PROVE  /\ unit \in Nals /\ nals' \in Seq(Nals) /\ nals \in Seq(Nals)
         /\ Len(nals) \in Nat \ {0} /\ unit = nals[1]
         /\ nals' = Tail(nals) => /\ Len(nals') = Len(nals) - 1
                                  /\ \A i \in 1..(Len(nals) - 1) : nals'[i] = nals[i + 1]
         /\ popped # <<>> /\ Len(popped) \in Nat \ {0}
         /\ Len(InHand) \in Nat /\ Len(nals) <= Len(InHand)
         /\ unit = InHand[1 + (Len(InHand) - Len(nals))]
<1>1. nals \in Seq(Nals) /\ nals # <<>> /\ dpc = "write" /\ popped \in Seq(Packets)
  BY NalCases, Parts, Zenon DEF TypeFile, TypeFlow
<1>2. /\ unit \in Nals /\ Len(nals) \in Nat \ {0} /\ unit = nals[1]
      /\ nals' = Tail(nals) => /\ nals' \in Seq(Nals) /\ Len(nals') = Len(nals) - 1
                               /\ \A i \in 1..(Len(nals) - 1) : nals'[i] = nals[i + 1]
  BY <1>1, Taken DEF unit
<1>3. nals' = Tail(nals) \/ nals' = <<>>
  BY NalCases, Zenon DEF NalStored, NalSkipped, NalRefused, NalPut
<1>4. nals' \in Seq(Nals)
  <2>1. <<>> \in Seq(Nals)
    OBVIOUS
  <2> QED
    BY <1>2, <1>3, <2>1, Zenon
<1>5. popped # <<>> /\ Len(nals) <= Len(InHand)
      /\ \A j \in 1..Len(nals) : nals[j] = InHand[j + (Len(InHand) - Len(nals))]
  BY <1>1, Parts DEF RecordingInv, PacketInHand
<1>6. Len(popped) \in Nat \ {0} /\ InHand \in Seq(Nals)
  BY <1>1, <1>5, Elements, PacketsFit DEF InHand
<1>7. Len(InHand) \in Nat
  BY <1>6
<1>8. unit = InHand[1 + (Len(InHand) - Len(nals))]
  BY <1>2, <1>5
<1> QED
  BY <1>1, <1>2, <1>4, <1>5, <1>6, <1>7, <1>8

\* The types, and the parts about the queue and the threads.
LEMMA NalTypes ==
  ASSUME DvrInv, WriteNal
  PROVE  TypeFlow' /\ TypeWriter' /\ TypeFile' /\ Counted' /\ EndsDrained'
<1>0. /\ TypeFlow /\ TypeWriter /\ TypeFile
      /\ Counted /\ EndsDrained /\ RecordingInv
  BY Parts, Zenon
<1>1. /\ UNCHANGED <<queueVars, pullVars, muxVars, dvr_file, signalVars, dpc, mpc, options>>
      /\ dpc = "write" /\ raced' = (raced \/ stores # {})
      /\ NalStored \/ NalSkipped \/ NalRefused \/ NalPut
  BY NalCases, Zenon
<1>2. TypeFlow' /\ Counted'
  BY <1>0, <1>1, TypesStay, AccountsStay DEF queueVars, pullVars, signalVars
<1>3. EndsDrained'
  BY <1>0, <1>1, AccountsStay DEF queueVars, signalVars
<1>4. unit \in Nals
  BY NalTaken
<1>5. Need(mp4wr, unit) \subseteq Gates /\ mp4wr \in Writer
  BY <1>0, <1>4, GatesOf DEF TypeWriter
<1>6. mp4wr' \in Writer
  <2>1. \E N \in SUBSET Gates : mp4wr' = [mp4wr EXCEPT !.need = N]
    <3>1. CASE NalStored
      BY <1>5, <3>1 DEF NalStored
    <3>2. CASE NalOther
      BY <1>5, <3>2 DEF NalOther
    <3> QED
      BY <1>1, <3>1, <3>2, Zenon DEF NalSkipped, NalRefused, NalPut
  <2> HIDE DEF Gates
  <2> QED
    BY <1>5, <2>1 DEF Writer
<1>7. sets' \in [1..MaxInfoChanges -> SUBSET ParameterSets] /\ crashed' \in BOOLEAN
  <2>1. CASE NalStored
    <3>1. View(mp4wr, unit) \in ParameterSets
      BY <2>1 DEF NalStored, StoresParameterSet, ParameterSets
    <3>2. crashed' \in BOOLEAN
      BY <2>1, Zenon DEF NalStored
    <3>3. /\ sets \in [1..MaxInfoChanges -> SUBSET ParameterSets]
          /\ sets' = [m \in DOMAIN sets |->
                        sets[m] \cup (IF m = mp4wr.mux THEN {View(mp4wr, unit)} ELSE {})]
      BY <1>0, <2>1, Zenon DEF NalStored, TypeWriter
    <3>4. sets' \in [1..MaxInfoChanges -> SUBSET ParameterSets]
      BY <3>1, <3>3
    <3> QED
      BY <3>2, <3>4, Zenon
  <2>2. CASE NalOther
    BY <1>0, <2>2, Zenon DEF NalOther, TypeWriter
  <2> QED
    BY <1>1, <2>1, <2>2, Zenon DEF NalSkipped, NalRefused, NalPut
<1>8. raced' \in BOOLEAN
  BY <1>1, Zenon
<1>9. TypeWriter'
  BY <1>0, <1>1, <1>6, <1>7, <1>8, Zenon DEF TypeWriter, muxVars
<1>10. track' \in Seq(Sample) /\ finalized' \in 0..MaxInfoChanges
  <2>1. CASE NalPut
    <3>1. mp4wr.mux \in 1..MaxInfoChanges
      BY <1>5, <2>1, DvrAssumption DEF NalPut, Refuses, Writer
    <3>2. Len(popped) \in 1..MaxPackets
      BY <1>0, NalTaken, TypesTogether, Elements, DvrAssumption DEF DvrInv, TypeOK
    <3>3. [mux |-> mp4wr.mux, packet |-> Len(popped), nal |-> unit] \in Sample
      BY <1>4, <3>1, <3>2 DEF Sample
    <3>4. track' \in Seq(Sample)
      BY <1>0, <2>1, <3>3, Added DEF NalPut, TypeFile
    <3>5. finalized' \in 0..MaxInfoChanges
      BY <1>0, <2>1, <3>1 DEF NalPut, TypeFile
    <3> QED
      BY <3>4, <3>5
  <2>2. CASE UNCHANGED <<track, finalized>>
    BY <1>0, <2>2 DEF TypeFile
  <2> QED
    BY <1>1, <2>1, <2>2, Zenon DEF NalStored, NalSkipped, NalRefused
<1>11. TypeFile'
  BY <1>0, <1>1, <1>10, NalTaken DEF TypeFile
<1> QED
  BY <1>2, <1>3, <1>9, <1>11

\* The rest of the packet is still the end of it.
LEMMA NalInHand == ASSUME DvrInv, WriteNal PROVE PacketInHand'
<1>1. popped' = popped
  BY NalCases DEF queueVars
<1>2. InHand' = InHand /\ popped' # <<>>
  BY <1>1, NalTaken DEF InHand
<1>3. \A j \in 1..Len(nals) : nals[j] = InHand[j + (Len(InHand) - Len(nals))]
  BY Parts, NalCases DEF RecordingInv, PacketInHand
<1>4. CASE nals' = Tail(nals)
  <2>1. /\ Len(nals) \in Nat \ {0} /\ Len(InHand) \in Nat /\ Len(nals) <= Len(InHand)
        /\ Len(nals') = Len(nals) - 1
        /\ \A i \in 1..(Len(nals) - 1) : nals'[i] = nals[i + 1]
    BY <1>4, NalTaken
  <2>2. \A j \in 1..Len(nals') : nals'[j] = InHand[j + (Len(InHand) - Len(nals'))]
    <3> TAKE j \in 1..Len(nals')
    <3>1. j \in 1..(Len(nals) - 1) /\ j + 1 \in 1..Len(nals)
      BY <2>1
    <3>2. nals'[j] = InHand[(j + 1) + (Len(InHand) - Len(nals))]
      BY <1>3, <2>1, <3>1
    <3>3. (j + 1) + (Len(InHand) - Len(nals)) = j + (Len(InHand) - Len(nals'))
      BY <2>1, <3>1
    <3> QED
      BY <3>2, <3>3
  <2>3. Len(nals') <= Len(InHand)
    BY <2>1
  <2> QED
    BY <1>2, <2>2, <2>3 DEF PacketInHand
<1>5. CASE nals' = <<>>
  <2>1. Len(nals') = 0 /\ Len(InHand) \in Nat
    BY <1>5, NalTaken
  <2> QED
    BY <1>2, <2>1 DEF PacketInHand
<1> QED
  BY <1>4, <1>5, NalCases, Zenon DEF NalStored, NalSkipped, NalRefused, NalPut

\* Only the gates of the writer change.
LEMMA NalGates ==
  ASSUME DvrInv, WriteNal
  PROVE  /\ mp4wr'.mux = mp4wr.mux /\ mp4wr'.hevc = mp4wr.hevc
         /\ NalStored => mp4wr'.need = Need(mp4wr, unit) \ {View(mp4wr, unit)}
         /\ NalOther => mp4wr'.need = Need(mp4wr, unit)
<1>1. mp4wr \in Writer
  BY Parts DEF TypeWriter
<1>2. CASE NalStored
  <2>1. mp4wr' = [mp4wr EXCEPT !.need = Need(mp4wr, unit) \ {View(mp4wr, unit)}]
    BY <1>2, Zenon DEF NalStored
  <2>2. ~NalOther
    BY <1>2, Zenon DEF NalStored, NalOther
  <2> QED
    BY <1>1, <2>1, <2>2 DEF Writer
<1>3. CASE NalOther
  <2>1. mp4wr' = [mp4wr EXCEPT !.need = Need(mp4wr, unit)]
    BY <1>3, Zenon DEF NalOther
  <2>2. ~NalStored
    BY <1>3, Zenon DEF NalStored, NalOther
  <2> QED
    BY <1>1, <2>1, <2>2 DEF Writer
<1> QED
  BY <1>2, <1>3, NalCases, Zenon DEF NalSkipped, NalRefused, NalPut

\* The writer has its multiplexer, and the sample put into it is found.
LEMMA NalFound == ASSUME DvrInv, WriteNal PROVE WriterReady' /\ SamplesFound'
<1>0. /\ TypeFlow /\ TypeWriter /\ TypeFile
      /\ Counted /\ EndsDrained /\ RecordingInv
  BY Parts, Zenon
<1>1. /\ popped' = popped /\ mux' = mux /\ stores' = stores /\ dpc' = dpc /\ dpc = "write"
      /\ mp4_fragmentation_mode' = mp4_fragmentation_mode
  BY NalCases DEF queueVars, muxVars, options
<1>2. WriterReady'
  BY <1>0, <1>1, NalGates DEF RecordingInv, WriterReady
<1>3. CASE UNCHANGED <<track, finalized>>
  BY <1>0, <1>1, <1>2, <1>3 DEF RecordingInv, SamplesFound, Ending
<1>4. CASE NalPut
  <2> DEFINE s == [mux |-> mp4wr.mux, packet |-> Len(popped), nal |-> unit]
  <2>1. /\ track' = Append(track, s)
        /\ finalized' = IF mp4_fragmentation_mode THEN mp4wr.mux ELSE finalized
        /\ mp4wr.mux # 0
    BY <1>4, Zenon DEF NalPut, Refuses
  <2>2. mp4wr.mux \in 1..mux
    BY <1>0, <2>1 DEF RecordingInv, WriterReady, TypeWriter, Writer
  <2>3. Len(popped) \in 1..Len(popped)
    BY NalTaken
  <2>4. track' \in Seq(Sample) /\ track \in Seq(Sample)
    BY <1>0, NalTypes DEF TypeFile
  <2>5. s.mux = mp4wr.mux /\ s.packet = Len(popped)
    OBVIOUS
  <2> HIDE DEF s
  <2>6. s \in Sample
    BY <2>4, <2>1 DEF Sample
  <2>7. /\ Len(track') = Len(track) + 1 /\ track'[Len(track')] = s /\ Len(track) \in Nat
        /\ \A i \in 1..Len(track) : track'[i] = track[i]
    BY <2>1, <2>4, <2>6, Added, Elements
  <2>8. \A i \in 1..Len(track') : track'[i].mux \in 1..mux /\ track'[i].packet \in 1..Len(popped)
    BY <1>0, <2>2, <2>3, <2>5, <2>7 DEF RecordingInv, SamplesFound
  <2> QED
    BY <1>1, <1>2, <2>1, <2>5, <2>7, <2>8 DEF SamplesFound, Ending
<1> QED
  BY <1>3, <1>4, NalCases, Zenon DEF NalStored, NalSkipped, NalRefused

\* The writer is whole when a NAL unit is written, unless that met its
\* initialisation.
LEMMA NalWhole ==
  ASSUME DvrInv, WriteNal, ~raced'
  PROVE  /\ ~raced /\ stores = {} /\ unit \in Nals
         /\ mux # 0 =>
              /\ mp4wr.mux = mux /\ mp4wr.hevc = Hevc /\ mp4wr.need \subseteq FreshWriter.need
              /\ Required \ mp4wr.need \subseteq sets[mux]
              /\ HasSamples => mp4wr.need = {}
              /\ Hevc /\ "idr" \notin mp4wr.need => HasSamples
         /\ HasSamples \/ NalPut => mux # 0
<1>0. /\ TypeFlow /\ TypeWriter /\ TypeFile /\ RecordingInv
  BY Parts, Zenon
<1>1. ~raced /\ stores = {} /\ dpc = "write" /\ unit \in Nals
  BY <1>0, NalCases, NalTaken DEF TypeWriter
<1>2. HasSamples => mux # 0
  BY <1>0, LastSample DEF HasSamples, RecordingInv
<1>3. NalPut => mux # 0
  <2>1. NalPut => mp4wr.mux # 0
    BY Zenon DEF NalPut, Refuses
  <2> QED
    BY <1>0, <2>1 DEF RecordingInv, WriterReady, TypeWriter, Writer
<1> QED
  BY <1>0, <1>1, <1>2, <1>3 DEF RecordingInv, WriterWhole

\* All gates are open where a sample is put; with HEVC at a key picture, if it is
\* the first.
LEMMA PutOpen ==
  ASSUME DvrInv, WriteNal, ~raced', NalPut
  PROVE  /\ Need(mp4wr, unit) = {} /\ Required \cap mp4wr.need = {}
         /\ Hevc /\ "idr" \in mp4wr.need => unit \in Key
<1>1. /\ mux # 0 /\ mp4wr.hevc = Hevc /\ mp4wr.need \subseteq FreshWriter.need
      /\ unit \in Nals /\ TypeWriter
  BY NalWhole, Parts, Zenon
<1>2. /\ Need(mp4wr, unit) \subseteq mp4wr.need
      /\ mp4wr.need \ {"idr"} \subseteq Need(mp4wr, unit)
      /\ mp4wr.hevc /\ "idr" \in mp4wr.need /\ "idr" \notin Need(mp4wr, unit) => unit \in Key
  BY <1>1, GatesOf
<1>3. ~Skips(mp4wr, unit) /\ ~Refuses(mp4wr, unit)
  BY Zenon DEF NalPut
<1>4. CASE Hevc
  <2>1. Need(mp4wr, unit) = {}
    BY <1>1, <1>3, <1>4 DEF Refuses
  <2> QED
    BY <1>1, <1>2, <1>4, <2>1 DEF Required, ParameterSets
<1>5. CASE ~Hevc
  <2>1. "sps" \notin mp4wr.need /\ Need(mp4wr, unit) \cap {"pps", "idr"} = {}
    BY <1>1, <1>3, <1>5 DEF Refuses, Skips
  <2>2. mp4wr.need \subseteq {"sps", "pps", "idr"}
    BY <1>1, <1>5 DEF FreshWriter, Gates
  <2> QED
    BY <1>2, <1>5, <2>1, <2>2 DEF Required
<1> QED
  BY <1>4, <1>5

\* A sample goes to the end of the track and to the multiplexer in use.
LEMMA PutAppends ==
  ASSUME DvrInv, WriteNal, NalPut
  PROVE  /\ track \in Seq(Sample) /\ Len(track) \in Nat /\ Len(track') = Len(track) + 1
         /\ \A i \in 1..Len(track) : track'[i] = track[i]
         /\ track'[Len(track) + 1].mux = mp4wr.mux
         /\ track'[Len(track) + 1].packet = Len(popped)
         /\ track'[Len(track) + 1].nal = unit
         /\ track' # <<>>
<1> DEFINE s == [mux |-> mp4wr.mux, packet |-> Len(popped), nal |-> unit]
<1>1. track' = Append(track, s) /\ track' \in Seq(Sample) /\ track \in Seq(Sample)
  BY NalTypes, Parts, Zenon DEF NalPut, TypeFile
<1>2. s.mux = mp4wr.mux /\ s.packet = Len(popped) /\ s.nal = unit
  OBVIOUS
<1> HIDE DEF s
<1>3. s \in Sample
  BY <1>1 DEF Sample
<1>4. /\ Len(track') = Len(track) + 1 /\ Len(track) \in Nat /\ track' # <<>>
      /\ \A i \in 1..Len(track) : track'[i] = track[i]
      /\ track'[Len(track) + 1] = s
  BY <1>1, <1>3, Added, Elements
<1> QED
  BY <1>1, <1>2, <1>4

\* The gates open as the parameter sets and the first key picture come.
LEMMA NalWriterWhole == ASSUME DvrInv, WriteNal PROVE WriterWhole'
<1> SUFFICES ASSUME ~raced', mux # 0 PROVE WriterWhole'
  BY NalCases DEF WriterWhole, muxVars
<1>1. /\ mp4wr.mux = mux /\ mp4wr.hevc = Hevc /\ mp4wr.need \subseteq FreshWriter.need
      /\ Required \ mp4wr.need \subseteq sets[mux]
      /\ HasSamples => mp4wr.need = {}
      /\ Hevc /\ "idr" \notin mp4wr.need => HasSamples
      /\ unit \in Nals /\ stores = {} /\ TypeWriter
  BY NalWhole, Parts, Zenon
<1>2. /\ mux' = mux /\ stores' = {} /\ Hevc' = Hevc /\ FreshWriter' = FreshWriter
      /\ Required' = Required /\ dpc' = "write"
  BY <1>1, NalCases, OptionsStay DEF muxVars, FreshWriter
<1>3. /\ mp4wr'.mux = mux /\ mp4wr'.hevc = Hevc
      /\ NalStored => mp4wr'.need = Need(mp4wr, unit) \ {View(mp4wr, unit)}
      /\ NalOther => mp4wr'.need = Need(mp4wr, unit)
  BY <1>1, NalGates
<1>4. /\ Need(mp4wr, unit) \subseteq mp4wr.need
      /\ mp4wr.need \ {"idr"} \subseteq Need(mp4wr, unit)
      /\ Hevc /\ "idr" \in mp4wr.need /\ "idr" \notin Need(mp4wr, unit)
           => Need(mp4wr, unit) = {}
      /\ View(mp4wr, unit) = unit
      /\ StoresParameterSet(mp4wr, unit) <=> unit \in Required
      /\ unit \in Required => Need(mp4wr, unit) = mp4wr.need
      /\ "idr" \notin Required
  BY <1>1, GatesOf, ViewOf DEF Required, ParameterSets
<1>5. SUFFICES /\ mp4wr'.need \subseteq FreshWriter.need
               /\ Required \ mp4wr'.need \subseteq sets'[mux]
               /\ HasSamples' => mp4wr'.need = {}
               /\ Hevc /\ "idr" \notin mp4wr'.need => HasSamples'
  BY <1>2, <1>3 DEF WriterWhole
<1>6. CASE NalStored
  <2>1. sets'[mux] = sets[mux] \cup {unit}
    <3>1. mux \in DOMAIN sets
      BY <1>1 DEF TypeWriter
    <3>2. sets' = [m \in DOMAIN sets |->
                     sets[m] \cup (IF m = mp4wr.mux THEN {View(mp4wr, unit)} ELSE {})]
      BY <1>6, Zenon DEF NalStored
    <3> QED
      BY <1>1, <1>4, <3>1, <3>2
  <2>2. HasSamples' = HasSamples
    BY <1>2, <1>6 DEF NalStored, HasSamples
  <2>3. unit \in Required /\ mp4wr'.need = mp4wr.need \ {unit}
    BY <1>3, <1>4, <1>6, Zenon DEF NalStored
  <2> QED
    BY <1>1, <1>4, <2>1, <2>2, <2>3
<1>7. CASE NalSkipped \/ NalRefused
  <2>1. NalOther /\ UNCHANGED track
    BY <1>7, Zenon DEF NalSkipped, NalRefused
  <2>2. sets' = sets /\ HasSamples' = HasSamples /\ mp4wr'.need = Need(mp4wr, unit)
    BY <1>2, <1>3, <2>1 DEF NalOther, HasSamples
  <2>3. Hevc => Need(mp4wr, unit) # {}
    <3>1. Hevc => NalRefused
      BY <1>1, <1>7, Zenon DEF NalSkipped, Skips
    <3>2. NalRefused => Refuses(mp4wr, unit)
      BY Zenon DEF NalRefused
    <3> QED
      BY <1>1, <3>1, <3>2 DEF Refuses
  <2> QED
    BY <1>1, <1>4, <2>2, <2>3
<1>8. CASE NalPut
  <2>1. NalOther /\ Need(mp4wr, unit) = {} /\ Required \cap mp4wr.need = {}
    BY <1>8, PutOpen, Zenon DEF NalPut
  <2>2. sets' = sets /\ mp4wr'.need = {}
    BY <1>3, <2>1 DEF NalOther
  <2>3. HasSamples'
    BY <1>1, <1>2, <1>8, PutAppends DEF HasSamples
  <2> QED
    BY <1>1, <2>1, <2>2, <2>3
<1> QED
  BY <1>6, <1>7, <1>8, NalCases, Zenon

\* A picture after the last sample would be the last sample.
LEMMA NalNothingAfter == ASSUME DvrInv, WriteNal PROVE NothingAfter'
<1>0. /\ TypeFlow /\ TypeWriter /\ TypeFile /\ RecordingInv
  BY Parts, Zenon
<1>1. /\ mux' = mux /\ popped' = popped /\ dpc' = "write" /\ dpc = "write"
      /\ Unrecorded' = Unrecorded /\ popped \in Seq(Packets) /\ Len(popped) \in Nat \ {0}
  BY <1>0, NalCases, NalTaken, OptionsStay DEF muxVars, queueVars, TypeFlow
<1> SUFFICES ASSUME ~raced', HasSamples',
                    NEW k \in (track'[Len(track')].packet + 1)..Len(popped),
                    NEW j \in 1..(IF k = Len(popped) THEN Len(popped[k]) - Len(nals')
                                                     ELSE Len(popped[k]))
             PROVE  popped[k][j] \in Unrecorded
  BY <1>1 DEF NothingAfter, Pictureless
<1>2. CASE NalPut
  BY <1>1, <1>2, PutAppends
<1>3. CASE NalStored \/ NalSkipped \/ NalRefused
  <2>1. track' = track /\ HasSamples
    BY <1>1, <1>3 DEF HasSamples, NalStored, NalSkipped, NalRefused
  <2>2. /\ mp4wr.mux # 0 /\ mp4wr.hevc = Hevc /\ mp4wr.need = {} /\ ~raced /\ unit \in Nals
    BY <2>1, NalWhole
  <2>3. Need(mp4wr, unit) = {} /\ View(mp4wr, unit) = unit
        /\ (StoresParameterSet(mp4wr, unit) <=> unit \in Required)
    BY <1>0, <2>2, GatesOf, ViewOf
  <2>4. ~Refuses(mp4wr, unit)
    BY <2>2, <2>3 DEF Refuses
  <2>5. Skips(mp4wr, unit) => ~Hevc /\ unit = "aud"
    BY <2>2, <2>3 DEF Skips
  <2>6. ~NalRefused
    BY <2>4, Zenon DEF NalRefused
  <2>7. nals' = Tail(nals) /\ unit \in Unrecorded
    <3>1. CASE NalStored
      BY <2>3, <3>1 DEF NalStored, Required, Unrecorded
    <3>2. CASE NalSkipped
      BY <2>5, <3>2 DEF NalSkipped, Unrecorded
    <3> QED
      BY <1>3, <2>6, <3>1, <3>2
  <2>8. track[Len(track)].packet \in 1..Len(popped)
    BY <1>0, <2>1, LastSample DEF RecordingInv, HasSamples
  <2>9. Pictureless(k, IF k = Len(popped) THEN Len(popped[k]) - Len(nals) ELSE Len(popped[k]))
    BY <1>0, <1>1, <2>1, <2>2 DEF RecordingInv, NothingAfter
  <2>10. CASE k = Len(popped)
    <3>1. /\ InHand = popped[k] /\ Len(nals') = Len(nals) - 1 /\ Len(InHand) \in Nat
          /\ Len(nals) \in Nat /\ unit = popped[k][1 + (Len(popped[k]) - Len(nals))]
      BY <2>7, <2>10, NalTaken DEF InHand
    <3>2. j \in 1..(Len(popped[k]) - Len(nals)) \/ j = 1 + (Len(popped[k]) - Len(nals))
      BY <2>10, <3>1
    <3> QED
      BY <2>7, <2>9, <2>10, <3>1, <3>2 DEF Pictureless
  <2>11. CASE k # Len(popped)
    BY <2>9, <2>11 DEF Pictureless
  <2> QED
    BY <2>10, <2>11
<1> QED
  BY <1>2, <1>3, NalCases, Zenon

\* A sample has its parameter sets, and the first one is a key picture.
LEMMA NalStartsAtKey == ASSUME DvrInv, WriteNal PROVE StartsAtKey'
<1>0. /\ TypeFlow /\ TypeWriter /\ TypeFile /\ RecordingInv
  BY Parts, Zenon
<1>1. Hevc' = Hevc /\ Required' = Required
  BY NalCases, OptionsStay
<1> SUFFICES ASSUME ~raced', NEW i \in 1..Len(track')
             PROVE  /\ Required \subseteq sets'[track'[i].mux]
                    /\ Hevc /\ (i = 1 \/ track'[i - 1].mux # track'[i].mux)
                         => track'[i].nal \in Key
  BY <1>1 DEF StartsAtKey, FirstSample
<1>2. ~raced
  BY NalWhole
<1>3. \A k \in 1..Len(track) :
        /\ Required \subseteq sets[track[k].mux] /\ track[k].mux \in 1..MaxInfoChanges
        /\ Hevc /\ (k = 1 \/ track[k - 1].mux # track[k].mux) => track[k].nal \in Key
  <2>1. \A k \in 1..Len(track) : track[k] \in Sample
    BY <1>0, Elements DEF TypeFile
  <2>2. \A k \in 1..Len(track) : track[k].mux \in 1..MaxInfoChanges
    BY <2>1 DEF Sample
  <2> QED
    BY <1>0, <1>2, <2>2, Zenon DEF RecordingInv, StartsAtKey, FirstSample
<1>4. CASE NalStored
  <2>1. \A m \in 1..MaxInfoChanges : sets[m] \subseteq sets'[m]
    <3>1. sets' = [m \in DOMAIN sets |->
                     sets[m] \cup (IF m = mp4wr.mux THEN {View(mp4wr, unit)} ELSE {})]
      BY <1>4, Zenon DEF NalStored
    <3> QED
      BY <1>0, <3>1 DEF TypeWriter
  <2>2. track' = track
    BY <1>4 DEF NalStored
  <2> QED
    BY <1>3, <2>1, <2>2
<1>5. CASE NalSkipped \/ NalRefused
  <2>1. track' = track /\ sets' = sets
    BY <1>5, Zenon DEF NalSkipped, NalRefused, NalOther
  <2> QED
    BY <1>3, <2>1
<1>6. CASE NalPut
  <2>1. sets' = sets
    BY <1>6, Zenon DEF NalPut, NalOther
  <2>2. CASE i \in 1..Len(track)
    <3>1. track'[i] = track[i] /\ (i # 1 => track'[i - 1] = track[i - 1])
      BY <1>6, <2>2, PutAppends
    <3> QED
      BY <1>3, <2>1, <2>2, <3>1
  <2>3. CASE i = Len(track) + 1
    <3>1. track'[i].mux = mux /\ track'[i].nal = unit /\ mux # 0
      BY <1>6, <2>3, PutAppends, NalWhole
    <3>2. Required \subseteq sets[mux]
      BY <1>6, <3>1, PutOpen, NalWhole
    <3>3. ASSUME Hevc, i = 1 \/ track'[i - 1].mux # track'[i].mux PROVE ~HasSamples
      <4>1. i # 1 => track'[i - 1] = track[Len(track)]
        BY <1>6, <2>3, PutAppends
      <4>2. track # <<>> => i # 1
        BY <1>0, <2>3, LastSample
      <4> QED
        BY <3>1, <3>3, <4>1, <4>2 DEF HasSamples
    <3>4. Hevc /\ ~HasSamples => unit \in Key
      BY <1>6, <3>1, PutOpen, NalWhole
    <3> QED
      BY <2>1, <3>1, <3>2, <3>3, <3>4
  <2> QED
    BY <1>6, <2>2, <2>3, PutAppends
<1> QED
  BY <1>4, <1>5, <1>6, NalCases, Zenon

\* A sample follows the last one without a gap.
LEMMA NalNoGap == ASSUME DvrInv, WriteNal PROVE NoGap'
<1>0. /\ TypeFlow /\ TypeWriter /\ TypeFile /\ RecordingInv
  BY Parts, Zenon
<1>1. popped' = popped /\ Unrecorded' = Unrecorded /\ dpc = "write"
  BY NalCases, OptionsStay DEF queueVars
<1>2. raced' \/ ~raced
  BY NalWhole
<1>3. CASE NalStored \/ NalSkipped \/ NalRefused
  <2>1. track' = track
    BY <1>3, Zenon DEF NalStored, NalSkipped, NalRefused
  <2> QED
    BY <1>0, <1>1, <1>2, <2>1 DEF RecordingInv, NoGap
<1>4. CASE NalPut
  <2> SUFFICES ASSUME ~raced', NEW i \in 2..Len(track')
               PROVE  /\ track'[i - 1].mux <= track'[i].mux
                      /\ track'[i - 1].packet <= track'[i].packet
                      /\ track'[i - 1].mux = track'[i].mux =>
                           \A k \in (track'[i - 1].packet + 1)..(track'[i].packet - 1) :
                             \A j \in 1..Len(popped[k]) : popped[k][j] \in Unrecorded
    BY <1>1 DEF NoGap
  <2>1. CASE i \in 2..Len(track)
    <3>1. track'[i] = track[i] /\ track'[i - 1] = track[i - 1]
      BY <1>4, <2>1, PutAppends
    <3> QED
      BY <1>0, <1>2, <2>1, <3>1 DEF RecordingInv, NoGap
  <2>2. CASE i = Len(track) + 1
    <3>1. /\ track'[i].mux = mux /\ track'[i].packet = Len(popped)
          /\ track'[i - 1] = track[Len(track)] /\ track # <<>>
      BY <1>4, <2>2, PutAppends, NalWhole
    <3>2. track[Len(track)].mux \in 1..mux /\ track[Len(track)].packet \in 1..Len(popped)
      BY <1>0, <3>1, LastSample DEF RecordingInv
    <3>3. mux \in Nat /\ Len(popped) \in Nat
      BY <1>0, NalTaken DEF TypeWriter
    <3>4. ASSUME track[Len(track)].mux = mux,
                 NEW k \in (track[Len(track)].packet + 1)..(Len(popped) - 1)
          PROVE  \A j \in 1..Len(popped[k]) : popped[k][j] \in Unrecorded
      <4>1. HasSamples /\ ~raced
        BY <1>2, <3>1, <3>4 DEF HasSamples
      <4>2. k \in (track[Len(track)].packet + 1)..Len(popped) /\ k # Len(popped)
        BY <3>2, <3>3
      <4> QED
        BY <1>0, <4>1, <4>2 DEF RecordingInv, NothingAfter, Pictureless
    <3>5. /\ track[Len(track)].mux <= track'[i].mux
          /\ track[Len(track)].packet <= track'[i].packet
      BY <3>1, <3>2, <3>3
    <3> QED
      BY <3>1, <3>4, <3>5, Zenon
  <2> QED
    BY <1>4, <2>1, <2>2, PutAppends
<1> QED
  BY <1>3, <1>4, NalCases, Zenon

\* All of it.
LEMMA WriteNalStep == DvrInv /\ WriteNal => DvrInv'
  BY NalTypes, NalInHand, NalFound, NalWriterWhole, NalNothingAfter, NalStartsAtKey, NalNoGap,
     PartsNext, Zenon DEF RecordingInv

-----------------------------------------------------------------------------
(* Every reachable state                                                   *)

\* The invariant holds before the first packet.
LEMMA InitInv == Init => DvrInv
<1> SUFFICES ASSUME Init PROVE DvrInv
  OBVIOUS
<1>1. /\ dvrQueue = <<>> /\ popped = <<>> /\ ppc = "pull" /\ packet = <<>> /\ fed = 0
      /\ mux = 0 /\ stores = {} /\ dvr_file \in {"none", "open"} /\ finalized = 0
      /\ signal_flag = FALSE /\ atSignal = 0 /\ mp4wr = ZeroWriter /\ track = <<>>
      /\ sets = [m \in 1..MaxInfoChanges |-> {}] /\ crashed = FALSE /\ raced = FALSE
      /\ dpc = (IF dvr_file = "open" THEN "loop" ELSE "none") /\ nals = <<>> /\ mpc = "run"
  BY Zenon DEF Init
<1>2. Len(popped) = 0 /\ Len(dvrQueue) = 0 /\ Len(track) = 0
  BY <1>1
<1>3. TypeFlow
  <2>1. [codec |-> codec, fragmented |-> mp4_fragmentation_mode] \in Options
    <3>1. PICK o \in Options : codec = o.codec /\ mp4_fragmentation_mode = o.fragmented
      BY DEF Init
    <3>2. o = [codec |-> o.codec, fragmented |-> o.fragmented]
      BY DvrAssumption
    <3> QED
      BY <3>1, <3>2
  <2>2. dvrQueue \in Seq(Packets) /\ popped \in Seq(Packets)
    BY <1>1
  <2>3. signal_flag \in BOOLEAN
    BY <1>1, Zenon
  <2> QED
    BY <1>1, <2>1, <2>2, <2>3, DvrAssumption DEF TypeFlow, PullPC
<1>4. TypeWriter
  <2>1. crashed \in BOOLEAN /\ raced \in BOOLEAN
    BY <1>1, Zenon
  <2>2. mp4wr \in Writer
    BY <1>1, DvrAssumption DEF ZeroWriter, Writer
  <2>3. sets \in [1..MaxInfoChanges -> SUBSET ParameterSets]
    BY <1>1
  <2> QED
    BY <1>1, <2>1, <2>2, <2>3, DvrAssumption DEF TypeWriter
<1>5. TypeFile
  BY <1>1, DvrAssumption DEF TypeFile, DvrPC, MainPC
<1>6. Counted /\ EndsDrained /\ PacketInHand
  BY <1>1, <1>2 DEF Counted, EndsDrained, PacketInHand, Ending
<1>7. WriterReady /\ SamplesFound /\ WriterWhole /\ NothingAfter
  BY <1>1, <1>2 DEF WriterReady, SamplesFound, WriterWhole, NothingAfter, HasSamples, ZeroWriter
<1>8. StartsAtKey /\ NoGap
  BY <1>2 DEF StartsAtKey, NoGap
<1> QED
  BY <1>3, <1>4, <1>5, <1>6, <1>7, <1>8, Parts, Zenon DEF RecordingInv

\* Every step keeps it.
LEMMA StepInv == DvrInv /\ [Next]_vars => DvrInv'
  BY PullPacketStep, PushStep, NotifyStep, SignalStep, MainStep, StutterStep, OpenMuxStep,
     OpenMuxFailsStep, StoreFieldStep, TakeStep, WriteNalStep, PacketWrittenStep, CloseMuxStep,
     ClearWriterStep, CloseFileStep, Zenon
  DEF Next, PullBody, DvrBody

\* Where every packet, NAL unit and sample is, what the writer has, and that the end
\* waits for what the signal found, in every reachable state.
THEOREM DvrInvariance == Spec => []DvrInv
  BY InitInv, StepInv, PTL DEF Spec

\* The types, with packets, NAL units and samples of any number.
THEOREM DvrTypeCorrect == Spec => []TypeOK
<1>1. DvrInv => TypeOK
  BY Zenon DEF DvrInv
<1> QED
  BY <1>1, DvrInvariance, PTL

\* Every packet received before the signal is taken from the queue before the
\* file is closed (main.cpp:364-382).
THEOREM DrainedCorrect == Spec => []DrainedBeforeClose
<1>1. DvrInv => DrainedBeforeClose
  BY DEF DvrInv, EndsDrained, DrainedBeforeClose, Ending
<1> QED
  BY <1>1, DvrInvariance, PTL

\* No sample comes before its parameter sets, and an HEVC recording starts with a
\* key picture, whatever the stream starts with and wherever the resolution is
\* announced (minimp4.h:2282-2301 and 2411-2451).
THEOREM KeyCorrect == Spec => []StartsAtKey
<1>1. DvrInv => StartsAtKey
  BY Zenon DEF DvrInv
<1> QED
  BY <1>1, DvrInvariance, PTL

\* No picture is passed over between two samples of a recording
\* (minimp4.h:2282-2313 and 2419-2451, main.cpp:368-379).
THEOREM GapCorrect == Spec => []NoGap
<1>1. DvrInv => NoGap
  BY Zenon DEF DvrInv
<1> QED
  BY <1>1, DvrInvariance, PTL

\* As long as one resolution was announced, every sample is found at exit, and with
\* fragments at any time; two are where RecordingComplete fails (main.cpp:380-382,
\* 755-758, minimp4.h:1108-1126 and 1741-1747).
THEOREM CompleteCorrect == Spec => [](mux <= 1 => RecordingComplete)
<1>1. DvrInv => (mux <= 1 => RecordingComplete)
  <2> SUFFICES ASSUME DvrInv, mux <= 1 PROVE RecordingComplete
    OBVIOUS
  <2>0. TypeWriter /\ TypeFile /\ EndsDrained /\ SamplesFound
    BY Parts, Zenon DEF RecordingInv
  <2>1. mpc = "exit" => dvr_file # "open" /\ dpc \in {"none", "done"}
    BY <2>0 DEF EndsDrained, TypeFile
  <2> SUFFICES ASSUME mpc = "exit" \/ mp4_fragmentation_mode, NEW i \in 1..Len(track)
               PROVE  track[i].mux = finalized
    BY <2>1 DEF RecordingComplete
  <2>2. track # <<>> /\ track[i].mux \in 1..mux /\ track[Len(track)].mux \in 1..mux
    BY <2>0, LastSample, Elements DEF SamplesFound, TypeFile
  <2>3. mux = 1 /\ track[i].mux = 1 /\ track[Len(track)].mux = 1
    BY <2>0, <2>2 DEF TypeWriter
  <2>4. CASE mp4_fragmentation_mode
    BY <2>0, <2>2, <2>3, <2>4 DEF SamplesFound
  <2>5. CASE ~mp4_fragmentation_mode
    BY <2>0, <2>1, <2>2, <2>3, <2>5 DEF SamplesFound, Ending
  <2> QED
    BY <2>4, <2>5
<1> QED
  BY <1>1, DvrInvariance, PTL

\* The multiplexer is misused when it could not be opened, before it is there or
\* after the signal, and in no other case (main.cpp:177-188, 373-382).
THEOREM MuxMisuseCorrect == Spec => MuxMisuse
<1>1. DvrInv /\ [Next]_vars
        => [/\ crashed' /\ ~crashed => OpenMuxFails \/ mux = 0 \/ "mux" \in stores
            /\ OpenMux /\ ~signal_flag => dvr_file = "open"]_vars
  <2> SUFFICES ASSUME DvrInv, Next
               PROVE  /\ crashed' /\ ~crashed => OpenMuxFails \/ mux = 0 \/ "mux" \in stores
                      /\ OpenMux /\ ~signal_flag => dvr_file = "open"
    OBVIOUS
  <2>1. OpenMux /\ ~signal_flag => dvr_file = "open"
    BY DEF OpenMux, AtInfoChange, DvrInv, EndsDrained, TypeOK, Ending
  <2>2. crashed' /\ ~crashed => OpenMuxFails \/ mux = 0 \/ "mux" \in stores
    <3> SUFFICES ASSUME crashed', ~crashed, ~OpenMuxFails
                 PROVE  mux = 0 \/ "mux" \in stores
      OBVIOUS
    <3>1. WriteNal /\ mp4wr.mux = 0
      <4> USE DEF PullGoes, DvrGoes, MainGoes, writeVars
      <4>1. ~(PullPacket \/ PullBody)
        BY DEF PullPacket, PullBody, Push, Notify, PullEnds
      <4>2. ~(OpenMux \/ StoreField)
        BY DEF OpenMux, StoreField
      <4>3. ~(DvrTake \/ DvrWakes \/ PacketWritten \/ CloseMux \/ ClearWriter \/ CloseFile)
        BY DEF DvrTake, DvrWakes, PacketWritten, CloseMux, ClearWriter, CloseFile
      <4>4. ~(Signal \/ MainBody)
        BY DEF Signal, MainBody, StopReceiving, JoinPull, JoinFrame, JoinDvr
      <4>5. WriteNal
        BY <4>1, <4>2, <4>3, <4>4 DEF Next, DvrBody
      <4> QED
        BY <4>5, Zenon DEF WriteNal
    <3>2. dpc = "write"
      BY <3>1 DEF WriteNal
    <3>3. mux \in Nat /\ mp4wr.mux \in Nat
      BY Parts DEF TypeWriter, Writer
    <3> QED
      BY <3>1, <3>2, <3>3 DEF DvrInv, WriterReady
  <2> QED
    BY <2>1, <2>2
<1> QED
  BY <1>1, DvrInvariance, PTL DEF Spec, MuxMisuse
=============================================================================
