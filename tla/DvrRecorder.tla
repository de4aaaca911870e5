----------------------------- MODULE DvrRecorder -----------------------------
(***************************************************************************)
(* The recording of the feed: the gstreamer pull thread enqueues every     *)
(* packet (enqueueDvrPacket), __DVR_THREAD__ takes them out and gives      *)
(* their NAL units to the mp4 writer, __FRAME_THREAD__ opens the           *)
(* multiplexer when the decoder announces a resolution, a signal asks for  *)
(* the end, and main() joins the threads (src/main.cpp, and the part of    *)
(* src/minimp4.h they use).                                                *)
(*                                                                         *)
(* A packet is a sequence of NAL unit kinds.  A critical section on mtx is *)
(* one step: what it reads outside mtx, signal_flag, only grows, and both  *)
(* of its reads are ordered so that one read decides them.                 *)
(*                                                                         *)
(* The mp4 file has its index at the end, or with --dvr-fmp4 a header in   *)
(* front of the first sample and each sample in a fragment of its own.     *)
(***************************************************************************)
EXTENDS Naturals, Sequences

CONSTANTS
  Options,          \* --codec, h265 by default, and whether --dvr-fmp4 is given
  HevcPackets,      \* packets an h265 stream may consist of
  AvcPackets,       \* packets an h264 stream may consist of
  MaxPackets,       \* bound: packets received
  MaxInfoChanges    \* bound: resolutions the stream announces

Nals == {"vps", "sps", "pps", "idr", "idr_n", "slice", "sei", "aud"}

ASSUME DvrAssumption ==
  /\ Options \subseteq [codec : {"h265", "h264"}, fragmented : BOOLEAN]
  /\ HevcPackets \cup AvcPackets \subseteq Seq(Nals) \ {<<>>}
  /\ MaxPackets \in Nat /\ MaxInfoChanges \in Nat

VARIABLES
  codec,        \* the option; never changes
  mp4_fragmentation_mode,   \* the option; never changes
  dvrQueue,     \* the packets enqueued and not yet taken
  signal_flag,  \* set by sig_handler, never reset
  ppc,          \* where the pull thread is
  packet,       \* the packet it has in hand
  fed,          \* number of packets it has offered to the decoder
  dpc,          \* where __DVR_THREAD__ is
  nals,         \* the NAL units of its packet still to be written
  mux,          \* the multiplexer opened last (they are numbered), 0: NULL
  mp4wr,        \* the writer: its mux, is_hevc and the need_* flags still set
  stores,       \* fields of mp4wr that mp4_h26x_write_init still has to store
  dvr_file,     \* "none" without --dvr, else "open" or "closed"
  sets,         \* sets[m]: kinds of parameter sets stored in multiplexer m
  track,        \* the samples put into some multiplexer, in order
  finalized,    \* the multiplexer whose index or header was written, 0: none
  mpc,          \* where main() is
  crashed,      \* a NULL multiplexer was dereferenced
  popped,       \* history: the packets __DVR_THREAD__ took
  atSignal,     \* history: packets enqueued when the signal came
  raced         \* history: a NAL unit was written amid mp4_h26x_write_init

options    == <<codec, mp4_fragmentation_mode>>
queueVars  == <<dvrQueue, popped>>
pullVars   == <<ppc, packet, fed>>
muxVars    == <<mux, stores>>
fileVars   == <<dvr_file, finalized>>
signalVars == <<signal_flag, atSignal>>
recVars    == <<sets, track>>
writeVars  == <<mp4wr, recVars, crashed, raced>>

vars == <<queueVars, pullVars, muxVars, fileVars, signalVars, writeVars,
          dpc, nals, mpc, options>>

Hevc    == codec = "h265"
Packets == IF Hevc THEN HevcPackets ELSE AvcPackets

PullPC == {"pull", "push", "notify", "done"}
DvrPC  == {"none", "loop", "waiting", "write", "close", "clear", "fclose", "done"}
MainPC == {"run", "joinpull", "joinframe", "joindvr", "exit"}

ParameterSets == {"vps", "sps", "pps"}
Key           == {"idr", "idr_n"}
Gates         == {"vps", "sps", "pps", "idr"}
Fields        == {"mux", "hevc", "need"}

\* mp4wr is zeroed memory before mp4_h26x_write_init and after write_close.
ZeroWriter  == [mux |-> 0, hevc |-> FALSE, need |-> {}]
FreshWriter == [mux |-> mux, hevc |-> Hevc,
                need |-> IF Hevc THEN Gates ELSE Gates \ {"vps"}]

Init ==
  /\ \E o \in Options : codec = o.codec /\ mp4_fragmentation_mode = o.fragmented
  /\ dvrQueue = <<>> /\ popped = <<>>
  /\ ppc = "pull" /\ packet = <<>> /\ fed = 0
  /\ mux = 0 /\ stores = {}
  /\ dvr_file \in {"none", "open"} /\ finalized = 0
  /\ signal_flag = FALSE /\ atSignal = 0
  /\ mp4wr = ZeroWriter /\ track = <<>>
  /\ sets = [m \in 1..MaxInfoChanges |-> {}]
  /\ crashed = FALSE /\ raced = FALSE
  /\ dpc = (IF dvr_file = "open" THEN "loop" ELSE "none") /\ nals = <<>>
  /\ mpc = "run"

-----------------------------------------------------------------------------
(* What a step of one thread leaves alone.                                 *)

PullGoes(from, to) ==
  /\ ~crashed /\ ppc = from /\ ppc' = to
  /\ UNCHANGED <<popped, muxVars, fileVars, signalVars, writeVars, nals, mpc,
                 options>>

DvrGoes(from, to) ==
  /\ ~crashed /\ dpc = from /\ dpc' = to
  /\ UNCHANGED <<pullVars, muxVars, signalVars, mpc, options>>

MainGoes(from, to) ==
  /\ ~crashed /\ mpc = from /\ mpc' = to
  /\ UNCHANGED <<queueVars, pullVars, muxVars, fileVars, signalVars, writeVars, dpc, nals,
                 options>>

-----------------------------------------------------------------------------
(* The pull thread: loop_pull_appsink_samples and its callback             *)

\* A packet arrives and is offered to the decoder (with or without success).
PullPacket ==
  /\ PullGoes("pull", "push")
  /\ fed < MaxPackets /\ fed' = fed + 1
  /\ packet' \in Packets
  /\ UNCHANGED <<dvrQueue, dpc>>

\* enqueueDvrPacket, with or without --dvr
Push ==
  /\ PullGoes("push", "notify")
  /\ dvrQueue' = Append(dvrQueue, packet)
  /\ UNCHANGED <<packet, fed, dpc>>

\* Mutant: cv.notify_one() is forgotten.
NotifyForgotten ==
  PullGoes("notify", "pull") /\ UNCHANGED <<dvrQueue, packet, fed, dpc>>

Notify ==
  /\ PullGoes("notify", "pull")
  /\ dpc' = IF dpc = "waiting" THEN "loop" ELSE dpc
  /\ UNCHANGED <<dvrQueue, packet, fed>>

\* The loop ends once stop_receiving has reset m_pull_samples_run.
PullEnds ==
  mpc # "run" /\ PullGoes("pull", "done") /\ UNCHANGED <<dvrQueue, packet, fed, dpc>>

-----------------------------------------------------------------------------
(* __FRAME_THREAD__: the end of init_buffer.  The decoder announces a      *)
(* resolution after it was fed; nothing keeps __DVR_THREAD__ away.         *)

AtInfoChange ==
  /\ ~crashed /\ mux < MaxInfoChanges /\ fed > 0 /\ stores = {}
  /\ mpc \in {"run", "joinpull", "joinframe"}
  /\ dvr_file # "none"
  /\ UNCHANGED <<queueVars, pullVars, fileVars, signalVars, dpc, nals, mpc, options>>

\* MP4E_open and MP4E_add_track; a multiplexer opened before is forgotten.
OpenMux ==
  /\ AtInfoChange
  /\ mux' = mux + 1
  /\ stores' = Fields
  /\ UNCHANGED writeVars

\* The box ftyp cannot be written: MP4E_open returns NULL, and MP4E_add_track
\* looks into it before it tests it.
OpenMuxFails ==
  /\ AtInfoChange
  /\ crashed' = TRUE
  /\ UNCHANGED <<muxVars, mp4wr, recVars, raced>>

\* mp4_h26x_write_init stores the fields without a lock: another thread may
\* see them in any order.
StoreField ==
  /\ ~crashed
  /\ \E f \in stores :
       /\ stores' = stores \ {f}
       /\ mp4wr' = [mp4wr EXCEPT ![f] = FreshWriter[f]]
  /\ UNCHANGED <<queueVars, pullVars, mux, fileVars, signalVars, recVars, crashed,
                 raced, dpc, nals, mpc, options>>

-----------------------------------------------------------------------------
(* __DVR_THREAD__                                                          *)

Pop ==
  /\ dvrQueue # <<>>
  /\ nals' = Head(dvrQueue)
  /\ popped' = Append(popped, Head(dvrQueue))
  /\ dvrQueue' = Tail(dvrQueue)

\* Mutant: the end is taken as soon as the signal is seen.
DvrTakeSignalFirst ==
  /\ \/ signal_flag /\ DvrGoes("loop", "close") /\ UNCHANGED <<queueVars, nals>>
     \/ ~signal_flag /\ Pop /\ DvrGoes("loop", "write")
     \/ /\ ~signal_flag /\ dvrQueue = <<>>
        /\ DvrGoes("loop", "waiting") /\ UNCHANGED <<queueVars, nals>>
  /\ UNCHANGED <<fileVars, writeVars>>

\* Mutant: only the newest packet is recorded.
DvrTakeNewest ==
  /\ \/ /\ dvrQueue # <<>> /\ DvrGoes("loop", "write")
        /\ nals' = dvrQueue[Len(dvrQueue)]
        /\ popped' = popped \o dvrQueue
        /\ dvrQueue' = <<>>
     \/ /\ dvrQueue = <<>> /\ UNCHANGED <<queueVars, nals>>
        /\ DvrGoes("loop", IF signal_flag THEN "close" ELSE "waiting")
  /\ UNCHANGED <<fileVars, writeVars>>

\* Mutant: the packet taken stays in the queue.
DvrTakePeeks ==
  /\ \/ /\ dvrQueue # <<>> /\ DvrGoes("loop", "write")
        /\ nals' = Head(dvrQueue)
        /\ popped' = Append(popped, Head(dvrQueue))
        /\ UNCHANGED dvrQueue
     \/ /\ dvrQueue = <<>> /\ UNCHANGED <<queueVars, nals>>
        /\ DvrGoes("loop", IF signal_flag THEN "close" ELSE "waiting")
  /\ UNCHANGED <<fileVars, writeVars>>

\* Under mtx: the predicate of cv.wait, the test for the end, the pop.
DvrTake ==
  /\ \/ Pop /\ DvrGoes("loop", "write")
     \/ /\ dvrQueue = <<>> /\ UNCHANGED <<queueVars, nals>>
        /\ DvrGoes("loop", IF signal_flag THEN "close" ELSE "waiting")
  /\ UNCHANGED <<fileVars, writeVars>>

\* A wait may return without a notification; the predicate is looked at again.
DvrWakes == DvrGoes("waiting", "loop") /\ UNCHANGED <<queueVars, nals, fileVars, writeVars>>

\* What the AVC branch makes of a NAL unit by the low five bits of its first
\* byte, twice the HEVC type.  The zeroed writer sends HEVC units there: IDR_N_LP
\* (type 20, first byte 0x28) looks like a PPS, and the other kinds told apart
\* here are treated as some slice.  STSA_N (4) and EOS (36) would look like a PPS
\* too: sub-layers and ends of sequence are not among the units of this stream.
AvcView(n) ==
  IF ~Hevc THEN n ELSE IF n = "idr_n" THEN "pps" ELSE "slice"

\* Mutant: once the parameter sets are there, any picture opens the last gate.
HevcNeedAnyPicture(w, n) ==
  IF w.need \cap ParameterSets = {} THEN {} ELSE w.need

\* The flags left once a NAL unit was looked at, before any is stored.
HevcNeed(w, n) ==
  IF n \in Key /\ w.need \cap ParameterSets = {} THEN w.need \ {"idr"} ELSE w.need

AvcNeed(w, n) ==
  IF n \in Key /\ "sps" \notin w.need THEN w.need \ {"idr"} ELSE w.need

View(w, n) == IF w.hevc THEN n ELSE AvcView(n)
Need(w, n) == IF w.hevc THEN HevcNeed(w, n) ELSE AvcNeed(w, View(w, n))

StoresParameterSet(w, n) ==
  View(w, n) \in (IF w.hevc THEN ParameterSets ELSE {"sps", "pps"})

\* AVC skips the access unit delimiter, and until its gates are open whatever
\* follows the SPS.
Skips(w, n) ==
  /\ ~w.hevc
  /\ \/ View(w, n) = "aud"
     \/ "sps" \notin w.need /\ Need(w, n) \cap {"pps", "idr"} # {}

\* MP4E_STATUS_BAD_ARGUMENTS: the rest of the packet is given up.
Refuses(w, n) ==
  \/ w.hevc /\ Need(w, n) # {}
  \/ ~w.hevc /\ "sps" \in w.need
  \/ w.mux = 0

\* mp4e_flush_index: the file gets what finds this multiplexer's samples.
FlushIndex(m) == finalized' = m

\* Mutant: the header in front of the fragments is left to MP4E_close.
PutSampleHeaderless(m, n) ==
  /\ track' = Append(track, [mux |-> m, packet |-> Len(popped), nal |-> n])
  /\ UNCHANGED finalized

\* MP4E_put_sample: the sample is in the file; what finds it is the multiplexer's,
\* in fragmented mode from the header on, which precedes its first sample.
PutSample(m, n) ==
  /\ track' = Append(track, [mux |-> m, packet |-> Len(popped), nal |-> n])
  /\ IF mp4_fragmentation_mode THEN FlushIndex(m) ELSE UNCHANGED finalized

\* One turn of the loop in mp4_h26x_write_nal.
WriteNal ==
  /\ ~crashed /\ dpc = "write" /\ nals # <<>>
  /\ LET n == Head(nals)
         w == mp4wr
     IN  /\ raced' = (raced \/ stores # {})
         /\ \/ /\ StoresParameterSet(w, n)
               /\ crashed' = (w.mux = 0)
               /\ mp4wr' = [w EXCEPT !.need = Need(w, n) \ {View(w, n)}]
               /\ sets' = [m \in DOMAIN sets |->
                            sets[m] \cup (IF m = w.mux THEN {View(w, n)} ELSE {})]
               /\ nals' = Tail(nals)
               /\ UNCHANGED <<track, finalized>>
            \/ /\ ~StoresParameterSet(w, n)
               /\ mp4wr' = [w EXCEPT !.need = Need(w, n)]
               /\ UNCHANGED <<sets, crashed>>
               /\ \/ Skips(w, n) /\ nals' = Tail(nals) /\ UNCHANGED <<track, finalized>>
                  \/ /\ ~Skips(w, n) /\ Refuses(w, n)
                     /\ nals' = <<>> /\ UNCHANGED <<track, finalized>>
                  \/ /\ ~Skips(w, n) /\ ~Refuses(w, n)
                     /\ PutSample(w.mux, n) /\ nals' = Tail(nals)
  /\ UNCHANGED <<queueVars, pullVars, muxVars, dvr_file, signalVars, dpc, mpc, options>>

\* Mutant: mp4_h26x_write_close is called after every packet.
PacketWrittenCloses ==
  /\ nals = <<>> /\ DvrGoes("write", "loop")
  /\ mp4wr' = ZeroWriter
  /\ UNCHANGED <<queueVars, nals, fileVars, recVars, crashed, raced>>

PacketWritten ==
  /\ nals = <<>> /\ DvrGoes("write", "loop")
  /\ UNCHANGED <<queueVars, nals, fileVars, writeVars>>

\* MP4E_close writes the index of the multiplexer opened last, if there is one
\* and its samples are not in fragments.
CloseMux ==
  /\ DvrGoes("close", "clear")
  /\ IF mux # 0 /\ ~mp4_fragmentation_mode THEN FlushIndex(mux) ELSE UNCHANGED finalized
  /\ UNCHANGED <<queueVars, nals, dvr_file, writeVars>>

\* mp4_h26x_write_close
ClearWriter ==
  /\ DvrGoes("clear", "fclose")
  /\ mp4wr' = ZeroWriter
  /\ UNCHANGED <<queueVars, nals, fileVars, recVars, crashed, raced>>

CloseFile ==
  /\ DvrGoes("fclose", "done")
  /\ dvr_file' = "closed"
  /\ UNCHANGED <<queueVars, nals, finalized, writeVars>>

-----------------------------------------------------------------------------
(* sig_handler and main()                                                  *)

\* The handler raises the flag; it does not notify cv.
Signal ==
  /\ ~crashed /\ ~signal_flag
  /\ signal_flag' = TRUE
  /\ atSignal' = Len(popped) + Len(dvrQueue)
  /\ UNCHANGED <<queueVars, pullVars, muxVars, fileVars, writeVars, dpc, nals, mpc, options>>

\* The sleep(10) loop ends; stop_receiving resets m_pull_samples_run ...
StopReceiving == signal_flag /\ MainGoes("run", "joinpull")

\* ... and joins the pull thread.
JoinPull == ppc = "done" /\ MainGoes("joinpull", "joinframe")

\* The end of stream was fed; the frame thread is joined outside init_buffer.
JoinFrame == stores = {} /\ MainGoes("joinframe", "joindvr")

JoinDvr == dpc \in {"none", "done"} /\ MainGoes("joindvr", "exit")

-----------------------------------------------------------------------------
PullBody == Push \/ Notify \/ PullEnds
DvrBody  == DvrTake \/ WriteNal \/ PacketWritten \/ CloseMux \/ ClearWriter \/ CloseFile
MainBody == StopReceiving \/ JoinPull \/ JoinFrame \/ JoinDvr

Next == \/ PullPacket \/ PullBody
        \/ OpenMux \/ OpenMuxFails \/ StoreField
        \/ DvrBody \/ DvrWakes
        \/ Signal \/ MainBody

Spec == Init /\ [][Next]_vars

\* A thread that can go on does.  Whether a packet arrives, a resolution is
\* announced, a signal comes or a wait returns early is nobody's promise.
FairSpec == /\ Spec
            /\ WF_vars(PullBody) /\ WF_vars(StoreField)
            /\ WF_vars(DvrBody) /\ WF_vars(MainBody)

-----------------------------------------------------------------------------
(* Properties                                                              *)

Writer == [mux : 0..MaxInfoChanges, hevc : BOOLEAN, need : SUBSET Gates]
Sample == [mux : 1..MaxInfoChanges, packet : 1..MaxPackets, nal : Nals]

TypeOK ==
  /\ [codec |-> codec, fragmented |-> mp4_fragmentation_mode] \in Options
  /\ dvrQueue \in Seq(Packets) /\ popped \in Seq(Packets)
  /\ Len(popped) + Len(dvrQueue) <= MaxPackets
  /\ ppc \in PullPC /\ packet \in Packets \cup {<<>>} /\ fed \in 0..MaxPackets
  /\ mux \in 0..MaxInfoChanges /\ stores \subseteq Fields
  /\ dvr_file \in {"none", "open", "closed"} /\ finalized \in 0..MaxInfoChanges
  /\ signal_flag \in BOOLEAN /\ atSignal \in 0..MaxPackets
  /\ mp4wr \in Writer /\ track \in Seq(Sample)
  /\ sets \in [1..MaxInfoChanges -> SUBSET ParameterSets]
  /\ crashed \in BOOLEAN /\ raced \in BOOLEAN
  /\ dpc \in DvrPC /\ nals \in Seq(Nals)
  /\ mpc \in MainPC

\* The parameter sets a recording needs; what passes the writer without a sample
\* once its gates are open; where track goes on with another multiplexer.
Required       == IF Hevc THEN ParameterSets ELSE {"sps", "pps"}
Unrecorded     == IF Hevc THEN ParameterSets ELSE {"sps", "pps", "aud"}
FirstSample(i) == i = 1 \/ track[i - 1].mux # track[i].mux

\* What was received before the signal is in the writer's hands before the
\* file is closed: the break at main.cpp:366 needs an empty queue.
DrainedBeforeClose ==
  dpc \in {"close", "clear", "fclose", "done"} => Len(popped) >= atSignal

\* A recording has no sample before its parameter sets, and an HEVC recording
\* starts with a key picture, unless a NAL unit met a half stored writer
\* (minimp4.h:2282-2301 and 2411-2451).
StartsAtKey ==
  ~raced =>
    \A i \in 1..Len(track) :
      /\ Required \subseteq sets[track[i].mux]
      /\ Hevc /\ FirstSample(i) => track[i].nal \in Key

\* Once a recording has started it has no gap: between two of its samples no
\* packet with a picture was passed over, samples keep the packets' order, and
\* those of two resolutions are not mixed.
NoGap ==
  ~raced =>
    \A i \in 2..Len(track) :
      LET before == track[i - 1]
          after  == track[i]
      IN  /\ before.mux <= after.mux /\ before.packet <= after.packet
          /\ before.mux = after.mux =>
               \A k \in (before.packet + 1)..(after.packet - 1) :
                 \A j \in 1..Len(popped[k]) : popped[k][j] \in Unrecorded

\* When the program has exited the file is closed, and what finds its samples
\* was written for every one of them; a fragmented file has that at any time, so
\* that it survives a program that does not get to its end (main.cpp:380-382 and
\* 755-758, minimp4.h:1108-1126 and 1741-1747).
RecordingComplete ==
  /\ mpc = "exit" => dvr_file # "open"
  /\ mpc = "exit" \/ mp4_fragmentation_mode =>
       \A i \in 1..Len(track) : track[i].mux = finalized

\* The multiplexer is misused in three cases only: it could not be opened; a NAL
\* unit came before the writer had the first one; a resolution was announced
\* after the signal, when the file may be closed.  An early wakeup of the DVR
\* thread is none of them (main.cpp:177-188, 365 and 373-382).
MuxMisuse ==
  [][/\ crashed' /\ ~crashed => OpenMuxFails \/ mux = 0 \/ "mux" \in stores
     /\ OpenMux /\ ~signal_flag => dvr_file = "open"]_vars

\* A packet enqueued after the signal, or left in the queue by it, makes the
\* DVR thread see the signal and finish the file (main.cpp:364-367, 415).
PacketEndsRecording ==
  (signal_flag /\ dvr_file # "none" /\ dvrQueue # <<>>) ~> (dpc = "done" \/ crashed)

\* "Save the video feed (no osd) to the provided filename" (main.cpp:519):
\* a signal leads to a finished file and to the exit of the program.
SignalEndsRecording == signal_flag ~> (mpc = "exit" \/ crashed)

-----------------------------------------------------------------------------
(* What is true in every state and carries the proofs from one step to the  *)
(* next (DvrRecorderProofs).                                                *)

Ending == {"close", "clear", "fclose", "done"}

\* Every packet offered to the decoder is in the pull thread's hands, in the queue
\* or taken; what the signal found enqueued is in the queue or taken.
Counted ==
  /\ fed = Len(popped) + Len(dvrQueue) + (IF ppc = "push" THEN 1 ELSE 0)
  /\ ppc = "push" => packet \in Packets
  /\ atSignal <= Len(popped) + Len(dvrQueue)

\* The end comes after the signal, and after all that the signal found; the file is
\* closed at the end, and main() waits for it.
EndsDrained ==
  /\ dpc \in Ending => signal_flag /\ Len(popped) >= atSignal
  /\ dvr_file = "closed" <=> dpc = "done"
  /\ dvr_file = "none" <=> dpc = "none"
  /\ mpc = "exit" => dpc \in {"none", "done"}

\* The packet __DVR_THREAD__ has in hand, and the part of it still to be written.
InHand == popped[Len(popped)]

PacketInHand ==
  dpc = "write" =>
    /\ popped # <<>> /\ Len(nals) <= Len(InHand)
    /\ \A j \in 1..Len(nals) : nals[j] = InHand[j + (Len(InHand) - Len(nals))]

\* The writer has a multiplexer from the first one's initialisation on, until it
\* is cleared at the end, and never one that was not opened.
WriterReady ==
  /\ stores # {} => mux # 0
  /\ mp4wr.mux <= mux
  /\ mux # 0 /\ "mux" \notin stores /\ dpc \notin {"fclose", "done"} => mp4wr.mux # 0

\* A sample is in a multiplexer that was opened, and of a packet that was taken;
\* it is found by what was written with it or at the end.
SamplesFound ==
  /\ \A i \in 1..Len(track) : track[i].mux \in 1..mux /\ track[i].packet \in 1..Len(popped)
  /\ dpc = "none" => track = <<>>
  /\ track # <<>> =>
       /\ mp4_fragmentation_mode => finalized = track[Len(track)].mux
       /\ ~mp4_fragmentation_mode /\ mux = 1 /\ dpc \in Ending \ {"close"} => finalized = 1

\* The multiplexer opened last has samples.
HasSamples == track # <<>> /\ track[Len(track)].mux = mux

\* While mp4_h26x_write_init stores, what it has stored is fresh; after it, a gate is
\* open once its parameter set is in the multiplexer, and all are once there
\* are samples: with HEVC the last one opens together with the first sample.
WriterWhole ==
  ~raced /\ mux # 0 /\ dpc \notin {"fclose", "done"} =>
    IF stores # {}
    THEN ~HasSamples /\ \A f \in Fields \ stores : mp4wr[f] = FreshWriter[f]
    ELSE /\ mp4wr.mux = mux /\ mp4wr.hevc = Hevc /\ mp4wr.need \subseteq FreshWriter.need
         /\ Required \ mp4wr.need \subseteq sets[mux]
         /\ HasSamples => mp4wr.need = {}
         /\ Hevc /\ "idr" \notin mp4wr.need => HasSamples

\* What was taken and written after the last sample had no picture in it.
Pictureless(k, n) == \A j \in 1..n : popped[k][j] \in Unrecorded

NothingAfter ==
  ~raced /\ HasSamples =>
    LET last == track[Len(track)].packet
    IN  \A k \in (last + 1)..Len(popped) :
          Pictureless(k, IF dpc = "write" /\ k = Len(popped) THEN Len(popped[k]) - Len(nals)
                                                               ELSE Len(popped[k]))

DvrInv == /\ TypeOK /\ Counted /\ EndsDrained /\ PacketInHand /\ WriterReady
          /\ SamplesFound /\ WriterWhole /\ NothingAfter /\ StartsAtKey /\ NoGap
=============================================================================
