----------------------------- MODULE DecoderFeed -----------------------------
(***************************************************************************)
(* The way of the feed into the decoder: GstRtpReceiver and its pull       *)
(* thread (src/gstrtpreceiver.cpp), feed_packet_to_decoder and             *)
(* read_gstreamerpipe_stream, which main() runs (src/main.cpp).  All of    *)
(* them use one and the same MppPacket.                                    *)
(*                                                                         *)
(* Received access units are numbered.  The decoder's input holds          *)
(* Capacity packets and refuses more.  Of the 100 ms after which a refused *)
(* packet is given up, only "not yet" and "over" are told apart.           *)
(***************************************************************************)
EXTENDS Integers, Sequences

CONSTANTS
  MaxPackets,   \* bound: access units received
  Capacity      \* packets the decoder's input holds

ASSUME FeedAssumption ==
  MaxPackets \in Nat /\ Capacity \in Nat \ {0}

VARIABLES
  signal_flag,            \* set by sig_handler
  m_pull_samples_run,     \* tells the pull thread to go on
  m_gst_pipeline,         \* "null", "set" or "released" (and null again)
  lpc,                    \* where the pull thread is
  pulled,                 \* number of access units it got
  packet,                 \* what the MppPacket holds
  decoder_stalled_count,
  backlog,                \* packets in the decoder's input
  mpc,                    \* where read_gstreamerpipe_stream is
  fed,                    \* history: what the decoder accepted, in order
  recorded,               \* history: what enqueueDvrPacket was given, in order
  unfed                   \* history: packets not offered because of the signal

pullVars == <<lpc, pulled, decoder_stalled_count, recorded, unfed>>
decVars  == <<backlog, fed>>
rxVars   == <<m_pull_samples_run, m_gst_pipeline>>

vars == <<signal_flag, packet, mpc, pullVars, decVars, rxVars>>

Eos    == 0                \* the end-of-stream packet, among numbers
PullPC == {"none", "test", "pull", "fill", "put", "enqueue", "done"}
MainPC == {"start", "run", "join", "release", "seteos", "puteos", "done"}

Init ==
  /\ signal_flag = FALSE /\ packet = Eos /\ mpc = "start"
  /\ lpc = "none" /\ pulled = 0 /\ decoder_stalled_count = 0
  /\ recorded = <<>> /\ unfed = 0
  /\ backlog = 0 /\ fed = <<>>
  /\ m_pull_samples_run = FALSE /\ m_gst_pipeline = "null"

-----------------------------------------------------------------------------
(* The pull thread                                                         *)

PullGoes(from, to) ==
  lpc = from /\ lpc' = to /\ UNCHANGED <<signal_flag, mpc, rxVars>>

LoopTest ==
  /\ PullGoes("test", IF m_pull_samples_run THEN "pull" ELSE "done")
  /\ UNCHANGED <<packet, pulled, decoder_stalled_count, recorded, unfed, decVars>>

\* gst_app_sink_try_pull_sample gives an access unit, or nothing in 100 ms.
PullSample ==
  /\ \/ /\ PullGoes("pull", "fill")
        /\ pulled < MaxPackets /\ pulled' = pulled + 1
     \/ PullGoes("pull", "test") /\ UNCHANGED pulled
  /\ UNCHANGED <<packet, decoder_stalled_count, recorded, unfed, decVars>>

\* Mutant: the number of the access unit after this one.
FillPacketNext ==
  /\ PullGoes("fill", "put")
  /\ packet' = pulled + 1
  /\ UNCHANGED <<pulled, decoder_stalled_count, recorded, unfed, decVars>>

FillPacket ==
  /\ PullGoes("fill", "put")
  /\ packet' = pulled
  /\ UNCHANGED <<pulled, decoder_stalled_count, recorded, unfed, decVars>>

DecoderAccepts ==
  /\ backlog < Capacity
  /\ backlog' = backlog + 1
  /\ fed' = Append(fed, packet)

Interrupted == signal_flag /\ unfed' = unfed + 1

GivesUp ==
  /\ ~signal_flag /\ backlog = Capacity
  /\ decoder_stalled_count' = decoder_stalled_count + 1

\* Mutant: the loop goes on after success.
PutPacketAgain ==
  /\ \/ /\ PullGoes("put", "enqueue") /\ Interrupted
        /\ UNCHANGED <<decoder_stalled_count, decVars>>
     \/ /\ PullGoes("put", "put") /\ ~signal_flag /\ DecoderAccepts
        /\ UNCHANGED <<decoder_stalled_count, unfed>>
     \/ PullGoes("put", "enqueue") /\ GivesUp /\ UNCHANGED <<unfed, decVars>>
  /\ UNCHANGED <<packet, pulled, recorded>>

\* Mutant: the retry loop does not look at signal_flag and never gives up.
PutPacketForever ==
  /\ PullGoes("put", "enqueue") /\ DecoderAccepts
  /\ UNCHANGED <<packet, pulled, decoder_stalled_count, recorded, unfed>>

\* The loop of feed_packet_to_decoder: a signal ends it, with the packet
\* unfed, success ends it, and a refusal after more than 100 ms does.
\* A refusal before that is a stuttering step.
PutPacket ==
  /\ PullGoes("put", "enqueue")
  /\ \/ Interrupted /\ UNCHANGED <<decoder_stalled_count, decVars>>
     \/ ~signal_flag /\ DecoderAccepts /\ UNCHANGED <<decoder_stalled_count, unfed>>
     \/ GivesUp /\ UNCHANGED <<unfed, decVars>>
  /\ UNCHANGED <<packet, pulled, recorded>>

\* Mutant: only packets the decoder took are recorded.
EnqueueDvrIfFed ==
  /\ PullGoes("enqueue", "test")
  /\ recorded' = IF fed # <<>> /\ fed[Len(fed)] = pulled THEN Append(recorded, pulled)
                 ELSE recorded
  /\ UNCHANGED <<packet, pulled, decoder_stalled_count, unfed, decVars>>

\* enqueueDvrPacket, whatever feed_packet_to_decoder returned
EnqueueDvr ==
  /\ PullGoes("enqueue", "test")
  /\ recorded' = Append(recorded, pulled)
  /\ UNCHANGED <<packet, pulled, decoder_stalled_count, unfed, decVars>>

-----------------------------------------------------------------------------
(* read_gstreamerpipe_stream                                               *)

MainGoes(from, to) == mpc = from /\ mpc' = to /\ UNCHANGED signal_flag

\* start_receiving; a parse error leaves no pull thread, with or without a
\* partly built pipeline.
StartReceiving ==
  /\ MainGoes("start", "run")
  /\ \/ /\ m_gst_pipeline' = "set"
        /\ m_pull_samples_run' = TRUE
        /\ lpc' = "test"
     \/ /\ m_gst_pipeline' \in {"null", "set"}
        /\ UNCHANGED <<m_pull_samples_run, lpc>>
  /\ UNCHANGED <<packet, pulled, decoder_stalled_count, recorded, unfed, decVars>>

\* while (!signal_flag) sleep(10), and the first line of stop_receiving
StopReceiving ==
  /\ MainGoes("run", "join") /\ signal_flag
  /\ m_pull_samples_run' = FALSE
  /\ UNCHANGED <<packet, pullVars, decVars, m_gst_pipeline>>

\* Mutant: the pull thread is not joined.
JoinPullSkipped ==
  MainGoes("join", "release") /\ UNCHANGED <<packet, pullVars, decVars, rxVars>>

JoinPull ==
  /\ MainGoes("join", "release") /\ lpc \in {"none", "done"}
  /\ UNCHANGED <<packet, pullVars, decVars, rxVars>>

ReleasePipeline ==
  /\ MainGoes("release", "seteos")
  /\ m_gst_pipeline' = IF m_gst_pipeline = "null" THEN "null" ELSE "released"
  /\ UNCHANGED <<packet, pullVars, decVars, m_pull_samples_run>>

SetEos ==
  /\ MainGoes("seteos", "puteos")
  /\ packet' = Eos
  /\ UNCHANGED <<pullVars, decVars, rxVars>>

\* Tried every 10 ms until the decoder takes it.
PutEos ==
  /\ MainGoes("puteos", "done") /\ DecoderAccepts
  /\ UNCHANGED <<packet, pullVars, rxVars>>

-----------------------------------------------------------------------------
(* The user and the decoder                                                *)

Signal ==
  /\ ~signal_flag
  /\ signal_flag' = TRUE
  /\ UNCHANGED <<packet, mpc, pullVars, decVars, rxVars>>

Decode ==
  /\ backlog > 0
  /\ backlog' = backlog - 1
  /\ UNCHANGED <<signal_flag, packet, mpc, pullVars, fed, rxVars>>

-----------------------------------------------------------------------------
PullBody == LoopTest \/ PullSample \/ FillPacket \/ PutPacket \/ EnqueueDvr
MainBody == StartReceiving \/ StopReceiving \/ JoinPull \/ ReleasePipeline
            \/ SetEos \/ PutEos

Next == PullBody \/ MainBody \/ Signal \/ Decode

Spec == Init /\ [][Next]_vars

\* Both threads go on when they can, timeouts included.  The decoder promises
\* nothing: it may stall for good.
FairSpec == Spec /\ WF_vars(PullBody) /\ WF_vars(MainBody)

-----------------------------------------------------------------------------
(* Properties                                                              *)

TypeOK ==
  /\ signal_flag \in BOOLEAN /\ m_pull_samples_run \in BOOLEAN
  /\ m_gst_pipeline \in {"null", "set", "released"}
  /\ lpc \in PullPC /\ mpc \in MainPC
  /\ pulled \in 0..MaxPackets /\ packet \in 0..MaxPackets
  /\ decoder_stalled_count \in 0..MaxPackets /\ unfed \in 0..MaxPackets
  /\ backlog \in 0..Capacity
  /\ fed \in Seq(0..MaxPackets) /\ recorded \in Seq(1..MaxPackets)

\* The decoder gets the access units in the order they came in, each at most
\* once, and the end of stream once and last: main() and the pull thread never
\* use the shared MppPacket at the same time.
FedInOrder ==
  /\ \A i, j \in 1..Len(fed) : i < j =>
       fed[i] # Eos /\ (fed[j] # Eos => fed[i] < fed[j])
  /\ mpc = "done" => fed # <<>> /\ fed[Len(fed)] = Eos

\* The access units among what the decoder accepted; the end of the stream is
\* there when main() is done with it.
UnitsFed == IF mpc = "done" THEN Len(fed) - 1 ELSE Len(fed)

\* No access unit disappears without a trace: each was accepted, or counted in
\* decoder_stalled_count, or came when the signal had been given; and in any case
\* it goes to the DVR, so that a stalled decoder leaves no hole in the recording
\* (main.cpp:395-415 and 437-439).
NothingLostSilently ==
  lpc \in {"test", "pull", "done"} =>
    /\ pulled = UnitsFed + decoder_stalled_count + unfed
    /\ recorded = [i \in 1..pulled |-> i]

\* The pipeline is not released while the pull thread may still pull from it
\* (gstrtpreceiver.cpp:171-186).
PipelineOutlivesPull ==
  m_gst_pipeline = "released" => lpc \in {"none", "done"}

\* A signal ends the pull thread and releases the pipeline, even if the decoder
\* never takes another packet (the loop at main.cpp:405 tests signal_flag); if
\* the decoder goes on, it gets the end of the stream as well, however full its
\* input was (main.cpp:451-453, a loop without an end of its own).
SignalStopsFeed ==
  /\ signal_flag ~> (mpc \in {"seteos", "puteos", "done"})
  /\ WF_vars(Decode) => (signal_flag ~> (mpc = "done"))

-----------------------------------------------------------------------------
(* What is true in every state and carries the proofs of the safety         *)
(* properties from one step to the next (DecoderFeedProofs).                *)

\* The pull thread runs between start_receiving and the join.
PullAlive ==
  /\ mpc = "start" => lpc = "none"
  /\ mpc \in {"release", "seteos", "puteos", "done"} => lpc \in {"none", "done"}

\* Who has the MppPacket, and what is in it.
PacketOwner ==
  /\ lpc \in {"fill", "put", "enqueue"} => pulled >= 1
  /\ lpc = "put" => packet = pulled
  /\ mpc = "puteos" => packet = Eos

\* An access unit that was not offered yet is not counted yet.
Offered == IF lpc \in {"fill", "put"} THEN pulled - 1 ELSE pulled

Enqueued == IF lpc \in {"fill", "put", "enqueue"} THEN pulled - 1 ELSE pulled

Account ==
  /\ Offered = UnitsFed + decoder_stalled_count + unfed
  /\ recorded = [n \in 1..Enqueued |-> n]

\* The access units fed are those offered, in order.
FedSoFar ==
  /\ \A n \in 1..UnitsFed : fed[n] \in 1..Offered
  /\ \A k, n \in 1..UnitsFed : k < n => fed[k] < fed[n]

FeedInv ==
  /\ TypeOK /\ PullAlive /\ PacketOwner /\ Account /\ FedSoFar
  /\ m_gst_pipeline = "released" => mpc \in {"seteos", "puteos", "done"}
  /\ mpc = "done" => fed # <<>> /\ fed[Len(fed)] = Eos
=============================================================================
