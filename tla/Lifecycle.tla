------------------------------ MODULE Lifecycle ------------------------------
(***************************************************************************)
(* main() of src/main.cpp: the options, the threads they call for, the     *)
(* signal and the joins; and the life of __MAVLINK_THREAD__                *)
(* (src/mavlink.c), which no other module has.  What the other threads do  *)
(* while they run is in FrameHandover, DvrRecorder and OsdSurface; here    *)
(* they run and end.                                                       *)
(***************************************************************************)
EXTENDS Naturals

CONSTANT MaxArgs      \* bound: options on the command line
ASSUME LifecycleAssumption == MaxArgs \in Nat

VARIABLES
  mpc,                 \* where main() is
  nargs,               \* options parsed
  enable_osd, mavlink_thread, dvr_file, video_framerate,
  elements,            \* osd_vars.enable_video, enable_wfbng, enable_telemetry
  video_zpos, plane_zpos,
  thread,              \* "none", "running" or "ended"
  signal_flag,         \* with osd_thread_signal and mavlink_thread_signal
  frm_eos,
  vpc,                 \* where the MAVLink thread is
  datagram,            \* what waits at its socket
  stuck,               \* waits that last for ever, see Signal
  bad                  \* history: threads joined and never created

options == <<nargs, enable_osd, mavlink_thread, dvr_file, video_framerate, elements,
             video_zpos, plane_zpos>>
shared  == <<signal_flag, frm_eos, stuck>>
peer    == <<vpc, datagram>>
vars    == <<mpc, options, thread, shared, peer, bad>>

Thread   == {"dvr", "frame", "display", "mavlink", "osd"}
Known    == {"video", "wfbng", "telem"}
MainPC   == {"parse", "setup", "dvr", "frame", "display", "osd", "receive", "eos",
             "join_frame", "signal", "join_display", "join_mavlink", "join_osd",
             "join_dvr", "cleanup", "exit", "refused", "aborted"}

Alive   == mpc \notin {"exit", "refused", "aborted"}
Running == Alive /\ mpc \notin {"parse", "setup"}   \* the handlers are installed

Init ==
  /\ mpc = "parse" /\ nargs = 0
  /\ enable_osd = FALSE /\ mavlink_thread = FALSE
  /\ dvr_file = "none" /\ video_framerate = "unset" /\ elements = {}
  /\ video_zpos = 1 /\ plane_zpos = 0
  /\ thread = [t \in Thread |-> "none"]
  /\ signal_flag = FALSE /\ frm_eos = FALSE
  /\ vpc = "socket" /\ datagram = "none" /\ stuck = {} /\ bad = {}

-----------------------------------------------------------------------------
(* The options, in the order of the command line                           *)

Parses ==
  /\ mpc = "parse" /\ nargs < MaxArgs /\ nargs' = nargs + 1
  /\ UNCHANGED <<thread, shared, peer, bad>>

Unless(refused) == mpc' = IF refused THEN "refused" ELSE "parse"

OnOsd ==
  /\ Parses /\ Unless(FALSE)
  /\ enable_osd' = TRUE /\ mavlink_thread' = TRUE
  /\ plane_zpos' = 2 /\ elements' = Known
  /\ UNCHANGED <<dvr_file, video_framerate, video_zpos>>

\* Mutant: a name nobody knows is an element too.
OnOsdElementsAny ==
  \E names \in SUBSET (Known \cup {"other"}) :
    /\ Parses /\ Unless(FALSE)
    /\ elements' = names
    /\ mavlink_thread' = (mavlink_thread \/ names \cap {"wfbng", "telem"} # {})
    /\ UNCHANGED <<enable_osd, dvr_file, video_framerate, video_zpos, plane_zpos>>

OnOsdElements ==
  \E names \in SUBSET (Known \cup {"other"}) :
    /\ Parses /\ Unless(FALSE)
    /\ elements' = names \cap Known
    /\ mavlink_thread' = (mavlink_thread \/ names \cap {"wfbng", "telem"} # {})
    /\ UNCHANGED <<enable_osd, dvr_file, video_framerate, video_zpos, plane_zpos>>

\* fopen may fail.
OnDvr ==
  \E file \in {"none", "open"} :
    /\ Parses /\ Unless(file = "none")
    /\ dvr_file' = file
    /\ UNCHANGED <<enable_osd, mavlink_thread, video_framerate, elements,
                   video_zpos, plane_zpos>>

OnDvrFramerate ==
  \E rate \in {"unset", "given"} :      \* negative or not
    /\ Parses /\ Unless(FALSE)
    /\ video_framerate' = rate
    /\ UNCHANGED <<enable_osd, mavlink_thread, dvr_file, elements, video_zpos, plane_zpos>>

\* An unknown option or codec, or --version.
OnRefused ==
  /\ Parses /\ Unless(TRUE)
  /\ UNCHANGED <<enable_osd, mavlink_thread, dvr_file, video_framerate, elements,
                 video_zpos, plane_zpos>>

\* The command line ends; a recording needs its frame rate.
Parsed ==
  /\ mpc = "parse"
  /\ \/ dvr_file = "open" /\ video_framerate = "unset" /\ mpc' = "refused"
        /\ UNCHANGED video_zpos
     \/ (dvr_file = "open" => video_framerate = "given") /\ mpc' = "setup"
        /\ video_zpos' = IF enable_osd THEN video_zpos ELSE 4
  /\ UNCHANGED <<nargs, enable_osd, mavlink_thread, dvr_file, video_framerate, elements,
                 plane_zpos, thread, shared, peer, bad>>

-----------------------------------------------------------------------------
(* The threads                                                             *)

MainGoes(from, to) ==
  /\ mpc = from /\ mpc' = to
  /\ UNCHANGED <<options, shared, peer>>

\* A failed assertion ends the process.
Asserts(from) == MainGoes(from, "aborted") /\ UNCHANGED <<thread, bad>>

Setup == \/ MainGoes("setup", "dvr") /\ UNCHANGED <<thread, bad>>
         \/ Asserts("setup")

Creates(from, to, S) ==
  /\ MainGoes(from, to)
  /\ thread' = [t \in Thread |-> IF t \in S THEN "running" ELSE thread[t]]
  /\ UNCHANGED bad

\* Whether the DVR thread could be created is not looked at.
CreateDvr == \/ dvr_file = "open" /\ Creates("dvr", "frame", {"dvr"})
             \/ Creates("dvr", "frame", {})

CreateFrame   == Creates("frame", "display", {"frame"}) \/ Asserts("frame")
CreateDisplay == Creates("display", "osd", {"display"}) \/ Asserts("display")

\* Two calls; in between there is nothing the other threads look at.
CreateOsd ==
  \/ /\ enable_osd
     /\ \/ Creates("osd", "receive", {"osd"} \cup {t \in {"mavlink"} : mavlink_thread})
        \/ Asserts("osd")
  \/ ~enable_osd /\ Creates("osd", "receive", {})

-----------------------------------------------------------------------------
(* The end                                                                 *)

\* The signal, with the waits it finds that nothing will end: of the DVR thread
\* for a packet, of the display thread for a picture, of main() for the decoder.
Signal ==
  /\ Running /\ ~signal_flag /\ signal_flag' = TRUE
  /\ stuck' \in SUBSET {"dvr", "display", "main"}
  /\ UNCHANGED <<mpc, options, thread, frm_eos, peer, bad>>

StopReceiving == signal_flag /\ MainGoes("receive", "eos") /\ UNCHANGED <<thread, bad>>

FeedEos == "main" \notin stuck /\ MainGoes("eos", "join_frame") /\ UNCHANGED <<thread, bad>>

Joins(from, to, t) == /\ thread[t] = "ended" /\ MainGoes(from, to)
                      /\ UNCHANGED <<thread, bad>>

\* A thread that was not created has no id to join.
Dangles(from, t) == /\ thread[t] = "none" /\ MainGoes(from, "aborted")
                    /\ bad' = bad \cup {t} /\ UNCHANGED thread

Skips(from, to) == MainGoes(from, to) /\ UNCHANGED <<thread, bad>>

JoinFrame     == Joins("join_frame", "signal", "frame")
SignalDisplay == Skips("signal", "join_display")
JoinDisplay   == Joins("join_display", "join_mavlink", "display")

JoinMavlink ==
  \/ mavlink_thread /\ Joins("join_mavlink", "join_osd", "mavlink")
  \/ mavlink_thread /\ Dangles("join_mavlink", "mavlink")
  \/ ~mavlink_thread /\ Skips("join_mavlink", "join_osd")

\* Mutant: whether there is an OSD is not asked.
JoinOsdAlways == Joins("join_osd", "join_dvr", "osd") \/ Dangles("join_osd", "osd")

JoinOsd == \/ enable_osd /\ Joins("join_osd", "join_dvr", "osd")
           \/ ~enable_osd /\ Skips("join_osd", "join_dvr")

\* Mutant: the recording is left to itself.
JoinDvrForgotten == Skips("join_dvr", "cleanup")

JoinDvr == \/ dvr_file = "open" /\ Joins("join_dvr", "cleanup", "dvr")
           \/ dvr_file = "open" /\ Dangles("join_dvr", "dvr")
           \/ dvr_file = "none" /\ Skips("join_dvr", "cleanup")

Cleanup == Skips("cleanup", "exit")

-----------------------------------------------------------------------------
(* How the threads end                                                     *)

Ends(t) ==
  /\ Alive /\ thread[t] = "running"
  /\ thread' = [thread EXCEPT ![t] = "ended"]
  /\ UNCHANGED <<mpc, options, signal_flag, stuck, datagram, bad>>

\* The end of stream reaches the frame thread after main() has fed it.
FrameEnds   == /\ mpc = "join_frame" /\ Ends("frame")
               /\ frm_eos' = TRUE /\ UNCHANGED vpc
DisplayEnds == frm_eos /\ "display" \notin stuck /\ Ends("display") /\ UNCHANGED <<frm_eos, vpc>>
DvrEnds     == signal_flag /\ "dvr" \notin stuck /\ Ends("dvr") /\ UNCHANGED <<frm_eos, vpc>>
OsdEnds     == signal_flag /\ Ends("osd") /\ UNCHANGED <<frm_eos, vpc>>

\* The OSD thread asserts that its modeset was accepted.
OsdAborts ==
  /\ Alive /\ thread["osd"] = "running" /\ mpc' = "aborted"
  /\ UNCHANGED <<options, thread, shared, peer, bad>>

-----------------------------------------------------------------------------
(* __MAVLINK_THREAD__                                                      *)

MavlinkGoes(from, to) ==
  /\ Alive /\ thread["mavlink"] = "running"
  /\ vpc = from /\ vpc' = to
  /\ thread' = IF to = "done" THEN [thread EXCEPT !["mavlink"] = "ended"] ELSE thread
  /\ UNCHANGED <<mpc, options, shared, bad>>

\* The socket cannot be made or bound: the thread ends, the program goes on.
MavlinkSocket ==
  \E to \in {"test", "done"} : MavlinkGoes("socket", to) /\ UNCHANGED datagram

MavlinkTest ==
  MavlinkGoes("test", IF signal_flag THEN "done" ELSE "recv") /\ UNCHANGED datagram

\* Mutant: recv without SO_RCVTIMEO.
MavlinkRecvForever ==
  /\ datagram # "none" /\ datagram' = "none"
  /\ MavlinkGoes("recv", IF datagram = "empty" THEN "done" ELSE "test")

\* recv gives a datagram or nothing in 100 ms; an empty one ends the thread.
MavlinkRecv ==
  /\ MavlinkGoes("recv", IF datagram = "empty" THEN "done" ELSE "test")
  /\ datagram' = "none"

\* The peer sends to the socket.
Sends ==
  /\ Alive /\ thread["mavlink"] = "running" /\ datagram = "none"
  /\ datagram' \in {"data", "empty"}
  /\ UNCHANGED <<mpc, options, thread, shared, vpc, bad>>

-----------------------------------------------------------------------------
Options     == OnOsd \/ OnOsdElements \/ OnDvr \/ OnDvrFramerate \/ OnRefused \/ Parsed
MainBody    == \/ Options \/ Setup \/ CreateDvr \/ CreateFrame \/ CreateDisplay \/ CreateOsd
               \/ StopReceiving \/ FeedEos \/ JoinFrame \/ SignalDisplay \/ JoinDisplay
               \/ JoinMavlink \/ JoinOsd \/ JoinDvr \/ Cleanup
MavlinkBody == MavlinkSocket \/ MavlinkTest \/ MavlinkRecv

Next == \/ MainBody \/ MavlinkBody \/ FrameEnds \/ DisplayEnds \/ DvrEnds \/ OsdEnds
        \/ OsdAborts \/ Signal \/ Sends

Spec == Init /\ [][Next]_vars

FairSpec ==
  /\ Spec
  /\ WF_vars(MainBody) /\ WF_vars(MavlinkBody)
  /\ WF_vars(FrameEnds) /\ WF_vars(DisplayEnds) /\ WF_vars(DvrEnds) /\ WF_vars(OsdEnds)

-----------------------------------------------------------------------------
(* Properties                                                              *)

TypeOK ==
  /\ mpc \in MainPC /\ nargs \in 0..MaxArgs
  /\ enable_osd \in BOOLEAN /\ mavlink_thread \in BOOLEAN
  /\ dvr_file \in {"none", "open"} /\ video_framerate \in {"unset", "given"}
  /\ elements \subseteq Known /\ video_zpos \in {1, 4} /\ plane_zpos \in {0, 2}
  /\ thread \in [Thread -> {"none", "running", "ended"}]
  /\ signal_flag \in BOOLEAN /\ frm_eos \in BOOLEAN
  /\ vpc \in {"socket", "test", "recv", "done"}
  /\ datagram \in {"none", "data", "empty"}
  /\ stuck \subseteq {"dvr", "display", "main"} /\ bad \subseteq Thread

\* In whatever order the options come, main() waits only for threads it created,
\* but for two cases: telemetry elements without --osd, and a DVR thread the system
\* did not create (main.cpp:747-758 with 705-722).
JoinsCreated ==
  /\ bad \subseteq {"mavlink", "dvr"}
  /\ "mavlink" \in bad => ~enable_osd

\* No thread is left when main() releases what they use: decoder, buffers, device.
ThreadsEndFirst ==
  mpc \in {"cleanup", "exit"} => \A t \in Thread : thread[t] # "running"

\* An OSD that shows telemetry or the radio link has a thread that receives them,
\* whatever --osd and --osd-elements were given, in whatever order.
TelemetryHasSource ==
  thread["osd"] = "running" /\ elements \cap {"wfbng", "telem"} # {}
    => thread["mavlink"] # "none"

\* The OSD plane is in front of the video plane when something is drawn on it.
OsdOnTop == thread["osd"] = "running" => plane_zpos > video_zpos

\* A signal ends the process, unless it meets one of the waits the other modules
\* show to last for ever.  The MAVLink thread's recv is none of them.
SignalEndsProcess == (signal_flag /\ stuck = {}) ~> ~Alive

-----------------------------------------------------------------------------
(* What is true in every state and carries the proofs of the safety         *)
(* properties from one step to the next (LifecycleProofs).                  *)

Parsing  == {"parse", "setup", "dvr"}
Creating == {"parse", "setup", "dvr", "frame", "display", "osd"}

\* What the options have to do with each other.
OptionsFit ==
  /\ enable_osd => mavlink_thread /\ plane_zpos = 2
  /\ mpc = "parse" => video_zpos = 1
  /\ video_zpos = 4 => ~enable_osd

\* Which threads are there.
ThreadsFit ==
  /\ thread["mavlink"] # "none" => mavlink_thread
  /\ thread["osd"] # "none" => enable_osd /\ thread["mavlink"] # "none"
  /\ thread["dvr"] # "none" => dvr_file = "open"
  /\ mpc \in Creating => thread["osd"] = "none" /\ thread["mavlink"] = "none"
  /\ mpc \in Parsing => thread["dvr"] = "none"
  /\ mpc \notin Creating \cup {"refused", "aborted"} /\ enable_osd => thread["osd"] # "none"

\* Which of them have been waited for.
Joined ==
  /\ mpc \in {"signal", "join_display", "join_mavlink", "join_osd", "join_dvr", "cleanup",
               "exit"} => thread["frame"] = "ended"
  /\ mpc \in {"join_mavlink", "join_osd", "join_dvr", "cleanup", "exit"} =>
       thread["display"] = "ended"
  /\ mpc \in {"join_osd", "join_dvr", "cleanup", "exit"} => thread["mavlink"] # "running"
  /\ mpc \in {"join_dvr", "cleanup", "exit"} => thread["osd"] # "running"
  /\ mpc \in {"cleanup", "exit"} => thread["dvr"] # "running"

\* A join that goes wrong is the last thing that happens.
BadEnds == bad # {} => mpc = "aborted"

LifeInv == TypeOK /\ OptionsFit /\ ThreadsFit /\ Joined /\ BadEnds /\ JoinsCreated

=============================================================================
