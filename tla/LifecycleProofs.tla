--------------------------- MODULE LifecycleProofs ---------------------------
(***************************************************************************)
(* Proofs about Lifecycle for command lines of any length: LifeInv is      *)
(* inductive, and what the options, the threads and the joins owe each     *)
(* other follows from it.                                                  *)
(***************************************************************************)
EXTENDS Lifecycle, TLAPS

USE DEF Thread, Known, MainPC, Parsing, Creating, options, shared, peer, MainGoes

\* The program starts with the command line before it and no thread.
LEMMA InitInv == Init => LifeInv
<1> SUFFICES ASSUME Init PROVE LifeInv
  OBVIOUS
<1> USE LifecycleAssumption DEF Init
<1>1. TypeOK
  <2>1. nargs \in 0..MaxArgs /\ elements \subseteq Known
    OBVIOUS
  <2> QED
    BY <2>1 DEF TypeOK
<1>2. OptionsFit /\ ThreadsFit /\ Joined
  BY DEF OptionsFit, ThreadsFit, Joined
<1>3. BadEnds /\ JoinsCreated
  BY DEF BadEnds, JoinsCreated
<1> QED
  BY <1>1, <1>2, <1>3 DEF LifeInv

\* An option changes no thread, and after a wrong join none is parsed.
LEMMA OptionStep == LifeInv /\ Options => LifeInv'
<1> SUFFICES ASSUME LifeInv, Options PROVE LifeInv'
  OBVIOUS
<1> USE LifecycleAssumption DEF LifeInv, BadEnds, JoinsCreated
<1>1. mpc = "parse" /\ bad = {} /\ UNCHANGED <<thread, shared, peer, bad>>
  BY DEF Options, OnOsd, OnOsdElements, OnDvr, OnDvrFramerate, OnRefused, Parsed, Parses
<1>2. mpc' \in {"parse", "refused", "setup"}
  BY DEF Options, OnOsd, OnOsdElements, OnDvr, OnDvrFramerate, OnRefused, Parsed, Unless
<1>3. ThreadsFit' /\ Joined'
  BY <1>1, <1>2 DEF ThreadsFit, Joined
<1>4. TypeOK' /\ OptionsFit'
  <2> USE DEF TypeOK, OptionsFit, Parses, Unless
  <2>1. CASE OnOsd
    BY <2>1 DEF OnOsd
  <2>2. CASE OnOsdElements
    BY <2>2 DEF OnOsdElements
  <2>3. CASE OnDvr
    BY <2>3 DEF OnDvr
  <2>4. CASE OnDvrFramerate
    BY <2>4 DEF OnDvrFramerate
  <2>5. CASE OnRefused
    BY <2>5 DEF OnRefused
  <2>6. CASE Parsed
    BY <2>6 DEF Parsed
  <2> QED
    BY <2>1, <2>2, <2>3, <2>4, <2>5, <2>6 DEF Options
<1> QED
  BY <1>1, <1>3, <1>4

\* Most steps leave the options and what the threads share as they are.
LEMMA TypeKept ==
  /\ TypeOK
  /\ UNCHANGED <<options, shared, peer>>
  /\ mpc' \in MainPC
  /\ thread' \in [Thread -> {"none", "running", "ended"}]
  /\ bad' \subseteq Thread
  => TypeOK'
  BY DEF TypeOK

\* Threads are created for the options that ask for them.
LEMMA CreateStep ==
  LifeInv /\ (Setup \/ CreateDvr \/ CreateFrame \/ CreateDisplay \/ CreateOsd) => LifeInv'
<1> SUFFICES ASSUME LifeInv,
                    Setup \/ CreateDvr \/ CreateFrame \/ CreateDisplay \/ CreateOsd
             PROVE  LifeInv'
  OBVIOUS
<1> USE DEF LifeInv, TypeOK, OptionsFit, ThreadsFit, Joined, BadEnds, JoinsCreated,
            Creates, Asserts
<1>1. CASE Setup
  <2>1. TypeOK'
    <3>1. UNCHANGED <<options, shared, peer>> /\ mpc' \in MainPC
      BY <1>1 DEF Setup
    <3>2. thread' \in [Thread -> {"none", "running", "ended"}] /\ bad' \subseteq Thread
      BY <1>1 DEF Setup
    <3> QED
      BY <3>1, <3>2, TypeKept
  <2>2. OptionsFit' /\ BadEnds' /\ JoinsCreated'
    BY <1>1 DEF Setup
  <2>3. ThreadsFit'
    BY <1>1 DEF Setup
  <2>4. Joined'
    BY <1>1 DEF Setup
  <2> QED
    BY <2>1, <2>2, <2>3, <2>4
<1>2. CASE CreateDvr
  <2>1. TypeOK'
    <3>1. UNCHANGED <<options, shared, peer>> /\ mpc' \in MainPC
      BY <1>2 DEF CreateDvr
    <3>2. thread' \in [Thread -> {"none", "running", "ended"}] /\ bad' \subseteq Thread
      BY <1>2 DEF CreateDvr
    <3> QED
      BY <3>1, <3>2, TypeKept
  <2>2. OptionsFit' /\ BadEnds' /\ JoinsCreated'
    BY <1>2 DEF CreateDvr
  <2>3. ThreadsFit'
    BY <1>2 DEF CreateDvr
  <2>4. Joined'
    BY <1>2 DEF CreateDvr
  <2> QED
    BY <2>1, <2>2, <2>3, <2>4
<1>3. CASE CreateFrame
  <2>1. TypeOK'
    <3>1. UNCHANGED <<options, shared, peer>> /\ mpc' \in MainPC
      BY <1>3 DEF CreateFrame
    <3>2. thread' \in [Thread -> {"none", "running", "ended"}] /\ bad' \subseteq Thread
      BY <1>3 DEF CreateFrame
    <3> QED
      BY <3>1, <3>2, TypeKept
  <2>2. OptionsFit' /\ BadEnds' /\ JoinsCreated'
    BY <1>3 DEF CreateFrame
  <2>3. ThreadsFit'
    BY <1>3 DEF CreateFrame
  <2>4. Joined'
    BY <1>3 DEF CreateFrame
  <2> QED
    BY <2>1, <2>2, <2>3, <2>4
<1>4. CASE CreateDisplay
  <2>1. TypeOK'
    <3>1. UNCHANGED <<options, shared, peer>> /\ mpc' \in MainPC
      BY <1>4 DEF CreateDisplay
    <3>2. thread' \in [Thread -> {"none", "running", "ended"}] /\ bad' \subseteq Thread
      BY <1>4 DEF CreateDisplay
    <3> QED
      BY <3>1, <3>2, TypeKept
  <2>2. OptionsFit' /\ BadEnds' /\ JoinsCreated'
    BY <1>4 DEF CreateDisplay
  <2>3. ThreadsFit'
    BY <1>4 DEF CreateDisplay
  <2>4. Joined'
    BY <1>4 DEF CreateDisplay
  <2> QED
    BY <2>1, <2>2, <2>3, <2>4
<1>5. CASE CreateOsd
  <2>1. TypeOK'
    <3>1. UNCHANGED <<options, shared, peer>> /\ mpc' \in MainPC
      BY <1>5 DEF CreateOsd
    <3>2. thread' \in [Thread -> {"none", "running", "ended"}] /\ bad' \subseteq Thread
      BY <1>5 DEF CreateOsd
    <3> QED
      BY <3>1, <3>2, TypeKept
  <2>2. OptionsFit' /\ BadEnds' /\ JoinsCreated'
    BY <1>5 DEF CreateOsd
  <2>3. ThreadsFit'
    BY <1>5 DEF CreateOsd
  <2>4. Joined'
    BY <1>5 DEF CreateOsd
  <2> QED
    BY <2>1, <2>2, <2>3, <2>4
<1> QED
  BY <1>1, <1>2, <1>3, <1>4, <1>5

\* main() waits for the threads one after the other.
LEMMA JoinStep ==
  LifeInv /\ (\/ StopReceiving \/ FeedEos \/ JoinFrame \/ SignalDisplay \/ JoinDisplay
              \/ JoinMavlink \/ JoinOsd \/ JoinDvr \/ Cleanup)
    => LifeInv'
<1> SUFFICES ASSUME LifeInv,
                    \/ StopReceiving \/ FeedEos \/ JoinFrame \/ SignalDisplay
                    \/ JoinDisplay \/ JoinMavlink \/ JoinOsd \/ JoinDvr \/ Cleanup
             PROVE  LifeInv'
  OBVIOUS
<1> USE DEF LifeInv, TypeOK, OptionsFit, ThreadsFit, Joined, BadEnds, JoinsCreated,
            Joins, Dangles, Skips
<1>1. CASE StopReceiving \/ FeedEos
  <2>1. TypeOK'
    <3>1. UNCHANGED <<options, shared, peer>> /\ mpc' \in MainPC
      BY <1>1 DEF StopReceiving, FeedEos
    <3>2. thread' \in [Thread -> {"none", "running", "ended"}] /\ bad' \subseteq Thread
      BY <1>1 DEF StopReceiving, FeedEos
    <3> QED
      BY <3>1, <3>2, TypeKept
  <2>2. OptionsFit' /\ BadEnds' /\ JoinsCreated'
    BY <1>1 DEF StopReceiving, FeedEos
  <2>3. ThreadsFit'
    BY <1>1 DEF StopReceiving, FeedEos
  <2>4. Joined'
    BY <1>1 DEF StopReceiving, FeedEos
  <2> QED
    BY <2>1, <2>2, <2>3, <2>4
<1>2. CASE JoinFrame \/ SignalDisplay
  <2>1. TypeOK'
    <3>1. UNCHANGED <<options, shared, peer>> /\ mpc' \in MainPC
      BY <1>2 DEF JoinFrame, SignalDisplay
    <3>2. thread' \in [Thread -> {"none", "running", "ended"}] /\ bad' \subseteq Thread
      BY <1>2 DEF JoinFrame, SignalDisplay
    <3> QED
      BY <3>1, <3>2, TypeKept
  <2>2. OptionsFit' /\ BadEnds' /\ JoinsCreated'
    BY <1>2 DEF JoinFrame, SignalDisplay
  <2>3. ThreadsFit'
    BY <1>2 DEF JoinFrame, SignalDisplay
  <2>4. Joined'
    BY <1>2 DEF JoinFrame, SignalDisplay
  <2> QED
    BY <2>1, <2>2, <2>3, <2>4
<1>3. CASE JoinDisplay
  BY <1>3 DEF JoinDisplay
<1>4. CASE JoinMavlink
  <2>1. TypeOK'
    <3>1. UNCHANGED <<options, shared, peer>> /\ mpc' \in MainPC
      BY <1>4 DEF JoinMavlink
    <3>2. thread' \in [Thread -> {"none", "running", "ended"}] /\ bad' \subseteq Thread
      BY <1>4 DEF JoinMavlink
    <3> QED
      BY <3>1, <3>2, TypeKept
  <2>2. OptionsFit' /\ BadEnds' /\ JoinsCreated'
    BY <1>4 DEF JoinMavlink
  <2>3. ThreadsFit'
    BY <1>4 DEF JoinMavlink
  <2>4. Joined'
    BY <1>4 DEF JoinMavlink
  <2> QED
    BY <2>1, <2>2, <2>3, <2>4
<1>5. CASE JoinOsd
  <2>1. TypeOK'
    <3>1. UNCHANGED <<options, shared, peer>> /\ mpc' \in MainPC
      BY <1>5 DEF JoinOsd
    <3>2. thread' \in [Thread -> {"none", "running", "ended"}] /\ bad' \subseteq Thread
      BY <1>5 DEF JoinOsd
    <3> QED
      BY <3>1, <3>2, TypeKept
  <2>2. OptionsFit' /\ BadEnds' /\ JoinsCreated'
    BY <1>5 DEF JoinOsd
  <2>3. ThreadsFit'
    BY <1>5 DEF JoinOsd
  <2>4. Joined'
    BY <1>5 DEF JoinOsd
  <2> QED
    BY <2>1, <2>2, <2>3, <2>4
<1>6. CASE JoinDvr
  <2>1. TypeOK'
    <3>1. UNCHANGED <<options, shared, peer>> /\ mpc' \in MainPC
      BY <1>6 DEF JoinDvr
    <3>2. thread' \in [Thread -> {"none", "running", "ended"}] /\ bad' \subseteq Thread
      BY <1>6 DEF JoinDvr
    <3> QED
      BY <3>1, <3>2, TypeKept
  <2>2. OptionsFit' /\ BadEnds' /\ JoinsCreated'
    BY <1>6 DEF JoinDvr
  <2>3. ThreadsFit'
    BY <1>6 DEF JoinDvr
  <2>4. Joined'
    BY <1>6 DEF JoinDvr
  <2> QED
    BY <2>1, <2>2, <2>3, <2>4
<1>7. CASE Cleanup
  BY <1>7 DEF Cleanup
<1> QED
  BY <1>1, <1>2, <1>3, <1>4, <1>5, <1>6, <1>7

\* A thread ends once and is never created again.
LEMMA ThreadStep ==
  LifeInv /\ (\/ MavlinkBody \/ FrameEnds \/ DisplayEnds \/ DvrEnds \/ OsdEnds
              \/ OsdAborts \/ Signal \/ Sends \/ UNCHANGED vars)
    => LifeInv'
<1> SUFFICES ASSUME LifeInv,
                    \/ MavlinkBody \/ FrameEnds \/ DisplayEnds \/ DvrEnds \/ OsdEnds
                    \/ OsdAborts \/ Signal \/ Sends \/ UNCHANGED vars
             PROVE  LifeInv'
  OBVIOUS
<1> USE DEF LifeInv, TypeOK, OptionsFit, ThreadsFit, Joined, BadEnds, JoinsCreated,
            Ends, MavlinkGoes
<1>1. CASE MavlinkSocket
  BY <1>1 DEF MavlinkSocket
<1>2. CASE MavlinkTest
  BY <1>2 DEF MavlinkTest
<1>3. CASE MavlinkRecv
  BY <1>3 DEF MavlinkRecv
<1>4. CASE FrameEnds
  BY <1>4 DEF FrameEnds
<1>5. CASE DisplayEnds
  BY <1>5 DEF DisplayEnds
<1>6. CASE DvrEnds
  BY <1>6 DEF DvrEnds
<1>7. CASE OsdEnds
  BY <1>7 DEF OsdEnds
<1>8. CASE OsdAborts
  <2>1. TypeOK'
    <3>1. UNCHANGED <<options, shared, peer>> /\ mpc' \in MainPC
      BY <1>8 DEF OsdAborts
    <3>2. thread' \in [Thread -> {"none", "running", "ended"}] /\ bad' \subseteq Thread
      BY <1>8 DEF OsdAborts
    <3> QED
      BY <3>1, <3>2, TypeKept
  <2>2. OptionsFit' /\ BadEnds' /\ JoinsCreated'
    BY <1>8 DEF OsdAborts
  <2>3. ThreadsFit'
    BY <1>8 DEF OsdAborts
  <2>4. Joined'
    BY <1>8 DEF OsdAborts
  <2> QED
    BY <2>1, <2>2, <2>3, <2>4
<1>9. CASE Signal
  BY <1>9 DEF Signal
<1>10. CASE Sends
  BY <1>10 DEF Sends
<1>11. CASE UNCHANGED vars
  BY <1>11 DEF vars
<1> QED
  BY <1>1, <1>2, <1>3, <1>4, <1>5, <1>6, <1>7, <1>8, <1>9, <1>10, <1>11 DEF MavlinkBody

\* The invariant is inductive, so that it holds in every reachable state.
THEOREM LifeInvariance == Spec => []LifeInv
<1>1. LifeInv /\ [Next]_vars => LifeInv'
  BY OptionStep, CreateStep, JoinStep, ThreadStep DEF Next, MainBody
<1> QED
  BY <1>1, InitInv, PTL DEF Spec

-----------------------------------------------------------------------------
\* Every variable keeps its type, for command lines of any length.
THEOREM LifeTypeCorrect == Spec => []TypeOK
  BY LifeInvariance, PTL DEF LifeInv

\* main() joins only what it created, but for the two known cases
\* (main.cpp:747-758 with 705-722).
THEOREM JoinsCorrect == Spec => []JoinsCreated
  BY LifeInvariance, PTL DEF LifeInv

\* No thread is left when its resources are released (main.cpp:724-800).
THEOREM ThreadsEndCorrect == Spec => []ThreadsEndFirst
<1>1. LifeInv => ThreadsEndFirst
  BY DEF LifeInv, Joined, ThreadsEndFirst
<1> QED
  BY <1>1, LifeInvariance, PTL

\* An OSD with telemetry has a thread that receives it, in whatever order --osd
\* and --osd-elements were given (main.cpp:584-622).
THEOREM TelemetryCorrect == Spec => []TelemetryHasSource
<1>1. LifeInv => TelemetryHasSource
  BY DEF LifeInv, ThreadsFit, TelemetryHasSource
<1> QED
  BY <1>1, LifeInvariance, PTL

\* The OSD plane is in front of the video plane (main.cpp:586, 649-651).
THEOREM OsdOnTopCorrect == Spec => []OsdOnTop
<1>1. LifeInv => OsdOnTop
  BY DEF LifeInv, TypeOK, OptionsFit, ThreadsFit, OsdOnTop
<1> QED
  BY <1>1, LifeInvariance, PTL
=============================================================================
