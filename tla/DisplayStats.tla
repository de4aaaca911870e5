----------------------------- MODULE DisplayStats ----------------------------
(***************************************************************************)
(* The latency window of __DISPLAY_THREAD__ (src/main.cpp): the latency of *)
(* each committed picture goes into latency_avg, at the index the count of *)
(* this refresh period gives, after the picture that ends a period had the *)
(* entries before it averaged for the OSD.  A latency stands for itself:   *)
(* it is the number of its picture, and 0 is what an entry of the          *)
(* uninitialised array holds.                                              *)
(***************************************************************************)
EXTENDS Integers, Sequences

CONSTANTS
  LatencySize,        \* entries of latency_avg (200)
  PicturesPerPeriod,  \* the most pictures that come in a refresh period
  MaxPictures         \* bound: pictures committed

\* Nothing in the code says that the pictures of a period fit.
ASSUME StatsAssumption ==
  /\ LatencySize \in Nat /\ PicturesPerPeriod \in Nat /\ MaxPictures \in Nat
  /\ PicturesPerPeriod < LatencySize

VARIABLES
  frame_counter,   \* pictures of the period
  latency_avg,
  pictures,        \* pictures committed
  averaged         \* history: every entry averaged, report after report

statsVars == <<frame_counter, latency_avg, pictures, averaged>>

Indices == 0..(LatencySize - 1)

StatsInit ==
  /\ frame_counter = 0 /\ pictures = 0 /\ averaged = <<>>
  /\ latency_avg = [k \in Indices |-> 0]

-----------------------------------------------------------------------------
\* The first n entries.
Entries(n) == [k \in 1..n |-> latency_avg[k - 1]]

\* The period goes on.
CountPicture ==
  /\ frame_counter < PicturesPerPeriod
  /\ frame_counter' = frame_counter + 1
  /\ UNCHANGED averaged

\* Mutant: the picture that ends the period is counted in the next one as well.
ReportKeepsOne ==
  /\ averaged' = averaged \o Entries(frame_counter + 1)
  /\ frame_counter' = 1

\* Mutant: the count is not reset.
ReportNoReset ==
  /\ averaged' = averaged \o Entries(frame_counter + 1)
  /\ frame_counter' = frame_counter + 1

\* The period is over: average, maximum and minimum of the entries.
Report ==
  /\ averaged' = averaged \o Entries(frame_counter + 1)
  /\ frame_counter' = 0

PictureCommitted ==
  /\ pictures < MaxPictures
  /\ pictures' = pictures + 1
  /\ CountPicture \/ Report
  /\ latency_avg' = [latency_avg EXCEPT ![frame_counter'] = pictures']

StatsNext == PictureCommitted

StatsSpec == StatsInit /\ [][StatsNext]_statsVars

-----------------------------------------------------------------------------
StatsTypeOK ==
  /\ frame_counter \in Indices /\ pictures \in 0..MaxPictures
  /\ latency_avg \in [Indices -> 0..MaxPictures]
  /\ averaged \in Seq(0..MaxPictures)

\* Every picture's latency is averaged in exactly one report, in order, although
\* it is stored after the report its picture caused; only the first report has
\* an entry nobody wrote (main.cpp:305-337).
PicturesCountedOnce ==
  /\ \A k \in 1..Len(averaged) : averaged[k] = k - 1
  /\ Len(averaged) + frame_counter = pictures

\* What carries the proof of it (ContentsProofs): the entry of the last
\* picture of the period before is the first of this one.
StatsInv ==
  /\ StatsTypeOK /\ PicturesCountedOnce
  /\ frame_counter <= PicturesPerPeriod
  /\ \A k \in 0..frame_counter : latency_avg[k] = pictures - frame_counter + k
=============================================================================
