------------------------------ MODULE VideoSlot ------------------------------
(***************************************************************************)
(* What the frame thread and the display thread promise together: a slot   *)
(* in which the newest decoded picture displaces the one before it, and    *)
(* from which pictures reach the screen in order, each with its own DRM    *)
(* frame buffer and its own time stamp.  No thread, lock or condition      *)
(* variable appears here; FrameHandover implements this specification.     *)
(***************************************************************************)
EXTENDS Naturals

CONSTANTS
  MaxFrames,   \* bound: pictures the decoder delivers
  FbOf         \* FbOf[n]: DRM frame buffer the n-th picture was decoded into

VARIABLES
  posted,      \* number of the newest picture put into the slot, 0: none yet
  taken,       \* the picture the display last took out of the slot
  screen       \* the picture the last successful commit put on the plane

vars == <<posted, taken, screen>>

\* A picture as the display knows it: a frame buffer and a time stamp.
Picture(n) == [fb |-> IF n = 0 THEN 0 ELSE FbOf[n], pts |-> n]

Init ==
  /\ posted = 0
  /\ taken  = Picture(0)
  /\ screen = Picture(0)

Post ==
  /\ posted < MaxFrames
  /\ posted' = posted + 1
  /\ UNCHANGED <<taken, screen>>

\* Only the newest picture is ever taken; those it displaced are skipped.
Take ==
  /\ taken.pts < posted
  /\ taken' = Picture(posted)
  /\ UNCHANGED <<posted, screen>>

Show ==
  /\ screen.pts < taken.pts
  /\ screen' = taken
  /\ UNCHANGED <<posted, taken>>

Next == Post \/ Take \/ Show

Spec == Init /\ [][Next]_vars
=============================================================================
