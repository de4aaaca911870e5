------------------------- MODULE FrameHandoverProofs -------------------------
(***************************************************************************)
(* Proofs about FrameHandover for any number of pictures, of resolutions   *)
(* and of frame buffers.  HandoverInv is inductive; every safety property  *)
(* and the refinement of VideoSlot follow from it.                         *)
(***************************************************************************)
EXTENDS FrameHandover, TLAPS

USE DEF Nobody, Frame, Display, Main, FrameGoes, DisplayGoes, MainGoes

\* The threads start with an empty slot, a free mutex and no picture.
LEMMA InitInv == Init => HandoverInv
<1> SUFFICES ASSUME Init PROVE HandoverInv
  OBVIOUS
<1> USE HandoverAssumption DEF Init, Picture, Posted
<1>1. TypeOK
  <2>1. 0 \in 0..MaxFrames /\ 0 \in 0..MaxInfoChanges
    OBVIOUS
  <2>2. Picture(0) \in [fb : Nat, pts : 0..MaxFrames]
    BY <2>1
  <2> QED
    BY <2>1, <2>2 DEF TypeOK, FramePC, DisplayPC, MainPC
<1>2. PairIntact /\ NewestKept /\ DisplayOrder
  BY DEF PairIntact, NewestKept, DisplayOrder
<1>3. MutexHeld /\ SlotHolds /\ ShutdownOrder /\ ResolutionFirst
  BY DEF MutexHeld, SlotHolds, ShutdownOrder, ResolutionFirst
<1> QED
  BY <1>1, <1>2, <1>3 DEF HandoverInv

\* Every step of the frame thread preserves the invariant.
LEMMA FrameStep == HandoverInv /\ (GetFrame \/ FrameBody) => HandoverInv'
<1> SUFFICES ASSUME HandoverInv, GetFrame \/ FrameBody
             PROVE  HandoverInv'
  OBVIOUS
<1> USE HandoverAssumption
    DEF HandoverInv, TypeOK, PairIntact, NewestKept, MutexHeld, SlotHolds,
        DisplayOrder, ShutdownOrder, ResolutionFirst, Picture, Posted, FramePC,
        DisplayPC, MainPC, slot, frameVars, displayVars, Acquire, Release,
        CondSignal
<1>1. CASE GetFrame
  <2>1. PICK eos \in BOOLEAN :
          /\ fpc = "get" /\ frame_eos' = eos
          /\ \/ infoChanges < MaxInfoChanges /\ infoChanges' = infoChanges + 1
                /\ fpc' = "init" /\ decoded' = decoded
             \/ infoChanges > 0 /\ decoded < MaxFrames /\ decoded' = decoded + 1
                /\ fpc' = "lock" /\ infoChanges' = infoChanges
             \/ fpc' = "eos" /\ decoded' = decoded /\ infoChanges' = infoChanges
          /\ UNCHANGED <<slot, video_mutex, frm_eos, displayVars, mpc>>
    BY <1>1 DEF GetFrame
  <2>2. Posted' = Posted
    BY <2>1
  <2>3. TypeOK'
    BY <2>1
  <2>4. PairIntact' /\ NewestKept' /\ DisplayOrder'
    BY <2>1, <2>2
  <2>5. MutexHeld' /\ SlotHolds' /\ ShutdownOrder' /\ ResolutionFirst'
    BY <2>1, <2>2
  <2> QED
    BY <2>3, <2>4, <2>5
<1>2. CASE InitBuffer
  BY <1>2 DEF InitBuffer
<1>3. CASE FrameLock
  BY <1>3 DEF FrameLock
<1>4. CASE SetFb
  BY <1>4 DEF SetFb
<1>5. CASE SetPts
  BY <1>5 DEF SetPts
<1>6. CASE FrameSignal
  BY <1>6 DEF FrameSignal
<1>7. CASE FrameUnlock
  BY <1>7 DEF FrameUnlock
<1>8. CASE FrameEos
  BY <1>8 DEF FrameEos
<1> QED
  BY <1>1, <1>2, <1>3, <1>4, <1>5, <1>6, <1>7, <1>8 DEF FrameBody

\* Every step of the display thread preserves the invariant.
LEMMA DisplayStep == HandoverInv /\ (DisplayBody \/ SpuriousWakeup) => HandoverInv'
<1> SUFFICES ASSUME HandoverInv, DisplayBody \/ SpuriousWakeup
             PROVE  HandoverInv'
  OBVIOUS
<1> USE HandoverAssumption
    DEF HandoverInv, TypeOK, PairIntact, NewestKept, MutexHeld, SlotHolds,
        DisplayOrder, ShutdownOrder, ResolutionFirst, Picture, Posted, FramePC,
        DisplayPC, MainPC, slot, frameVars, displayVars, Acquire, Release,
        CondSignal
<1>1. CASE DisplayTest
  BY <1>1 DEF DisplayTest
<1>2. CASE DisplayLock
  BY <1>2 DEF DisplayLock
<1>3. CASE DisplayCheck
  BY <1>3 DEF DisplayCheck
<1>4. CASE SpuriousWakeup
  BY <1>4 DEF SpuriousWakeup
<1>5. CASE DisplayRelock
  BY <1>5 DEF DisplayRelock
<1>6. CASE DisplayWoken
  BY <1>6 DEF DisplayWoken
<1>7. CASE DisplayTake
  BY <1>7 DEF DisplayTake
<1>8. CASE DisplayClear
  BY <1>8 DEF DisplayClear
<1>9. CASE DisplayUnlock
  BY <1>9 DEF DisplayUnlock
<1>10. CASE DisplayShow
  BY <1>10 DEF DisplayShow
<1> QED
  BY <1>1, <1>2, <1>3, <1>4, <1>5, <1>6, <1>7, <1>8, <1>9, <1>10 DEF DisplayBody

\* Every step of main() preserves the invariant.
LEMMA MainStep == HandoverInv /\ (FeedEos \/ MainBody) => HandoverInv'
<1> SUFFICES ASSUME HandoverInv, FeedEos \/ MainBody
             PROVE  HandoverInv'
  OBVIOUS
<1> USE HandoverAssumption
    DEF HandoverInv, TypeOK, PairIntact, NewestKept, MutexHeld, SlotHolds,
        DisplayOrder, ShutdownOrder, ResolutionFirst, Picture, Posted, FramePC,
        DisplayPC, MainPC, slot, frameVars, displayVars, Acquire, Release,
        CondSignal
<1>1. CASE FeedEos
  BY <1>1 DEF FeedEos
<1>2. CASE JoinFrame
  BY <1>2 DEF JoinFrame
<1>3. CASE MainLock
  BY <1>3 DEF MainLock
<1>4. CASE MainSignal
  BY <1>4 DEF MainSignal
<1>5. CASE MainUnlock
  BY <1>5 DEF MainUnlock
<1>6. CASE JoinDisplay
  BY <1>6 DEF JoinDisplay
<1>7. CASE DestroySync
  BY <1>7 DEF DestroySync
<1>8. CASE FreeBuffers
  BY <1>8 DEF FreeBuffers
<1> QED
  BY <1>1, <1>2, <1>3, <1>4, <1>5, <1>6, <1>7, <1>8 DEF MainBody

\* A step that changes nothing preserves the invariant.
LEMMA StutterStep == HandoverInv /\ UNCHANGED vars => HandoverInv'
  BY DEF HandoverInv, TypeOK, PairIntact, NewestKept, MutexHeld, SlotHolds,
         DisplayOrder, ShutdownOrder, ResolutionFirst, Picture, Posted, vars

\* The invariant is inductive, so that it holds in every reachable state.
THEOREM Invariance == Spec => []HandoverInv
<1>1. HandoverInv /\ [Next]_vars => HandoverInv'
  BY FrameStep, DisplayStep, MainStep, StutterStep DEF Next, Terminated
<1> QED
  BY <1>1, InitInv, PTL DEF Spec

-----------------------------------------------------------------------------
(* The safety properties.                                                  *)

\* Every variable keeps its type; frame and display thread stay in their loops.
THEOREM TypeCorrect == Spec => []TypeOK
  BY Invariance, PTL DEF HandoverInv

\* The display never mixes the frame buffer of one picture with the time stamp
\* of another, however many pictures pass through the slot.
THEOREM PairCorrect == Spec => []PairIntact
  BY Invariance, PTL DEF HandoverInv

\* The slot never loses the newest picture.
THEOREM NewestCorrect == Spec => []NewestKept
  BY Invariance, PTL DEF HandoverInv

\* With one resolution, the modeset and the commits never share video_request:
\* during the first info change nothing was decoded, so there is nothing to show.
THEOREM RequestCorrect == Spec => []RequestExclusive
<1>1. HandoverInv => RequestExclusive
  BY DEF HandoverInv, TypeOK, DisplayOrder, ResolutionFirst, RequestExclusive,
         Posted
<1> QED
  BY <1>1, Invariance, PTL

\* When the mutex is destroyed and the buffers are freed, both threads have
\* ended and nobody holds the mutex.
THEOREM TeardownCorrect == Spec => []TeardownSafe
<1>1. HandoverInv => TeardownSafe
  BY DEF HandoverInv, TypeOK, MutexHeld, ShutdownOrder, TeardownSafe
<1> QED
  BY <1>1, Invariance, PTL

\* No picture is committed again after it reached the screen.
THEOREM NeverTwice == Spec => NoPictureTwice
<1>1. HandoverInv => (DisplayShow => screen.pts < taken.pts)
  BY DEF HandoverInv, DisplayOrder, DisplayShow
<1> QED
  BY <1>1, Invariance, PTL DEF NoPictureTwice

-----------------------------------------------------------------------------
(* The refinement: each step of the threads is a step of VideoSlot or      *)
(* leaves posted, taken and screen alone.                                  *)

\* The threads start where VideoSlot starts.
LEMMA InitRefines == Init => VS!Init
  BY DEF Init, VS!Init, Posted, Picture, VS!Picture

\* SetPts posts, DisplayTake takes, DisplayShow shows or is turned down.
LEMMA StepRefines == HandoverInv /\ [Next]_vars => [VS!Next]_VS!vars
<1> SUFFICES ASSUME HandoverInv, [Next]_vars
             PROVE  [VS!Next]_VS!vars
  OBVIOUS
<1> USE DEF Posted, slot, frameVars, displayVars, VS!vars
<1>1. CASE SetPts
  <2>1. Posted < MaxFrames /\ Posted' = Posted + 1
    BY <1>1, HandoverAssumption DEF SetPts, HandoverInv, TypeOK
  <2> QED
    BY <1>1, <2>1 DEF SetPts, VS!Next, VS!Post
<1>2. CASE DisplayTake
  <2>1. taken.pts < Posted /\ taken' = Picture(Posted)
    BY <1>2 DEF DisplayTake, HandoverInv, TypeOK, MutexHeld, SlotHolds,
                DisplayOrder, Picture
  <2>2. Posted' = Posted /\ screen' = screen
    BY <1>2 DEF DisplayTake
  <2> QED
    BY <2>1, <2>2 DEF VS!Next, VS!Take, VS!Picture, Picture
<1>3. CASE DisplayShow
  BY <1>3 DEF DisplayShow, HandoverInv, DisplayOrder, VS!Next, VS!Show
<1>4. CASE GetFrame
  BY <1>4 DEF GetFrame, HandoverInv, TypeOK
<1>5. CASE InitBuffer \/ FrameLock \/ SetFb \/ FrameSignal \/ FrameUnlock
           \/ FrameEos
  BY <1>5 DEF InitBuffer, FrameLock, SetFb, FrameSignal, FrameUnlock, FrameEos
<1>6. CASE DisplayTest \/ DisplayLock \/ DisplayCheck \/ DisplayRelock
           \/ DisplayWoken \/ DisplayClear \/ DisplayUnlock \/ SpuriousWakeup
  BY <1>6 DEF DisplayTest, DisplayLock, DisplayCheck, DisplayRelock,
              DisplayWoken, DisplayClear, DisplayUnlock, SpuriousWakeup
<1>7. CASE FeedEos \/ MainBody
  BY <1>7 DEF FeedEos, MainBody, JoinFrame, MainLock, MainSignal, MainUnlock,
              JoinDisplay, DestroySync, FreeBuffers
<1>8. CASE UNCHANGED vars
  BY <1>8 DEF vars
<1> QED
  BY <1>1, <1>2, <1>3, <1>4, <1>5, <1>6, <1>7, <1>8
  DEF Next, FrameBody, DisplayBody, Terminated

\* The threads, with their mutex, their condition variable and the unlocked
\* frm_eos, implement the slot.
THEOREM Refinement == Spec => SlotRefinement
  BY InitRefines, StepRefines, Invariance, PTL DEF Spec, SlotRefinement, VS!Spec

=============================================================================
