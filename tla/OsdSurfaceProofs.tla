-------------------------- MODULE OsdSurfaceProofs ---------------------------
(***************************************************************************)
(* Proofs about OsdSurface for any number of paintings: OsdInv is          *)
(* inductive, and the screen shows finished paintings only, in order.      *)
(***************************************************************************)
EXTENDS OsdSurface, TLAPS

USE OsdAssumption DEF Bufs, None, OsdPC, DisplayPC, Owners, Other, Calm

\* The invariant holds in the initial state.
LEMMA InitInv == Init => OsdInv
<1> SUFFICES ASSUME Init PROVE OsdInv
  OBVIOUS
<1> USE DEF Init
<1>1. TypeOK
  <2>1. 0 \in 0..MaxPaints
    OBVIOUS
  <2>2. version \in [Bufs -> 0..MaxPaints] /\ paints \in 0..MaxPaints
    BY <2>1
  <2>3. /\ half \subseteq Bufs
        /\ osd_thread_signal \in BOOLEAN /\ overrun \in BOOLEAN /\ reinit \in BOOLEAN
    BY Zenon
  <2> QED
    BY <2>2, <2>3 DEF TypeOK
<1>2. MutexHeld
  BY DEF MutexHeld
<1>3. Latch
  BY DEF Latch
<1>4. Painted /\ Newer
  BY DEF Painted, Newer
<1> QED
  BY <1>1, <1>2, <1>3, <1>4 DEF OsdInv

\* The OSD thread, up to the end of a painting.
LEMMA PaintStep == OsdInv /\ (InitMutex \/ OsdModeset \/ Paint \/ PaintEnds) => OsdInv'
<1> SUFFICES ASSUME OsdInv, InitMutex \/ OsdModeset \/ Paint \/ PaintEnds PROVE OsdInv'
  OBVIOUS
<1> USE DEF OsdGoes, DisplayGoes, Acquire, Release, paintVars, displayVars, osdVars,
            kernelVars, history
<1>1. CASE InitMutex
  <2>1. TypeOK'
    BY <1>1 DEF InitMutex, OsdInv, TypeOK
  <2>2. Painted'
    BY <1>1 DEF InitMutex, OsdInv, Painted, TypeOK
  <2>3. MutexHeld'
    <3>1. ~reinit /\ opc' = "modeset" /\ dpc' = dpc /\ osd_mutex' = "nobody"
      BY <1>1 DEF InitMutex, MutexHeld, OsdInv
    <3>2. CASE osd_mutex = "nobody"
      BY <1>1, <3>1, <3>2 DEF InitMutex, MutexHeld, OsdInv, TypeOK
    <3>3. CASE osd_mutex # "nobody"
      <4>1. reinit'
        BY <1>1, <3>3, Zenon DEF InitMutex
      <4> QED
        BY <3>1, <4>1 DEF MutexHeld
    <3> QED
      BY <3>2, <3>3
  <2>4. Latch'
    <3>1. ~reinit /\ UNCHANGED <<osd_buf_switch, scan, pending, sinceFlip, overrun>>
      BY <1>1 DEF InitMutex, MutexHeld, OsdInv
    <3>2. opc = "init" /\ opc' = "modeset"
      BY <1>1 DEF InitMutex
    <3> QED
      BY <3>1, <3>2 DEF OsdInv, Latch
  <2>5. Newer'
    BY <1>1 DEF InitMutex, OsdInv, Newer, Painted, TypeOK
  <2> QED
    BY <2>1, <2>2, <2>3, <2>4, <2>5 DEF OsdInv
<1>2. CASE OsdModeset
  <2>1. TypeOK'
    BY <1>2 DEF OsdModeset, OsdInv, TypeOK
  <2>2. Painted'
    BY <1>2 DEF OsdModeset, OsdInv, Painted, TypeOK
  <2>3. MutexHeld'
    BY <1>2 DEF OsdModeset, OsdInv, MutexHeld, TypeOK
  <2>4. Latch'
    BY <1>2 DEF OsdModeset, OsdInv, Latch, MutexHeld, Painted, TypeOK
  <2>5. Newer'
    BY <1>2 DEF OsdModeset, OsdInv, Newer, Painted, TypeOK
  <2> QED
    BY <2>1, <2>2, <2>3, <2>4, <2>5 DEF OsdInv
<1>3. CASE Paint
  <2>1. TypeOK'
    BY <1>3 DEF Paint, OsdInv, TypeOK
  <2>2. Painted'
    BY <1>3 DEF Paint, OsdInv, Painted, TypeOK
  <2>3. MutexHeld'
    BY <1>3 DEF Paint, OsdInv, MutexHeld, TypeOK
  <2>4. Latch'
    BY <1>3 DEF Paint, OsdInv, Latch, MutexHeld, Painted, TypeOK
  <2>5. Newer'
    BY <1>3 DEF Paint, OsdInv, Newer, Painted, TypeOK
  <2> QED
    BY <2>1, <2>2, <2>3, <2>4, <2>5 DEF OsdInv
<1>4. CASE PaintEnds
  <2>1. TypeOK'
    BY <1>4 DEF PaintEnds, OsdInv, TypeOK
  <2>2. Painted'
    BY <1>4 DEF PaintEnds, OsdInv, Painted, TypeOK
  <2>3. MutexHeld'
    BY <1>4 DEF PaintEnds, OsdInv, MutexHeld, TypeOK
  <2>4. Latch'
    BY <1>4 DEF PaintEnds, OsdInv, Latch, MutexHeld, Painted, TypeOK
  <2>5. Newer'
    BY <1>4 DEF PaintEnds, OsdInv, Newer, Painted, TypeOK
  <2> QED
    BY <2>1, <2>2, <2>3, <2>4, <2>5 DEF OsdInv
<1> QED
  BY <1>1, <1>2, <1>3, <1>4

\* The OSD thread, from the lock to the end of its sleep.
LEMMA FlipStep == OsdInv /\ (OsdLock \/ Flip \/ OsdUnlock \/ OsdSleep \/ OsdEnd) => OsdInv'
<1> SUFFICES ASSUME OsdInv, OsdLock \/ Flip \/ OsdUnlock \/ OsdSleep \/ OsdEnd PROVE OsdInv'
  OBVIOUS
<1> USE DEF OsdGoes, DisplayGoes, Acquire, Release, paintVars, displayVars, osdVars,
            kernelVars, history
<1>1. CASE OsdLock
  <2>1. TypeOK'
    BY <1>1 DEF OsdLock, OsdInv, TypeOK
  <2>2. Painted'
    BY <1>1 DEF OsdLock, OsdInv, Painted, TypeOK
  <2>3. MutexHeld'
    BY <1>1 DEF OsdLock, OsdInv, MutexHeld, TypeOK
  <2>4. Latch'
    BY <1>1 DEF OsdLock, OsdInv, Latch, MutexHeld, Painted, TypeOK
  <2>5. Newer'
    BY <1>1 DEF OsdLock, OsdInv, Newer, Painted, TypeOK
  <2> QED
    BY <2>1, <2>2, <2>3, <2>4, <2>5 DEF OsdInv
<1>2. CASE Flip
  <2>1. TypeOK'
    BY <1>2 DEF Flip, OsdInv, TypeOK
  <2>2. Painted'
    BY <1>2 DEF Flip, OsdInv, Painted, TypeOK
  <2>3. MutexHeld'
    BY <1>2 DEF Flip, OsdInv, MutexHeld, TypeOK
  <2>4. Latch'
    BY <1>2 DEF Flip, OsdInv, Latch, MutexHeld, Painted, TypeOK
  <2>5. Newer'
    BY <1>2 DEF Flip, OsdInv, Newer, Painted, TypeOK
  <2> QED
    BY <2>1, <2>2, <2>3, <2>4, <2>5 DEF OsdInv
<1>3. CASE OsdUnlock
  <2>1. TypeOK'
    BY <1>3 DEF OsdUnlock, OsdInv, TypeOK
  <2>2. Painted'
    BY <1>3 DEF OsdUnlock, OsdInv, Painted, TypeOK
  <2>3. MutexHeld'
    BY <1>3 DEF OsdUnlock, OsdInv, MutexHeld, TypeOK
  <2>4. Latch'
    BY <1>3 DEF OsdUnlock, OsdInv, Latch, MutexHeld, Painted, TypeOK
  <2>5. Newer'
    BY <1>3 DEF OsdUnlock, OsdInv, Newer, Painted, TypeOK
  <2> QED
    BY <2>1, <2>2, <2>3, <2>4, <2>5 DEF OsdInv
<1>4. CASE OsdSleep
  <2>1. TypeOK'
    BY <1>4 DEF OsdSleep, OsdInv, TypeOK
  <2>2. Painted'
    BY <1>4 DEF OsdSleep, OsdInv, Painted, TypeOK
  <2>3. MutexHeld'
    BY <1>4 DEF OsdSleep, OsdInv, MutexHeld, TypeOK
  <2>4. Latch'
    BY <1>4 DEF OsdSleep, OsdInv, Latch, MutexHeld, Painted, TypeOK
  <2>5. Newer'
    BY <1>4 DEF OsdSleep, OsdInv, Newer, Painted, TypeOK
  <2> QED
    BY <2>1, <2>2, <2>3, <2>4, <2>5 DEF OsdInv
<1>5. CASE OsdEnd
  <2>1. TypeOK'
    BY <1>5 DEF OsdEnd, OsdInv, TypeOK
  <2>2. Painted'
    BY <1>5 DEF OsdEnd, OsdInv, Painted, TypeOK
  <2>3. MutexHeld'
    BY <1>5 DEF OsdEnd, OsdInv, MutexHeld, TypeOK
  <2>4. Latch'
    BY <1>5 DEF OsdEnd, OsdInv, Latch, MutexHeld, Painted, TypeOK
  <2>5. Newer'
    BY <1>5 DEF OsdEnd, OsdInv, Newer, Painted, TypeOK
  <2> QED
    BY <2>1, <2>2, <2>3, <2>4, <2>5 DEF OsdInv
<1> QED
  BY <1>1, <1>2, <1>3, <1>4, <1>5

\* The display thread.
LEMMA DisplayStep == OsdInv /\ (DisplayPicture \/ DisplayLock \/ DisplayPick \/ DisplayCommit \/ DisplayUnlock) => OsdInv'
<1> SUFFICES ASSUME OsdInv, DisplayPicture \/ DisplayLock \/ DisplayPick \/ DisplayCommit \/ DisplayUnlock PROVE OsdInv'
  OBVIOUS
<1> USE DEF OsdGoes, DisplayGoes, Acquire, Release, paintVars, displayVars, osdVars,
            kernelVars, history
<1>1. CASE DisplayPicture
  <2>1. TypeOK'
    BY <1>1 DEF DisplayPicture, OsdInv, TypeOK
  <2>2. Painted'
    BY <1>1 DEF DisplayPicture, OsdInv, Painted, TypeOK
  <2>3. MutexHeld'
    BY <1>1 DEF DisplayPicture, OsdInv, MutexHeld, TypeOK
  <2>4. Latch'
    BY <1>1 DEF DisplayPicture, OsdInv, Latch, MutexHeld, Painted, TypeOK
  <2>5. Newer'
    BY <1>1 DEF DisplayPicture, OsdInv, Newer, Painted, TypeOK
  <2> QED
    BY <2>1, <2>2, <2>3, <2>4, <2>5 DEF OsdInv
<1>2. CASE DisplayLock
  <2>1. TypeOK'
    BY <1>2 DEF DisplayLock, OsdInv, TypeOK
  <2>2. Painted'
    BY <1>2 DEF DisplayLock, OsdInv, Painted, TypeOK
  <2>3. MutexHeld'
    BY <1>2 DEF DisplayLock, OsdInv, MutexHeld, TypeOK
  <2>4. Latch'
    BY <1>2 DEF DisplayLock, OsdInv, Latch, MutexHeld, Painted, TypeOK
  <2>5. Newer'
    BY <1>2 DEF DisplayLock, OsdInv, Newer, Painted, TypeOK
  <2> QED
    BY <2>1, <2>2, <2>3, <2>4, <2>5 DEF OsdInv
<1>3. CASE DisplayPick
  <2>1. TypeOK'
    BY <1>3 DEF DisplayPick, OsdInv, TypeOK
  <2>2. Painted'
    BY <1>3 DEF DisplayPick, OsdInv, Painted, TypeOK
  <2>3. MutexHeld'
    BY <1>3 DEF DisplayPick, OsdInv, MutexHeld, TypeOK
  <2>4. Latch'
    BY <1>3 DEF DisplayPick, OsdInv, Latch, MutexHeld, Painted, TypeOK
  <2>5. Newer'
    BY <1>3 DEF DisplayPick, OsdInv, Newer, Painted, TypeOK
  <2> QED
    BY <2>1, <2>2, <2>3, <2>4, <2>5 DEF OsdInv
<1>4. CASE DisplayCommit
  <2>1. TypeOK'
    BY <1>4 DEF DisplayCommit, OsdInv, TypeOK
  <2>2. Painted'
    BY <1>4 DEF DisplayCommit, OsdInv, Painted, TypeOK
  <2>3. MutexHeld'
    BY <1>4 DEF DisplayCommit, OsdInv, MutexHeld, TypeOK
  <2>4. Latch'
    BY <1>4 DEF DisplayCommit, OsdInv, Latch, MutexHeld, Painted, TypeOK
  <2>5. Newer'
    BY <1>4 DEF DisplayCommit, OsdInv, Newer, Painted, TypeOK
  <2> QED
    BY <2>1, <2>2, <2>3, <2>4, <2>5 DEF OsdInv
<1>5. CASE DisplayUnlock
  <2>1. TypeOK'
    BY <1>5 DEF DisplayUnlock, OsdInv, TypeOK
  <2>2. Painted'
    BY <1>5 DEF DisplayUnlock, OsdInv, Painted, TypeOK
  <2>3. MutexHeld'
    BY <1>5 DEF DisplayUnlock, OsdInv, MutexHeld, TypeOK
  <2>4. Latch'
    BY <1>5 DEF DisplayUnlock, OsdInv, Latch, MutexHeld, Painted, TypeOK
  <2>5. Newer'
    BY <1>5 DEF DisplayUnlock, OsdInv, Newer, Painted, TypeOK
  <2> QED
    BY <2>1, <2>2, <2>3, <2>4, <2>5 DEF OsdInv
<1> QED
  BY <1>1, <1>2, <1>3, <1>4, <1>5

\* The vertical blank and the signal.
LEMMA KernelStep == OsdInv /\ (VBlank \/ Signal) => OsdInv'
<1> SUFFICES ASSUME OsdInv, VBlank \/ Signal PROVE OsdInv'
  OBVIOUS
<1> USE DEF OsdGoes, DisplayGoes, Acquire, Release, paintVars, displayVars, osdVars,
            kernelVars, history
<1>1. CASE VBlank
  <2>1. TypeOK'
    BY <1>1 DEF VBlank, OsdInv, TypeOK
  <2>2. Painted'
    BY <1>1 DEF VBlank, OsdInv, Painted, TypeOK
  <2>3. MutexHeld'
    BY <1>1 DEF VBlank, OsdInv, MutexHeld, TypeOK
  <2>4. Latch'
    BY <1>1 DEF VBlank, OsdInv, Latch, MutexHeld, Painted, TypeOK
  <2>5. Newer'
    BY <1>1 DEF VBlank, OsdInv, Newer, Painted, TypeOK
  <2> QED
    BY <2>1, <2>2, <2>3, <2>4, <2>5 DEF OsdInv
<1>2. CASE Signal
  <2>1. TypeOK'
    BY <1>2 DEF Signal, OsdInv, TypeOK
  <2>2. Painted'
    BY <1>2 DEF Signal, OsdInv, Painted, TypeOK
  <2>3. MutexHeld'
    BY <1>2 DEF Signal, OsdInv, MutexHeld, TypeOK
  <2>4. Latch'
    BY <1>2 DEF Signal, OsdInv, Latch, MutexHeld, Painted, TypeOK
  <2>5. Newer'
    BY <1>2 DEF Signal, OsdInv, Newer, Painted, TypeOK
  <2> QED
    BY <2>1, <2>2, <2>3, <2>4, <2>5 DEF OsdInv
<1> QED
  BY <1>1, <1>2

\* Where nothing changes the invariant stays.
LEMMA StutterStep == OsdInv /\ UNCHANGED vars => OsdInv'
  BY DEF OsdInv, TypeOK, Painted, MutexHeld, Latch, Newer, vars, osdVars, paintVars,
         displayVars, kernelVars, history

\* Which version each buffer, the pending commit and the screen have is known in
\* every reachable state.
THEOREM OsdInvariance == Spec => []OsdInv
<1>1. OsdInv /\ [Next]_vars => OsdInv'
  BY PaintStep, FlipStep, DisplayStep, KernelStep, StutterStep
  DEF Next, OsdBody, DisplayBody
<1> QED
  BY <1>1, InitInv, PTL DEF Spec

-----------------------------------------------------------------------------
\* Every variable keeps its type.
THEOREM OsdTypeCorrect == Spec => []TypeOK
  BY OsdInvariance, PTL DEF OsdInv

\* While commits keep up with the OSD thread, no unfinished painting is on the
\* screen or on its way there (osd.c:355-362, main.cpp:297-302).
THEOREM WholeCorrect == Spec => []ScreenWhole
<1>1. OsdInv => ScreenWhole
  BY DEF OsdInv, TypeOK, Painted, Latch, ScreenWhole
<1> QED
  BY <1>1, OsdInvariance, PTL

\* While commits keep up, the screen never goes back to an older painting.
THEOREM ForwardCorrect == Spec => ScreenForward
<1>1. OsdInv /\ [Next]_vars
        => [VBlank /\ ~overrun /\ ~reinit /\ scan # None =>
              version[pending] >= version[scan]]_vars
  <2> SUFFICES ASSUME OsdInv, VBlank, ~overrun, ~reinit, scan # None
               PROVE  version[pending] >= version[scan]
    OBVIOUS
  <2> QED
    BY DEF OsdInv, TypeOK, Latch, Newer, VBlank
<1> QED
  BY <1>1, OsdInvariance, PTL DEF Spec, ScreenForward
=============================================================================
