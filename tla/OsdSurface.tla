----------------------------- MODULE OsdSurface -----------------------------
(***************************************************************************)
(* The two buffers of the on-screen display: __OSD_THREAD__ (src/osd.c)    *)
(* paints the one that is not selected and then selects it under           *)
(* osd_mutex; __DISPLAY_THREAD__ (src/main.cpp) puts the selected one into *)
(* every commit of a video picture, under the same mutex.  The kernel      *)
(* latches an accepted commit at the next vertical blank.                  *)
(***************************************************************************)
EXTENDS Naturals

CONSTANT
  MaxPaints     \* bound: times the OSD thread paints

ASSUME OsdAssumption == MaxPaints \in Nat \ {0}

VARIABLES
  osd_buf_switch,     \* the selected buffer
  osd_mutex,          \* who holds it
  osd_thread_signal,  \* set by sig_handler
  opc,                \* where __OSD_THREAD__ is
  buf_idx,            \* the buffer it paints
  paints,             \* number of paintings begun
  version,            \* version[b]: number of the painting buffer b has
  half,               \* the buffers with an unfinished painting
  dpc,                \* where __DISPLAY_THREAD__ is
  picked,             \* the buffer in its request
  pending,            \* the buffer of the accepted, not yet latched commit
  scan,               \* the buffer the OSD plane shows
  sinceFlip,          \* history: how far a commit made after the last flip got
  overrun,            \* history: a painting began before such a commit was latched
  reinit              \* history: osd_mutex was initialised while it was held

paintVars   == <<buf_idx, paints, version, half>>
osdVars     == <<opc, paintVars>>
displayVars == <<dpc, picked>>
kernelVars  == <<pending, scan>>
history     == <<sinceFlip, overrun, reinit>>

vars == <<osd_buf_switch, osd_mutex, osd_thread_signal, osdVars, displayVars,
          kernelVars, history>>

Bufs      == 0..1
None      == 2
OsdPC     == {"init", "modeset", "loop", "paint", "lock", "flip", "unlock",
              "sleep", "done"}
DisplayPC == {"idle", "lock", "pick", "commit", "unlock"}
Owners    == {"nobody", "osd", "display"}

Init ==
  /\ osd_buf_switch = 0 /\ osd_mutex = "nobody" /\ osd_thread_signal = FALSE
  /\ opc = "init" /\ buf_idx = 0 /\ paints = 0
  /\ version = [b \in Bufs |-> 0] /\ half = {}
  /\ dpc = "idle" /\ picked = 0
  /\ pending = None /\ scan = None
  /\ sinceFlip = "latched" /\ overrun = FALSE /\ reinit = FALSE

-----------------------------------------------------------------------------
(* osd_mutex, and what a step of one thread leaves alone.                  *)

Acquire(t) == osd_mutex = "nobody" /\ osd_mutex' = t
Release    == osd_mutex' = "nobody"

OsdGoes(from, to) ==
  /\ opc = from /\ opc' = to
  /\ UNCHANGED <<osd_thread_signal, displayVars, pending>>

DisplayGoes(from, to) ==
  /\ dpc = from /\ dpc' = to
  /\ UNCHANGED <<osd_buf_switch, osd_thread_signal, osdVars, scan, overrun, reinit>>

-----------------------------------------------------------------------------
(* __OSD_THREAD__                                                          *)

\* pthread_mutex_init: main() started the display thread before this thread,
\* and zeroed memory already is a mutex it can lock.
InitMutex ==
  /\ OsdGoes("init", "modeset") /\ Release
  /\ reinit' = (osd_mutex # "nobody")
  /\ UNCHANGED <<osd_buf_switch, paintVars, scan, sinceFlip, overrun>>

\* A blocking commit of the selected buffer: it waits for the one before it.
OsdModeset ==
  /\ OsdGoes("modeset", "loop") /\ pending = None
  /\ scan' = osd_buf_switch
  /\ UNCHANGED <<osd_buf_switch, osd_mutex, paintVars, history>>

\* modeset_paint_buffer clears the other buffer and draws into it.
Paint ==
  /\ OsdGoes("loop", "paint") /\ ~osd_thread_signal /\ paints < MaxPaints
  /\ buf_idx' = 1 - osd_buf_switch
  /\ half' = half \cup {buf_idx'}
  /\ paints' = paints + 1
  /\ overrun' = (overrun \/ sinceFlip # "latched")
  /\ UNCHANGED <<osd_buf_switch, osd_mutex, version, scan, sinceFlip, reinit>>

\* Mutant: the painting never leaves paints behind.
PaintEndsTwoAhead ==
  /\ OsdGoes("paint", "lock")
  /\ version' = [version EXCEPT ![buf_idx] = paints + 1]
  /\ half' = half \ {buf_idx}
  /\ UNCHANGED <<osd_buf_switch, osd_mutex, buf_idx, paints, scan, history>>

PaintEnds ==
  /\ OsdGoes("paint", "lock")
  /\ version' = [version EXCEPT ![buf_idx] = paints]
  /\ half' = half \ {buf_idx}
  /\ UNCHANGED <<osd_buf_switch, osd_mutex, buf_idx, paints, scan, history>>

OsdLock ==
  /\ OsdGoes("lock", "flip") /\ Acquire("osd")
  /\ UNCHANGED <<osd_buf_switch, paintVars, scan, history>>

Flip ==
  /\ OsdGoes("flip", "unlock")
  /\ osd_buf_switch' = buf_idx
  /\ sinceFlip' = "flipped"
  /\ UNCHANGED <<osd_mutex, paintVars, scan, overrun, reinit>>

OsdUnlock ==
  /\ OsdGoes("unlock", "sleep") /\ Release
  /\ UNCHANGED <<osd_buf_switch, paintVars, scan, history>>

\* usleep(refresh_frequency_ms * 1000)
OsdSleep ==
  /\ OsdGoes("sleep", "loop")
  /\ UNCHANGED <<osd_buf_switch, osd_mutex, paintVars, scan, history>>

OsdEnd ==
  /\ OsdGoes("loop", "done") /\ osd_thread_signal
  /\ UNCHANGED <<osd_buf_switch, osd_mutex, paintVars, scan, history>>

-----------------------------------------------------------------------------
(* __DISPLAY_THREAD__, from the picture it took to its commit              *)

DisplayPicture ==
  DisplayGoes("idle", "lock") /\ UNCHANGED <<osd_mutex, picked, pending, sinceFlip>>

\* Mutant: the commit is prepared without osd_mutex.
DisplayLockDropped ==
  DisplayGoes("lock", "pick") /\ UNCHANGED <<osd_mutex, picked, pending, sinceFlip>>

DisplayLock ==
  /\ DisplayGoes("lock", "pick") /\ Acquire("display")
  /\ UNCHANGED <<picked, pending, sinceFlip>>

\* Mutant: the buffer that is not selected.
DisplayPickOther ==
  /\ DisplayGoes("pick", "commit")
  /\ picked' = 1 - osd_buf_switch
  /\ UNCHANGED <<osd_mutex, pending, sinceFlip>>

DisplayPick ==
  /\ DisplayGoes("pick", "commit")
  /\ picked' = osd_buf_switch
  /\ UNCHANGED <<osd_mutex, pending, sinceFlip>>

\* drmModeAtomicCommit, not blocking: refused while a commit is pending, and
\* for whatever other reason the kernel has; the result is not looked at.
DisplayCommit ==
  /\ DisplayGoes("commit", "unlock")
  /\ \/ /\ pending = None
        /\ pending' = picked
        /\ sinceFlip' = IF sinceFlip = "flipped" THEN "accepted" ELSE sinceFlip
     \/ UNCHANGED <<pending, sinceFlip>>
  /\ UNCHANGED <<osd_mutex, picked>>

\* Mutant: osd_mutex is not given back when the commit was refused.
DisplayUnlockIfAccepted ==
  /\ DisplayGoes("unlock", "idle")
  /\ osd_mutex' = IF pending = None THEN osd_mutex ELSE "nobody"
  /\ UNCHANGED <<picked, pending, sinceFlip>>

DisplayUnlock ==
  DisplayGoes("unlock", "idle") /\ Release /\ UNCHANGED <<picked, pending, sinceFlip>>

-----------------------------------------------------------------------------
(* The kernel, and the user                                                *)

VBlank ==
  /\ pending # None
  /\ scan' = pending
  /\ pending' = None
  /\ sinceFlip' = IF sinceFlip = "accepted" THEN "latched" ELSE sinceFlip
  /\ UNCHANGED <<osd_buf_switch, osd_mutex, osd_thread_signal, osdVars, displayVars,
                 overrun, reinit>>

Signal ==
  /\ ~osd_thread_signal
  /\ osd_thread_signal' = TRUE
  /\ UNCHANGED <<osd_buf_switch, osd_mutex, osdVars, displayVars, kernelVars, history>>

-----------------------------------------------------------------------------
OsdBody     == \/ InitMutex \/ OsdModeset \/ Paint \/ PaintEnds \/ OsdLock
               \/ Flip \/ OsdUnlock \/ OsdSleep \/ OsdEnd
DisplayBody == DisplayLock \/ DisplayPick \/ DisplayCommit \/ DisplayUnlock

Next == OsdBody \/ DisplayPicture \/ DisplayBody \/ VBlank \/ Signal

Spec == Init /\ [][Next]_vars

\* The threads go on when they can and the kernel latches what it accepted; a
\* video picture or a signal may never come.  OsdLock competes with the display
\* for the mutex again and again, and a mutex is not fair: only strong fairness
\* says that the thread is served, which the rate of pictures (at most one per
\* few milliseconds, with a mutex free in between) amounts to.  The kernel lets
\* no commit pass the blocking one that waits, hence OsdModeset.
FairSpec == /\ Spec
            /\ WF_vars(OsdBody) /\ SF_vars(OsdLock) /\ SF_vars(OsdModeset)
            /\ WF_vars(DisplayBody) /\ WF_vars(VBlank)

-----------------------------------------------------------------------------
(* Properties                                                              *)

TypeOK ==
  /\ osd_buf_switch \in Bufs /\ osd_mutex \in Owners
  /\ osd_thread_signal \in BOOLEAN
  /\ opc \in OsdPC /\ buf_idx \in Bufs /\ paints \in 0..MaxPaints
  /\ version \in [Bufs -> 0..MaxPaints] /\ half \subseteq Bufs
  /\ dpc \in DisplayPC /\ picked \in Bufs
  /\ pending \in Bufs \cup {None} /\ scan \in Bufs \cup {None}
  /\ sinceFlip \in {"flipped", "accepted", "latched"}
  /\ overrun \in BOOLEAN /\ reinit \in BOOLEAN

\* While commits keep up with the OSD thread, the screen shows, and is about to
\* show, finished paintings only: a buffer is painted when the other one is both
\* selected and on the screen (osd.c:355-362 and main.cpp:297-302).
ScreenWhole ==
  ~overrun /\ ~reinit => scan \notin half /\ pending \notin half

\* While commits keep up, the OSD on the screen never goes back to an older
\* painting.
ScreenForward ==
  [][VBlank /\ ~overrun /\ ~reinit /\ scan # None =>
       version[pending] >= version[scan]]_vars

\* A signal ends the OSD thread, however the display thread uses the mutex, so
\* that main() can join it (main.cpp:751-754).
OsdEnds == osd_thread_signal ~> (opc = "done")

-----------------------------------------------------------------------------
(* What is true in every state and carries the proofs of the first two      *)
(* from one step to the next (OsdSurfaceProofs).                            *)

Calm  == ~overrun /\ ~reinit
Other == 1 - osd_buf_switch

\* The buffer that is painted is the one that is not selected, until it is.
Painted ==
  /\ half = IF opc = "paint" THEN {buf_idx} ELSE {}
  /\ opc \in {"paint", "lock", "flip"} => buf_idx = Other

\* The mutex keeps a flip out of the time from the display thread's choice of a
\* buffer to its commit.
MutexHeld ==
  /\ opc = "init" => ~reinit
  /\ ~reinit => /\ dpc \in {"pick", "commit", "unlock"} <=> osd_mutex = "display"
                /\ opc \in {"flip", "unlock"} <=> osd_mutex = "osd"
                /\ dpc = "commit" => picked = osd_buf_switch

\* What the kernel has, by what became of the first commit after the last flip.
Latch ==
  Calm =>
    /\ opc \in {"paint", "lock", "flip"} => sinceFlip = "latched"
    /\ sinceFlip = "latched" => {scan, pending} \subseteq {osd_buf_switch, None}
    /\ sinceFlip = "flipped" => {scan, pending} \subseteq {Other, None}
    /\ sinceFlip = "accepted" => pending = osd_buf_switch /\ scan \in {Other, None}
    /\ opc \in {"init", "modeset"} => sinceFlip = "latched"

\* The selected painting is the newer one, but between the end of a painting and
\* its flip.
Newer ==
  /\ \A b \in Bufs : version[b] <= paints
  /\ IF opc \in {"lock", "flip"} THEN version[Other] >= version[osd_buf_switch]
                                ELSE version[osd_buf_switch] >= version[Other]

OsdInv == TypeOK /\ Painted /\ MutexHeld /\ Latch /\ Newer
=============================================================================
