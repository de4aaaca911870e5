---------------------------- MODULE FrameHandover ----------------------------
(***************************************************************************)
(* The hand-over of decoded pictures from __FRAME_THREAD__ to              *)
(* __DISPLAY_THREAD__ through output_list->video_fb_id and                 *)
(* output_list->decoding_pts, guarded by video_mutex and video_cond, and   *)
(* the part of main() that ends both threads (src/main.cpp).               *)
(*                                                                         *)
(* One action per step between two points where another thread can be      *)
(* seen.  The locks are explicit, so an unlocked access would interleave.  *)
(* A library call that fails an assert() ends the process and is not       *)
(* modelled.                                                               *)
(***************************************************************************)
EXTENDS Naturals

CONSTANTS
  MaxFrames,        \* bound: pictures the decoder delivers
  MaxInfoChanges,   \* bound: resolutions the stream announces
  FbOf              \* FbOf[n]: fb_id of the buffer the n-th picture is in

\* Frame buffer ids are positive (the kernel's object ids are), so 0 is free
\* to mean "empty"; there is at least one picture and one resolution.
ASSUME HandoverAssumption ==
  /\ MaxFrames \in Nat \ {0}
  /\ MaxInfoChanges \in Nat \ {0}
  /\ FbOf \in [1..MaxFrames -> Nat \ {0}]

VARIABLES
  video_fb_id,    \* the slot: fb_id of the newest picture, 0 when empty
  decoding_pts,   \* the slot: time stamp of that picture
  video_mutex,    \* the thread that holds it
  frm_eos,        \* set by the frame thread, read by both loops unlocked
  fpc,            \* where __FRAME_THREAD__ is
  frame_eos,      \* the frame in hand carries the end-of-stream mark
  decoded,        \* number of pictures obtained from the decoder
  infoChanges,    \* number of info-change frames obtained
  dpc,            \* where __DISPLAY_THREAD__ is
  taken,          \* its locals fb_id and decoding_pts
  screen,         \* the picture of the last commit the kernel accepted
  mpc             \* where main() is

vars == <<video_fb_id, decoding_pts, video_mutex, frm_eos, fpc, frame_eos,
          decoded, infoChanges, dpc, taken, screen, mpc>>

slot        == <<video_fb_id, decoding_pts>>
frameVars   == <<fpc, frame_eos, decoded, infoChanges>>
displayVars == <<dpc, taken, screen>>

FramePC   == {"get", "init", "lock", "setfb", "setpts", "signal", "unlock",
              "eos", "done"}
DisplayPC == {"test", "lock", "check", "waiting", "relock", "woken", "take",
              "clear", "unlock", "show", "done"}
MainPC    == {"run", "joinframe", "lock", "signal", "unlock", "joindisplay",
              "destroy", "free", "exit"}

Nobody  == "nobody"
Frame   == "frame"
Display == "display"
Main    == "main"

Picture(n) == [fb |-> IF n = 0 THEN 0 ELSE FbOf[n], pts |-> n]

Init ==
  /\ video_fb_id  = 0
  /\ decoding_pts = 0
  /\ video_mutex  = Nobody
  /\ frm_eos      = FALSE
  /\ fpc = "get" /\ frame_eos = FALSE /\ decoded = 0 /\ infoChanges = 0
  /\ dpc = "test" /\ taken = Picture(0) /\ screen = Picture(0)
  /\ mpc = "run"

-----------------------------------------------------------------------------
(* pthread_mutex_lock, pthread_mutex_unlock and pthread_cond_signal, and   *)
(* what a step of one thread leaves alone.                                 *)

Acquire(t) == video_mutex = Nobody /\ video_mutex' = t
Release    == video_mutex' = Nobody

\* The display thread is the only one that ever waits on video_cond.
CondSignal == dpc' = IF dpc = "waiting" THEN "relock" ELSE dpc

FrameGoes(from, to) ==
  /\ fpc = from /\ fpc' = to
  /\ UNCHANGED <<frame_eos, decoded, infoChanges, taken, screen, mpc>>

DisplayGoes(from, to) ==
  /\ dpc = from /\ dpc' = to
  /\ UNCHANGED <<frm_eos, frameVars, screen, mpc>>

MainGoes(from, to) ==
  /\ mpc = from /\ mpc' = to
  /\ UNCHANGED <<slot, frm_eos, frameVars, taken, screen>>

-----------------------------------------------------------------------------
(* __FRAME_THREAD__                                                        *)

\* decode_get_frame blocks until the decoder has something.  The first frame
\* is an info change; the end-of-stream mark only comes after main() fed it.
\* A frame without buffer and without mark changes nothing: a stuttering step.
GetFrame ==
  /\ fpc = "get"
  /\ \E eos \in BOOLEAN :
       /\ eos => mpc # "run"
       /\ frame_eos' = eos
       /\ \/ /\ infoChanges < MaxInfoChanges
             /\ infoChanges' = infoChanges + 1
             /\ fpc' = "init"
             /\ UNCHANGED decoded
          \/ /\ infoChanges > 0 /\ decoded < MaxFrames
             /\ decoded' = decoded + 1
             /\ fpc' = "lock"
             /\ UNCHANGED infoChanges
          \/ /\ eos
             /\ fpc' = "eos"
             /\ UNCHANGED <<decoded, infoChanges>>
  /\ UNCHANGED <<slot, video_mutex, frm_eos, displayVars, mpc>>

\* init_buffer: new buffers, and a modeset through video_request, which the
\* thread uses, without a lock, for as long as fpc = "init".
InitBuffer ==
  FrameGoes("init", "eos") /\ UNCHANGED <<slot, video_mutex, frm_eos, dpc>>

\* Mutant: the slot is written without video_mutex.
FrameLockDropped ==
  FrameGoes("lock", "setfb") /\ UNCHANGED <<slot, video_mutex, frm_eos, dpc>>

FrameLock ==
  FrameGoes("lock", "setfb") /\ Acquire(Frame) /\ UNCHANGED <<slot, frm_eos, dpc>>

SetFb ==
  /\ FrameGoes("setfb", "setpts")
  /\ video_fb_id' = FbOf[decoded]
  /\ UNCHANGED <<decoding_pts, video_mutex, frm_eos, dpc>>

\* Mutant: the time stamp of the picture after this one.
SetPtsAhead ==
  /\ FrameGoes("setpts", "signal")
  /\ decoding_pts' = decoded + 1
  /\ UNCHANGED <<video_fb_id, video_mutex, frm_eos, dpc>>

SetPts ==
  /\ FrameGoes("setpts", "signal")
  /\ decoding_pts' = decoded
  /\ UNCHANGED <<video_fb_id, video_mutex, frm_eos, dpc>>

\* Mutant: the picture is posted and nobody is told.
FrameSignalForgotten ==
  FrameGoes("signal", "unlock") /\ UNCHANGED <<slot, video_mutex, frm_eos, dpc>>

FrameSignal ==
  FrameGoes("signal", "unlock") /\ CondSignal /\ UNCHANGED <<slot, video_mutex, frm_eos>>

FrameUnlock ==
  FrameGoes("unlock", "eos") /\ Release /\ UNCHANGED <<slot, frm_eos, dpc>>

\* frm_eos is taken from every frame; the loop test follows at once.
FrameEos ==
  /\ FrameGoes("eos", IF frame_eos THEN "done" ELSE "get")
  /\ frm_eos' = frame_eos
  /\ UNCHANGED <<slot, video_mutex, dpc>>

FrameBody == \/ InitBuffer \/ FrameLock \/ SetFb \/ SetPts
             \/ FrameSignal \/ FrameUnlock \/ FrameEos

-----------------------------------------------------------------------------
(* __DISPLAY_THREAD__                                                      *)

\* while (!frm_eos), read without the mutex
DisplayTest ==
  /\ DisplayGoes("test", IF frm_eos THEN "done" ELSE "lock")
  /\ UNCHANGED <<slot, video_mutex, taken>>

DisplayLock ==
  DisplayGoes("lock", "check") /\ Acquire(Display) /\ UNCHANGED <<slot, taken>>

\* while (video_fb_id == 0) pthread_cond_wait(...): the wait gives the mutex
\* up and starts waiting in one step.
DisplayCheck ==
  /\ \/ video_fb_id = 0 /\ DisplayGoes("check", "waiting") /\ Release
     \/ video_fb_id # 0 /\ DisplayGoes("check", "take") /\ UNCHANGED video_mutex
  /\ UNCHANGED <<slot, taken>>

\* POSIX lets a wait return without a signal.
SpuriousWakeup ==
  DisplayGoes("waiting", "relock") /\ UNCHANGED <<slot, video_mutex, taken>>

DisplayRelock ==
  DisplayGoes("relock", "woken") /\ Acquire(Display) /\ UNCHANGED <<slot, taken>>

\* Mutant: no second look at frm_eos after the wait.
DisplayWokenNoEos ==
  DisplayGoes("woken", "check") /\ UNCHANGED <<slot, video_mutex, taken>>

\* The second look at frm_eos: the way out of the wait at shutdown.
DisplayWoken ==
  /\ \/ video_fb_id = 0 /\ frm_eos /\ DisplayGoes("woken", "done") /\ Release
     \/ /\ ~(video_fb_id = 0 /\ frm_eos)
        /\ DisplayGoes("woken", "check") /\ UNCHANGED video_mutex
  /\ UNCHANGED <<slot, taken>>

\* Mutant: the mutex is given up before the slot is emptied.
DisplayTakeUnlocks ==
  /\ DisplayGoes("take", "clear") /\ Release
  /\ taken' = [fb |-> video_fb_id, pts |-> decoding_pts]
  /\ UNCHANGED slot

DisplayTake ==
  /\ DisplayGoes("take", "clear")
  /\ taken' = [fb |-> video_fb_id, pts |-> decoding_pts]
  /\ UNCHANGED <<slot, video_mutex>>

DisplayClear ==
  /\ DisplayGoes("clear", "unlock")
  /\ video_fb_id' = 0
  /\ UNCHANGED <<decoding_pts, video_mutex, taken>>

DisplayUnlock ==
  DisplayGoes("unlock", "show") /\ Release /\ UNCHANGED <<slot, taken>>

\* Fill video_request and commit it, without video_mutex.  The kernel turns a
\* non-blocking commit down (EBUSY) while the one before it is pending, and
\* the result is not looked at.
DisplayShow ==
  /\ dpc = "show" /\ dpc' = "test"
  /\ screen' \in {taken, screen}
  /\ UNCHANGED <<slot, video_mutex, frm_eos, frameVars, taken, mpc>>

DisplayBody == \/ DisplayTest \/ DisplayLock \/ DisplayCheck \/ DisplayRelock
               \/ DisplayWoken \/ DisplayTake \/ DisplayClear \/ DisplayUnlock
               \/ DisplayShow

-----------------------------------------------------------------------------
(* main()                                                                  *)

\* A signal ends read_gstreamerpipe_stream, which feeds the end of stream to
\* the decoder before it returns.
FeedEos == MainGoes("run", "joinframe") /\ UNCHANGED <<video_mutex, dpc>>

JoinFrame ==
  fpc = "done" /\ MainGoes("joinframe", "lock") /\ UNCHANGED <<video_mutex, dpc>>

MainLock   == MainGoes("lock", "signal") /\ Acquire(Main) /\ UNCHANGED dpc
MainSignal == MainGoes("signal", "unlock") /\ CondSignal /\ UNCHANGED video_mutex
MainUnlock == MainGoes("unlock", "joindisplay") /\ Release /\ UNCHANGED dpc

JoinDisplay ==
  /\ dpc = "done" /\ MainGoes("joindisplay", "destroy")
  /\ UNCHANGED <<video_mutex, dpc>>

\* pthread_cond_destroy and pthread_mutex_destroy
DestroySync == MainGoes("destroy", "free") /\ UNCHANGED <<video_mutex, dpc>>

\* The DRM frame buffers, the planes and the output are given back.
FreeBuffers == MainGoes("free", "exit") /\ UNCHANGED <<video_mutex, dpc>>

MainBody == \/ JoinFrame \/ MainLock \/ MainSignal \/ MainUnlock
            \/ JoinDisplay \/ DestroySync \/ FreeBuffers

\* The program has ended; nothing more happens.
Terminated == mpc = "exit" /\ UNCHANGED vars

-----------------------------------------------------------------------------
Next == \/ GetFrame \/ FrameBody
        \/ DisplayBody \/ SpuriousWakeup
        \/ FeedEos \/ MainBody
        \/ Terminated

Spec == Init /\ [][Next]_vars

\* What the scheduler and the decoder owe: a thread that can go on does, and
\* the decoder hands out what it holds once the end of stream was fed.  When
\* pictures arrive, when the user interrupts, and spurious wakeups are free.
FlushDecoder == mpc # "run" /\ GetFrame

FairSpec == /\ Spec
            /\ WF_vars(FrameBody) /\ WF_vars(FlushDecoder)
            /\ WF_vars(DisplayBody)
            /\ WF_vars(MainBody)

-----------------------------------------------------------------------------
(* The slot as VideoSlot sees it.                                          *)

\* The newest picture whose fb_id and time stamp are both in the slot.
Posted == IF fpc \in {"lock", "setfb", "setpts"} THEN decoded - 1 ELSE decoded

VS == INSTANCE VideoSlot WITH posted <- Posted

\* Refinement: whatever the threads do, the display gets the newest picture,
\* whole, and the screen follows in order (main.cpp:235-244 and 269-302).
SlotRefinement == VS!Spec

-----------------------------------------------------------------------------
(* Properties                                                              *)

TypeOK ==
  /\ video_fb_id \in Nat /\ decoding_pts \in 0..MaxFrames
  /\ video_mutex \in {Nobody, Frame, Display, Main}
  /\ frm_eos \in BOOLEAN
  /\ fpc \in FramePC /\ frame_eos \in BOOLEAN
  /\ decoded \in 0..MaxFrames /\ infoChanges \in 0..MaxInfoChanges
  /\ dpc \in DisplayPC
  /\ taken \in [fb : Nat, pts : 0..MaxFrames]
  /\ screen \in [fb : Nat, pts : 0..MaxFrames]
  /\ mpc \in MainPC

\* The frame buffer and the time stamp the display works with always belong to
\* one and the same picture, so that the latency it computes is that picture's
\* and never a mix of two (the critical sections at main.cpp:236-244, 272-290).
PairIntact ==
  /\ taken = Picture(taken.pts)
  /\ screen = Picture(screen.pts)

\* A posted picture leaves the slot only by being taken or by being displaced
\* by a newer one: whenever the slot is empty, the newest picture was taken
\* (main.cpp:288 resets video_fb_id while still holding the mutex).
NewestKept ==
  video_fb_id = 0 => taken.pts = Posted

\* No picture is committed a second time once it is on the screen
\* (main.cpp:285-301).
NoPictureTwice ==
  [][DisplayShow => screen.pts < taken.pts]_vars

\* While the stream announces one resolution only, init_buffer's modeset
\* (main.cpp:174) and the display loop's atomic commits (main.cpp:293-301)
\* never use the unlocked video_request at the same time.
RequestExclusive ==
  infoChanges <= 1 => ~(fpc = "init" /\ dpc = "show")

\* Once main() destroys video_mutex and video_cond and then frees the frame
\* buffers (main.cpp:742-776), no thread holds or waits for them and no thread
\* will commit a frame buffer again.
TeardownSafe ==
  mpc \in {"destroy", "free", "exit"} =>
    fpc = "done" /\ dpc = "done" /\ video_mutex = Nobody

\* Every posted picture is taken, or a newer one is, unless the stream ends:
\* the signal of main.cpp:241 is never lost.
PictureTaken ==
  \A n \in 1..MaxFrames : (Posted = n) ~> (taken.pts >= n \/ frm_eos)

\* A display thread that waits when the stream ends, before main() signals,
\* leaves the wait and ends (main.cpp:274-282 with 732-737).
WaiterLeaves ==
  (frm_eos /\ dpc = "waiting" /\ mpc \in {"joinframe", "lock", "signal"})
    ~> (dpc = "done")

\* What the asserts after the joins take for granted (main.cpp:739-740): once
\* the stream has ended, the display thread is joined and the program exits.
ShutdownCompletes == frm_eos ~> (mpc = "exit")
-----------------------------------------------------------------------------
(* What is true in every state and carries the proofs of the properties     *)
(* above from one step to the next (FrameHandoverProofs).                   *)

\* Each thread holds video_mutex exactly between its lock and its unlock.
MutexHeld ==
  /\ video_mutex = Frame   <=> fpc \in {"setfb", "setpts", "signal", "unlock"}
  /\ video_mutex = Display <=> dpc \in {"check", "woken", "take", "clear", "unlock"}
  /\ video_mutex = Main    <=> mpc \in {"signal", "unlock"}

\* A slot in use holds the newest posted picture, except while it is filled.
SlotHolds ==
  /\ fpc \in {"lock", "setfb", "setpts", "signal", "unlock"} => decoded >= 1
  /\ fpc = "setpts" => video_fb_id = FbOf[decoded]
  /\ fpc # "setpts" /\ video_fb_id # 0 =>
       Posted >= 1 /\ video_fb_id = FbOf[Posted] /\ decoding_pts = Posted

\* How far the display is behind the slot, and the screen behind the display.
DisplayOrder ==
  /\ screen.pts <= taken.pts /\ taken.pts <= Posted
  /\ dpc \in {"clear", "unlock", "show"} => screen.pts < taken.pts
  /\ dpc = "take" => video_fb_id # 0
  /\ dpc = "clear" => taken.pts = Posted
  /\ video_fb_id # 0 /\ dpc # "clear" /\ fpc # "setpts" => taken.pts < Posted

\* The order in which the threads end.
ShutdownOrder ==
  /\ frm_eos <=> fpc = "done"
  /\ mpc \notin {"run", "joinframe"} => fpc = "done"
  /\ mpc \in {"destroy", "free", "exit"} => dpc = "done"

\* No picture before the first resolution.
ResolutionFirst ==
  /\ infoChanges = 0 => decoded = 0
  /\ fpc = "init" /\ infoChanges <= 1 => decoded = 0

HandoverInv ==
  /\ TypeOK /\ PairIntact /\ NewestKept
  /\ MutexHeld /\ SlotHolds /\ DisplayOrder /\ ShutdownOrder /\ ResolutionFirst
=============================================================================
