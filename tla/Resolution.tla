----------------------------- MODULE Resolution ------------------------------
(***************************************************************************)
(* A new resolution: init_buffer with the buffers it gives to the decoder  *)
(* and its modeset, the frame thread that hands decoded pictures on and    *)
(* returns their buffers, the display thread that commits them through the *)
(* same request, and the release at the end of main() (src/main.cpp,       *)
(* src/drm.c).                                                             *)
(*                                                                         *)
(* Each resolution is a generation of MAX_FRAMES buffers.  A picture is    *)
(* its generation, its buffer and its number.  The slot is one step: its   *)
(* lock and its condition variable are in FrameHandover.  An ioctl that    *)
(* fails an assert() ends the process and is not modelled, but for the     *)
(* modeset of init_buffer: the kernel refuses it when the display cannot   *)
(* scale a picture larger than the screen down to it, and when the request *)
(* is one the program should not have made.                                *)
(***************************************************************************)
EXTENDS AspectFit, Sequences, FiniteSetsExt

CONSTANTS
  MAX_FRAMES,       \* buffers of a group
  MaxRefs,          \* pictures the decoder keeps for reference
  Sizes,            \* sizes the pictures of the stream may have
  Screen,           \* size of the mode
  Unscalable,       \* sizes the display cannot scale down to the mode
  MaxPictures,      \* bound: pictures decoded
  MaxInfoChanges    \* bound: resolutions the stream announces

ASSUME ResolutionAssumption ==
  /\ MAX_FRAMES \in Nat /\ MaxRefs \in Nat /\ MaxRefs < MAX_FRAMES
  /\ Sizes \subseteq [w : Nat \ {0}, h : Nat \ {0}]
  /\ Screen \in [w : Nat \ {0}, h : Nat \ {0}]
  /\ MaxPictures \in Nat /\ MaxInfoChanges \in Nat

\* Which ones is the driver's affair: none, or all that are larger than the screen.
ASSUME UnscalableAssumption ==
  Unscalable \subseteq {s \in Sizes : s.w > Screen.w \/ s.h > Screen.h}

\* The sides of a mode have 16 bits (drm_mode.h), a float 22 and more.
ASSUME ScreenAssumption ==
  \A side \in {Screen.w, Screen.h} : side * (2 * Precision + 1) <= Precision * Precision

VARIABLES
  fpc,        \* where __FRAME_THREAD__ is
  frame,      \* the frame in its hands
  sizes,      \* sizes[g]: size of generation g; the last is in frame_to_drm
  decoder,    \* what the decoder is doing
  unused,     \* the free buffers of its group, first in first out
  writing,    \* the picture it is writing
  refs,       \* the buffers it keeps for reference
  output,     \* the frames it has ready
  started,    \* number of pictures it began
  slot,       \* output_list->video_fb_id
  hand,       \* the display thread's fb_id
  dpc,        \* where __DISPLAY_THREAD__ is
  request,    \* video_request: the properties up to its cursor
  overlap,    \* history: both threads were in the middle of using it
  plane,      \* the properties of the video plane last committed
  scanout,    \* the picture the screen shows
  buffers,    \* the generations whose DRM buffers exist
  mpc         \* where main() is

decoderVars == <<decoder, unused, writing, refs, output, started>>
frameVars   == <<fpc, frame, sizes>>
displayVars == <<dpc, hand>>
kernelVars  == <<plane, scanout, buffers>>
requestVars == <<request, overlap>>

vars == <<decoderVars, frameVars, displayVars, kernelVars, requestVars, slot, mpc>>

FramePC   == {"get", "allocate", "register", "prepare", "test", "commit",
              "post", "deinit", "done", "aborted"}
DisplayPC == {"wait", "fill", "commit", "done"}
\* Before the first size; decoding; waiting for buffers of a new size; flushed.
DecoderDoes == {"start", "decode", "change", "flushed"}
MainPC    == {"run", "release", "restore", "exit"}

None       == [gen |-> 0, buf |-> 0, pic |-> 0]
OsdBuffer  == [gen |-> 0, buf |-> 1, pic |-> 0]
Generation == Len(sizes)          \* what frm_grp and frame_to_drm belong to
NoFrame    == [kind |-> "none"]
Off        == [crtc |-> FALSE, fb |-> None, src |-> Screen,
               dst |-> [x |-> 0, y |-> 0, w |-> 0, h |-> 0], zpos |-> "initial"]

Init ==
  /\ fpc = "get" /\ frame = NoFrame /\ sizes = <<>>
  /\ decoder = "start" /\ unused = <<>> /\ writing = None /\ refs = {}
  /\ output = <<>> /\ started = 0
  /\ slot = None /\ hand = None /\ dpc = "wait"
  /\ request = <<>> /\ overlap = FALSE
  /\ plane = Off /\ scanout = None /\ buffers = {}
  /\ mpc = "run"

-----------------------------------------------------------------------------
(* The atomic request: libdrm appends, and of two values for one property  *)
(* the kernel keeps the last.                                              *)

Item(p, v) == [prop |-> p, value |-> v]

\* The places at which r has property p.
Given(r, p) == {i \in 1..Len(r) : r[i].prop = p}

\* The plane as it would be after a commit of r.
Applied(r) ==
  [p \in DOMAIN plane |->
     IF Given(r, p) = {} THEN plane[p] ELSE r[Max(Given(r, p))].value]

Exists(fb) == fb # None /\ (fb.gen = 0 \/ fb.gen \in buffers)
SizeOf(fb) == IF fb.gen = 0 THEN Screen ELSE sizes[fb.gen]

\* The kernel refuses a request that names a buffer that is gone, even if a
\* later item overrides it, a source larger than the buffer, and one the display
\* cannot scale.
Valid(r) ==
  LET new == Applied(r)
  IN  /\ \A i \in Given(r, "fb") : Exists(r[i].value)
      /\ new.crtc
      /\ new.src.w <= SizeOf(new.fb).w /\ new.src.h <= SizeOf(new.fb).h
      /\ new.src \notin Unscalable

\* Each thread fills the request in one step; overlap is set when both are
\* between their first property and their commit, where the real appends race.
InModeset(pc) == pc \in {"prepare", "test", "commit"}
InCommit(pc)  == pc \in {"fill", "commit"}

FrameGoes(from, to) ==
  /\ fpc = from /\ fpc' = to
  /\ overlap' = (overlap \/ (InModeset(to) /\ InCommit(dpc)))
  /\ UNCHANGED <<displayVars, mpc>>

DisplayGoes(from, to) ==
  /\ fpc # "aborted" /\ dpc = from /\ dpc' = to
  /\ overlap' = (overlap \/ (InModeset(fpc) /\ InCommit(to)))
  /\ UNCHANGED <<frameVars, decoderVars, buffers, mpc>>

-----------------------------------------------------------------------------
(* The decoder, as this program uses it: it writes into a free buffer of   *)
(* its group, and a buffer is free again when neither the decoder nor the  *)
(* frame thread holds it.                                                  *)

\* The buffers of its group that wait in the output or are in frame f.
Handed(out, f) ==
  {g.buf : g \in {g \in {out[i] : i \in 1..Len(out)} \cup {f} :
                    g.kind = "picture" /\ g.gen = Generation}}

GoesFree(b) == unused' = Append(unused, b)

\* A failed assert() ends the process, the decoder and the display thread with it.
DecoderGoes ==
  /\ fpc # "aborted"
  /\ UNCHANGED <<frameVars, displayVars, kernelVars, requestVars, slot, mpc>>

StartPicture ==
  /\ DecoderGoes
  /\ decoder = "decode" /\ writing = None /\ unused # <<>> /\ started < MaxPictures
  /\ started' = started + 1
  /\ writing' = [gen |-> Generation, buf |-> Head(unused), pic |-> started + 1]
  /\ unused' = Tail(unused)
  /\ UNCHANGED <<decoder, refs, output>>

PictureDone ==
  /\ DecoderGoes
  /\ writing # None
  /\ output' = Append(output, [kind |-> "picture", gen |-> writing.gen,
                               buf |-> writing.buf, pic |-> writing.pic])
  /\ writing' = None
  /\ \/ UNCHANGED refs
     \/ Cardinality(refs) < MaxRefs /\ refs' = refs \cup {writing.buf}
  /\ UNCHANGED <<decoder, unused, started>>

DropReference ==
  /\ DecoderGoes
  /\ \E b \in refs :
       /\ refs' = refs \ {b}
       /\ IF b \in Handed(output, frame) THEN UNCHANGED unused ELSE GoesFree(b)
  /\ UNCHANGED <<decoder, writing, output, started>>

\* Nothing is decoded between the announcement of a size and the new buffers.
AnnounceSize ==
  /\ DecoderGoes
  /\ decoder \in {"start", "decode"}
  /\ writing = None /\ Generation < MaxInfoChanges
  /\ \E s \in Sizes : output' = Append(output, [kind |-> "info", size |-> s])
  /\ decoder' = "change" /\ refs' = {} /\ unused' = <<>>
  /\ UNCHANGED <<writing, started>>

\* The end of the stream was fed.
FlushEnd ==
  /\ DecoderGoes
  /\ decoder \in {"start", "decode"}
  /\ writing = None
  /\ output' = Append(output, [kind |-> "eos"])
  /\ decoder' = "flushed"
  /\ UNCHANGED <<unused, writing, refs, started>>

-----------------------------------------------------------------------------
(* __FRAME_THREAD__                                                        *)

NextFor(f) == IF f.kind = "info" THEN "allocate"
              ELSE IF f.kind = "picture" THEN "post" ELSE "deinit"

GetFrame ==
  /\ output # <<>>
  /\ FrameGoes("get", NextFor(Head(output)))
  /\ frame' = Head(output) /\ output' = Tail(output)
  /\ UNCHANGED <<sizes, decoder, unused, writing, refs, started, kernelVars, request, slot>>

\* frame_to_drm is overwritten; the buffers it had stay.
AllocateBuffers ==
  /\ FrameGoes("allocate", "register")
  /\ sizes' = Append(sizes, frame.size)
  /\ buffers' = buffers \cup {Generation + 1}
  /\ UNCHANGED <<frame, decoderVars, plane, scanout, request, slot>>

\* Mutant: the loop over the buffers ends one too late.
RegisterGroupOneMore ==
  /\ FrameGoes("register", "prepare")
  /\ decoder' = "decode" /\ refs' = {}
  /\ unused' = [i \in 1..(MAX_FRAMES + 1) |-> i]
  /\ UNCHANGED <<frame, sizes, writing, output, started, kernelVars, request, slot>>

\* Mutant: the loop over the buffers ends one too early.
RegisterGroupShort ==
  /\ FrameGoes("register", "prepare")
  /\ decoder' = "decode" /\ refs' = {}
  /\ unused' = [i \in 1..(MAX_FRAMES - 1) |-> i]
  /\ UNCHANGED <<frame, sizes, writing, output, started, kernelVars, request, slot>>

RegisterGroup ==
  /\ FrameGoes("register", "prepare")
  /\ decoder' = "decode" /\ refs' = {}
  /\ unused' = [i \in 1..MAX_FRAMES |-> i]
  /\ UNCHANGED <<frame, sizes, writing, output, started, kernelVars, request, slot>>

\* Mutant: the size of the resolution before.
SourceStale == sizes[IF Generation > 1 THEN Generation - 1 ELSE 1]

\* The size of the buffers, as perform_modeset passes it.
Source == sizes[Generation]

\* What modeset_atomic_prepare_commit appends: CRTC_ID, MODE_ID and ACTIVE,
\* FB_ID, SRC_*, CRTC_* and zpos.
Prepared(fb, size, r, zpos) ==
  <<Item("crtc", TRUE), Item("fb", fb), Item("src", size), Item("dst", r),
    Item("zpos", zpos)>>

\* Appended to what the last commit left in the request.
PrepareCommit ==
  /\ FrameGoes("prepare", "test")
  /\ \E r \in Rectangles(Screen, sizes[Generation].w, sizes[Generation].h) :
       request' = request \o Prepared([gen |-> Generation, buf |-> 1, pic |-> 0],
                                      Source, r, "video")
  /\ UNCHANGED <<frame, sizes, decoderVars, kernelVars, slot>>

TestCommit ==
  /\ FrameGoes("test", IF Valid(request) THEN "commit" ELSE "aborted")
  /\ UNCHANGED <<frame, sizes, decoderVars, kernelVars, request, slot>>

\* A blocking commit: it waits for the one before it.
ModesetCommit ==
  /\ FrameGoes("commit", IF Valid(request) THEN "deinit" ELSE "aborted")
  /\ scanout = plane.fb
  /\ plane' = IF Valid(request) THEN Applied(request) ELSE plane
  /\ scanout' = plane'.fb
  /\ UNCHANGED <<frame, sizes, decoderVars, buffers, request, slot>>

\* The buffer is looked up in frame_to_drm, which has the last generation only.
Post ==
  /\ FrameGoes("post", IF frame.gen = Generation THEN "deinit" ELSE "aborted")
  /\ slot' = IF frame.gen = Generation
             THEN [gen |-> frame.gen, buf |-> frame.buf, pic |-> frame.pic] ELSE slot
  /\ UNCHANGED <<frame, sizes, decoderVars, kernelVars, request>>

\* Mutant: the frame is kept while it is in the slot.
DeinitUnlessPosted ==
  /\ FrameGoes("deinit", IF frame.kind = "eos" THEN "done" ELSE "get")
  /\ frame' = NoFrame
  /\ IF /\ frame.kind = "picture" /\ frame.gen = Generation /\ frame.buf \notin refs
        /\ slot = None
     THEN GoesFree(frame.buf) ELSE UNCHANGED unused
  /\ UNCHANGED <<sizes, decoder, writing, refs, output, started, kernelVars, request, slot>>

\* mpp_frame_deinit returns the buffer, posted or not yet shown, to the decoder.
Deinit ==
  /\ FrameGoes("deinit", IF frame.kind = "eos" THEN "done" ELSE "get")
  /\ frame' = NoFrame
  /\ IF frame.kind = "picture" /\ frame.gen = Generation /\ frame.buf \notin refs
     THEN GoesFree(frame.buf) ELSE UNCHANGED unused
  /\ UNCHANGED <<sizes, decoder, writing, refs, output, started, kernelVars, request, slot>>

-----------------------------------------------------------------------------
(* __DISPLAY_THREAD__ and the kernel                                       *)

TakePicture ==
  /\ slot # None
  /\ DisplayGoes("wait", "fill")
  /\ hand' = slot /\ slot' = None
  /\ UNCHANGED <<request, plane, scanout>>

\* The cursor is reset first; the frame buffers of both planes are added.
FillRequest ==
  /\ DisplayGoes("fill", "commit")
  /\ request' = <<Item("fb", hand), Item("osd", OsdBuffer)>>
  /\ UNCHANGED <<hand, slot, plane, scanout>>

\* Not blocking: refused while the one before it is pending, and nobody looks.
DisplayCommit ==
  /\ DisplayGoes("commit", "wait")
  /\ plane' = IF Valid(request) /\ scanout = plane.fb THEN Applied(request) ELSE plane
  /\ hand' = None
  /\ UNCHANGED <<slot, request, scanout>>

DisplayEnds ==
  /\ fpc = "done"
  /\ DisplayGoes("wait", "done")
  /\ UNCHANGED <<hand, slot, request, plane, scanout>>

VBlank ==
  /\ scanout # plane.fb
  /\ scanout' = plane.fb
  /\ UNCHANGED <<decoderVars, frameVars, displayVars, plane, buffers, requestVars,
                 slot, mpc>>

-----------------------------------------------------------------------------
(* The end of main()                                                       *)

MainGoes(from, to) ==
  /\ mpc = from /\ mpc' = to
  /\ UNCHANGED <<decoderVars, frameVars, displayVars, overlap, slot>>

JoinThreads ==
  /\ fpc = "done" /\ dpc = "done"
  /\ MainGoes("run", "release")
  /\ UNCHANGED <<kernelVars, request>>

\* Mutant: the buffers of every resolution are removed.
ReleaseBuffersAll ==
  /\ MainGoes("release", "restore")
  /\ buffers' = {}
  /\ plane' = [plane EXCEPT !.fb = None, !.crtc = FALSE]
  /\ scanout' = None
  /\ UNCHANGED request

\* The loop over frame_to_drm, if there ever was a group.  The kernel turns a
\* plane off when its frame buffer is removed.
ReleaseBuffers ==
  /\ MainGoes("release", "restore")
  /\ buffers' = buffers \ {Generation}
  /\ IF plane.fb # None /\ plane.fb.gen = Generation
     THEN /\ plane' = [plane EXCEPT !.fb = None, !.crtc = FALSE]
          /\ scanout' = None
     ELSE UNCHANGED <<plane, scanout>>
  /\ UNCHANGED request

RestoreRequest(zpos, r) == request \o Prepared(OsdBuffer, Screen, r, zpos)

\* restore_planes_zpos: a blocking modeset with the first OSD buffer, appended
\* to what is left in video_request.  That of the OSD plane goes through
\* osd_request, which is not modelled.
RestoreZpos ==
  /\ MainGoes("restore", "exit")
  /\ \E r \in Rectangles(Screen, Screen.w, Screen.h) : request' = RestoreRequest("initial", r)
  /\ plane' = IF Valid(request') THEN Applied(request') ELSE plane
  /\ scanout' = plane'.fb
  /\ UNCHANGED buffers

-----------------------------------------------------------------------------
Decoder == StartPicture \/ PictureDone \/ DropReference \/ AnnounceSize \/ FlushEnd

FrameBody == \/ GetFrame \/ AllocateBuffers \/ RegisterGroup \/ PrepareCommit
             \/ TestCommit \/ ModesetCommit \/ Post \/ Deinit

DisplayBody == TakePicture \/ FillRequest \/ DisplayCommit \/ DisplayEnds

MainBody == JoinThreads \/ ReleaseBuffers \/ RestoreZpos

Next == Decoder \/ FrameBody \/ DisplayBody \/ VBlank \/ MainBody

Spec == Init /\ [][Next]_vars

\* The frame thread goes on when it can, the screen is refreshed, and a picture
\* the decoder has begun is finished.  Nothing is asked of the display thread.
FairSpec == Spec /\ WF_vars(FrameBody) /\ WF_vars(VBlank) /\ WF_vars(PictureDone)

-----------------------------------------------------------------------------
(* Properties                                                              *)

Frame == [kind : {"none", "eos"}] \cup [kind : {"info"}, size : Sizes]
         \cup [kind : {"picture"}, gen : 1..MaxInfoChanges, buf : 1..MAX_FRAMES,
               pic : 1..MaxPictures]
Shown == [gen : 0..MaxInfoChanges, buf : 0..MAX_FRAMES, pic : 0..MaxPictures]

TypeOK ==
  /\ fpc \in FramePC /\ frame \in Frame
  /\ sizes \in Seq(Sizes) /\ Generation <= MaxInfoChanges
  /\ decoder \in DecoderDoes /\ unused \in Seq(1..MAX_FRAMES) /\ Len(unused) <= MAX_FRAMES
  /\ writing \in Shown /\ refs \subseteq 1..MAX_FRAMES
  /\ output \in Seq(Frame) /\ started \in 0..MaxPictures
  /\ slot \in Shown /\ hand \in Shown /\ dpc \in DisplayPC
  /\ overlap \in BOOLEAN /\ mpc \in MainPC
  /\ plane.fb \in Shown /\ scanout \in Shown /\ plane.src \in Sizes \cup {Screen}
  /\ buffers \subseteq 1..Generation

\* Whatever its size, the program has the display show a picture of the resolution
\* in use in full, in the largest rectangle of its ratio on the screen, and its
\* modeset is refused only for a size larger than the screen that the display
\* cannot scale down: unless the display thread committed through video_request
\* while the frame thread filled it (main.cpp:174-175 and 293-301, drm.c:579-625).
ShownInFull ==
  ~overlap =>
    /\ fpc = "aborted" => Source \in Unscalable
    /\ plane.fb # None /\ plane.fb.gen = Generation =>
         LET size == SizeOf(plane.fb)
         IN  /\ plane.src = size
             /\ OnScreen(Screen, plane.dst)
             /\ Largest(Screen, size.w, size.h, plane.dst)

\* No info change ends the process: the modeset of init_buffer is accepted, as the
\* assert behind it says (main.cpp:174-175).
ModesetAccepted == fpc # "aborted"

\* The decoder writes into a buffer whose picture waits for the display or is on
\* the screen only when it is that many pictures ahead of it: what MAX_FRAMES is
\* large for, since the buffer went back with main.cpp:250.  It rests on the
\* decoder taking the buffer that has been free longest (unused).
OverwriteDistance ==
  writing # None =>
    \A p \in {slot, hand, plane.fb, scanout} :
      p.pic # 0 /\ p.gen = writing.gen /\ p.buf = writing.buf =>
        writing.pic - p.pic >= MAX_FRAMES - MaxRefs

\* At the exit the buffers of the last resolution are gone, those of the earlier
\* ones are not, and the video plane has its position back: unless what was left
\* in video_request names a buffer that was removed (main.cpp:763-785,
\* drm.c:644-651).
ExitAccount ==
  mpc = "exit" =>
    /\ buffers = 1..(Generation - 1)
    /\ \/ plane.zpos = "initial"
       \/ \E i \in Given(request, "fb") : ~Exists(request[i].value)

\* The decoder never runs out of buffers for good, however slow the display is
\* (main.cpp:248-251).
DecoderServed ==
  (decoder = "decode" /\ unused = <<>>) ~>
    (unused # <<>> \/ decoder # "decode" \/ fpc = "aborted")

-----------------------------------------------------------------------------
(* What is true in every state and carries the proofs of the safety         *)
(* properties from one step to the next (ResolutionProofs).                 *)

Modesetting == {"prepare", "test", "commit"}

Rectangle == [x : Int, y : Int, w : Int, h : Int]
Planes    == [crtc : BOOLEAN, fb : Shown, src : Sizes \cup {Screen}, dst : Rectangle,
              zpos : {"initial", "video"}]
Items     == [prop : {"crtc"}, value : BOOLEAN] \cup [prop : {"fb", "osd"}, value : Shown]
             \cup [prop : {"src"}, value : Sizes \cup {Screen}]
             \cup [prop : {"dst"}, value : Rectangle]
             \cup [prop : {"zpos"}, value : {"initial", "video"}]

\* The request and the plane, whatever the two threads append.
RequestFits == plane \in Planes /\ request \in Seq(Items)

\* Which frame is in hand where, and that nothing follows an announced size.
FramesFit ==
  /\ fpc \in {"get", "done"} => frame = NoFrame
  /\ fpc \in {"allocate", "register"} \cup Modesetting => frame.kind = "info"
  /\ fpc = "post" => frame.kind = "picture"
  /\ frame.kind = "picture" => fpc \in {"post", "deinit"}
  /\ fpc \in {"allocate", "register"} => decoder = "change" /\ output = <<>>
  /\ \A i \in 1..Len(output) :
       output[i].kind = "info" => decoder = "change" /\ i = Len(output)
  /\ decoder = "change" /\ fpc # "register" => Generation < MaxInfoChanges
  /\ decoder = "change" => writing = None
  /\ decoder = "decode" \/ writing # None => Generation > 0
  /\ fpc \in {"register", "aborted"} \cup Modesetting => Generation > 0
  /\ mpc # "run" => fpc = "done" /\ dpc = "done"

\* The pictures the decoder and the frame thread have, by their numbers.
PicturesFit ==
  /\ \A i \in 1..Len(output) : output[i].kind = "picture" =>
       /\ output[i].gen = Generation /\ output[i].pic <= started
       /\ writing # None => output[i].pic < started
       /\ frame.kind = "picture" => frame.pic < output[i].pic
       /\ \A j \in 1..Len(output) : i < j /\ output[j].kind = "picture" =>
            output[i].pic < output[j].pic
  /\ frame.kind = "picture" =>
       frame.gen = Generation /\ frame.pic <= started /\ (writing # None => frame.pic < started)
  /\ writing # None =>
       writing.gen = Generation /\ writing.pic = started /\ writing.buf \in 1..MAX_FRAMES

\* A buffer is free, written, or held by the decoder or the frame thread.
Freed(b)   == \E k \in 1..Len(unused) : unused[k] = b
Written(b) == writing # None /\ writing.buf = b
Held(b)    == b \in refs \/ b \in Handed(output, frame)

FreeOnce     == \A j, k \in 1..Len(unused) : unused[j] = unused[k] => j = k
FreeIsFree   == \A k \in 1..Len(unused) : ~Held(unused[k]) /\ ~Written(unused[k])
WrittenAlone == writing # None => ~Held(writing.buf)
HandedOnce   == \A i \in 1..Len(output) : output[i].kind = "picture" =>
                  /\ frame.kind = "picture" => output[i].buf # frame.buf
                  /\ \A j \in 1..Len(output) : output[j].kind = "picture" /\ i # j =>
                       output[i].buf # output[j].buf
NoneLost     == decoder = "decode" =>
                  \A b \in 1..MAX_FRAMES : Freed(b) \/ Written(b) \/ Held(b)

BuffersOwned == /\ FreeOnce /\ FreeIsFree /\ WrittenAlone /\ HandedOnce /\ NoneLost
                /\ Cardinality(refs) <= MaxRefs

\* The pictures the frame thread has handed on, wherever they are.
Posted == {slot, hand, plane.fb, scanout} \cup {request[i].value : i \in Given(request, "fb")}

\* They are older than what the decoder still has.
PostedBefore(p) ==
  /\ p.gen <= Generation /\ p.pic <= started
  /\ fpc = "register" => p.pic = 0 \/ p.gen < Generation
  /\ writing # None => p.pic < writing.pic
  /\ frame.kind = "picture" => p.pic <= frame.pic
  /\ \A i \in 1..Len(output) : output[i].kind = "picture" => p.pic < output[i].pic

\* Their buffers are written again that many pictures later, or will be.
PostedFar(p) ==
  p.pic # 0 /\ p.gen = Generation =>
    /\ writing # None /\ writing.buf = p.buf => writing.pic - p.pic >= MAX_FRAMES - MaxRefs
    /\ decoder = "decode" =>
         \A k \in 1..Len(unused) : unused[k] = p.buf =>
           started + k - p.pic >= MAX_FRAMES - MaxRefs

PostedFits == \A p \in Posted : PostedBefore(p) /\ PostedFar(p)

\* What the display thread has in hand, and that it comes from a resolution.
InHand ==
  /\ hand = None <=> dpc \in {"wait", "done"}
  /\ \A p \in {slot, hand} : p = None \/ p.gen > 0

\* The buffers that exist, and what main() leaves.
BuffersExist ==
  /\ buffers = IF mpc \in {"run", "release"} THEN 1..Generation ELSE 1..(Generation - 1)
  /\ mpc \in {"run", "release"} => \A i \in Given(request, "fb") : Exists(request[i].value)

\* What is in the request and on the plane, as long as the threads do not meet in it.
FullSize(size) ==
  plane.src = size /\ OnScreen(Screen, plane.dst) /\ Largest(Screen, size.w, size.h, plane.dst)

RequestFilled ==
  \E before \in 0..Len(request), r \in Rectangles(Screen, Source.w, Source.h) :
    request = SubSeq(request, 1, before)
      \o Prepared([gen |-> Generation, buf |-> 1, pic |-> 0], Source, r, "video")

Alone ==
  ~overlap =>
    /\ fpc = "aborted" => Source \in Unscalable
    /\ InModeset(fpc) => ~InCommit(dpc)
    /\ dpc = "commit" => request = <<Item("fb", hand), Item("osd", OsdBuffer)>>
    /\ fpc \in {"test", "commit"} => RequestFilled
    /\ fpc \in {"register", "aborted"} \cup Modesetting =>
         \A p \in {slot, hand, plane.fb} : p.gen < Generation
    /\ Generation > 0 /\ mpc \in {"run", "release"}
         /\ fpc \notin {"register", "aborted"} \cup Modesetting =>
         plane.crtc /\ FullSize(Source)
    /\ Generation > 0 /\ mpc \in {"restore", "exit"} => plane.fb.gen # Generation
    /\ Generation = 0 => \/ plane.fb = None
                         \/ plane.fb = OsdBuffer /\ FullSize(Screen)

ResolutionInv ==
  /\ TypeOK /\ RequestFits /\ FramesFit /\ PicturesFit
  /\ BuffersOwned /\ PostedFits /\ InHand /\ BuffersExist /\ Alone /\ ExitAccount
=============================================================================
