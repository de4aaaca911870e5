# FPVue_rk: a TLA+ model

FPVue_rk receives an H.264 or H.265 video feed over RTP, decodes it with the
Rockchip MPP library, puts the pictures on a DRM plane, draws an on-screen
display (OSD) on a second plane and can record the feed to an mp4 file.  It is
about 2500 lines of C and C++ of its own.  Six threads share global variables, two mutexes
of pthreads, one of C++, two condition variables and two flags set by a signal
handler.  This directory holds the specifications of that program, the
configurations that model-check them, and proofs.

Run a configuration with `tlc -config Handover.cfg MCFrameHandover.tla`, check
the proofs with `tlapm FrameHandoverProofs.tla`.  Each module `M` that is proved about
has its theorems in `MProofs`; each `MCM` gives the constants of `M` their values for TLC.

## 1. The system

Threads: `main()` (which is also the thread that feeds the end of the stream),
the gstreamer pull thread, `__FRAME_THREAD__`, `__DISPLAY_THREAD__`,
`__DVR_THREAD__` (with `--dvr`), `__OSD_THREAD__` and `__MAVLINK_THREAD__`
(with `--osd`).

| Component | State | Operations | Talks to |
|---|---|---|---|
| RTP receiver (`gstrtpreceiver.cpp`) | pipeline, `m_pull_samples_run`, pull thread | start, pull loop, stop (flag, join, release) | callback in `main.cpp` for every access unit |
| Decoder feed (`main.cpp` 395-454) | the one `MppPacket`, `decoder_stalled_count`, `signal_flag` | `feed_packet_to_decoder` with its retry loop, end of stream | MPP, DVR queue |
| Frame hand-over (`main.cpp` 195-344, 724-800) | `output_list->video_fb_id`, `decoding_pts`, `video_mutex`, `video_cond`, `frm_eos` | post a picture, wait and take it, commit it, end both threads | MPP, DRM, OSD surface |
| Buffers and resolution (`main.cpp` 95-193) | `frm_grp`, `frame_to_drm[24]`, `video_request` | `init_buffer` at every info change | MPP, DRM, mp4 writer |
| DVR recorder (`main.cpp` 177-188, 358-392; `minimp4.h`) | `dvrQueue`, `mtx`, `cv`, `mux`, `mp4wr`, `dvr_file` | enqueue, take, write NAL units, close | pull thread, frame thread, `main()` |
| OSD surface (`osd.c` 340-367, `main.cpp` 297-302) | two buffers, `osd_buf_switch`, `osd_mutex` | paint the other buffer, select it, commit it | display thread, DRM |
| OSD contents (`osd.c` 34-310) | `osd_vars`, bandwidth ring, flight clock | draw | written by pull, display and MAVLink threads, unlocked |
| Telemetry (`mavlink.c`) | telemetry variables | receive loop, one case per message | `osd_vars` |
| Modeset (`drm.c`) | connector, CRTC, planes, property ids | choose, set up, undo, aspect ratio | kernel |
| Options and lifecycle (`main.cpp` 506-800) | option variables, thread ids | parse, create, signal, join | all |
| Legacy RTP parser (`rtp.c`) | reassembly buffer | depacketize | nobody: not called |

What is hard in it:

* the hand-over waits on a condition variable, and its exit test is a flag read
  without the mutex (`main.cpp:269`);
* the multiplexer is opened by one thread while another writes through it,
  without a lock (`main.cpp:177-188` against `373-378`);
* the DVR thread waits for packets, and the signal handler does not wake it;
* commits are non-blocking, may be refused, and nobody looks at the result;
* the OSD paints a buffer that a pending commit may still refer to, and
  `osd_mutex` is initialised after another thread may have locked it;
* a stalled decoder, an info change in the middle of the stream, an end of
  stream through the same packet object as the data;
* a picture may be larger than the screen, and whether the display can scale it down shows only when
  the modeset is tried (`main.cpp:174-175`);
* a picture's buffer goes back to the decoder before it was shown, and one atomic request is
  filled by two threads;
* the bandwidth ring is read while it moves, and latencies are stored after the report they
  belong to;
* which threads exist depends on the order of the options.

What makes each component correct is stated below, next to its module.  The
hazards, with the line each bites at and the properties aimed at it, are in
`PROJECT.json`.

## 2. The modules

Conventions.  Variables and actions keep the source's names.  Each thread has a
program counter (`fpc` frame, `dpc` display or DVR, `opc` OSD, `lpc` the pull
loop, `ppc` its callback, `vpc` MAVLink, `mpc` main), and one action is what happens between
two points at which another thread can observe something.  Locks are variables,
taken and given back by actions of their own, so that an access outside of its lock
would interleave in the model as it does in the program.  An operator `...Goes(from, to)`
is one step of one thread's program counter with everything the thread's actions usually leave alone.  Operators with a
comment that starts with `Mutant:` are no part of a specification: each is a variant of the
action after it with a plausible bug, kept as evidence that a property notices
that bug.

### VideoSlot, FrameHandover, FrameHandoverProofs

`VideoSlot` is what the two threads promise together, without threads: a slot
in which the newest picture displaces the one before (`Post`), from which the
newest is taken (`Take`) and shown (`Show`), in order and each with its own
time stamp.

`FrameHandover` is the code: `__FRAME_THREAD__` from `decode_get_frame` to
`frm_eos`, `__DISPLAY_THREAD__` from its loop test to the atomic commit, and
`main()` from the end of stream to the release of the buffers.  The wait gives
up the mutex and starts waiting in one step, wakes spuriously, and has to get the mutex
again.  A commit may be refused, as the kernel does while one is pending.
A picture is its number, which is also its `decoding_pts`; `FbOf` says which
DRM frame buffer the decoder put it in, and buffers are used again.
`init_buffer` is a step of the frame thread here (its buffers and its modeset are in
`Resolution`, its multiplexer in `DvrRecorder`).

| Property | Says |
|---|---|
| `SlotRefinement` | the whole implements `VideoSlot`: the newest picture, whole, in order, never twice |
| `NewestKept` | when the slot is empty, the newest picture was taken |
| `PictureTaken` | every posted picture is taken or displaced, unless the stream ends |
| `WaiterLeaves` | a display thread that waits when the stream ends gets out |
| `ShutdownCompletes` | the stream's end leads to the program's exit: **violated**, see 5 |

Proved and not checked by a run, since the refinement or the invariant contains them:
`PairIntact` (no mix of two pictures), `NoPictureTwice`, `RequestExclusive` (with one resolution,
modeset and commits never use `video_request` together) and `TeardownSafe` (mutex, condition
variable and buffers are destroyed after both threads ended).

### DvrRecorder, DvrRecorderProofs

The pull thread's `enqueueDvrPacket`, `__DVR_THREAD__`, the part of
`init_buffer` that opens the multiplexer, the gates of `minimp4.h`'s NAL writer
and the joins of `main()`.  A packet is a sequence of NAL unit kinds.
`mp4_h26x_write_init` stores into `mp4wr` without a lock while the DVR thread may
read it, so the three fields become visible in any order (`StoreField`).  A
critical section on `mtx` is one action: nothing outside it reads or writes the
queue.  The AVC branch is what a zeroed writer takes even for HEVC packets, so
`AvcView` says what that branch makes of them.  `OpenMuxFails` is the disk that is full
when the file is begun.  With `--dvr-fmp4` the header is written before the first sample and
every sample is a fragment; otherwise `MP4E_close` writes the index (`FlushIndex` is
the code both share).

| Property | Says |
|---|---|
| `DrainedBeforeClose` | what was received before the signal is taken before the file is closed |
| `StartsAtKey` | no sample before its parameter sets; an HEVC recording starts with a key picture |
| `NoGap` | between two samples of a recording no packet with a picture was passed over; the samples of two resolutions are not mixed |
| `RecordingComplete` | at exit the file is closed and every sample in it is found: **violated** with a second resolution, see 5 |
| `MuxMisuse` | a multiplexer that is not there is used, or one opened on a closed file, in three named cases only |
| `PacketEndsRecording` | after a signal, a packet in the queue makes the DVR thread finish |
| `SignalEndsRecording` | a signal alone does: **violated**, see 5 |

`StartsAtKey` and `NoGap` leave out recordings in which a NAL unit met a half
stored writer (`raced`): the code promises nothing about these.  For H.264 the
gate `need_idr` is opened by an IDR unit that is then skipped when the PPS is
still missing, so only the parameter sets are promised.

`MuxMisuse` names three defects.  `MP4E_open` returns NULL when `ftyp` cannot be
written, and `MP4E_add_track` reads `mux->tracks` before its test of `mux`.  The DVR thread
writes what was received before `init_buffer` ran: an H.264 SPS or PPS (or an HEVC
IDR_N_LP unit, which looks like a PPS to a zeroed writer, as STSA_N and EOS units would) is then stored through `mux == NULL`.
And an info change after the signal opens a multiplexer on a file that may be closed.

### OsdSurface, OsdSurfaceProofs

`__OSD_THREAD__` with its double buffer and its modeset, the display thread's
use of `osd_buf_switch`, and the kernel, which latches an accepted commit at the
next vertical blank.  A painting is a version number; `half` has the buffers
with an unfinished one.  The initialisation of `osd_mutex` is an action, since the display
thread may hold the mutex at that time.

| Property | Says |
|---|---|
| `ScreenWhole` | the OSD plane shows finished paintings only |
| `ScreenForward` | and never goes back to an older one |
| `OsdEnds` | a signal ends the OSD thread |

The first two hold while commits keep up with the OSD thread (`~overrun`): a
painting starts after a commit of the buffer selected last was latched.  At
the default of one painting per second and 60 to 120 pictures per second the program is in
that case; with a feed that stopped it is not, and the OSD then paints
into what the screen shows.  They also leave out runs in which the mutex was
initialised while held (`reinit`).

### DecoderFeed, DecoderFeedProofs

`GstRtpReceiver` (start, pull loop, stop), `feed_packet_to_decoder` with its
retry loop, and the end of stream `main()` feeds through the same `MppPacket`.
The decoder's input holds `Capacity` packets and refuses more; of the time spent retrying, only "more
than 100 ms" matters, which may be the case at any refusal.

| Property | Says |
|---|---|
| `FedInOrder` | access units reach the decoder in order, at most once, the end of stream once and last |
| `NothingLostSilently` | each access unit was accepted, counted as stalled, or came after the signal, and the DVR got it in any case |
| `PipelineOutlivesPull` | the pipeline is not released while the pull thread may pull |
| `SignalStopsFeed` | a signal ends the pull thread, even if the decoder takes nothing any more; the end of stream is fed if the decoder goes on |

### Modeset, ModesetProofs

`modeset_prepare` and all it calls in `drm.c`, and the release at the end of `main()`.  One
action per call that can fail; `held` has the resources of the output being created,
`kept` those of the output in use, `lost` what no pointer leads to any more.  The
device is chosen in `Init`: connectors (connected or not, modes, CRTC in use, CRTCs each
encoder can drive) and planes (CRTCs, formats).  `failed` is history: some call failed.

| Property | Says |
|---|---|
| `OutputFits` | the output chosen can be driven: its mode, CRTC, planes and formats fit together |
| `SearchComplete` | an output is found if no call fails and there is one to find |
| `UndoValid` | a label of the undoing chain releases only what is there, and nothing twice |
| `NothingElseLost` | what is forgotten: the struct an output in use was copied from, in every run; of a failed set-up at most the saved CRTC, the video plane's properties and the first OSD buffer; all it holds when a second output displaces the first |

`NothingElseLost` is the account of what `drm.c` allocates or gets from the kernel for an output and
never gives back: the
struct of `drm.c:422`, which `modeset_prepare` copies by value (540) and never frees, what a failed
set-up leaves (each of the three is reached), and what a displaced output held.

`SearchComplete` asks for a plane of each format on every CRTC, since the code settles on
a CRTC before it looks for planes and does not come back.

### Lifecycle, LifecycleProofs

`main()` from its first option to its last join, with the threads as boxes that run and end, and
`__MAVLINK_THREAD__`'s socket and loop.  Each option is an action, in any
order and number up to `MaxArgs`.  Thread creation may fail: an assertion ends the
process, except for the DVR thread, where nobody looks.  `stuck` holds the waits the other modules show to
last for ever (5.1, 5.2 and a decoder that takes no end of stream); the signal
meets any of them or none.

| Property | Says |
|---|---|
| `JoinsCreated` | main() joins only threads it created, but for telemetry elements without `--osd`, and a DVR thread that could not be created |
| `ThreadsEndFirst` | no thread runs any more when what it uses is released |
| `SignalEndsProcess` | a signal that meets no such wait ends the process |

Proved and not checked by a run: `TelemetryHasSource` (an OSD with telemetry has its MAVLink
thread, in any order of options) and `OsdOnTop` (the OSD plane is in front).

`JoinsCreated` names a defect: `fpvue --osd-elements telem` without `--osd` sets
`mavlink_thread`, creates no thread, and joins an uninitialised `tid_mavlink` at exit.

### AspectFit

The arithmetic of `modeset_atomic_prepare_commit`: the largest rectangle of the picture's
ratio, centred.  The code divides in single precision and truncates.  The module
does not compute floats: a quotient has a relative error below `1/Precision`, and
`Rectangles` is the set of the results that leaves possible, both branches where the
comparison may go either way.  (Two roundings of a float, of the ratio and of the quotient, stay
below 2^-22.)

### Resolution, ResolutionProofs

What an info change does to buffers and requests.  A resolution is a generation of
`MAX_FRAMES` buffers; `frame_to_drm` knows the last one only.  The decoder (external, as the
program uses it) writes into free buffers of its group; `mpp_frame_deinit` makes a buffer free
again right after it was posted (`Deinit`).  `video_request` is the list of properties libdrm
appends to, up to the cursor the display thread resets; neighbouring properties (SRC_*, CRTC_*)
are one item.  The kernel refuses a request that names a frame buffer that is gone or a source larger
than its buffer, a picture larger than the screen that the display hardware does not scale down
(`Unscalable`, any set of such sizes: it depends on the device), and one
that comes while another is pending, unless it is a blocking one.  A refused modeset fails the assert at
`main.cpp:175`, which ends the process (the build the repository describes does not define `NDEBUG`); the
model then stops but for the screen.  The slot is one step, since `FrameHandover` has its lock.

| Property | Says |
|---|---|
| `ShownInFull` | whatever its size, what the program has the display show of the resolution in use is the whole picture, in the largest rectangle on the screen; its modeset is refused only for a size larger than the screen that the display does not scale down |
| `ModesetAccepted` | no info change ends the process: **violated** even where the display scales every size, see 5 |
| `OverwriteDistance` | the decoder writes into a buffer that waits or is shown only when it is `MAX_FRAMES - MaxRefs` pictures ahead of it |
| `ExitAccount` | at exit the buffers of the last resolution are gone, the earlier ones are not; when zpos is not restored |
| `DecoderServed` | the decoder never runs out of buffers for good, however slow the display is |

The repository's `README.md` has two known issues with pictures larger than the screen.  The crash
(`README.md:67`) is the refused modeset, the exception `ShownInFull` names, and the run has a size for it.
The crop (`README.md:66`) is not something the code asks for: SRC_W and SRC_H are the whole picture
(`drm.c:592-599`) and CRTC_W and CRTC_H the scaled rectangle, which is what `ShownInFull` says;
whether a driver that accepts this really scales is beyond the program and the model.  A crop can
also come from a lost modeset (5.4).

`ShownInFull` leaves out the runs in which both threads were between their first
property and their commit (`overlap`).  What two unlocked `drmModeAtomicAddProperty` calls leave behind
when they run at the same moment is undefined, and nothing is claimed about it; what goes wrong even if
they do not is shown by `resolution_race`.  `OverwriteDistance` is why many
buffers are needed: the comment at `main.cpp:54` quotes MPP's recommended number and gives no reason.  It
rests on two assumptions about the decoder: it takes the buffer that has been free longest, and keeps at
most `MaxRefs` for reference.  `ExitAccount` names two
defects: the buffers of every resolution but the last are never freed, and the video plane's zpos is
usually not restored: the request still names the last picture's frame buffer,
which `main()` has removed by then, and the kernel refuses all of it.  (If the code freed the old
buffers at an info change, the second modeset would be refused for the same reason.)

### DisplayStats, LinkRate, Telemetry, Contents, ContentsProofs, MCContents

The three writers of `osd_vars`, each a module of its own, and `Contents`, which puts them side
by side (they share no state, so one of them takes all the steps of a behaviour).  `DisplayStats` is the latency window of the display thread, where a
latency is the number of its picture.  `LinkRate` is the bandwidth ring: the feed callback
sums bytes and advances `bw_curr`, and the painting averages the ring entry by
entry, without a lock.  `Telemetry` is arming, home position and distance, with the conversion of
coordinates as the function it computes (`Degrees`): the code inserts a decimal point into
their digits.

| Property | Says |
|---|---|
| `PicturesCountedOnce` | each latency is averaged in exactly one report, in order, though it is stored after the report its picture caused |
| `BytesCountedOnce` | each byte received is in one second of the ring, or in the current one |
| `RateIsNumber` | once a second was measured the rate painted is a number, and at most one entry is in it twice |
| `DistanceFromHome` | the distance is from the first fix after arming to the last fix while armed, for coordinates the conversion gets right |

`DistanceFromHome` says for which coordinates that is (`Convertible`): 0, and 0.1 to 100 degrees north
and east.  South or west of zero `strtod` reads 0 from `0.-...`; from 100 degrees on the point
is one digit too far left; below 0.1 leading zeros are missing.

## 3. The runs

| Run | Instance | Shows |
|---|---|---|
| `handover` | 3 pictures in 2 buffers, 2 info changes | the properties of `FrameHandover`, the refinement, the liveness |
| `handover_shutdown` | 3 pictures, 1 info change | `ShutdownCompletes` is violated |
| `dvr` | HEVC fragmented and H.264 indexed, 3 packets of 2 or 3 kinds, 1 resolution, with and without `--dvr` | the properties of the recording |
| `dvr_signal` | HEVC, 2 packets | `SignalEndsRecording` is violated |
| `dvr_resolution` | HEVC, 2 packets, 2 resolutions | `RecordingComplete` is violated |
| `osd` | 4 paintings | the properties of `OsdSurface` |
| `feed` | 4 access units, a decoder input of 2 | the properties of `DecoderFeed` |
| `modeset` | 2 connectors of 6 kinds, 2 planes of 4 kinds, 2 CRTCs, 2 modes | the properties of `Modeset` |
| `lifecycle` | 4 options | the properties of `Lifecycle` |
| `resolution` | 2 resolutions of 3 sizes, 4 pictures, 3 buffers, 1 reference, a precision of 64 | the properties of `Resolution` |
| `resolution_race` | 2 resolutions of the same sizes, 2 pictures, 2 buffers, a display that scales everything | `ModesetAccepted` is violated by the two threads meeting in `video_request` |
| `contents` | 9 pictures, 4 in a period, a window of 5; 6 frames, a ring of 3; 7 messages with 4 positions | the properties of `DisplayStats`, `LinkRate` and `Telemetry` |

Why the bounds are enough.  Pictures of the hand-over: a mix or a repetition needs the picture
in the display's hands, the one in the slot and the one being posted: three.
Two frame buffers, so that one is used again.  Packets: a gap needs a sample, a packet passed over
and a sample: three; an H.264 sample needs SPS, PPS and a picture: three; each is one
resolution except in the run about the second.  The file layout and the codec do not meet in the
code, so two of the four combinations reach both sides of each test.  Paintings: two buffers and one
use of each again: four.  Access units: a decoder input of two can be filled, one
refused, and one accepted again: four.  Modeset: a second connector is tried after a first
one that failed or that was taken; each search passes something over and finds something later.
Options: an OSD, its elements before or after it, and a recording with its rate: four.
Resolutions: a picture of the first in every place (slot, hand, pending, screen) when the second
comes; three buffers and four pictures, so that one is written again while another is
shown and one is a reference.  The screen has 8 times 6 points.  A picture of 4 times 4 is smaller, one of 16
times 6 is larger and scaled down, one of 10 times 9 is larger and refused.  With a precision of 64 that
makes both branches of the aspect ratio and a rounding error that costs a line happen.  Contents: two reports and one begun; a ring that wraps; two armings with a
fix before, between and after.  The window and the ring are smaller than in the
code (200 and 10): the indices wrap and fill all the same.

Deadlock checking is off in every run: the program ends, and the bounds end what the
environment sends.

## 4. Fairness

Every fair specification says only that a thread that can go on does (weak
fairness of the thread's body), which any scheduler gives and `SCHED_FIFO` does not
take away, since all threads block in system calls.  Nothing is promised about the arrival of packets or
pictures, the signal, refused commits or spurious wake-ups.  Beyond that:

* `FrameHandover`: the decoder hands out its end-of-stream frame once `main()`
  has fed it (`FlushDecoder`); that is MPP's contract, and both loops of the program rely on it.
* `OsdSurface`: `OsdLock` and `OsdModeset` are strongly fair.  The display
  thread takes `osd_mutex` again and again; it holds it for a fraction of a frame period,
  then waits for the next picture, so the OSD thread meets a free mutex again and
  again and gets it.  The kernel does not let newer commits pass a blocking one.
* `Lifecycle`: nothing is promised about the peer's datagrams; the waits in `stuck` are not fair.
* `DecoderFeed`: the decoder promises nothing.  `SignalStopsFeed` therefore ends where `main()`
  offers the end of stream, and goes on from there under the assumption it names, that the decoder
  takes packets: the loop at `main.cpp:451` has no other end.
* `Resolution`: the frame thread goes on, a picture that was begun gets finished, and the screen is
  refreshed.  Nothing is asked of the display thread, which is the point of `DecoderServed`.

## 5. Findings

1. **Missed wake-up at shutdown** (`handover_shutdown`).  The display thread
   tests `frm_eos` without the mutex (`main.cpp:269`), then locks, finds the slot
   empty and waits (275) without another look at the flag.  If the
   frame thread ends and `main()` signals (734) in between, nobody signals again and `main()`
   hangs in `pthread_join` (739), whose result the `assert` takes for granted.
   `WaiterLeaves` holds: a thread that waits in time gets out.
2. **The signal does not wake the DVR thread** (`dvr_signal`).  `sig_handler`
   sets `signal_flag` and `cv` is not notified; with an empty queue
   and no further packet the file stays without its index and `main()` hangs at 756.
   `PacketEndsRecording` holds: one more packet is enough.
3. **A second resolution loses the recording** (`dvr_resolution`).  Each info
   change opens a new multiplexer on the same file and forgets the one in use.
4. **A commit in the middle of the modeset** (`resolution_race`).  The display thread has filled
   `video_request` and not yet committed it (it may be waiting for `osd_mutex`, 297) when the frame thread
   appends its modeset; the display's commit (301) carries that out early.  The display's next picture,
   still one of the old resolution, resets the cursor (293) before the frame thread's test commit, which
   then tests that flip alone: the new source is larger than the old
   buffer, the kernel refuses, and the assert at `main.cpp:175` ends the program.  If only the reset
   comes between, the test commit accepts the flip, the modeset is lost without an error, and the new
   pictures are shown with the size of the old ones: cropped if that is smaller, not at all if it is
   larger.

Besides these, properties that hold name the exceptions the code makes them need: `JoinsCreated` (a join of a thread never
created), `MuxMisuse` (three ways to a multiplexer that is not there), `NothingElseLost` and
`ExitAccount` (what is never given back), `ShownInFull` (a picture larger than the screen that the
display does not scale down ends the program, as `README.md:67` of the repository knows),
`DistanceFromHome` (coordinates that come out wrong).  Each exception is reached in its run, and without
it the property is violated.

`OutputFits` holds, and does not say that there are two planes, as `drm.h:3` does ("It uses two
different planes for the OSD and the video feed."): each search takes the first plane that fits
(`drm.c:229-251`), and one that has both formats is chosen for the video and for the OSD.

## 6. Proofs

Every theorem is for all values of the constants that satisfy the named assumption of the module
(`HandoverAssumption`, `FeedAssumption`, ...).  The properties are seldom inductive; each
proof rests on a strengthening, which stands at the end of the component's module and
which TLC agreed with before it was proved.  The proofs have one lemma per thread and a step per action.

`FrameHandoverProofs`, by `HandoverInv`: `TypeCorrect`, `PairCorrect`, `NewestCorrect`,
`RequestCorrect`, `TeardownCorrect`, the action property `NeverTwice`, and `Refinement`:
`Spec => VS!Spec`.  That the display's picture is whole after `DisplayTake` depends on what
the slot held, and on no other thread having been between `SetFb` and `SetPts`.
`HandoverInv` therefore adds

* `MutexHeld`: each thread holds `video_mutex` exactly between its lock and its
  unlock, hence only one is in a critical section;
* `SlotHolds`: a slot in use holds the newest posted picture, except between
  `SetFb` and `SetPts`;
* `DisplayOrder`: `screen <= taken <= posted`, strictly where the display has a
  picture to show, and strictly while the slot is in use: this is what makes
  repetition impossible and `Take` and `Show` of `VideoSlot` enabled;
* `ShutdownOrder`: frame thread, display thread, destruction, in that order;
* `ResolutionFirst`: no picture before the first info change.

`InitRefines` and `StepRefines` map the initial state and every step: `SetPts` to `Post`,
`DisplayTake` to `Take`, an accepted `DisplayShow` to `Show`, all others to stuttering.

`DecoderFeedProofs`, by `FeedInv`: all four invariants of the `feed` run.  `PacketOwner` says who has the one
`MppPacket` and what is in it, `PullAlive` that the pull thread runs between start and join, so that main() and
it never have the packet together; `Account` counts at every program point what was pulled, offered,
fed, stalled and enqueued, and `FedSoFar` that what was fed are offered units in order.

`OsdSurfaceProofs`, by `OsdInv`: `TypeOK`, `ScreenWhole` and the action property
`ScreenForward`.  `Painted` says that the buffer painted is the one not selected, `MutexHeld` that
no flip comes between the display thread's choice and its commit (unless the mutex was
initialised while held), and `Latch` which buffer is pending and which on the screen, by what
became of the first commit after the last flip; `Newer` orders the versions.

`DvrRecorderProofs`, by `DvrInv`: all five invariants of the `dvr` run and the action property
`MuxMisuse`, for any packets of NAL units and any number of resolutions; `RecordingComplete` as long
as one resolution was announced (`mux <= 1`, beyond which it is false, see 5). The parts:

* `Counted`: every packet is in the pull thread's hands, in the queue or taken; `EndsDrained`: the end
  comes after the signal and after all that the signal found; `PacketInHand`: the NAL units still to be
  written are the end of the packet taken last;
* `WriterReady`: from the first initialisation to the end the writer has a multiplexer; `WriterWhole`: what
  `mp4_h26x_write_init` has stored so far is fresh, and after it a gate is open only if its parameter
  set is in the multiplexer; with HEVC the last gate opens with the first sample;
* `NothingAfter`: what was taken and written since the last sample had no picture in it, so that `NoGap`
  holds for the next one; `SamplesFound`: what was written with the last sample or at the end finds it.

`LifecycleProofs`, by `LifeInv`: all three invariants of the `lifecycle` run, and
`TelemetryHasSource` and `OsdOnTop`, for any number of options in any order.  `OptionsFit` relates the
options, `ThreadsFit` says which threads are there at each point, `Joined` which were waited for.

`ContentsProofs`: all invariants of the `contents` run.  By `StatsInv`, `PicturesCountedOnce` and that the
index stays inside `latency_avg`, if a period has fewer pictures than it has entries
(`StatsAssumption` says so, the code does not enforce it): the entry of the last picture of a
period is the first of the next.  By `LinkInv`, for a ring of any size and any interleaving,
`BytesCountedOnce` and `RateIsNumber`: `BytesInRing` reads the ring backwards from `Newest`, the last entry
stored whole (between the advance of `bw_curr` and the store that is the entry before it);
`PaintingFrom(s)` says what the loop that began at entry `s` can have met, with no store or one: either
entry `s` has bytes in it, or the loop began while it was waiting for them, and then the entry before
has bytes, which the loop reads last.  By
`TelemetryInv`, `DistanceFromHome` for any positions; the lemmas under it are about `Digits` and `Degrees`.
`Separation` carries all of it over to `Contents`.

`ModesetProofs`: all five invariants of the `modeset` run, for any device and any calls that fail. By `ModesetInv`,
`TypeOK`, `UndoValid`, `NothingElseLost` and `OutputFits`.  `HeldSoFar` says what is held at each call and at each label, which
makes the leaks countable; `KeptSoFar` what the output in use holds and what earlier ones lost;
`ChosenFits` that each search found what fits what was chosen before it (`ModeFound`, `CrtcFound` and
`PlaneFound`, from the least element of a set of numbers).  `SearchComplete` is proved by `PassedOver`: as long
as no call has failed and every CRTC has its planes, no connector before the one being tried could be
driven, unless there is an output already; nor could the one the undoing chain gives up. `ModeThere`,
`CrtcThere` and `PlaneThere` say that each search finds what is there to find.

`ResolutionProofs`, first about `AspectFit`: for every picture, and every screen whose sides the
precision suffices for (`side * (2 * Precision + 1) <= Precision * Precision`, `ScreenAssumption`:
with the precision of a float two million points), every rectangle the code may ask for is on the screen
(`RectanglesOnScreen`) and has the picture's ratio to less than two points, with one side of the screen
(`RectanglesLargest`).  Then, by `ResolutionInv`: `TypeOK`, `ShownInFull`, `OverwriteDistance` and
`ExitAccount`, for any number of resolutions, sizes, buffers, references and pictures.  The parts:

* `FramesFit` and `PicturesFit` say which frame is where, and that pictures pass in the order of their
  numbers: no picture of an old resolution is in the decoder or in the frame thread's hands when a new
  size is announced;
* `BuffersOwned`: a buffer of the group is free, written, or held (reference, output, frame
  thread), and none is lost while the decoder runs;
* `PostedFits`: every picture the display can still use (in the slot, in hand, in the request, on the
  plane, on the screen) is older than what the decoder has, and `PostedFar`: its buffer, once free at place
  `k` of the queue, is written for picture `started + k`, which is `MAX_FRAMES - MaxRefs` ahead.
  That is `FreedFar`: when the buffer becomes free, all others are free, references, or hold newer
  pictures (`Counting` counts them);
* `BuffersExist` and `Alone`: which buffers the kernel has, what the request of each thread names, that a
  modeset is valid but for a size the display does not scale down (`ModesetValid`), for any set of
  such sizes larger than the screen (`UnscalableAssumption`), and what it leaves on the plane (`AppliedPrepared`).

There is one lemma for each action (`PostStep`, `DeinitStep`, ...) and one for each part of the
invariant that says which variables it is about (`RequestFitsStays`, ...).

Only model-checked: all liveness (fairness is out of the prover's reach).

## 7. Not modelled

* Threads interleave sequentially consistently.  The only data race whose
  reordering is modelled is `mp4wr`, where it decides what is recorded; the flags
  (`signal_flag`, `frm_eos`, `m_pull_samples_run`) are read without locks in the code and seen at once here.
* A failing `assert` ends the process; library calls checked by one succeed, but for the modeset
  of `init_buffer`.
* File writes after `ftyp` succeed.  A failed write leaves a sample's descriptor in the
  index (`minimp4.h:1129`), and a failed header in fragmented mode is never retried (1110); both are
  read off the code, and without the contents of the file there is nothing to check them against.
* Box contents, durations and offsets.  A SEI unit before the first key picture of an HEVC access unit
  makes the writer give up that packet (`minimp4.h:2301`): modelled, as are its consequences for `StartsAtKey`.
* What two threads leave in `video_request` when they append to it at the same time; the
  requests of the OSD plane after its first modeset, and the OSD's frame buffer left in
  `video_request`; the second half of `restore_planes_zpos` is modelled, the first goes through `osd_request`.
* The kernel is a latch with one pending commit; the decoder a bounded input and a pool.
* The frame rate shown (0 for a period of more than a second; `main.cpp:326` divides by 0
  without `--osd`, which the target's processor answers with 0), the flight clock (`osd.c:263-295`)
  and torn reads of the statistics: they are displayed and nothing depends on them.
  Telemetry fields that are only copied from a message and drawn, and the script a high eighth channel runs.
* The cairo drawing, the icons, priorities (`scheduling_helper.hpp`), clocks and log output.
* `rtp.c`: nothing calls it, so no caller says what its inputs and its state can be.
* The generated MAVLink headers, by lines nearly all of the repository: `mavlink_parse_char` is
  used as a source of whole messages.

## 8. Plan

Done: the core (hand-over, recorder, OSD surface, feed), the lifecycle, the modeset, the change
of resolution with the aspect ratio, the contents of the OSD; eight of the modules are proved about.

Left, in order:

1. Composition of `Resolution` with `DvrRecorder`: the multiplexer opened at each info change,
   with the modeset between, in one model.
2. The frame rate and the flight clock, if a property worth stating is found.
