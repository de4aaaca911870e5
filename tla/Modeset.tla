------------------------------- MODULE Modeset -------------------------------
(***************************************************************************)
(* How src/drm.c chooses what to drive and what it holds while it does:    *)
(* modeset_prepare tries every connector, modeset_output_create looks for  *)
(* a mode, a CRTC and two planes and sets objects and buffers up, with a   *)
(* chain of goto's that undoes a set-up that failed, and main() gives all  *)
(* of it back at exit.  Any call to the kernel may fail.                   *)
(*                                                                         *)
(* CRTCs are their indices in the resources; 0 stands for none.            *)
(***************************************************************************)
EXTENDS Naturals, Sequences, FiniteSetsExt, SequencesExt

CONSTANTS
  Crtcs,            \* number of CRTCs
  Modes,            \* screen modes
  AnyMode,          \* no --screen-mode was given
  ConnectorKinds,   \* what a connector may be
  PlaneKinds,       \* what a plane may be
  NConnectors,      \* bound: connectors of the device
  NPlanes           \* bound: planes of the device

Formats    == {"NV12", "ARGB8888"}
Connector  == [connected : BOOLEAN, modes : Seq(Modes), current : 0..Crtcs,
               encoders : Seq(SUBSET (1..Crtcs))]
Plane      == [crtcs : SUBSET (1..Crtcs), formats : SUBSET Formats]

ASSUME ModesetAssumption ==
  /\ Crtcs \in Nat \ {0} /\ AnyMode \notin Modes
  /\ NConnectors \in Nat /\ NPlanes \in Nat
  /\ ConnectorKinds \subseteq Connector /\ PlaneKinds \subseteq Plane

VARIABLES
  connectors, planes,   \* what the device has
  want,                 \* the mode the user asked for
  pc,                   \* where modeset_prepare or main() is
  i,                    \* the connector it tries
  out,                  \* the output being created
  held,                 \* the resources of out
  output_list,          \* the output main() uses, NoOutput: memory nobody filled
  kept,                 \* its resources
  lost,                 \* resources, with their connector, nobody can release
  displaced,            \* history: connectors whose output was overwritten
  failed                \* history: a call to the kernel has failed

device == <<connectors, planes, want>>
vars   == <<device, pc, i, out, held, output_list, kept, lost, displaced, failed>>

NoOutput == [connector |-> 0, mode |-> AnyMode, crtc |-> 0, video |-> 0, osd |-> 0]
Objects  == {"connector", "crtc", "video", "osd"}    \* their properties
Bufs     == {"osd_bufs[0]", "osd_bufs[1]"}
Requests == {"video_request", "osd_request"}
\* "out" is the struct modeset_output_create allocates.
Held     == Objects \cup Bufs \cup Requests \cup {"out", "mode_blob", "saved_crtc"}

Init ==
  /\ connectors \in [1..NConnectors -> ConnectorKinds]
  /\ planes \in [1..NPlanes -> PlaneKinds]
  /\ want \in Modes \cup {AnyMode}
  /\ pc = "get" /\ i = 1 /\ out = NoOutput /\ held = {}
  /\ output_list = NoOutput /\ kept = {}
  /\ lost = {} /\ displaced = {} /\ failed = FALSE

-----------------------------------------------------------------------------
Goes(from, to) ==
  /\ pc = from /\ pc' = to
  /\ UNCHANGED <<device, output_list, kept, displaced>>

\* The call succeeds, or it fails and the code jumps to the label.
Succeeds(from, to) == Goes(from, to) /\ UNCHANGED <<i, lost, failed>>
Fails(from, label) == Goes(from, label) /\ failed' = TRUE /\ UNCHANGED <<i, out, lost>>
Jumps(from, label) == Goes(from, label) /\ UNCHANGED <<i, out, lost, failed>>

-----------------------------------------------------------------------------
(* modeset_prepare and modeset_output_create                               *)

\* Mutant: one connector more than there are is tried.
GetConnectorPastEnd ==
  /\ i <= Len(connectors) + 1 /\ Goes("get", "get") /\ failed' = TRUE
  /\ i' = i + 1
  /\ UNCHANGED <<out, held, lost>>

\* modeset_output_create allocates the output first.
GetConnector ==
  /\ i <= Len(connectors)
  /\ \/ /\ Succeeds("get", "mode")
        /\ out' = [NoOutput EXCEPT !.connector = i]
        /\ held' = {"out"}
     \/ /\ Goes("get", "get") /\ failed' = TRUE
        /\ i' = i + 1
        /\ UNCHANGED <<out, held, lost>>

\* The mode asked for, the last of several; or the first mode.
ModeIndex(c) ==
  IF want = AnyMode THEN Min({1, Len(c.modes)})
  ELSE SelectLastInSeq(c.modes, LAMBDA m : m = want)

ChooseMode ==
  /\ pc = "mode"
  /\ LET c == connectors[i]
         n == ModeIndex(c)
     IN  \/ /\ c.connected /\ n # 0
            /\ Succeeds("mode", "blob")
            /\ out' = [out EXCEPT !.mode = c.modes[n]]
         \/ ~(c.connected /\ n # 0) /\ Jumps("mode", "out_error")
  /\ UNCHANGED held

CreateBlob ==
  \/ /\ Succeeds("blob", "crtc")
     /\ held' = held \cup {"mode_blob"}
     /\ UNCHANGED out
  \/ Fails("blob", "out_error") /\ UNCHANGED held

\* Mutant: only the first encoder is looked at.
FoundCrtcFirst(c, current, encoders) ==
  IF current # 0 THEN current
  ELSE IF 1 \in encoders /\ c.encoders[1] # {} THEN Min(c.encoders[1]) ELSE 0

\* The CRTC in use, else the first one of the first encoder that has any.
FoundCrtc(c, current, encoders) ==
  LET able == {e \in encoders : c.encoders[e] # {}}
  IN  IF current # 0 THEN current
      ELSE IF able # {} THEN Min(c.encoders[Min(able)]) ELSE 0

\* An encoder the kernel does not give is passed over, the one in use too;
\* a CRTC whose state it does not give is used, with nothing saved.
FindCrtc ==
  /\ pc = "crtc"
  /\ LET c == connectors[i] IN
     \E current \in {0, c.current}, encoders \in SUBSET DOMAIN c.encoders,
        saved \in {{}, {"saved_crtc"}} :
       LET crtc == FoundCrtc(c, current, encoders) IN
       /\ failed' = (failed \/ current # c.current \/ encoders # DOMAIN c.encoders
                     \/ saved = {})
       /\ \/ /\ crtc # 0 /\ Goes("crtc", "video_plane")
             /\ out' = [out EXCEPT !.crtc = crtc]
             /\ held' = held \cup saved
          \/ crtc = 0 /\ Goes("crtc", "out_blob") /\ UNCHANGED <<out, held>>
  /\ UNCHANGED <<i, lost>>

\* Mutant: whether the plane can be on the CRTC is not looked at.
FoundPlaneAnywhere(readable, format) ==
  LET able == {p \in readable : format \in planes[p].formats}
  IN  IF able = {} THEN 0 ELSE Min(able)

\* The first plane that can be on the CRTC and has the format.
FoundPlane(readable, format) ==
  LET able == {p \in readable : out.crtc \in planes[p].crtcs
                                /\ format \in planes[p].formats}
  IN  IF able = {} THEN 0 ELSE Min(able)

FindPlane(from, to, format, field) ==
  /\ pc = from
  /\ \E readable \in SUBSET DOMAIN planes :
       LET p == FoundPlane(readable, format) IN
       /\ failed' = (failed \/ readable # DOMAIN planes)
       /\ \/ p # 0 /\ Goes(from, to) /\ out' = [out EXCEPT ![field] = p]
          \/ p = 0 /\ Goes(from, "out_blob") /\ UNCHANGED out
  /\ UNCHANGED <<i, held, lost>>

FindVideoPlane == FindPlane("video_plane", "osd_plane", "NV12", "video")
FindOsdPlane   == FindPlane("osd_plane", "props_connector", "ARGB8888", "osd")

\* Mutant: a failure jumps to the label that releases all four objects.
GetPropertiesToOutObj(from, to, obj, undone) ==
  \/ Succeeds(from, to) /\ held' = held \cup {obj} /\ UNCHANGED out
  \/ Fails(from, "out_obj") /\ held' = held \ undone

GetProperties(from, to, obj, undone) ==
  \/ Succeeds(from, to) /\ held' = held \cup {obj} /\ UNCHANGED out
  \/ Fails(from, "out_blob") /\ held' = held \ undone

\* modeset_setup_objects, with what its own labels give back
SetupObjects ==
  \/ GetProperties("props_connector", "props_crtc", "connector", {})
  \/ GetProperties("props_crtc", "props_video", "crtc", {"connector"})
  \/ GetProperties("props_video", "props_osd", "video", {"connector", "crtc"})
  \/ GetProperties("props_osd", "fb0", "osd", {"connector", "crtc"})

\* modeset_create_fb leaves nothing behind when it fails.
CreateFb(from, to, buf) ==
  \/ Succeeds(from, to) /\ held' = held \cup {buf} /\ UNCHANGED out
  \/ Fails(from, "out_obj") /\ UNCHANGED held

SetupFramebuffers == \/ CreateFb("fb0", "fb1", "osd_bufs[0]")
                     \/ CreateFb("fb1", "publish", "osd_bufs[1]")

OutObj   == Jumps("out_obj", "out_blob") /\ held' = held \ Objects
OutBlob  == Jumps("out_blob", "out_error") /\ held' = held \ {"mode_blob"}

\* free(out): what it still held besides is lost, and the next connector is tried.
OutError ==
  /\ Goes("out_error", "get")
  /\ lost' = lost \cup ({i} \X (held \ {"out"}))
  /\ held' = {} /\ out' = NoOutput /\ i' = i + 1
  /\ UNCHANGED failed

\* The requests are allocated; *output_list = *out, whatever was there: nobody
\* keeps the pointer out itself.
Publish ==
  /\ pc = "publish" /\ pc' = "get"
  /\ output_list' = out
  /\ kept' = (held \ {"out"}) \cup Requests
  /\ held' = {} /\ out' = NoOutput /\ i' = i + 1
  /\ lost' = lost \cup {<<i, "out">>} \cup ({output_list.connector} \X kept)
  /\ displaced' = displaced \cup ({output_list.connector} \ {0})
  /\ UNCHANGED <<device, failed>>

\* modeset_prepare returns 0, with an output or without.
PrepareReturns == i > Len(connectors) /\ Jumps("get", "run") /\ UNCHANGED held

-----------------------------------------------------------------------------
(* The end of main(), when there was an output to run with                 *)

Gives(from, to, S) ==
  /\ pc = from /\ pc' = to /\ output_list # NoOutput
  /\ kept' = kept \ S
  /\ UNCHANGED <<device, i, out, held, output_list, lost, displaced, failed>>

\* A CRTC whose state was not saved would be restored from NULL.
FreeRequests ==
  /\ "saved_crtc" \in kept
  /\ Gives("run", "destroy", Requests \cup {"saved_crtc"})

\* Mutant: the loop over the OSD buffers ends one too early.
OutputDestroyOneBuffer ==
  Gives("destroy", "exit", Objects \cup {"osd_bufs[0]", "mode_blob"})

OutputDestroy == Gives("destroy", "exit", Objects \cup Bufs \cup {"mode_blob"})

-----------------------------------------------------------------------------
Next == \/ GetConnector \/ ChooseMode \/ CreateBlob \/ FindCrtc
        \/ FindVideoPlane \/ FindOsdPlane \/ SetupObjects \/ SetupFramebuffers
        \/ OutObj \/ OutBlob \/ OutError \/ Publish \/ PrepareReturns
        \/ FreeRequests \/ OutputDestroy

Spec == Init /\ [][Next]_vars

-----------------------------------------------------------------------------
(* Properties                                                              *)

Output == [connector : 0..NConnectors, mode : Modes \cup {AnyMode}, crtc : 0..Crtcs,
           video : 0..NPlanes, osd : 0..NPlanes]

TypeOK ==
  /\ pc \in {"get", "mode", "blob", "crtc", "video_plane", "osd_plane",
             "props_connector", "props_crtc", "props_video", "props_osd", "fb0", "fb1",
             "publish", "out_obj", "out_blob", "out_error", "run", "destroy", "exit"}
  /\ i \in 1..(NConnectors + 1) /\ out \in Output /\ output_list \in Output
  /\ held \subseteq Held /\ kept \subseteq Held
  /\ lost \subseteq (1..NConnectors) \X Held
  /\ displaced \subseteq 0..NConnectors /\ failed \in BOOLEAN

\* What a failed connector may leave, and what the one in use leaves.
LeftBehind(left) ==
  left[2] \in IF left[1] = output_list.connector THEN {"out"}
             ELSE {"saved_crtc", "video", "osd_bufs[0]"}

\* Each label of the undoing chain gives back what is there: never properties
\* that were not read or that modeset_setup_objects gave back itself, never a
\* blob that was not created, nor the output twice (drm.c:485-491 with 277-282).
UndoValid ==
  /\ pc = "out_obj"  => Objects \subseteq held
  /\ pc = "out_blob" => "mode_blob" \in held /\ held \cap {"connector", "crtc"} = {}
  /\ pc = "out_error" => "out" \in held

\* Whatever fails, and after the exit, a connector that was tried in vain leaves
\* behind at most the saved CRTC, the properties of the video plane and the first
\* OSD buffer, and the output in use nothing but the struct it was copied from
\* (drm.c:422, 540); only an output displaced by a later one leaves more.
NothingElseLost ==
  \A left \in lost \cup (IF pc = "exit" THEN {output_list.connector} \X kept ELSE {}) :
    \/ left[1] \in displaced
    \/ LeftBehind(left)

\* The output is one the device can drive: the mode is the connector's and the
\* one asked for, an encoder reaches the CRTC, and both planes can be on that CRTC
\* with their formats.
OutputFits ==
  output_list # NoOutput =>
    LET c == connectors[output_list.connector] IN
    /\ c.connected /\ output_list.mode \in Range(c.modes)
    /\ want \in {AnyMode, output_list.mode}
    /\ output_list.crtc \in {c.current} \cup UNION Range(c.encoders)
    /\ \A use \in {<<output_list.video, "NV12">>, <<output_list.osd, "ARGB8888">>} :
         output_list.crtc \in planes[use[1]].crtcs /\ use[2] \in planes[use[1]].formats

\* A connector main() could run with; a plane of each format for every CRTC.
Drivable(c) == /\ c.connected /\ c.modes # <<>> /\ want \in {AnyMode} \cup Range(c.modes)
               /\ c.current # 0 \/ UNION Range(c.encoders) # {}
PlanesForAll == \A k \in 1..Crtcs, f \in Formats :
                  \E p \in DOMAIN planes : k \in planes[p].crtcs /\ f \in planes[p].formats

\* If no call fails and every CRTC has a plane for each format, modeset_prepare
\* misses no output: without one there is no connector to drive.
SearchComplete ==
  pc = "run" /\ ~failed /\ output_list = NoOutput /\ PlanesForAll =>
    ~\E n \in DOMAIN connectors : Drivable(connectors[n])

-----------------------------------------------------------------------------
(* What is true in every state and carries the proofs of the safety         *)
(* properties from one step to the next (ModesetProofs).                    *)

DeviceFits ==
  /\ connectors \in [1..NConnectors -> ConnectorKinds]
  /\ planes \in [1..NPlanes -> PlaneKinds]
  /\ want \in Modes \cup {AnyMode}

BeforeMode  == {"get", "mode"}
BeforeCrtc  == BeforeMode \cup {"blob", "crtc"}
BeforeVideo == BeforeCrtc \cup {"video_plane"}
BeforeOsd   == BeforeVideo \cup {"osd_plane"}
Undoing     == {"out_obj", "out_blob", "out_error"}
Running     == {"run", "destroy", "exit"}

\* The output being created is that of connector i.
Creating ==
  /\ pc \notin {"get"} \cup Running => i \in 1..NConnectors /\ out.connector = i
  /\ pc = "get" => out.connector = 0
  /\ output_list.connector < i

\* What it holds, call after call, and label after label when one fails.
Stage == [props_crtc  |-> {"connector"},
          props_video |-> {"connector", "crtc"},
          props_osd   |-> {"connector", "crtc", "video"},
          fb0         |-> Objects,
          fb1         |-> Objects \cup {"osd_bufs[0]"},
          publish     |-> Objects \cup Bufs]

HeldSoFar ==
  /\ pc \in {"get"} \cup Running => held = {}
  /\ pc \in {"mode", "blob"} => held = {"out"}
  /\ pc \in {"crtc", "video_plane", "osd_plane", "props_connector"} =>
       held \ {"saved_crtc"} = {"out", "mode_blob"}
  /\ pc \in DOMAIN Stage => held \ {"saved_crtc"} = Stage[pc] \cup {"out", "mode_blob"}
  /\ pc = "out_obj" =>
       /\ Objects \cup {"out", "mode_blob"} \subseteq held
       /\ held \subseteq Objects \cup {"out", "mode_blob", "saved_crtc", "osd_bufs[0]"}
  /\ pc = "out_blob" =>
       /\ {"out", "mode_blob"} \subseteq held
       /\ held \subseteq {"out", "mode_blob", "saved_crtc", "video", "osd_bufs[0]"}
  /\ pc = "out_error" =>
       "out" \in held /\ held \subseteq {"out", "saved_crtc", "video", "osd_bufs[0]"}

\* What the output in use holds, and what earlier ones have lost.
KeptSoFar ==
  /\ output_list.connector = 0 => output_list = NoOutput /\ kept = {}
  /\ "out" \notin kept
  /\ pc = "destroy" => kept \subseteq Objects \cup Bufs \cup {"mode_blob"}
  /\ pc = "exit" => kept = {}
  /\ \A left \in lost :
       left[1] < i /\ (left[1] \in displaced \/ LeftBehind(left))

\* An output, as far as it was chosen, can be driven.
ModeFits(o) == LET c == connectors[o.connector] IN
  c.connected /\ o.mode \in Range(c.modes) /\ want \in {AnyMode, o.mode}
CrtcFits(o) == LET c == connectors[o.connector] IN
  o.crtc \in {c.current} \cup UNION Range(c.encoders)
PlaneFits(o, p, format) ==
  p \in 1..NPlanes /\ o.crtc \in planes[p].crtcs /\ format \in planes[p].formats
Fits(o) == ModeFits(o) /\ CrtcFits(o) /\ PlaneFits(o, o.video, "NV12")
                       /\ PlaneFits(o, o.osd, "ARGB8888")

ChosenFits ==
  LET chosen == pc \notin Undoing \cup Running IN
  /\ chosen /\ pc \notin BeforeMode  => ModeFits(out)
  /\ chosen /\ pc \notin BeforeCrtc  => CrtcFits(out)
  /\ chosen /\ pc \notin BeforeVideo => PlaneFits(out, out.video, "NV12")
  /\ chosen /\ pc \notin BeforeOsd   => PlaneFits(out, out.osd, "ARGB8888")
  /\ output_list # NoOutput => output_list.connector \in 1..NConnectors /\ Fits(output_list)

\* A connector passed over could not be driven, nor one that is being given up, as
\* long as no call failed and planes cannot be what is missing.
PassedOver ==
  /\ pc \in {"video_plane", "osd_plane"} => out.crtc # 0
  /\ pc \in Running => i > NConnectors
  /\ ~failed /\ PlanesForAll =>
       /\ output_list = NoOutput => \A n \in 1..NConnectors : n < i => ~Drivable(connectors[n])
       /\ pc \in Undoing => ~Drivable(connectors[i])

ModesetInv ==
  TypeOK /\ DeviceFits /\ Creating /\ HeldSoFar /\ KeptSoFar /\ ChosenFits
=============================================================================
