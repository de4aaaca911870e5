---------------------------- MODULE ModesetProofs ----------------------------
(***************************************************************************)
(* Proofs about Modeset for any device: any number of connectors, modes,   *)
(* CRTCs, encoders and planes, and any call that fails.                    *)
(***************************************************************************)
EXTENDS Modeset, WellFoundedInduction, TLAPS

-----------------------------------------------------------------------------
(* The searches find an element of what they search.                       *)

\* A set of numbers has a least element.
LEMMA Least ==
  ASSUME NEW S \in SUBSET Nat, S # {}
  PROVE  \E x \in S : \A y \in S : x <= y
<1>1. \E x \in S : \A y \in S : <<y, x>> \notin OpToRel(<, Nat)
  BY NatLessThanWellFounded, WFMin, Zenon
<1>2. PICK x \in S : \A y \in S : <<y, x>> \notin OpToRel(<, Nat)
  BY <1>1
<1>3. ASSUME NEW y \in S PROVE x <= y
  <2>1. ~ (y < x)
    BY <1>2 DEF OpToRel
  <2> QED
    BY <2>1
<1> QED
  BY <1>3

\* The first of some numbers is one of them.
LEMMA MinFound ==
  ASSUME NEW S \in SUBSET Nat, S # {}
  PROVE  Min(S) \in S
  BY Least DEF Min

\* And so is the last.
LEMMA MaxFound ==
  ASSUME NEW n \in Nat, NEW S \in SUBSET (1..n), S # {}
  PROVE  Max(S) \in S
<1> DEFINE T == {n - x : x \in S}
<1>1. T \in SUBSET Nat /\ T # {}
  <2>1. \A x \in S : n - x \in Nat
    OBVIOUS
  <2> QED
    BY <2>1
<1>2. PICK d \in T : \A y \in T : d <= y
  BY <1>1, Least
<1>3. PICK x \in S : d = n - x
  BY <1>2
<1>4. ASSUME NEW y \in S PROVE x >= y
  <2>1. n - x <= n - y
    BY <1>2, <1>3
  <2> QED
    BY <2>1
<1> QED
  BY <1>4 DEF Max

\* The device, as the code finds it.
LEMMA Device ==
  ASSUME DeviceFits
  PROVE  /\ DOMAIN connectors = 1..NConnectors /\ Len(connectors) = NConnectors
         /\ DOMAIN planes = 1..NPlanes
         /\ \A n \in 1..NConnectors : connectors[n] \in Connector
         /\ \A p \in 1..NPlanes : planes[p] \in Plane
  BY ModesetAssumption DEF DeviceFits

\* The mode found is one of the connector, and the one asked for if one was.
LEMMA ModeFound ==
  ASSUME NEW c \in Connector, ModeIndex(c) # 0
  PROVE  /\ c.modes[ModeIndex(c)] \in Modes \cap Range(c.modes)
         /\ want \in {AnyMode, c.modes[ModeIndex(c)]}
<1>0. c.modes \in Seq(Modes) /\ Len(c.modes) \in Nat /\ DOMAIN c.modes = 1..Len(c.modes)
  BY DEF Connector
<1>1. CASE want = AnyMode
  <2>1. Min({1, Len(c.modes)}) \in {1, Len(c.modes)}
    <3>1. {1, Len(c.modes)} \in SUBSET Nat
      BY <1>0
    <3> QED
      BY <3>1, MinFound
  <2>2. ModeIndex(c) = Min({1, Len(c.modes)})
    BY <1>1 DEF ModeIndex
  <2>3. Len(c.modes) # 0
    <3> SUFFICES ASSUME Len(c.modes) = 0 PROVE FALSE
      OBVIOUS
    <3>1. Min({1, 0}) \in {1, 0} /\ \A y \in {1, 0} : Min({1, 0}) <= y
      <4>1. \E x \in {1, 0} : \A y \in {1, 0} : x <= y
        OBVIOUS
      <4> QED
        BY <4>1 DEF Min
    <3> QED
      BY <3>1, <2>2
  <2>4. ModeIndex(c) \in 1..Len(c.modes)
    BY <2>1, <2>2, <2>3, <1>0
  <2> QED
    BY <2>4, <1>0, <1>1 DEF Range
<1>2. CASE want # AnyMode
  <2> DEFINE I == {k \in 1..Len(c.modes) : c.modes[k] = want}
  <2>1. ModeIndex(c) = IF I # {} THEN Max(I) ELSE 0
    BY <1>2 DEF ModeIndex, SelectLastInSeq
  <2>2. I # {} /\ ModeIndex(c) = Max(I)
    BY <2>1
  <2>3. Max(I) \in I
    <3>1. I \in SUBSET (1..Len(c.modes))
      OBVIOUS
    <3> HIDE DEF I
    <3> QED
      BY <3>1, <2>2, <1>0, MaxFound
  <2>4. ModeIndex(c) \in 1..Len(c.modes) /\ c.modes[ModeIndex(c)] = want
    BY <2>2, <2>3
  <2> QED
    BY <2>4, <1>0 DEF Range
<1> QED
  BY <1>1, <1>2

\* The CRTC found is the current one or one that an encoder can drive.
LEMMA CrtcFound ==
  ASSUME NEW c \in Connector, NEW current \in {0, c.current},
         NEW encoders \in SUBSET DOMAIN c.encoders, FoundCrtc(c, current, encoders) # 0
  PROVE  /\ FoundCrtc(c, current, encoders) \in 0..Crtcs
         /\ FoundCrtc(c, current, encoders) \in {c.current} \cup UNION Range(c.encoders)
<1>0. /\ c.current \in 0..Crtcs /\ c.encoders \in Seq(SUBSET (1..Crtcs))
      /\ DOMAIN c.encoders = 1..Len(c.encoders) /\ Len(c.encoders) \in Nat
  BY DEF Connector
<1>1. CASE current # 0
  BY <1>0, <1>1 DEF FoundCrtc
<1>2. CASE current = 0
  <2> DEFINE able == {e \in encoders : c.encoders[e] # {}}
  <2>1. able # {} /\ FoundCrtc(c, current, encoders) = Min(c.encoders[Min(able)])
    BY <1>2 DEF FoundCrtc
  <2>2. Min(able) \in able
    <3>1. able \in SUBSET Nat
      BY <1>0
    <3> HIDE DEF able
    <3> QED
      BY <3>1, <2>1, MinFound
  <2>3. /\ Min(able) \in DOMAIN c.encoders /\ c.encoders[Min(able)] # {}
        /\ c.encoders[Min(able)] \in SUBSET (1..Crtcs)
    <3>1. \A e \in able : /\ e \in DOMAIN c.encoders /\ c.encoders[e] # {}
                          /\ c.encoders[e] \in SUBSET (1..Crtcs)
      BY <1>0
    <3> HIDE DEF able
    <3> QED
      BY <2>2, <3>1
  <2> HIDE DEF able
  <2>4. Min(c.encoders[Min(able)]) \in c.encoders[Min(able)]
    <3> DEFINE S == c.encoders[Min(able)]
    <3>1. S \in SUBSET Nat /\ S # {}
      BY <2>3, ModesetAssumption
    <3> HIDE DEF S
    <3>2. Min(S) \in S
      BY <3>1, MinFound
    <3> QED
      BY <3>2 DEF S
  <2> QED
    BY <2>1, <2>3, <2>4, ModesetAssumption DEF Range
<1> QED
  BY <1>1, <1>2

\* The plane found can be on the CRTC and has the format.
LEMMA PlaneFound ==
  ASSUME DeviceFits, NEW readable \in SUBSET DOMAIN planes, NEW format,
         FoundPlane(readable, format) # 0
  PROVE  PlaneFits(out, FoundPlane(readable, format), format)
<1> DEFINE able == {p \in readable : out.crtc \in planes[p].crtcs
                                     /\ format \in planes[p].formats}
<1>1. able # {} /\ FoundPlane(readable, format) = Min(able)
  BY DEF FoundPlane
<1>2. able \in SUBSET (1..NPlanes)
  BY Device
<1>3. Min(able) \in able
  <2>1. able \in SUBSET Nat
    BY <1>2
  <2> HIDE DEF able
  <2> QED
    BY <1>1, <2>1, MinFound
<1> QED
  BY <1>1, <1>2, <1>3 DEF PlaneFits

\* A mode is found if the connector has one and, when a mode was asked for, has that one.
LEMMA ModeThere ==
  ASSUME NEW c \in Connector, c.modes # <<>>, want \in {AnyMode} \cup Range(c.modes)
  PROVE  ModeIndex(c) # 0
<1>0. /\ c.modes \in Seq(Modes) /\ Len(c.modes) \in Nat \ {0}
      /\ DOMAIN c.modes = 1..Len(c.modes)
  BY DEF Connector
<1>1. CASE want = AnyMode
  <2>1. {1, Len(c.modes)} \in SUBSET Nat /\ {1, Len(c.modes)} # {}
    BY <1>0
  <2>2. Min({1, Len(c.modes)}) \in {1, Len(c.modes)}
    BY <2>1, MinFound
  <2>3. ModeIndex(c) = Min({1, Len(c.modes)})
    BY <1>1 DEF ModeIndex
  <2> QED
    BY <1>0, <2>2, <2>3
<1>2. CASE want # AnyMode
  <2> DEFINE I == {k \in 1..Len(c.modes) : c.modes[k] = want}
  <2>1. ModeIndex(c) = IF I # {} THEN Max(I) ELSE 0
    BY <1>2 DEF ModeIndex, SelectLastInSeq
  <2>2. PICK k \in 1..Len(c.modes) : c.modes[k] = want
    BY <1>0, <1>2 DEF Range
  <2>3. I # {} /\ I \in SUBSET (1..Len(c.modes))
    BY <2>2
  <2> HIDE DEF I
  <2>4. Max(I) \in I
    BY <1>0, <2>3, MaxFound
  <2> QED
    BY <1>0, <2>1, <2>3, <2>4
<1> QED
  BY <1>1, <1>2

\* A CRTC is found if one is in use or an encoder, all of them read, can drive one.
LEMMA CrtcThere ==
  ASSUME NEW c \in Connector, c.current # 0 \/ UNION Range(c.encoders) # {}
  PROVE  FoundCrtc(c, c.current, DOMAIN c.encoders) # 0
<1>0. /\ c.encoders \in Seq(SUBSET (1..Crtcs))
      /\ DOMAIN c.encoders = 1..Len(c.encoders) /\ Len(c.encoders) \in Nat
  BY DEF Connector
<1>1. CASE c.current # 0
  BY <1>1 DEF FoundCrtc
<1>2. CASE c.current = 0
  <2> DEFINE able == {e \in DOMAIN c.encoders : c.encoders[e] # {}}
             S    == c.encoders[Min(able)]
  <2>1. PICK e \in DOMAIN c.encoders : c.encoders[e] # {}
    BY <1>2 DEF Range
  <2>2. able # {} /\ able \in SUBSET Nat
    BY <1>0, <2>1
  <2>3. FoundCrtc(c, c.current, DOMAIN c.encoders) = Min(S)
    BY <1>2, <2>2 DEF FoundCrtc
  <2>4. \A d \in able : c.encoders[d] # {} /\ c.encoders[d] \in SUBSET (1..Crtcs)
    BY <1>0
  <2> HIDE DEF able
  <2>5. S # {} /\ S \in SUBSET (1..Crtcs)
    BY <2>2, <2>4, MinFound
  <2> HIDE DEF S
  <2>6. Min(S) \in S
    BY <2>5, ModesetAssumption, MinFound
  <2> QED
    BY <2>3, <2>5, <2>6, ModesetAssumption
<1> QED
  BY <1>1, <1>2

\* A plane is found if every CRTC has one for each format and all of them were read.
LEMMA PlaneThere ==
  ASSUME DeviceFits, PlanesForAll, out.crtc \in 1..Crtcs, NEW format \in Formats
  PROVE  FoundPlane(DOMAIN planes, format) # 0
<1> DEFINE able == {p \in DOMAIN planes : out.crtc \in planes[p].crtcs
                                          /\ format \in planes[p].formats}
<1>1. able # {} /\ able \in SUBSET (1..NPlanes)
  BY Device DEF PlanesForAll
<1>2. FoundPlane(DOMAIN planes, format) = Min(able)
  BY <1>1 DEF FoundPlane
<1> HIDE DEF able
<1>3. Min(able) \in able
  <2>1. able \in SUBSET Nat
    BY <1>1, ModesetAssumption
  <2> QED
    BY <1>1, <2>1, MinFound
<1> QED
  BY <1>1, <1>2, <1>3, ModesetAssumption

-----------------------------------------------------------------------------
(* The inductive invariant.                                                *)

\* The invariant holds in the initial state.
LEMMA InitInv == Init => ModesetInv
<1> SUFFICES ASSUME Init PROVE ModesetInv
  OBVIOUS
<1> USE ModesetAssumption DEF Init, NoOutput
<1>1. TypeOK
  <2>1. out \in Output
    BY DEF Output
  <2>2. failed \in BOOLEAN
    BY Zenon
  <2> QED
    BY <2>1, <2>2 DEF TypeOK
<1>2. DeviceFits
  BY DEF DeviceFits
<1>3. Creating
  BY DEF Creating, Running
<1>4. HeldSoFar
  BY DEF HeldSoFar, Stage, Running
<1>5. KeptSoFar
  BY DEF KeptSoFar
<1>6. ChosenFits
  BY DEF ChosenFits, BeforeMode, BeforeCrtc, BeforeVideo, BeforeOsd, Undoing, Running
<1> QED
  BY <1>1, <1>2, <1>3, <1>4, <1>5, <1>6 DEF ModesetInv

\* No step changes the device.
LEMMA DeviceStep == DeviceFits /\ [Next]_vars => DeviceFits' /\ UNCHANGED device
<1> SUFFICES ASSUME DeviceFits, [Next]_vars PROVE DeviceFits' /\ UNCHANGED device
  OBVIOUS
<1>1. UNCHANGED device
  BY DEF Next, vars, GetConnector, ChooseMode, CreateBlob, FindCrtc, FindVideoPlane,
         FindOsdPlane, FindPlane, SetupObjects, GetProperties, SetupFramebuffers, CreateFb,
         OutObj, OutBlob, OutError, Publish, PrepareReturns, FreeRequests, OutputDestroy,
         Gives, Goes, Succeeds, Fails, Jumps
<1> QED
  BY <1>1 DEF DeviceFits, device

\* The searches.
LEMMA SearchStep ==
  ModesetInv /\ (GetConnector \/ ChooseMode \/ CreateBlob \/ FindCrtc
                  \/ FindVideoPlane \/ FindOsdPlane) => ModesetInv'
<1> SUFFICES ASSUME ModesetInv, GetConnector \/ ChooseMode \/ CreateBlob \/ FindCrtc
                                  \/ FindVideoPlane \/ FindOsdPlane
             PROVE  ModesetInv'
  OBVIOUS
<1>0. DeviceFits' /\ UNCHANGED device
  BY DeviceStep DEF ModesetInv, Next
<1> USE ModesetAssumption DEF ModesetInv, Goes, Succeeds, Fails, Jumps, device, NoOutput
<1>1. CASE GetConnector
  <2>1. TypeOK'
    <3>1. i \in 1..NConnectors
      BY <1>1, Device DEF GetConnector, TypeOK
    <3>2. out' \in Output
      BY <1>1, <3>1 DEF GetConnector, TypeOK, Output
    <3>3. i' \in 1..(NConnectors + 1) /\ held' \subseteq Held
      BY <1>1, <3>1 DEF GetConnector, TypeOK, Held
    <3>4. failed' \in BOOLEAN
      BY <1>1, Zenon DEF GetConnector, TypeOK
    <3> QED
      BY <1>1, <3>2, <3>3, <3>4 DEF GetConnector, TypeOK
  <2>2. Creating'
    <3>1. i \in 1..NConnectors
      BY <1>1, Device DEF GetConnector, TypeOK
    <3>2. output_list.connector \in Nat /\ pc = "get"
      BY <1>1 DEF GetConnector, TypeOK, Output
    <3>3. CASE i' = i /\ out'.connector = i
      BY <1>1, <3>1, <3>3 DEF GetConnector, Creating, TypeOK
    <3>4. CASE pc' = "get" /\ i' = i + 1 /\ UNCHANGED out
      <4>1. out.connector = 0
        BY <3>2 DEF Creating
      <4> QED
        BY <1>1, <3>1, <3>2, <3>4, <4>1 DEF GetConnector, Creating, TypeOK
    <3> QED
      BY <1>1, <3>3, <3>4 DEF GetConnector
  <2>3. HeldSoFar'
    BY <1>1 DEF GetConnector, HeldSoFar, Stage, Running, Objects, Bufs
  <2>4. KeptSoFar'
    BY <1>1 DEF GetConnector, KeptSoFar, LeftBehind, TypeOK, Creating
  <2>5. ChosenFits'
    BY <1>1 DEF GetConnector, ChosenFits, BeforeMode, BeforeCrtc, BeforeVideo, BeforeOsd, Undoing,
         Running, Fits, ModeFits, CrtcFits, PlaneFits
  <2> QED
    BY <1>0, <2>1, <2>2, <2>3, <2>4, <2>5
<1>2. CASE ChooseMode
  <2>0. connectors[i] \in Connector /\ out.connector = i
    BY <1>2, Device DEF ChooseMode, Creating, Running
  <2>1. TypeOK'
    <3>1. out' \in Output
      <4>1. CASE pc' = "blob"
        <5> DEFINE m == connectors[i].modes[ModeIndex(connectors[i])]
        <5>1. ModeIndex(connectors[i]) # 0 /\ out' = [out EXCEPT !.mode = m]
          BY <1>2, <4>1 DEF ChooseMode
        <5>2. m \in Modes
          BY <2>0, <5>1, ModeFound
        <5> HIDE DEF m
        <5> QED
          BY <5>1, <5>2 DEF TypeOK, Output
      <4>2. CASE UNCHANGED out
        BY <4>2 DEF TypeOK
      <4> QED
        BY <1>2, <4>1, <4>2 DEF ChooseMode
    <3> QED
      BY <1>2, <3>1 DEF ChooseMode, TypeOK
  <2>2. Creating'
    BY <1>2, Device DEF ChooseMode, Creating, Running, TypeOK, Output
  <2>3. HeldSoFar'
    BY <1>2 DEF ChooseMode, HeldSoFar, Stage, Running, Objects, Bufs
  <2>4. KeptSoFar'
    BY <1>2 DEF ChooseMode, KeptSoFar, LeftBehind, TypeOK, Creating
  <2>5. ChosenFits'
    <3>1. CASE pc' = "blob"
      <4> DEFINE m == connectors[i].modes[ModeIndex(connectors[i])]
      <4>1. /\ connectors[i].connected /\ ModeIndex(connectors[i]) # 0
            /\ out' = [out EXCEPT !.mode = m]
        BY <1>2, <3>1 DEF ChooseMode
      <4>2. m \in Range(connectors[i].modes) /\ want \in {AnyMode, m}
        BY <2>0, <4>1, ModeFound
      <4> HIDE DEF m
      <4>3. out'.connector = i /\ out'.mode = m
        BY <2>0, <4>1 DEF TypeOK, Output
      <4>4. ModeFits(out)'
        BY <1>0, <4>1, <4>2, <4>3 DEF ModeFits
      <4> QED
        BY <1>2, <3>1, <4>4 DEF ChooseMode, ChosenFits, BeforeMode, BeforeCrtc, BeforeVideo,
           BeforeOsd, Fits, ModeFits, CrtcFits, PlaneFits
    <3>2. CASE pc' = "out_error"
      BY <1>2, <3>2 DEF ChooseMode, ChosenFits, Undoing, Fits, ModeFits, CrtcFits, PlaneFits
    <3> QED
      BY <1>2, <3>1, <3>2 DEF ChooseMode
  <2> QED
    BY <1>0, <2>1, <2>2, <2>3, <2>4, <2>5
<1>3. CASE CreateBlob
  <2>1. TypeOK'
    BY <1>3, Device DEF CreateBlob, TypeOK, Output, Held, Objects, Bufs, Requests
  <2>2. Creating'
    BY <1>3, Device DEF CreateBlob, Creating, Running, TypeOK, Output
  <2>3. HeldSoFar'
    BY <1>3 DEF CreateBlob, HeldSoFar, Stage, Running, Objects, Bufs
  <2>4. KeptSoFar'
    BY <1>3 DEF CreateBlob, KeptSoFar, LeftBehind, TypeOK, Creating
  <2>5. ChosenFits'
    BY <1>3 DEF CreateBlob, ChosenFits, BeforeMode, BeforeCrtc, BeforeVideo, BeforeOsd, Undoing,
         Running, Fits, ModeFits, CrtcFits, PlaneFits
  <2> QED
    BY <1>0, <2>1, <2>2, <2>3, <2>4, <2>5
<1>4. CASE FindCrtc
  <2>0. connectors[i] \in Connector /\ out.connector = i
    BY <1>4, Device DEF FindCrtc, Creating, Running
  <2>a. PICK current \in {0, connectors[i].current},
             encoders \in SUBSET DOMAIN connectors[i].encoders,
             saved \in {{}, {"saved_crtc"}} :
          LET crtc == FoundCrtc(connectors[i], current, encoders) IN
          /\ failed' = (failed \/ current # connectors[i].current
                        \/ encoders # DOMAIN connectors[i].encoders \/ saved = {})
          /\ \/ /\ crtc # 0 /\ Goes("crtc", "video_plane")
                /\ out' = [out EXCEPT !.crtc = crtc]
                /\ held' = held \cup saved
             \/ crtc = 0 /\ Goes("crtc", "out_blob") /\ UNCHANGED <<out, held>>
    BY <1>4 DEF FindCrtc
  <2> DEFINE crtc == FoundCrtc(connectors[i], current, encoders)
  <2>b. crtc # 0 => /\ crtc \in 0..Crtcs
                    /\ crtc \in {connectors[i].current} \cup UNION Range(connectors[i].encoders)
    BY <2>0, CrtcFound
  <2>c. \/ /\ crtc # 0 /\ pc' = "video_plane" /\ UNCHANGED output_list
           /\ out' = [out EXCEPT !.crtc = crtc] /\ held' = held \cup saved
        \/ pc' = "out_blob" /\ UNCHANGED <<out, held, output_list>>
    BY <2>a
  <2>d. failed' \in BOOLEAN
    BY <2>a, Zenon
  <2>e. UNCHANGED <<i, lost, kept, displaced>> /\ pc = "crtc"
    BY <1>4 DEF FindCrtc
  <2> HIDE DEF crtc
  <2>1. TypeOK'
    <3>1. out' \in Output
      BY <2>b, <2>c DEF TypeOK, Output
    <3>2. held' \subseteq Held
      BY <2>c DEF TypeOK, Held
    <3> QED
      BY <2>c, <2>d, <2>e, <3>1, <3>2 DEF TypeOK
  <2>2. Creating'
    BY <1>4, Device DEF FindCrtc, Creating, Running, TypeOK, Output
  <2>3. HeldSoFar'
    BY <1>4 DEF FindCrtc, HeldSoFar, Stage, Running, Objects, Bufs
  <2>4. KeptSoFar'
    BY <1>4 DEF FindCrtc, KeptSoFar, LeftBehind, TypeOK, Creating
  <2>5. ChosenFits'
    <3>1. CASE pc' = "video_plane"
      <4>1. /\ out'.connector = i /\ out'.crtc = crtc /\ out'.mode = out.mode
        BY <2>0, <2>c, <3>1 DEF TypeOK, Output
      <4>2. CrtcFits(out)'
        BY <1>0, <2>b, <2>c, <3>1, <4>1 DEF CrtcFits
      <4>3. ModeFits(out)'
        BY <1>0, <2>0, <2>e, <4>1 DEF ChosenFits, ModeFits, BeforeMode, Undoing, Running
      <4> QED
        BY <1>0, <2>c, <2>e, <3>1, <4>2, <4>3 DEF ChosenFits, BeforeMode, BeforeCrtc,
           BeforeVideo, BeforeOsd, Fits, ModeFits, CrtcFits, PlaneFits
    <3>2. CASE pc' = "out_blob"
      BY <1>0, <2>c, <3>2 DEF ChosenFits, Undoing, Fits, ModeFits, CrtcFits, PlaneFits
    <3> QED
      BY <2>c, <3>1, <3>2
  <2> QED
    BY <1>0, <2>1, <2>2, <2>3, <2>4, <2>5
<1>5. CASE FindVideoPlane
  <2>a. PICK readable \in SUBSET DOMAIN planes :
          LET p == FoundPlane(readable, "NV12") IN
          /\ failed' = (failed \/ readable # DOMAIN planes)
          /\ \/ p # 0 /\ Goes("video_plane", "osd_plane") /\ out' = [out EXCEPT !.video = p]
             \/ p = 0 /\ Goes("video_plane", "out_blob") /\ UNCHANGED out
    BY <1>5 DEF FindVideoPlane, FindPlane
  <2> DEFINE p == FoundPlane(readable, "NV12")
  <2>b. p # 0 => PlaneFits(out, p, "NV12")
    BY PlaneFound
  <2>c. \/ p # 0 /\ pc' = "osd_plane" /\ out' = [out EXCEPT !.video = p] /\ UNCHANGED output_list
        \/ pc' = "out_blob" /\ UNCHANGED <<out, output_list>>
    BY <2>a
  <2>d. failed' \in BOOLEAN
    BY <2>a, Zenon
  <2>e. UNCHANGED <<i, held, lost, kept, displaced>> /\ pc = "video_plane"
    BY <1>5 DEF FindVideoPlane, FindPlane
  <2> HIDE DEF p
  <2>1. TypeOK'
    <3>1. out' \in Output
      BY <2>b, <2>c DEF TypeOK, Output, PlaneFits
    <3> QED
      BY <2>c, <2>d, <2>e, <3>1 DEF TypeOK
  <2>2. Creating'
    BY <1>5, Device DEF FindVideoPlane, FindPlane, Creating, Running, TypeOK, Output
  <2>3. HeldSoFar'
    BY <1>5 DEF FindVideoPlane, FindPlane, HeldSoFar, Stage, Running, Objects, Bufs
  <2>4. KeptSoFar'
    BY <1>5 DEF FindVideoPlane, FindPlane, KeptSoFar, LeftBehind, TypeOK, Creating
  <2>5. ChosenFits'
    <3>1. CASE pc' = "osd_plane"
      <4>1. /\ p # 0 /\ out'.video = p
            /\ out'.connector = out.connector /\ out'.crtc = out.crtc /\ out'.mode = out.mode
        BY <2>c, <3>1 DEF TypeOK, Output
      <4>2. PlaneFits(out, out.video, "NV12")'
        BY <1>0, <2>b, <4>1 DEF PlaneFits
      <4>3. ModeFits(out)' /\ CrtcFits(out)'
        BY <1>0, <2>e, <4>1 DEF ChosenFits, ModeFits, CrtcFits, BeforeCrtc, BeforeMode,
           Undoing, Running
      <4> QED
        BY <1>0, <2>c, <2>e, <3>1, <4>2, <4>3 DEF ChosenFits, BeforeMode, BeforeCrtc,
           BeforeVideo, BeforeOsd, Fits, ModeFits, CrtcFits, PlaneFits
    <3>2. CASE pc' = "out_blob"
      BY <1>0, <2>c, <3>2 DEF ChosenFits, Undoing, Fits, ModeFits, CrtcFits, PlaneFits
    <3> QED
      BY <2>c, <3>1, <3>2
  <2> QED
    BY <1>0, <2>1, <2>2, <2>3, <2>4, <2>5
<1>6. CASE FindOsdPlane
  <2>a. PICK readable \in SUBSET DOMAIN planes :
          LET p == FoundPlane(readable, "ARGB8888") IN
          /\ failed' = (failed \/ readable # DOMAIN planes)
          /\ \/ p # 0 /\ Goes("osd_plane", "props_connector") /\ out' = [out EXCEPT !.osd = p]
             \/ p = 0 /\ Goes("osd_plane", "out_blob") /\ UNCHANGED out
    BY <1>6 DEF FindOsdPlane, FindPlane
  <2> DEFINE p == FoundPlane(readable, "ARGB8888")
  <2>b. p # 0 => PlaneFits(out, p, "ARGB8888")
    BY PlaneFound
  <2>c. \/ /\ p # 0 /\ pc' = "props_connector" /\ out' = [out EXCEPT !.osd = p]
           /\ UNCHANGED output_list
        \/ pc' = "out_blob" /\ UNCHANGED <<out, output_list>>
    BY <2>a
  <2>d. failed' \in BOOLEAN
    BY <2>a, Zenon
  <2>e. UNCHANGED <<i, held, lost, kept, displaced>> /\ pc = "osd_plane"
    BY <1>6 DEF FindOsdPlane, FindPlane
  <2> HIDE DEF p
  <2>1. TypeOK'
    <3>1. out' \in Output
      BY <2>b, <2>c DEF TypeOK, Output, PlaneFits
    <3> QED
      BY <2>c, <2>d, <2>e, <3>1 DEF TypeOK
  <2>2. Creating'
    BY <1>6, Device DEF FindOsdPlane, FindPlane, Creating, Running, TypeOK, Output
  <2>3. HeldSoFar'
    BY <1>6 DEF FindOsdPlane, FindPlane, HeldSoFar, Stage, Running, Objects, Bufs
  <2>4. KeptSoFar'
    BY <1>6 DEF FindOsdPlane, FindPlane, KeptSoFar, LeftBehind, TypeOK, Creating
  <2>5. ChosenFits'
    <3>1. CASE pc' = "props_connector"
      <4>1. /\ p # 0 /\ out'.osd = p
            /\ out'.connector = out.connector /\ out'.crtc = out.crtc /\ out'.mode = out.mode
            /\ out'.video = out.video
        BY <2>c, <3>1 DEF TypeOK, Output
      <4>2. PlaneFits(out, out.osd, "ARGB8888")'
        BY <1>0, <2>b, <4>1 DEF PlaneFits
      <4>3. ModeFits(out)' /\ CrtcFits(out)'
        BY <1>0, <2>e, <4>1 DEF ChosenFits, ModeFits, CrtcFits, BeforeCrtc, BeforeMode,
           Undoing, Running
      <4>4. PlaneFits(out, out.video, "NV12")'
        BY <1>0, <2>e, <4>1 DEF ChosenFits, PlaneFits, BeforeVideo, BeforeCrtc, BeforeMode,
           Undoing, Running
      <4> QED
        BY <1>0, <2>c, <2>e, <3>1, <4>2, <4>3, <4>4 DEF ChosenFits, BeforeMode, BeforeCrtc,
           BeforeVideo, BeforeOsd, Fits, ModeFits, CrtcFits, PlaneFits
    <3>2. CASE pc' = "out_blob"
      BY <1>0, <2>c, <3>2 DEF ChosenFits, Undoing, Fits, ModeFits, CrtcFits, PlaneFits
    <3> QED
      BY <2>c, <3>1, <3>2
  <2> QED
    BY <1>0, <2>1, <2>2, <2>3, <2>4, <2>5
<1> QED
  BY <1>1, <1>2, <1>3, <1>4, <1>5, <1>6

\* The set-up of objects and buffers.
LEMMA SetupStep == ModesetInv /\ (SetupObjects \/ SetupFramebuffers) => ModesetInv'
<1> SUFFICES ASSUME ModesetInv, SetupObjects \/ SetupFramebuffers PROVE ModesetInv'
  OBVIOUS
<1>0. DeviceFits' /\ UNCHANGED device
  BY DeviceStep DEF ModesetInv, Next
<1> USE ModesetAssumption DEF ModesetInv, Goes, Succeeds, Fails, Jumps, device, NoOutput
<1>1. CASE SetupObjects
  <2>1. TypeOK'
    BY <1>1, Device DEF SetupObjects, GetProperties, TypeOK, Output, Held, Objects, Bufs, Requests
  <2>2. Creating'
    BY <1>1, Device DEF SetupObjects, GetProperties, Creating, Running, TypeOK, Output
  <2>3. HeldSoFar'
    BY <1>1 DEF SetupObjects, GetProperties, HeldSoFar, Stage, Running, Objects, Bufs
  <2>4. KeptSoFar'
    BY <1>1 DEF SetupObjects, GetProperties, KeptSoFar, LeftBehind, TypeOK, Creating
  <2>5. ChosenFits'
    BY <1>1 DEF SetupObjects, GetProperties, ChosenFits, BeforeMode, BeforeCrtc,
         BeforeVideo, BeforeOsd, Undoing, Running, Fits, ModeFits, CrtcFits, PlaneFits
  <2> QED
    BY <1>0, <2>1, <2>2, <2>3, <2>4, <2>5
<1>2. CASE SetupFramebuffers
  <2>1. TypeOK'
    BY <1>2, Device DEF SetupFramebuffers, CreateFb, TypeOK, Output, Held, Objects, Bufs, Requests
  <2>2. Creating'
    BY <1>2, Device DEF SetupFramebuffers, CreateFb, Creating, Running, TypeOK, Output
  <2>3. HeldSoFar'
    BY <1>2 DEF SetupFramebuffers, CreateFb, HeldSoFar, Stage, Running, Objects, Bufs
  <2>4. KeptSoFar'
    BY <1>2 DEF SetupFramebuffers, CreateFb, KeptSoFar, LeftBehind, TypeOK, Creating
  <2>5. ChosenFits'
    BY <1>2 DEF SetupFramebuffers, CreateFb, ChosenFits, BeforeMode, BeforeCrtc,
         BeforeVideo, BeforeOsd, Undoing, Running, Fits, ModeFits, CrtcFits, PlaneFits
  <2> QED
    BY <1>0, <2>1, <2>2, <2>3, <2>4, <2>5
<1> QED
  BY <1>1, <1>2

\* What is undone, what is published, and the exit.
LEMMA UndoStep ==
  ModesetInv /\ (OutObj \/ OutBlob \/ OutError \/ Publish \/ PrepareReturns
                  \/ FreeRequests \/ OutputDestroy) => ModesetInv'
<1> SUFFICES ASSUME ModesetInv, OutObj \/ OutBlob \/ OutError \/ Publish \/ PrepareReturns
                                  \/ FreeRequests \/ OutputDestroy
             PROVE  ModesetInv'
  OBVIOUS
<1>0. DeviceFits' /\ UNCHANGED device
  BY DeviceStep DEF ModesetInv, Next
<1> USE ModesetAssumption DEF ModesetInv, Goes, Succeeds, Fails, Jumps, device, NoOutput
<1>1. CASE OutObj
  <2>1. TypeOK'
    BY <1>1, Device DEF OutObj, TypeOK, Output, Held, Objects, Bufs, Requests
  <2>2. Creating'
    BY <1>1, Device DEF OutObj, Creating, Running, TypeOK, Output
  <2>3. HeldSoFar'
    BY <1>1 DEF OutObj, HeldSoFar, Stage, Running, Objects, Bufs
  <2>4. KeptSoFar'
    BY <1>1 DEF OutObj, KeptSoFar, LeftBehind, TypeOK, Creating
  <2>5. ChosenFits'
    BY <1>1 DEF OutObj, ChosenFits, BeforeMode, BeforeCrtc, BeforeVideo, BeforeOsd, Undoing,
         Running, Fits, ModeFits, CrtcFits, PlaneFits
  <2> QED
    BY <1>0, <2>1, <2>2, <2>3, <2>4, <2>5
<1>2. CASE OutBlob
  <2>1. TypeOK'
    BY <1>2, Device DEF OutBlob, TypeOK, Output, Held, Objects, Bufs, Requests
  <2>2. Creating'
    BY <1>2, Device DEF OutBlob, Creating, Running, TypeOK, Output
  <2>3. HeldSoFar'
    BY <1>2 DEF OutBlob, HeldSoFar, Stage, Running, Objects, Bufs
  <2>4. KeptSoFar'
    BY <1>2 DEF OutBlob, KeptSoFar, LeftBehind, TypeOK, Creating
  <2>5. ChosenFits'
    BY <1>2 DEF OutBlob, ChosenFits, BeforeMode, BeforeCrtc, BeforeVideo, BeforeOsd, Undoing,
         Running, Fits, ModeFits, CrtcFits, PlaneFits
  <2> QED
    BY <1>0, <2>1, <2>2, <2>3, <2>4, <2>5
<1>3. CASE OutError
  <2>0. /\ i \in 1..NConnectors /\ pc = "out_error" /\ pc' = "get" /\ i' = i + 1
        /\ out' = NoOutput /\ held' = {} /\ lost' = lost \cup ({i} \X (held \ {"out"}))
        /\ UNCHANGED <<output_list, kept, displaced, failed>>
    BY <1>3 DEF OutError, Creating, Running
  <2>1. TypeOK'
    <3>1. out' \in Output
      BY <2>0 DEF Output
    <3>2. lost' \subseteq (1..NConnectors) \X Held
      BY <2>0 DEF TypeOK
    <3> QED
      BY <2>0, <3>1, <3>2 DEF TypeOK
  <2>2. Creating'
    BY <1>3, Device DEF OutError, Creating, Running, TypeOK, Output
  <2>3. HeldSoFar'
    BY <1>3 DEF OutError, HeldSoFar, Stage, Running, Objects, Bufs
  <2>4. KeptSoFar'
    <3>1. output_list.connector < i /\ output_list.connector \in Nat
      BY DEF Creating, TypeOK, Output
    <3>2. ASSUME NEW left \in lost'
          PROVE  /\ left[1] < i'
                 /\ left[1] \in displaced' \/ LeftBehind(left)'
      <4>1. CASE left \in lost
        <5>1. left[1] \in Nat
          BY <4>1 DEF TypeOK
        <5> QED
          BY <2>0, <4>1, <5>1 DEF KeptSoFar, LeftBehind
      <4>2. CASE left \in {i} \X (held \ {"out"})
        <5>1. left[1] = i /\ left[2] \in {"saved_crtc", "video", "osd_bufs[0]"}
          BY <2>0, <4>2 DEF HeldSoFar
        <5> QED
          BY <2>0, <3>1, <5>1 DEF LeftBehind
      <4> QED
        BY <2>0, <4>1, <4>2
    <3> QED
      BY <2>0, <3>2 DEF KeptSoFar
  <2>5. ChosenFits'
    BY <1>3 DEF OutError, ChosenFits, BeforeMode, BeforeCrtc, BeforeVideo, BeforeOsd, Undoing,
         Running, Fits, ModeFits, CrtcFits, PlaneFits
  <2> QED
    BY <1>0, <2>1, <2>2, <2>3, <2>4, <2>5
<1>4. CASE Publish
  <2>0. /\ i \in 1..NConnectors /\ pc = "publish" /\ pc' = "get" /\ i' = i + 1
        /\ out.connector = i /\ output_list' = out /\ kept' = (held \ {"out"}) \cup Requests
        /\ held' = {} /\ out' = NoOutput
        /\ lost' = lost \cup {<<i, "out">>} \cup ({output_list.connector} \X kept)
        /\ displaced' = displaced \cup ({output_list.connector} \ {0})
        /\ UNCHANGED <<device, failed>>
    BY <1>4 DEF Publish, Creating, Running
  <2>a. output_list.connector \in 0..NConnectors
    BY DEF TypeOK, Output
  <2>b. output_list.connector = 0 => kept = {}
    BY DEF KeptSoFar
  <2>1. TypeOK'
    <3>1. out' \in Output
      BY <2>0 DEF Output
    <3>2. lost' \subseteq (1..NConnectors) \X Held
      BY <2>0, <2>a, <2>b DEF TypeOK, Held
    <3>3. kept' \subseteq Held /\ held' \subseteq Held
      BY <2>0 DEF TypeOK, Held, Requests
    <3>4. displaced' \subseteq 0..NConnectors
      BY <2>0, <2>a DEF TypeOK
    <3> QED
      BY <2>0, <3>1, <3>2, <3>3, <3>4 DEF TypeOK
  <2>2. Creating'
    BY <1>4, Device DEF Publish, Creating, Running, TypeOK, Output
  <2>3. HeldSoFar'
    BY <1>4 DEF Publish, HeldSoFar, Stage, Running, Objects, Bufs
  <2>4. KeptSoFar'
    <3>1. output_list.connector < i
      BY DEF Creating
    <3>2. ASSUME NEW left \in lost'
          PROVE  /\ left[1] < i'
                 /\ left[1] \in displaced' \/ LeftBehind(left)'
      <4>1. CASE left \in lost
        <5>1. left[1] \in Nat /\ left[1] < i
          BY <4>1 DEF TypeOK, KeptSoFar
        <5>2. \/ left[1] \in displaced \/ left[1] = output_list.connector
              \/ left[2] \in {"saved_crtc", "video", "osd_bufs[0]"}
          BY <4>1 DEF KeptSoFar, LeftBehind
        <5>3. left[1] # 0
          BY <4>1 DEF TypeOK
        <5> QED
          BY <2>0, <5>1, <5>2, <5>3 DEF LeftBehind
      <4>3. CASE left = <<i, "out">>
        BY <2>0, <4>3 DEF LeftBehind
      <4>2. CASE left \in {output_list.connector} \X kept
        <5>1. left[1] = output_list.connector /\ kept # {}
          BY <4>2
        <5>2. output_list.connector # 0
          BY <2>b, <5>1
        <5> QED
          BY <2>0, <2>a, <3>1, <5>1, <5>2
      <4> QED
        BY <2>0, <4>1, <4>2, <4>3
    <3>3. "out" \notin kept'
      BY <2>0 DEF Requests
    <3> QED
      BY <2>0, <3>2, <3>3 DEF KeptSoFar
  <2>5. ChosenFits'
    <3>1. out.connector \in 1..NConnectors /\ Fits(out)
      BY <2>0 DEF ChosenFits, BeforeMode, BeforeCrtc, BeforeVideo, BeforeOsd, Undoing, Running,
         Fits
    <3>2. output_list'.connector \in 1..NConnectors /\ Fits(output_list)'
      BY <1>0, <2>0, <3>1 DEF Fits, ModeFits, CrtcFits, PlaneFits
    <3> QED
      BY <2>0, <3>2 DEF ChosenFits, BeforeMode, BeforeCrtc, BeforeVideo, BeforeOsd
  <2> QED
    BY <1>0, <2>1, <2>2, <2>3, <2>4, <2>5
<1>5. CASE PrepareReturns
  <2>1. TypeOK'
    BY <1>5, Device DEF PrepareReturns, TypeOK, Output, Held, Objects, Bufs, Requests
  <2>2. Creating'
    BY <1>5, Device DEF PrepareReturns, Creating, Running, TypeOK, Output
  <2>3. HeldSoFar'
    BY <1>5 DEF PrepareReturns, HeldSoFar, Stage, Running, Objects, Bufs
  <2>4. KeptSoFar'
    BY <1>5 DEF PrepareReturns, KeptSoFar, LeftBehind, TypeOK, Creating
  <2>5. ChosenFits'
    BY <1>5 DEF PrepareReturns, ChosenFits, BeforeMode, BeforeCrtc, BeforeVideo, BeforeOsd, Undoing,
         Running, Fits, ModeFits, CrtcFits, PlaneFits
  <2> QED
    BY <1>0, <2>1, <2>2, <2>3, <2>4, <2>5
<1>6. CASE FreeRequests
  <2>1. TypeOK'
    BY <1>6, Device DEF FreeRequests, Gives, TypeOK, Output, Held, Objects, Bufs, Requests
  <2>2. Creating'
    BY <1>6, Device DEF FreeRequests, Gives, Creating, Running, TypeOK, Output
  <2>3. HeldSoFar'
    BY <1>6 DEF FreeRequests, Gives, HeldSoFar, Stage, Running, Objects, Bufs
  <2>4. KeptSoFar'
    <3>1. kept' \subseteq Objects \cup Bufs \cup {"mode_blob"}
      BY <1>6 DEF FreeRequests, Gives, KeptSoFar, TypeOK, Held
    <3>2. pc' = "destroy" /\ UNCHANGED <<i, output_list, lost, displaced>>
          /\ output_list.connector # 0 /\ "out" \notin kept'
      BY <1>6 DEF FreeRequests, Gives, KeptSoFar
    <3> QED
      BY <3>1, <3>2 DEF KeptSoFar, LeftBehind
  <2>5. ChosenFits'
    BY <1>6 DEF FreeRequests, Gives, ChosenFits, BeforeMode, BeforeCrtc,
         BeforeVideo, BeforeOsd, Undoing, Running, Fits, ModeFits, CrtcFits, PlaneFits
  <2> QED
    BY <1>0, <2>1, <2>2, <2>3, <2>4, <2>5
<1>7. CASE OutputDestroy
  <2>1. TypeOK'
    BY <1>7, Device DEF OutputDestroy, Gives, TypeOK, Output, Held, Objects, Bufs, Requests
  <2>2. Creating'
    BY <1>7, Device DEF OutputDestroy, Gives, Creating, Running, TypeOK, Output
  <2>3. HeldSoFar'
    BY <1>7 DEF OutputDestroy, Gives, HeldSoFar, Stage, Running, Objects, Bufs
  <2>4. KeptSoFar'
    BY <1>7 DEF OutputDestroy, Gives, KeptSoFar, LeftBehind, TypeOK, Creating
  <2>5. ChosenFits'
    BY <1>7 DEF OutputDestroy, Gives, ChosenFits, BeforeMode, BeforeCrtc,
         BeforeVideo, BeforeOsd, Undoing, Running, Fits, ModeFits, CrtcFits, PlaneFits
  <2> QED
    BY <1>0, <2>1, <2>2, <2>3, <2>4, <2>5
<1> QED
  BY <1>1, <1>2, <1>3, <1>4, <1>5, <1>6, <1>7

\* Where nothing changes the invariant stays.
LEMMA StutterStep == ModesetInv /\ UNCHANGED vars => ModesetInv'
  BY DEF ModesetInv, TypeOK, DeviceFits, Creating, HeldSoFar, KeptSoFar, LeftBehind, ChosenFits,
     Fits, ModeFits, CrtcFits, PlaneFits, vars, device

\* At each call and label, what is held, kept and lost is known, and what was chosen
\* fits, in every reachable state.
THEOREM ModesetInvariance == Spec => []ModesetInv
<1>1. ModesetInv /\ [Next]_vars => ModesetInv'
  BY SearchStep, SetupStep, UndoStep, StutterStep DEF Next
<1> QED
  BY <1>1, InitInv, PTL DEF Spec

-----------------------------------------------------------------------------
(* What the search has passed over.                                        *)

\* Nothing is passed over at the start.
LEMMA PassedInit == Init => PassedOver
  BY DEF Init, PassedOver, Running, Undoing

\* While the device stays, so does what can be driven.
LEMMA SameDevice ==
  ASSUME UNCHANGED device
  PROVE  /\ PlanesForAll' = PlanesForAll
         /\ \A n \in 1..NConnectors : Drivable(connectors[n])' = Drivable(connectors[n])
<1>1. connectors' = connectors /\ planes' = planes /\ want' = want
  BY DEF device
<1>2. PlanesForAll' = PlanesForAll
  BY <1>1 DEF PlanesForAll
<1>3. ASSUME NEW n \in 1..NConnectors
      PROVE  Drivable(connectors[n])' = Drivable(connectors[n])
  BY <1>1 DEF Drivable
<1> QED
  BY <1>2, <1>3

\* No call that failed before is forgotten, and the planes stay as they are.
LEMMA PassedSame ==
  ASSUME PassedOver, UNCHANGED <<device, i, output_list>>, failed => failed',
         pc' \in {"video_plane", "osd_plane"} => out'.crtc # 0,
         pc' \in Running => i > NConnectors,
         ~failed' /\ PlanesForAll /\ pc' \in Undoing => ~Drivable(connectors[i])
  PROVE  PassedOver'
<1>1. PlanesForAll' = PlanesForAll
  BY SameDevice
<1>2. connectors' = connectors /\ want' = want /\ i' = i
  BY DEF device
<1> QED
  BY <1>1, <1>2 DEF PassedOver, Drivable

\* The next connector is tried once an output was created or this one was given up.
LEMMA PassedNext ==
  ASSUME TypeOK, PassedOver, pc' = "get", UNCHANGED <<device, failed>>, i' = i + 1,
         output_list' # NoOutput \/ (pc \in Undoing /\ UNCHANGED output_list)
  PROVE  PassedOver'
<1>1. PlanesForAll' = PlanesForAll /\ connectors' = connectors /\ want' = want
  BY SameDevice DEF device
<1>2. /\ pc' \notin {"video_plane", "osd_plane"} /\ pc' \notin Running
      /\ pc' \notin Undoing /\ i \in Nat
  BY ModesetAssumption DEF Running, Undoing, TypeOK
<1>3. ASSUME ~failed', PlanesForAll', output_list' = NoOutput,
             NEW n \in 1..NConnectors, n < i'
      PROVE  ~Drivable(connectors[n])'
  <2>1. n < i \/ n = i
    BY <1>2, <1>3
  <2>2. ~Drivable(connectors[n])
    BY <1>1, <1>3, <2>1 DEF PassedOver
  <2> QED
    BY <1>1, <2>2 DEF Drivable
<1> QED
  BY <1>2, <1>3 DEF PassedOver

\* The steps of the search: each gives up what cannot be driven, or a call failed.
LEMMA PassedSearch ==
  ModesetInv /\ PassedOver /\ (ChooseMode \/ FindCrtc \/ FindVideoPlane \/ FindOsdPlane)
    => PassedOver'
<1> SUFFICES ASSUME ModesetInv, PassedOver,
                    ChooseMode \/ FindCrtc \/ FindVideoPlane \/ FindOsdPlane
             PROVE  PassedOver'
  OBVIOUS
<1>0. DeviceFits /\ UNCHANGED device
  BY DeviceStep DEF ModesetInv, Next
<1>1. CASE ChooseMode
  <2> DEFINE c == connectors[i]
             n == ModeIndex(c)
  <2>0. c \in Connector
    BY <1>0, <1>1, Device DEF ModesetInv, ChooseMode, Creating, Running
  <2>1. /\ UNCHANGED <<i, output_list, failed>>
        /\ pc' = "blob" \/ (pc' = "out_error" /\ ~(c.connected /\ n # 0))
    BY <1>1 DEF ChooseMode, Goes, Succeeds, Jumps
  <2>2. ASSUME ~(c.connected /\ n # 0)
        PROVE  ~Drivable(c)
    BY <2>0, <2>2, ModeThere DEF Drivable
  <2> HIDE DEF c, n
  <2>3. pc' \in Undoing => ~Drivable(c)
    BY <2>1, <2>2 DEF Undoing
  <2>4. pc' \notin {"video_plane", "osd_plane"} \cup Running
    BY <2>1 DEF Running
  <2> QED
    BY <1>0, <2>1, <2>3, <2>4, PassedSame DEF c
<1>2. CASE FindCrtc
  <2> DEFINE c == connectors[i]
  <2>0. c \in Connector
    BY <1>0, <1>2, Device DEF ModesetInv, FindCrtc, Creating, Running
  <2>1. PICK current \in {0, c.current}, encoders \in SUBSET DOMAIN c.encoders,
             saved \in {{}, {"saved_crtc"}} :
          LET crtc == FoundCrtc(c, current, encoders) IN
          /\ failed' = (failed \/ current # c.current \/ encoders # DOMAIN c.encoders
                        \/ saved = {})
          /\ \/ /\ crtc # 0 /\ Goes("crtc", "video_plane")
                /\ out' = [out EXCEPT !.crtc = crtc]
                /\ held' = held \cup saved
             \/ crtc = 0 /\ Goes("crtc", "out_blob") /\ UNCHANGED <<out, held>>
    BY <1>2 DEF FindCrtc
  <2> DEFINE crtc == FoundCrtc(c, current, encoders)
  <2>2. /\ failed' = (failed \/ current # c.current \/ encoders # DOMAIN c.encoders
                      \/ saved = {})
        /\ UNCHANGED <<i, output_list>>
        /\ \/ crtc # 0 /\ pc' = "video_plane" /\ out' = [out EXCEPT !.crtc = crtc]
           \/ crtc = 0 /\ pc' = "out_blob"
    BY <1>2, <2>1 DEF FindCrtc, Goes
  <2>3. ASSUME ~failed', crtc = 0
        PROVE  ~Drivable(c)
    <3>1. current = c.current /\ encoders = DOMAIN c.encoders
      BY <2>2, <2>3, Zenon
    <3>2. FoundCrtc(c, c.current, DOMAIN c.encoders) = 0
      BY <2>3, <3>1
    <3> QED
      BY <2>0, <3>2, CrtcThere DEF Drivable
  <2>4. failed => failed'
    BY <2>2, Zenon
  <2> HIDE DEF crtc, c
  <2>5. ~failed' /\ PlanesForAll /\ pc' \in Undoing => ~Drivable(c)
    BY <2>2, <2>3 DEF Undoing
  <2>6. pc' = "video_plane" => out'.crtc # 0
    BY <2>2 DEF ModesetInv, TypeOK, Output
  <2>7. pc' # "osd_plane" /\ pc' \notin Running
    BY <2>2 DEF Running
  <2> QED
    BY <1>0, <2>2, <2>4, <2>5, <2>6, <2>7, PassedSame DEF c
<1>3. CASE FindVideoPlane
  <2>1. PICK readable \in SUBSET DOMAIN planes :
          LET p == FoundPlane(readable, "NV12") IN
          /\ failed' = (failed \/ readable # DOMAIN planes)
          /\ \/ p # 0 /\ Goes("video_plane", "osd_plane") /\ out' = [out EXCEPT !.video = p]
             \/ p = 0 /\ Goes("video_plane", "out_blob") /\ UNCHANGED out
    BY <1>3 DEF FindVideoPlane, FindPlane
  <2> DEFINE p == FoundPlane(readable, "NV12")
  <2>2. /\ failed' = (failed \/ readable # DOMAIN planes)
        /\ UNCHANGED <<i, output_list>> /\ pc = "video_plane"
        /\ \/ pc' = "osd_plane" /\ out' = [out EXCEPT !.video = p]
           \/ p = 0 /\ pc' = "out_blob"
    BY <1>3, <2>1 DEF FindVideoPlane, FindPlane, Goes
  <2>3. out.crtc \in 1..Crtcs
    BY <2>2, ModesetAssumption DEF PassedOver, ModesetInv, TypeOK, Output
  <2>4. ASSUME ~failed', p = 0, PlanesForAll
        PROVE  FALSE
    <3>1. readable = DOMAIN planes
      BY <2>2, <2>4, Zenon
    <3>2. FoundPlane(DOMAIN planes, "NV12") = 0
      BY <2>4, <3>1
    <3> QED
      BY <1>0, <2>3, <2>4, <3>2, PlaneThere DEF Formats
  <2>5. failed => failed'
    BY <2>2, Zenon
  <2> HIDE DEF p
  <2>6. ~failed' /\ PlanesForAll /\ pc' \in Undoing => ~Drivable(connectors[i])
    BY <2>2, <2>4 DEF Undoing
  <2>7. pc' = "osd_plane" => out'.crtc # 0
    BY <2>2, <2>3, ModesetAssumption DEF ModesetInv, TypeOK, Output
  <2>8. pc' # "video_plane" /\ pc' \notin Running
    BY <2>2 DEF Running
  <2> QED
    BY <1>0, <2>2, <2>5, <2>6, <2>7, <2>8, PassedSame
<1>4. CASE FindOsdPlane
  <2>1. PICK readable \in SUBSET DOMAIN planes :
          LET p == FoundPlane(readable, "ARGB8888") IN
          /\ failed' = (failed \/ readable # DOMAIN planes)
          /\ \/ p # 0 /\ Goes("osd_plane", "props_connector") /\ out' = [out EXCEPT !.osd = p]
             \/ p = 0 /\ Goes("osd_plane", "out_blob") /\ UNCHANGED out
    BY <1>4 DEF FindOsdPlane, FindPlane
  <2> DEFINE p == FoundPlane(readable, "ARGB8888")
  <2>2. /\ failed' = (failed \/ readable # DOMAIN planes)
        /\ UNCHANGED <<i, output_list>> /\ pc = "osd_plane"
        /\ pc' = "props_connector" \/ (p = 0 /\ pc' = "out_blob")
    BY <1>4, <2>1 DEF FindOsdPlane, FindPlane, Goes
  <2>3. out.crtc \in 1..Crtcs
    BY <2>2, ModesetAssumption DEF PassedOver, ModesetInv, TypeOK, Output
  <2>4. ASSUME ~failed', p = 0, PlanesForAll
        PROVE  FALSE
    <3>1. readable = DOMAIN planes
      BY <2>2, <2>4, Zenon
    <3>2. FoundPlane(DOMAIN planes, "ARGB8888") = 0
      BY <2>4, <3>1
    <3> QED
      BY <1>0, <2>3, <2>4, <3>2, PlaneThere DEF Formats
  <2>5. failed => failed'
    BY <2>2, Zenon
  <2> HIDE DEF p
  <2>6. ~failed' /\ PlanesForAll /\ pc' \in Undoing => ~Drivable(connectors[i])
    BY <2>2, <2>4 DEF Undoing
  <2>7. pc' \notin {"video_plane", "osd_plane"} \cup Running
    BY <2>2 DEF Running
  <2> QED
    BY <1>0, <2>2, <2>5, <2>6, <2>7, PassedSame
<1> QED
  BY <1>1, <1>2, <1>3, <1>4

\* The other calls of modeset_prepare: one that fails spoils the premise.
LEMMA PassedCalls ==
  ModesetInv /\ PassedOver
    /\ (GetConnector \/ CreateBlob \/ SetupObjects \/ SetupFramebuffers) => PassedOver'
<1> SUFFICES ASSUME ModesetInv, PassedOver,
                    GetConnector \/ CreateBlob \/ SetupObjects \/ SetupFramebuffers
             PROVE  PassedOver'
  OBVIOUS
<1>0. UNCHANGED device
  BY DeviceStep DEF ModesetInv, Next
<1>1. \/ UNCHANGED <<i, failed, output_list>>
         /\ pc' \in {"mode", "crtc", "props_crtc", "props_video", "props_osd", "fb0", "fb1",
                     "publish"}
      \/ failed' = TRUE /\ pc' \in {"get", "out_error", "out_blob", "out_obj"}
  BY DEF GetConnector, CreateBlob, SetupObjects, GetProperties, SetupFramebuffers, CreateFb,
         Goes, Succeeds, Fails
<1>2. CASE /\ UNCHANGED <<i, failed, output_list>>
           /\ pc' \in {"mode", "crtc", "props_crtc", "props_video", "props_osd", "fb0", "fb1",
                       "publish"}
  <2>1. pc' \notin {"video_plane", "osd_plane"} \cup Running \cup Undoing
    BY <1>2 DEF Running, Undoing
  <2> QED
    BY <1>0, <1>2, <2>1, PassedSame
<1>3. CASE failed' = TRUE /\ pc' \in {"get", "out_error", "out_blob", "out_obj"}
  BY <1>3 DEF PassedOver, Running
<1> QED
  BY <1>1, <1>2, <1>3

\* What is undone, what is published, and the exit.
LEMMA PassedUndo ==
  ModesetInv /\ PassedOver /\ (OutObj \/ OutBlob \/ OutError \/ Publish \/ PrepareReturns
                               \/ FreeRequests \/ OutputDestroy) => PassedOver'
<1> SUFFICES ASSUME ModesetInv, PassedOver,
                    OutObj \/ OutBlob \/ OutError \/ Publish \/ PrepareReturns
                      \/ FreeRequests \/ OutputDestroy
             PROVE  PassedOver'
  OBVIOUS
<1>0. DeviceFits /\ UNCHANGED device
  BY DeviceStep DEF ModesetInv, Next
<1>1. CASE OutObj \/ OutBlob
  <2>1. /\ UNCHANGED <<i, failed, output_list>> /\ pc \in Undoing
        /\ pc' \notin {"video_plane", "osd_plane"} \cup Running
    BY <1>1 DEF OutObj, OutBlob, Jumps, Goes, Undoing, Running
  <2>2. ~failed /\ PlanesForAll => ~Drivable(connectors[i])
    BY <2>1 DEF PassedOver
  <2> QED
    BY <1>0, <2>1, <2>2, PassedSame
<1>2. CASE OutError
  <2>1. /\ UNCHANGED <<failed, output_list>> /\ pc \in Undoing /\ pc' = "get" /\ i' = i + 1
    BY <1>2 DEF OutError, Goes, Undoing
  <2> QED
    BY <1>0, <2>1, PassedNext DEF ModesetInv
<1>3. CASE Publish
  <2>1. /\ UNCHANGED failed /\ pc' = "get" /\ i' = i + 1 /\ output_list' = out
        /\ out.connector # 0
    BY <1>3 DEF Publish, ModesetInv, Creating, Running
  <2>2. output_list' # NoOutput
    BY <2>1 DEF NoOutput
  <2> QED
    BY <1>0, <2>1, <2>2, PassedNext DEF ModesetInv
<1>4. CASE PrepareReturns
  <2>1. /\ UNCHANGED <<i, failed, output_list>> /\ i > Len(connectors) /\ pc' = "run"
    BY <1>4 DEF PrepareReturns, Jumps, Goes
  <2>2. i > NConnectors /\ pc' \notin {"video_plane", "osd_plane"} \cup Undoing
    BY <1>0, <2>1, Device DEF Undoing
  <2> QED
    BY <1>0, <2>1, <2>2, PassedSame
<1>5. CASE FreeRequests \/ OutputDestroy
  <2>1. /\ UNCHANGED <<i, failed, output_list>> /\ pc \in Running
        /\ pc' \notin {"video_plane", "osd_plane"} \cup Undoing
    BY <1>5 DEF FreeRequests, OutputDestroy, Gives, Running, Undoing
  <2>2. i > NConnectors
    BY <2>1 DEF PassedOver
  <2> QED
    BY <1>0, <2>1, <2>2, PassedSame
<1> QED
  BY <1>1, <1>2, <1>3, <1>4, <1>5

\* Where nothing changes nothing is passed over.
LEMMA PassedStutter == PassedOver /\ UNCHANGED vars => PassedOver'
  BY DEF PassedOver, PlanesForAll, Drivable, vars, device

\* As long as no call has failed and no plane is missing, a connector passed over
\* before there was an output could not be driven, in every reachable state.
THEOREM SearchInvariance == Spec => []PassedOver
<1>1. ModesetInv /\ PassedOver /\ [Next]_vars => PassedOver'
  BY PassedSearch, PassedCalls, PassedUndo, PassedStutter DEF Next
<1> QED
  BY <1>1, PassedInit, ModesetInvariance, PTL DEF Spec

-----------------------------------------------------------------------------
\* Every variable keeps its type.
THEOREM ModesetTypeCorrect == Spec => []TypeOK
  BY ModesetInvariance, PTL DEF ModesetInv

\* Whichever call fails, each label of the undoing chain gives back what is there
\* (drm.c:483-510, modeset_setup_objects).
THEOREM UndoCorrect == Spec => []UndoValid
<1>1. ModesetInv => UndoValid
  BY DEF ModesetInv, HeldSoFar, UndoValid, Objects
<1> QED
  BY <1>1, ModesetInvariance, PTL

\* Whichever calls fail, on any device, nothing is left behind but what the undoing
\* chain forgets, the struct the output in use was copied from, and what an output
\* displaced by a later one held (drm.c:417-543, main.cpp:785-797).
THEOREM LostCorrect == Spec => []NothingElseLost
<1>1. ModesetInv => NothingElseLost
  BY DEF ModesetInv, KeptSoFar, LeftBehind, NothingElseLost
<1> QED
  BY <1>1, ModesetInvariance, PTL

\* The output main() gets is one the device can drive, whatever the device has and
\* whichever calls failed on the way (drm.c:142-263, 417-543).
THEOREM FitsCorrect == Spec => []OutputFits
<1>1. ModesetInv => OutputFits
  BY DEF ModesetInv, ChosenFits, Fits, ModeFits, CrtcFits, PlaneFits, OutputFits
<1> QED
  BY <1>1, ModesetInvariance, PTL

\* On any device, modeset_prepare misses no output it could have had: if no call
\* failed and planes are not what is missing, no connector can be driven when it
\* returns without one (drm.c:142-263, 417-543).
THEOREM SearchCorrect == Spec => []SearchComplete
<1>1. ModesetInv /\ PassedOver => SearchComplete
  <2> SUFFICES ASSUME ModesetInv, PassedOver, pc = "run", ~failed, output_list = NoOutput,
                      PlanesForAll, NEW n \in DOMAIN connectors
               PROVE  ~Drivable(connectors[n])
    BY DEF SearchComplete
  <2>1. n \in 1..NConnectors
    BY Device DEF ModesetInv
  <2>2. i > NConnectors /\ i \in Nat
    BY ModesetAssumption DEF ModesetInv, TypeOK, PassedOver, Running
  <2>3. n < i
    BY <2>1, <2>2, ModesetAssumption
  <2> QED
    BY <2>1, <2>3 DEF PassedOver
<1> QED
  BY <1>1, ModesetInvariance, SearchInvariance, PTL
=============================================================================
