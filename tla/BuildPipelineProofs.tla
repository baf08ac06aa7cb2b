------------------------- MODULE BuildPipelineProofs -------------------------
(***************************************************************************)
(* Proofs about BuildPipeline, for any number of builds, saves and          *)
(* converter rebuilds.                                                     *)
(***************************************************************************)
EXTENDS BuildPipeline, TLAPS

USE BoundsAssumption, ModeAssumption
\* One-line abbreviations, expanded everywhere.
USE DEF FreeSlot, ClearProblems, ChildOk, Outcome, Compiled, ToolNewer, SourceNewer,
        StampDue, Looking

\* What was a legal mtime, image or frame stays one when the clock advances.
LEMMA TypesGrow ==
    ASSUME clock \in Nat, clock' \in Nat, clock' >= clock
    PROVE  /\ Mtimes \subseteq Mtimes'
           /\ Image \subseteq Image'
           /\ Frame \subseteq Frame'
           /\ clock' \in Mtimes'
PROOF
<1>1. Mtimes \subseteq Mtimes' /\ clock' \in Mtimes'
  BY DEF Mtimes
<1>2. Image \subseteq Image'
  BY <1>1 DEF Image
<1>3. Frame \subseteq Frame'
  BY <1>1, <1>2 DEF Frame
<1> QED BY <1>1, <1>2, <1>3

\* Files that are not there.
LEMMA NoExeType ==
    ASSUME clock \in Nat
    PROVE  NoExe \in Image /\ NoPdb \in [mtime : Mtimes, guid : Serials, link : Serials]
PROOF BY DEF NoExe, NoPdb, Image, Mtimes, Serials, None

\* A build that has not begun.
LEMMA NoFrameType ==
    ASSUME clock \in Nat
    PROVE  NoFrame \in Frame
PROOF BY NoExeType DEF NoFrame, Frame, Targets, Backends, Mtimes, Serials, None

\* The initial state is well typed.
LEMMA InitType == Init => TypeOK
PROOF
<1> SUFFICES ASSUME Init PROVE TypeOK OBVIOUS
<1>1. clock \in Nat /\ srcMtime \in Mtimes /\ toolMtime \in Mtimes /\ stamp \in Mtimes
  BY DEF Init, Mtimes
<1>2. exe \in Image /\ pdb \in [mtime : Mtimes, guid : Serials, link : Serials]
  BY <1>1, NoExeType DEF Init
<1>3. frame \in [Builds -> Frame]
  BY <1>1, NoFrameType DEF Init
<1>4. pc \in [Builds -> Stages]
  BY DEF Init, Stages
<1>5. currentChild \in Serials /\ problems \in Serials /\ mapLink \in Serials
  BY DEF Init, Serials
<1>6. srcRev \in 0..MaxEdits /\ toolRev \in 0..MaxTools
  BY DEF Init
<1>7. backend \in Backends /\ debugging \in BOOLEAN
  BY DEF Init
<1>8. cancelled \in BOOLEAN /\ midEdit \in BOOLEAN
  BY DEF Init
<1> QED
  BY <1>1, <1>2, <1>3, <1>4, <1>5, <1>6, <1>7, <1>8 DEF TypeOK

\* A build at another stage.
LEMMA GotoType ==
    ASSUME TypeOK, NEW b \in Builds, NEW stage \in Stages, Goto(b, stage)
    PROVE  pc' \in [Builds -> Stages]
PROOF BY DEF TypeOK, Goto

\* A build that keeps other things.
LEMMA KeepType ==
    ASSUME TypeOK, clock' \in Nat, clock' >= clock,
           NEW b \in Builds, NEW f \in Frame', Keep(b, f)
    PROVE  frame' \in [Builds -> Frame']
PROOF
<1>1. Frame \subseteq Frame'
  BY TypesGrow DEF TypeOK
<1>2. Frame' = Frame'
  OBVIOUS
<1> QED
  BY <1>1 DEF TypeOK, Keep

\* A build that ends.
LEMMA EndType ==
    ASSUME TypeOK, clock' \in Nat, clock' >= clock,
           NEW b \in Builds, NEW outcome \in Ended, End(b, outcome)
    PROVE  pc' \in [Builds -> Stages] /\ frame' \in [Builds -> Frame']
PROOF
<1>1. outcome \in Stages
  BY DEF Stages
<1>2. NoFrame \in Frame'
  BY NoFrameType, TypesGrow DEF TypeOK
<1> QED
  BY <1>1, <1>2, GotoType, KeepType DEF End

\* When the clock stands still, so do the sets of legal values.
LEMMA SameTypes ==
    ASSUME clock' = clock
    PROVE  Mtimes' = Mtimes /\ Image' = Image /\ Frame' = Frame
PROOF BY DEF Mtimes, Image, Frame

\* StartBuild keeps the types.
LEMMA StartBuildType ==
    ASSUME TypeOK, NEW b \in Builds, NEW t \in Targets, StartBuild(b, t)
    PROVE  TypeOK'
PROOF
<1> DEFINE f == [NoFrame EXCEPT !.target = t, !.toolAt = toolRev]
<1>1. clock' = clock /\ clock \in Nat
  BY DEF StartBuild, TypeOK
<1>2. f \in Frame
  BY <1>1, NoFrameType DEF Frame, TypeOK
<1>3. pc' \in [Builds -> Stages] /\ frame' \in [Builds -> Frame]
  <2>1. CASE End(b, "failed")
    BY <1>1, <2>1, EndType, SameTypes DEF Ended
  <2>2. CASE Goto(b, "statExe") /\ Keep(b, f)
    BY <1>1, <1>2, <2>2, GotoType, KeepType, SameTypes DEF Stages, Active, Walking
  <2>3. CASE Spawned(b, "clean", f)
    BY <1>1, <1>2, <2>3, GotoType, KeepType, SameTypes
       DEF Spawned, Stages, Active, Live, Msbuild
  <2> QED
    BY <2>1, <2>2, <2>3 DEF StartBuild, SpawnError
<1>4. currentChild' \in Serials /\ problems' \in Serials
  BY DEF StartBuild, TypeOK, Spawned, SpawnError, Serials
<1> QED
  BY <1>1, <1>3, <1>4, SameTypes
     DEF StartBuild, TypeOK, envVars, diskVars

\* A build that has started a child, or failed to.
LEMMA SpawnedType ==
    ASSUME TypeOK, clock' = clock,
           NEW b \in Builds, NEW stage \in Live, NEW f \in Frame,
           Spawned(b, stage, f) \/ SpawnError(b)
    PROVE  /\ pc' \in [Builds -> Stages]
           /\ frame' \in [Builds -> Frame']
           /\ currentChild' \in Serials
PROOF
<1>1. clock \in Nat /\ Frame' = Frame
  BY SameTypes DEF TypeOK
<1>2. CASE Spawned(b, stage, f)
  <2>1. stage \in Stages
    BY DEF Stages, Active
  <2> QED
    BY <1>1, <1>2, <2>1, GotoType, KeepType DEF Spawned, Serials
<1>3. CASE SpawnError(b)
  BY <1>1, <1>3, EndType DEF SpawnError, Ended, Serials, None
<1> QED
  BY <1>2, <1>3

\* What a walk remembers once it has the mtime of the .exe.
Looked(b) == [frame[b] EXCEPT !.exeSeen = exe.mtime, !.srcSeen = srcMtime,
                              !.owes = IF midEdit THEN 0 ELSE srcRev]

\* Walk keeps the types.
LEMMA WalkType ==
    ASSUME TypeOK, NEW b \in Builds, OnStatExe(b) \/ OnStatTool(b) \/ OnStatSrc(b)
    PROVE  TypeOK'
PROOF
<1>1. clock' = clock /\ clock \in Nat /\ currentChild \in Serials
  BY DEF OnStatExe, OnStatTool, OnStatSrc, TypeOK
<1>2. Looked(b) \in Frame /\ frame[b] \in Frame
  <2>1. frame[b] \in Frame /\ exe.mtime \in Mtimes /\ srcMtime \in Mtimes
    BY DEF Image, TypeOK
  <2>2. PICK owed \in 0..MaxEdits : owed = IF midEdit THEN 0 ELSE srcRev
    BY DEF TypeOK
  <2>3. Looked(b) = [frame[b] EXCEPT !.exeSeen = exe.mtime, !.srcSeen = srcMtime,
                                     !.owes = owed]
    BY <2>2, Zenon DEF Looked
  <2> QED
    BY <2>1, <2>3 DEF Frame
<1>3. /\ pc' \in [Builds -> Stages]
      /\ frame' \in [Builds -> Frame']
      /\ currentChild' \in Serials
  <2>1. CASE Compiled(b)
    BY <1>1, <1>2, <2>1, SpawnedType DEF Live, Msbuild
  <2>2. CASE Goto(b, "statTool") /\ Keep(b, Looked(b)) /\ UNCHANGED currentChild
    BY <1>1, <1>2, <2>2, GotoType, KeepType, SameTypes
       DEF Stages, Active, Walking
  <2>3. CASE Goto(b, "statSrc") /\ UNCHANGED <<frame, currentChild>>
    BY <1>1, <1>2, <2>3, GotoType, SameTypes DEF Stages, Active, Walking, TypeOK
  <2>4. CASE End(b, "okSkipped") /\ UNCHANGED currentChild
    BY <1>1, <2>4, EndType DEF Ended, Ok
  <2> QED
    BY <2>1, <2>2, <2>3, <2>4, Zenon DEF OnStatExe, OnStatTool, OnStatSrc, Looked
<1> QED
  BY <1>1, <1>3, SameTypes
     DEF OnStatExe, OnStatTool, OnStatSrc, TypeOK, envVars, diskVars

\* MsbuildClose keeps the types.
LEMMA MsbuildCloseType ==
    ASSUME TypeOK, NEW b \in Builds, OnMsbuildClose(b)
    PROVE  TypeOK'
PROOF
<1> DEFINE f == [frame[b] EXCEPT !.mode = backend]
<1>1. clock' = clock /\ clock \in Nat
  BY DEF OnMsbuildClose, TypeOK
<1>2. f \in Frame
  BY DEF Frame, TypeOK
<1>3. /\ pc' \in [Builds -> Stages]
      /\ frame' \in [Builds -> Frame']
      /\ currentChild' \in Serials
  <2>1. CASE Spawned(b, "convRead", f) \/ SpawnError(b)
    BY <1>1, <1>2, <2>1, SpawnedType DEF Live, Converter
  <2>2. ASSUME NEW outcome \in Ended, End(b, outcome), currentChild' = None
        PROVE  <1>3!1 /\ <1>3!2 /\ <1>3!3
    BY <1>1, <2>2, EndType DEF Serials
  <2> QED
    BY <2>1, <2>2 DEF OnMsbuildClose, Ended, Ok
<1>4. problems' \in Serials
  BY DEF OnMsbuildClose, Serials
<1> QED
  BY <1>1, <1>3, <1>4, SameTypes DEF OnMsbuildClose, TypeOK, envVars, diskVars

\* ConvertClose keeps the types.
LEMMA ConvertCloseType ==
    ASSUME TypeOK, NEW b \in Builds, OnConvertClose(b)
    PROVE  TypeOK'
PROOF
<1>1. /\ clock' \in Nat /\ clock' >= clock
      /\ stamp' \in Mtimes'
  BY DEF OnConvertClose, TypeOK, Mtimes
<1>2. pc' \in [Builds -> Stages] /\ frame' \in [Builds -> Frame']
  <2>1. ASSUME NEW outcome \in Ended, End(b, outcome)
        PROVE  <1>2
    BY <1>1, <2>1, EndType
  <2> QED
    BY <2>1 DEF OnConvertClose, Ended, Ok
<1> QED
  BY <1>1, <1>2, TypesGrow DEF OnConvertClose, TypeOK, envVars, Serials

\* What a killed child leaves behind.
LEMMA KillType ==
    ASSUME TypeOK, NEW b \in Builds, Kill(b)
    PROVE  /\ clock' \in Nat /\ clock' >= clock
           /\ exe' \in Image' /\ pc' \in [Builds -> Stages] /\ midEdit' \in BOOLEAN
PROOF
<1>1. clock' \in Nat /\ clock' >= clock
  BY DEF Kill, TypeOK
<1>2. exe \in Image' /\ NoExe \in Image' /\ frame[b].comp \in 0..MaxEdits
  BY <1>1, TypesGrow, NoExeType DEF TypeOK, Frame
<1>3. exe' \in Image'
  <2>1. CASE exe' = [NoExe EXCEPT !.mtime = clock', !.rev = frame[b].comp,
                                  !.link = b] /\ clock' = clock + 1
    BY <1>1, <1>2, <2>1, TypesGrow DEF Image, Serials, TypeOK
  <2>2. CASE exe' = exe
    BY <1>2, <2>2
  <2> QED
    BY <2>1, <2>2 DEF Kill
<1>4. pc' \in [Builds -> Stages]
  <2>1. CASE Goto(b, "msFail") \/ Goto(b, "cvFail")
    BY <2>1, GotoType DEF Stages, Active, Exited
  <2>2. CASE pc' = pc
    BY <2>2 DEF TypeOK
  <2> QED
    BY <2>1, <2>2 DEF Kill
<1>5. midEdit' \in BOOLEAN
  <2>1. CASE midEdit' = (frame[b].comp # srcRev)
    BY <2>1
  <2>2. CASE midEdit' = midEdit
    BY <2>2 DEF TypeOK
  <2> QED
    BY <2>1, <2>2 DEF Kill
<1> QED
  BY <1>1, <1>3, <1>4, <1>5

\* Cancel keeps the types.
LEMMA CancelType ==
    ASSUME TypeOK, Cancel
    PROVE  TypeOK'
PROOF
<1>1. /\ clock' \in Nat /\ clock' >= clock
      /\ exe' \in Image' /\ pc' \in [Builds -> Stages] /\ midEdit' \in BOOLEAN
  <2>1. CASE currentChild = None /\ UNCHANGED <<clock, exe, pc, cancelled, midEdit>>
    BY <2>1, SameTypes DEF TypeOK
  <2>2. CASE currentChild # None /\ Kill(currentChild)
    BY <2>2, KillType DEF TypeOK, Serials
  <2> QED
    BY <2>1, <2>2 DEF Cancel
<1>2. frame' \in [Builds -> Frame']
  <2>1. ASSUME NEW b \in Builds
        PROVE  /\ frame[b] \in Frame
               /\ [frame[b] EXCEPT !.asked = "hit"] \in Frame
               /\ [frame[b] EXCEPT !.asked = "missed"] \in Frame
    BY DEF TypeOK, Frame
  <2>2. frame' \in [Builds -> Frame]
    BY <2>1 DEF Cancel
  <2> QED
    BY <1>1, <2>2, TypesGrow DEF TypeOK
<1>3. cancelled' \in BOOLEAN
  BY DEF Cancel, TypeOK
<1> QED
  BY <1>1, <1>2, <1>3, TypesGrow DEF Cancel, TypeOK, envVars

\* Msbuild keeps the types.
LEMMA MsbuildType ==
    ASSUME TypeOK, NEW b \in Builds, Clean(b) \/ Compile(b) \/ Link(b)
    PROVE  TypeOK'
PROOF
<1>1. CASE Clean(b)
  <2>1. clock' = clock /\ clock \in Nat
    BY <1>1 DEF Clean, TypeOK
  <2>2. pc' \in [Builds -> Stages]
    BY <1>1, GotoType DEF Clean, Stages, Active, Live, Msbuild
  <2>3. exe' \in Image /\ mapLink' \in Serials
    BY <1>1, NoExeType DEF Clean, TypeOK, Serials
  <2> QED
    BY <1>1, <2>1, <2>2, <2>3, SameTypes DEF Clean, TypeOK, envVars, hostVars
<1>2. CASE Compile(b)
  <2>1. clock' = clock /\ clock \in Nat
    BY <1>2 DEF Compile, TypeOK
  <2>2. pc' \in [Builds -> Stages]
    BY <1>2, GotoType DEF Compile, Stages, Active, Live, Msbuild, Exited
  <2>3. [frame[b] EXCEPT !.comp = srcRev] \in Frame
    BY DEF TypeOK, Frame
  <2>4. frame' \in [Builds -> Frame']
    BY <1>2, <2>1, <2>3, KeepType, SameTypes DEF Compile
  <2> QED
    BY <1>2, <2>1, <2>2, <2>4, SameTypes
       DEF Compile, TypeOK, envVars, diskVars, hostVars
<1>3. CASE Link(b)
  <2>1. clock' \in Nat /\ clock' >= clock
    BY <1>3 DEF Link, TypeOK
  <2>2. pc' \in [Builds -> Stages]
    BY <1>3, GotoType DEF Link, Stages, Active, Exited
  <2>3. exe' \in Image' /\ mapLink' \in Serials /\ midEdit' \in BOOLEAN
    <3>1. CASE UNCHANGED <<clock, exe, mapLink, midEdit>>
      BY <3>1, SameTypes DEF TypeOK
    <3>2. CASE /\ clock' = clock + 1
               /\ exe' = [NoExe EXCEPT !.mtime = clock', !.whole = TRUE,
                                       !.rev = frame[b].comp, !.link = b]
               /\ mapLink' = b
               /\ midEdit' = (frame[b].comp # srcRev)
      <4>1. NoExe \in Image' /\ frame[b].comp \in 0..MaxEdits /\ clock' \in Mtimes'
        BY <2>1, TypesGrow, NoExeType DEF TypeOK, Frame
      <4>2. exe' \in Image'
        BY <3>2, <4>1 DEF Image, Serials
      <4>3. midEdit' \in BOOLEAN
        BY <3>2
      <4> QED
        BY <3>2, <4>2, <4>3 DEF Serials
    <3> QED
      BY <1>3, <3>1, <3>2 DEF Link
  <2> QED
    BY <1>3, <2>1, <2>2, <2>3, TypesGrow DEF Link, TypeOK, envVars, hostVars
<1> QED
  BY <1>1, <1>2, <1>3

\* Converter keeps the types.
LEMMA ConverterType ==
    ASSUME TypeOK, NEW b \in Builds,
           ConvRead(b) \/ ConvPdb(b) \/ ConvOpen(b) \/ ConvWrite(b)
    PROVE  TypeOK'
PROOF
<1>1. clock' \in Nat /\ clock' >= clock
  <2>1. clock' = clock \/ clock' = clock + 1
    BY Zenon DEF ConvRead, ConvPdb, ConvOpen, ConvWrite
  <2>2. clock \in Nat
    BY DEF TypeOK
  <2> QED
    BY <2>1, <2>2
<1>2. pc' \in [Builds -> Stages]
  BY GotoType DEF ConvRead, ConvPdb, ConvOpen, ConvWrite,
                  Stages, Active, Live, Converter, Exited
<1>3. /\ Mtimes \subseteq Mtimes' /\ Image \subseteq Image'
      /\ Frame \subseteq Frame' /\ clock' \in Mtimes'
  BY <1>1, TypesGrow DEF TypeOK
<1>4. CASE ConvRead(b)
  <2>1. [frame[b] EXCEPT !.got = mapLink] \in Frame
    BY DEF TypeOK, Frame
  <2>2. frame' \in [Builds -> Frame']
    BY <1>1, <1>3, <1>4, <2>1, KeepType DEF ConvRead
  <2> QED
    BY <1>1, <1>2, <1>3, <1>4, <2>2
       DEF ConvRead, TypeOK, envVars, diskVars, hostVars
<1>5. CASE ConvPdb(b)
  <2>1. frame[b].got \in Serials
    BY DEF TypeOK, Frame
  <2>2. pdb' \in [mtime : Mtimes', guid : Serials, link : Serials]
    BY <1>3, <1>5, <2>1 DEF ConvPdb, TypeOK, Serials
  <2> QED
    BY <1>1, <1>2, <1>3, <1>5, <2>2 DEF ConvPdb, TypeOK, envVars, hostVars
<1>6. CASE ConvOpen(b)
  <2>1. exe' \in Image'
    BY <1>3, <1>6 DEF ConvOpen, TypeOK, Image
  <2>2. [frame[b] EXCEPT !.buf = exe] \in Frame
    BY DEF TypeOK, Frame
  <2>3. frame' \in [Builds -> Frame']
    BY <1>1, <1>3, <1>6, <2>2, KeepType DEF ConvOpen, TypeOK
  <2> QED
    BY <1>1, <1>2, <1>3, <1>6, <2>1, <2>3 DEF ConvOpen, TypeOK, envVars, hostVars
<1>7. CASE ConvWrite(b)
  <2>1. /\ frame[b].buf \in Image' /\ frame[b].got \in Serials
        /\ toolRev \in 0..MaxTools /\ b \in Serials
    BY <1>3 DEF TypeOK, Frame, Serials
  <2>2. Injected(b, clock') \in Image'
    BY <1>3, <2>1 DEF Injected, Image
  <2>3. exe' \in Image'
    BY <1>3, <1>7, <2>2 DEF ConvWrite, TypeOK
  <2> QED
    BY <1>1, <1>2, <1>3, <1>7, <2>3 DEF ConvWrite, TypeOK, envVars, hostVars
<1> QED
  BY <1>4, <1>5, <1>6, <1>7

\* A save shows itself to a walk that has yet to come to the file, and changes
\* nothing else that a build remembers.
Noticed(c) == [frame[c] EXCEPT !.srcSeen = srcMtime', !.owes = srcRev']
LEMMA EditFrame ==
    ASSUME TypeOK, Edit
    PROVE  /\ frame' = [c \in Builds |-> frame'[c]]
           /\ \A c \in Builds : \/ frame'[c] = frame[c]
                               \/ (pc[c] \in Looking /\ frame'[c] = Noticed(c))
PROOF
<1>1. PICK ahead \in SUBSET {b \in Builds : pc[b] \in Looking} :
          frame' = [b \in Builds |->
               IF b \in ahead
               THEN [frame[b] EXCEPT !.srcSeen = srcMtime', !.owes = srcRev']
               ELSE frame[b]]
  BY Zenon DEF Edit
<1> QED
  BY <1>1 DEF Noticed

\* User keeps the types.
LEMMA UserType ==
    ASSUME TypeOK, Edit \/ RebuildTool \/ ChangeBackend \/ Debug
    PROVE  TypeOK'
PROOF
<1>1. clock' \in Nat /\ clock' >= clock
  <2>1. clock' = clock \/ clock' = clock + 1
    BY Zenon DEF Edit, RebuildTool, ChangeBackend, Debug
  <2>2. clock \in Nat
    BY DEF TypeOK
  <2> QED
    BY <2>1, <2>2
<1>2. /\ Mtimes \subseteq Mtimes' /\ Image \subseteq Image'
      /\ Frame \subseteq Frame' /\ clock' \in Mtimes'
  BY <1>1, TypesGrow DEF TypeOK
<1>3. CASE Edit
  <2>1. srcRev' \in 0..MaxEdits
    <3>1. srcRev < MaxEdits /\ srcRev' = srcRev + 1
      BY <1>3, Zenon DEF Edit
    <3> QED
      BY <3>1 DEF TypeOK
  <2>2. midEdit' \in BOOLEAN
    BY <1>3 DEF Edit
  <2>3. srcMtime' \in Mtimes'
    BY <1>2, <1>3 DEF Edit
  <2>4. frame' \in [Builds -> Frame']
    <3>1. ASSUME NEW c \in Builds PROVE frame'[c] \in Frame'
      <4>1. frame[c] \in Frame'
        BY <1>2 DEF TypeOK
      <4>2. Noticed(c) \in Frame'
        BY <2>1, <2>3, <4>1 DEF Noticed, Frame
      <4> QED
        BY <1>3, <4>1, <4>2, EditFrame
    <3> QED
      BY <1>3, <3>1, EditFrame
  <2> QED
    <3>1. UNCHANGED <<toolRev, toolMtime, backend, debugging, diskVars, hostVars, pc>>
      BY <1>3, Zenon DEF Edit
    <3> QED
      BY <1>1, <1>2, <2>1, <2>2, <2>3, <2>4, <3>1 DEF TypeOK, diskVars, hostVars
<1>4. CASE RebuildTool
  <2>1. toolRev' \in 0..MaxTools
    BY <1>4 DEF RebuildTool, TypeOK
  <2> QED
    BY <1>1, <1>2, <1>4, <2>1 DEF RebuildTool, TypeOK, diskVars, hostVars
<1>5. CASE ChangeBackend
  BY <1>1, <1>2, <1>5 DEF ChangeBackend, TypeOK, diskVars, hostVars
<1>6. CASE Debug
  <2>1. debugging' \in BOOLEAN
    BY <1>6 DEF Debug
  <2> QED
    BY <1>1, <1>2, <1>6, <2>1 DEF Debug, TypeOK, diskVars, hostVars
<1> QED
  BY <1>3, <1>4, <1>5, <1>6

\* Next keeps the types.
LEMMA NextType == TypeOK /\ [Next]_vars => TypeOK'
PROOF
<1> SUFFICES ASSUME TypeOK, [Next]_vars PROVE TypeOK' OBVIOUS
<1>1. CASE \E b \in Builds, t \in Targets : StartBuild(b, t)
  BY <1>1, StartBuildType
<1>2. CASE \E b \in Builds : Host(b)
  BY <1>2, WalkType, MsbuildCloseType, ConvertCloseType DEF Host
<1>3. CASE \E b \in Builds : Child(b)
  BY <1>3, MsbuildType, ConverterType DEF Child
<1>4. CASE Cancel
  BY <1>4, CancelType
<1>5. CASE Edit \/ RebuildTool \/ ChangeBackend \/ Debug
  BY <1>5, UserType
<1>6. CASE UNCHANGED vars
  BY <1>6, SameTypes DEF vars, envVars, diskVars, hostVars, TypeOK
<1> QED
  BY <1>1, <1>2, <1>3, <1>4, <1>5, <1>6 DEF Next

\* Every variable keeps its shape, and no mtime runs ahead of the clock: of the
\* sources, of rsm2pdb.exe and of every file a child of runBuild writes.
THEOREM TypeCorrect == Spec => []TypeOK
PROOF
<1> QED
  BY InitType, NextType, PTL DEF Spec

-----------------------------------------------------------------------------
(* The slot of cancelBuild, with or without overlapping builds.             *)

\* Where a step of build b leaves the slot and the stages.
LEMMA SlotStep ==
    ASSUME TypeOK, SlotIsNotStale, NEW b \in Builds, NEW stage \in Stages,
           pc' = [pc EXCEPT ![b] = stage],
           \/ currentChild' = None
           \/ currentChild' = b /\ stage \in Live \cup Exited
           \/ currentChild' = currentChild
              /\ (pc[b] \in Live \cup Exited => stage \in Live \cup Exited)
    PROVE  SlotIsNotStale'
PROOF
<1> SUFFICES ASSUME currentChild' # None
             PROVE  pc'[currentChild'] \in Live \cup Exited
  BY DEF SlotIsNotStale
<1>1. currentChild \in Serials /\ pc \in [Builds -> Stages]
  BY DEF TypeOK
<1>2. CASE currentChild' = b
  BY <1>1, <1>2 DEF SlotIsNotStale, None, Builds, Serials
<1>3. CASE currentChild' # b
  BY <1>1, <1>3 DEF SlotIsNotStale, Serials
<1> QED
  BY <1>2, <1>3

\* No action makes the slot stale.
LEMMA SlotInductive == TypeOK /\ SlotIsNotStale /\ [Next]_vars => SlotIsNotStale'
PROOF
<1> SUFFICES ASSUME TypeOK, SlotIsNotStale, [Next]_vars PROVE SlotIsNotStale'
  OBVIOUS
<1> USE DEF Stages, Active, Walking, Live, Msbuild, Converter, Exited, Ended, Ok
<1>1. ASSUME NEW b \in Builds, NEW t \in Targets, StartBuild(b, t)
      PROVE  SlotIsNotStale'
  <2>1. pc[b] = "unborn"
    BY <1>1 DEF StartBuild
  <2> QED
    BY <1>1, <2>1, SlotStep DEF StartBuild, End, Goto, Spawned, SpawnError
<1>2. ASSUME NEW b \in Builds, Host(b)
      PROVE  SlotIsNotStale'
  <2>1. CASE OnStatExe(b)
    BY <2>1, SlotStep DEF OnStatExe, End, Goto, Spawned, SpawnError
  <2>2. CASE OnStatTool(b) \/ OnStatSrc(b)
    BY <2>2, SlotStep DEF OnStatTool, OnStatSrc, End, Goto, Spawned, SpawnError
  <2>3. CASE OnMsbuildClose(b)
    BY <2>3, SlotStep DEF OnMsbuildClose, End, Goto, Spawned, SpawnError
  <2>4. CASE OnConvertClose(b)
    BY <2>4, SlotStep DEF OnConvertClose, End, Goto
  <2> QED
    BY <1>2, <2>1, <2>2, <2>3, <2>4 DEF Host
<1>3. ASSUME NEW b \in Builds, Child(b)
      PROVE  SlotIsNotStale'
  <2>1. currentChild' = currentChild
    BY <1>3 DEF Child, Clean, Compile, Link, ConvRead, ConvPdb, ConvOpen,
                ConvWrite, hostVars
  <2>2. PICK stage \in Live \cup Exited : Goto(b, stage)
    BY <1>3 DEF Child, Clean, Compile, Link, ConvRead, ConvPdb, ConvOpen,
                ConvWrite
  <2> QED
    BY <2>1, <2>2, SlotStep DEF Goto
<1>4. CASE Cancel
  <2>1. currentChild' = currentChild
    BY <1>4 DEF Cancel
  <2>2. CASE pc' = pc
    BY <2>1, <2>2 DEF SlotIsNotStale
  <2>3. CASE pc' # pc
    <3>1. currentChild \in Builds /\ Kill(currentChild)
      BY <1>4, <2>3 DEF Cancel, TypeOK, Serials
    <3>2. Goto(currentChild, "msFail") \/ Goto(currentChild, "cvFail")
      BY <2>3, <3>1 DEF Kill
    <3> QED
      BY <2>1, <3>1, <3>2, SlotStep DEF Goto
  <2> QED
    BY <2>2, <2>3
<1>5. CASE Edit \/ RebuildTool \/ ChangeBackend \/ Debug \/ UNCHANGED vars
  <2>1. currentChild' = currentChild /\ pc' = pc
    BY <1>5 DEF Edit, RebuildTool, ChangeBackend, Debug, vars, hostVars
  <2> QED
    BY <2>1 DEF SlotIsNotStale
<1> QED
  BY <1>1, <1>2, <1>3, <1>4, <1>5 DEF Next

\* cancelBuild never takes the pid of a child whose end has been handled, even
\* when builds overlap and every handler writes the one global slot.
THEOREM SlotSafe == Spec => []SlotIsNotStale
PROOF
<1>1. Init => SlotIsNotStale
  BY DEF Init, SlotIsNotStale
<1> QED
  BY <1>1, TypeCorrect, SlotInductive, PTL DEF Spec

-----------------------------------------------------------------------------
(* One build at a time.  SeqInv (BuildPipeline) is inductive together with  *)
(* TypeOK; a step of build b has to answer for b's own conjuncts only.      *)

SelfInv(b) == WalkInv(b) /\ FreshInv(b) /\ PairInv(b) /\ CancelInv(b)

\* Builds other than b stand still and owe nothing.
LEMMA OthersIdle ==
    ASSUME TypeOK, SeqInv, NEW b \in Builds,
           \A c \in Builds : c # b => /\ pc[c] \notin Active
                                      /\ pc'[c] = pc[c]
                                      /\ frame'[c] = frame[c]
    PROVE  /\ OneAtATime'
           /\ Rewriting' => pc'[b] = "convWrite"
           /\ \A c \in Builds : c # b => SelfInv(c)'
PROOF
<1>1. OneAtATime'
  BY DEF OneAtATime
<1>2. Rewriting' => pc'[b] = "convWrite"
  BY DEF Rewriting, Active, Live, Converter
<1>3. ASSUME NEW c \in Builds, c # b
      PROVE  SelfInv(c)'
  <2>1. /\ pc'[c] \notin Active /\ pc'[c] = pc[c] /\ frame'[c] = frame[c]
    BY <1>3
  <2>2. WalkInv(c)' /\ FreshInv(c)' /\ PairInv(c)'
    BY <2>1 DEF WalkInv, FreshInv, PairInv, Active, Walking, Live, Msbuild,
                Converter, Exited
  <2>3. CancelInv(c)'
    BY <2>1 DEF SeqInv, CancelInv, Active
  <2> QED
    BY <2>2, <2>3 DEF SelfInv
<1> QED
  BY <1>1, <1>2, <1>3

\* The same, for a step that goes from an active stage of b to another stage.
LEMMA ActiveStep ==
    ASSUME TypeOK, SeqInv, NEW b \in Builds, pc[b] \in Active,
           NEW stage, pc' = [pc EXCEPT ![b] = stage],
           NEW f, frame' = [frame EXCEPT ![b] = f]
    PROVE  /\ OneAtATime'
           /\ Rewriting' => stage = "convWrite"
           /\ \A c \in Builds : c # b => SelfInv(c)'
           /\ pc'[b] = stage /\ frame'[b] = f
PROOF
<1>1. \A c \in Builds : c # b => /\ pc[c] \notin Active
                                 /\ pc'[c] = pc[c]
                                 /\ frame'[c] = frame[c]
  BY DEF SeqInv, OneAtATime, TypeOK
<1>2. pc'[b] = stage /\ frame'[b] = f
  BY DEF TypeOK
<1> QED
  BY <1>1, <1>2, OthersIdle

\* A build without child work behind it owes nothing.
LEMMA NothingOwed ==
    ASSUME NEW b \in Builds,
           pc'[b] \in Ended \cup {"statExe", "clean", "compile", "msFail", "cvFail"},
           CancelInv(b)'
    PROVE  SelfInv(b)'
PROOF BY DEF SelfInv, WalkInv, FreshInv, PairInv, Ended, Ok, Converter

\* The files' conjuncts, for a step that leaves the files and sources alone.
LEMMA DiskStill ==
    ASSUME SeqInv, UNCHANGED <<exe, mapLink, stamp, srcRev, srcMtime, midEdit>>
    PROVE  /\ StaleExeIsOlder'
           /\ StampIsHonest'
           /\ (Rewriting' => Rewriting) => MapInv'
PROOF
<1>1. StaleExeIsOlder' /\ StampIsHonest'
  BY DEF SeqInv, StaleExeIsOlder, StampIsHonest, Debuggable
<1>2. (Rewriting' => Rewriting) => MapInv'
  BY DEF SeqInv, MapInv
<1> QED
  BY <1>1, <1>2

\* SeqInv again, from what each lemma below shows of the one build that moves.
LEMMA Assemble ==
    ASSUME NEW b \in Builds, OneAtATime', SlotIsNotStale', MapInv',
           StaleExeIsOlder', StampIsHonest', SelfInv(b)',
           \A c \in Builds : c # b => SelfInv(c)'
    PROVE  SeqInv'
PROOF BY DEF SeqInv, SelfInv

\* StartBuild keeps SeqInv.
LEMMA StartBuildSeq ==
    ASSUME ~Overlap, TypeOK, SeqInv, SlotIsNotStale',
           NEW b \in Builds, NEW t \in Targets, StartBuild(b, t)
    PROVE  SeqInv'
PROOF
<1> DEFINE f == [NoFrame EXCEPT !.target = t, !.toolAt = toolRev]
<1>1. PICK stage \in {"failed", "statExe", "clean"}, g \in {NoFrame, f} :
          Goto(b, stage) /\ Keep(b, g)
  BY DEF StartBuild, End, Spawned, SpawnError
<1>2. /\ pc'[b] = stage /\ frame'[b] = g
      /\ \A c \in Builds : c # b => /\ pc[c] \notin Active
                                    /\ pc'[c] = pc[c]
                                    /\ frame'[c] = frame[c]
  BY <1>1 DEF StartBuild, TypeOK, Goto, Keep
<1>3. OneAtATime' /\ ~Rewriting' /\ \A c \in Builds : c # b => SelfInv(c)'
  BY <1>2, OthersIdle
<1>4. SelfInv(b)'
  <2>1. NoFrame.asked = "no" /\ f.asked = "no"
    BY DEF NoFrame
  <2> QED
    BY <1>2, <2>1, NothingOwed DEF CancelInv, Ended
<1>5. StaleExeIsOlder' /\ StampIsHonest' /\ MapInv'
  BY <1>3, DiskStill DEF StartBuild, diskVars, envVars
<1> QED
  BY <1>3, <1>4, <1>5, Assemble

\* Walk keeps SeqInv.
LEMMA WalkSeq ==
    ASSUME TypeOK, SeqInv, SlotIsNotStale', NEW b \in Builds,
           OnStatExe(b) \/ OnStatTool(b) \/ OnStatSrc(b)
    PROVE  SeqInv'
PROOF
<1>1. pc[b] \in Walking /\ frame[b].asked # "hit" /\ frame[b] \in Frame
  BY DEF OnStatExe, OnStatTool, OnStatSrc, SeqInv, CancelInv, Live, Msbuild,
         Converter, Exited, TypeOK, Walking
<1>2. PICK stage \in {"failed", "statTool", "statSrc", "compile", "okSkipped"},
           g \in {NoFrame, Looked(b), frame[b]} :
          /\ Goto(b, stage) /\ Keep(b, g)
          /\ stage = "statTool" => exe.mtime # 0 /\ g = Looked(b)
          /\ stage = "statSrc" => pc[b] = "statTool" /\ g = frame[b]
  <2>1. CASE OnStatExe(b)
    BY <2>1, Zenon DEF OnStatExe, Spawned, SpawnError, End, Looked
  <2>2. CASE OnStatTool(b)
    <3>1. frame' = frame => Keep(b, frame[b])
      BY DEF Keep, TypeOK
    <3> QED
      BY <2>2, <3>1, Zenon DEF OnStatTool, Spawned, SpawnError, End
  <2>3. CASE OnStatSrc(b)
    BY <2>3, Zenon DEF OnStatSrc, Spawned, SpawnError, End
  <2> QED
    BY <2>1, <2>2, <2>3
<1>3. g.asked # "hit"
  <2>1. NoFrame.asked # "hit"
    BY DEF NoFrame
  <2> QED
    BY <1>1, <1>2, <2>1 DEF Looked, Frame
<1>4. /\ OneAtATime' /\ ~Rewriting' /\ \A c \in Builds : c # b => SelfInv(c)'
      /\ pc'[b] = stage /\ frame'[b] = g
  BY <1>1, <1>2, ActiveStep DEF Active, Goto, Keep
<1>5. UNCHANGED <<exe, mapLink, stamp, srcRev, srcMtime, midEdit>>
  BY DEF OnStatExe, OnStatTool, OnStatSrc, diskVars, envVars
<1>6. SelfInv(b)'
  <2>1. CASE stage \in Looking
    <3>1. /\ exe.mtime # 0 /\ g.exeSeen = exe.mtime
          /\ g.srcSeen <= g.exeSeen => exe.rev >= g.owes
      <4>1. CASE stage = "statTool"
        <5>1. /\ g.exeSeen = exe.mtime /\ g.srcSeen = srcMtime
              /\ g.owes = IF midEdit THEN 0 ELSE srcRev
          BY <1>1, <1>2, <4>1 DEF Looked, Frame
        <5>2. exe.rev \in Nat /\ srcRev \in Nat /\ exe.mtime \in Nat /\ srcMtime \in Nat
          BY DEF TypeOK, Image, Mtimes
        <5>3. StaleExeIsOlder
          BY DEF SeqInv
        <5> QED
          BY <1>2, <4>1, <5>1, <5>2, <5>3 DEF StaleExeIsOlder
      <4>2. CASE stage = "statSrc"
        BY <1>2, <4>2 DEF SeqInv, WalkInv
      <4> QED
        BY <2>1, <4>1, <4>2
    <3> QED
      BY <1>3, <1>4, <1>5, <2>1, <3>1
         DEF SelfInv, WalkInv, FreshInv, PairInv, CancelInv, Converter
  <2>2. CASE stage \notin Looking
    BY <1>2, <1>3, <1>4, <2>2, NothingOwed DEF CancelInv, Ended, Ok
  <2> QED
    BY <2>1, <2>2
<1>7. StaleExeIsOlder' /\ StampIsHonest' /\ MapInv'
  BY <1>4, <1>5, DiskStill
<1> QED
  BY <1>4, <1>6, <1>7, Assemble

\* MsbuildClose keeps SeqInv.
LEMMA MsbuildCloseSeq ==
    ASSUME TypeOK, SeqInv, SlotIsNotStale', NEW b \in Builds, OnMsbuildClose(b)
    PROVE  SeqInv'
PROOF
<1> DEFINE f == [frame[b] EXCEPT !.mode = backend]
<1>1. pc[b] \in {"msDone", "msFail"}
  BY DEF OnMsbuildClose
<1>2. PICK stage \in Ended \cup {"convRead"}, g \in {NoFrame, f} :
          /\ Goto(b, stage) /\ Keep(b, g)
          /\ stage = "convRead" => pc[b] = "msDone" /\ ~cancelled /\ g = f
          /\ stage # "convRead" => g = NoFrame
  BY DEF OnMsbuildClose, End, Spawned, SpawnError, Ended, Ok
<1>3. /\ OneAtATime' /\ ~Rewriting' /\ \A c \in Builds : c # b => SelfInv(c)'
      /\ pc'[b] = stage /\ frame'[b] = g
  BY <1>1, <1>2, ActiveStep DEF Active, Exited, Goto, Keep, Ended, Ok
<1>4. /\ UNCHANGED <<exe, mapLink, stamp, srcRev, srcMtime, midEdit>>
      /\ cancelled' = cancelled
  BY DEF OnMsbuildClose, diskVars, envVars
<1>5. SelfInv(b)'
  <2>1. CASE stage = "convRead"
    <3>1. g.asked # "hit"
      BY <1>2, <2>1 DEF SeqInv, CancelInv, TypeOK, Frame
    <3>2. exe.rev # srcRev => midEdit
      BY <1>2, <2>1 DEF SeqInv, FreshInv
    <3> QED
      BY <1>3, <1>4, <2>1, <3>1, <3>2
         DEF SelfInv, WalkInv, FreshInv, PairInv, CancelInv
  <2>2. CASE stage # "convRead"
    <3>1. g.asked # "hit"
      BY <1>2, <2>2 DEF NoFrame
    <3> QED
      BY <1>2, <1>3, <2>2, <3>1, NothingOwed DEF CancelInv
  <2> QED
    BY <2>1, <2>2
<1>6. StaleExeIsOlder' /\ StampIsHonest' /\ MapInv'
  BY <1>3, <1>4, DiskStill
<1> QED
  BY <1>3, <1>5, <1>6, Assemble

\* ConvertClose keeps SeqInv.
LEMMA ConvertCloseSeq ==
    ASSUME TypeOK, SeqInv, SlotIsNotStale', NEW b \in Builds, OnConvertClose(b)
    PROVE  SeqInv'
PROOF
<1>1. pc[b] \in {"cvDone", "cvFail"}
  BY DEF OnConvertClose
<1>2. PICK stage \in Ended : Goto(b, stage) /\ Keep(b, NoFrame)
  BY DEF OnConvertClose, End, Ended, Ok
<1>3. /\ OneAtATime' /\ ~Rewriting' /\ \A c \in Builds : c # b => SelfInv(c)'
      /\ pc'[b] = stage /\ frame'[b] = NoFrame
  BY <1>1, <1>2, ActiveStep DEF Active, Exited, Goto, Keep, Ended, Ok
<1>4. UNCHANGED <<exe, mapLink, pdb, srcRev, srcMtime, midEdit>>
  BY DEF OnConvertClose, envVars
<1>5. SelfInv(b)'
  <2>1. NoFrame.asked # "hit"
    BY DEF NoFrame
  <2> QED
    BY <1>2, <1>3, <2>1, NothingOwed DEF CancelInv
<1>6. StaleExeIsOlder' /\ MapInv'
  BY <1>3, <1>4 DEF SeqInv, StaleExeIsOlder, MapInv
<1>7. StampIsHonest'
  <2>1. CASE stamp' = stamp
    BY <1>4, <2>1 DEF SeqInv, StampIsHonest, Debuggable
  <2>2. CASE stamp' # stamp
    <3>1. pc[b] = "cvDone" /\ frame[b].mode = "dwarf"
      BY <2>2 DEF OnConvertClose
    <3>2. Debuggable("dwarf")
      BY <3>1 DEF SeqInv, PairInv
    <3> QED
      BY <1>4, <3>2 DEF StampIsHonest, Debuggable
  <2> QED
    BY <2>1, <2>2
<1> QED
  BY <1>3, <1>5, <1>6, <1>7, Assemble

\* A stage and a frame that differ from the old ones in `asked' only, over
\* files that stand still.
LEMMA AskedOnly ==
    ASSUME NEW c \in Builds, SelfInv(c), pc'[c] = pc[c],
           NEW a, frame'[c] = [frame[c] EXCEPT !.asked = a],
           frame[c] \in Frame,
           UNCHANGED <<exe, mapLink, pdb, srcRev, midEdit>>,
           CancelInv(c)'
    PROVE  SelfInv(c)'
PROOF
<1>1. /\ frame'[c].exeSeen = frame[c].exeSeen /\ frame'[c].comp = frame[c].comp
      /\ frame'[c].srcSeen = frame[c].srcSeen /\ frame'[c].owes = frame[c].owes
      /\ frame'[c].mode = frame[c].mode /\ frame'[c].got = frame[c].got
      /\ frame'[c].buf = frame[c].buf
  BY DEF Frame
<1>2. WalkInv(c)' /\ FreshInv(c)' /\ PairInv(c)'
  BY <1>1 DEF SelfInv, WalkInv, FreshInv, PairInv, Debuggable
<1> QED
  BY <1>2 DEF SelfInv

\* Cancel keeps SeqInv.
LEMMA CancelSeq ==
    ASSUME TypeOK, SeqInv, SlotIsNotStale', Cancel
    PROVE  SeqInv'
PROOF
<1>1. \A c \in Builds : frame[c] \in Frame /\ SelfInv(c)
  BY DEF TypeOK, SeqInv, SelfInv
<1>2. UNCHANGED <<mapLink, pdb, stamp, srcRev, srcMtime, currentChild>>
  BY DEF Cancel, envVars
<1>3. CASE currentChild = None
  <2>1. UNCHANGED <<exe, pc, cancelled, midEdit>>
    BY <1>3 DEF Cancel
  <2>2. ASSUME NEW c \in Builds
        PROVE  SelfInv(c)'
    <3>0. PICK a \in {frame[c].asked, "missed"} :
              \/ frame'[c] = frame[c] /\ a = frame[c].asked
              \/ frame'[c] = [frame[c] EXCEPT !.asked = a]
      <4>1. c # currentChild
        BY <1>3 DEF Builds, None
      <4> QED
        BY <4>1, Zenon DEF Cancel
    <3>1. frame'[c] = [frame[c] EXCEPT !.asked = a]
      BY <1>1, <3>0 DEF Frame
    <3>2. frame'[c].asked = a
      BY <1>1, <3>1 DEF Frame
    <3>3. CancelInv(c)'
      BY <1>1, <2>1, <3>2 DEF SelfInv, CancelInv
    <3> QED
      BY <1>1, <1>2, <2>1, <3>1, <3>3, AskedOnly
  <2>3. OneAtATime' /\ (Rewriting' => Rewriting)
    BY <2>1 DEF SeqInv, OneAtATime, Rewriting
  <2>4. StaleExeIsOlder' /\ StampIsHonest' /\ MapInv'
    BY <1>2, <2>1, <2>3, DiskStill
  <2> QED
    BY <2>2, <2>3, <2>4 DEF SeqInv, SelfInv
<1>4. CASE currentChild # None
  <2>0. PICK b \in Builds : b = currentChild
    BY <1>4 DEF TypeOK, Serials
  <2>1. pc[b] \in Live \cup Exited /\ Kill(b) /\ cancelled' = TRUE
    BY <1>4, <2>0 DEF SeqInv, SlotIsNotStale, Cancel
  <2>2. frame'[b] = [frame[b] EXCEPT !.asked = "hit"]
    BY <2>0 DEF Cancel
  <2>3. \A c \in Builds : c # b => /\ pc[c] \notin Active
                                   /\ pc'[c] = pc[c]
                                   /\ frame'[c] = frame[c]
    <3>1. \A c \in Builds : c # b => pc[c] \notin Active
      BY <2>1 DEF SeqInv, OneAtATime, Active
    <3>2. \A c \in Builds : c # b => frame'[c] = frame[c]
      BY <2>0, <3>1 DEF Cancel
    <3>3. \A c \in Builds : c # b => pc'[c] = pc[c]
      BY <2>1 DEF Kill, Goto, TypeOK
    <3> QED
      BY <3>1, <3>2, <3>3
  <2>4. /\ OneAtATime' /\ (Rewriting' => pc'[b] = "convWrite")
        /\ \A c \in Builds : c # b => SelfInv(c)'
    BY <2>1, <2>3, OthersIdle
  <2>5. CASE /\ pc'[b] \in {"msFail", "cvFail"}
             /\ UNCHANGED <<exe, midEdit>>
    <3>1. SelfInv(b)'
      BY <2>1, <2>5, NothingOwed DEF CancelInv, Exited
    <3>2. StaleExeIsOlder' /\ StampIsHonest' /\ MapInv'
      BY <1>2, <2>4, <2>5, DiskStill
    <3> QED
      BY <2>1, <2>4, <3>1, <3>2, Assemble
  <2>6. CASE /\ pc'[b] = "msFail"
             /\ clock' = clock + 1
             /\ exe' = [NoExe EXCEPT !.mtime = clock', !.rev = frame[b].comp,
                                     !.link = b]
             /\ midEdit' = (frame[b].comp # srcRev)
    <3>1. SelfInv(b)'
      BY <2>1, <2>6, NothingOwed DEF CancelInv, Exited
    <3>2. /\ exe'.mtime = clock + 1 /\ exe'.rev = frame[b].comp
          /\ exe'.whole = FALSE
      BY <2>6 DEF NoExe
    <3>3. StaleExeIsOlder'
      BY <1>2, <2>6, <3>2 DEF StaleExeIsOlder
    <3>4. StampIsHonest'
      BY <1>2, <3>2 DEF StampIsHonest, TypeOK, Mtimes
    <3>5. MapInv'
      BY <2>4, <2>6, <3>2 DEF MapInv
    <3> QED
      BY <2>1, <2>4, <3>1, <3>3, <3>4, <3>5, Assemble
  <2>7. CASE UNCHANGED <<exe, pc, midEdit>>
    <3>1. frame'[b].asked = "hit"
      BY <1>1, <2>1, <2>2 DEF Frame
    <3>2. CancelInv(b)'
      BY <2>1, <2>7 DEF CancelInv
    <3>3. SelfInv(b)'
      BY <1>1, <1>2, <2>1, <2>2, <2>7, <3>2, AskedOnly
    <3>4. Rewriting' => Rewriting
      BY <2>7 DEF Rewriting
    <3>5. StaleExeIsOlder' /\ StampIsHonest' /\ MapInv'
      BY <1>2, <2>7, <3>4, DiskStill
    <3> QED
      BY <2>1, <2>4, <3>3, <3>5, Assemble
  <2> QED
    <3>1. pc \in [Builds -> Stages]
      BY DEF TypeOK
    <3> QED
      BY <2>1, <2>5, <2>6, <2>7, <3>1 DEF Kill, Goto
<1> QED
  BY <1>3, <1>4

\* A step of the child of b: CancelInv(b) carries over, for the child neither
\* reads nor writes what it speaks of.
LEMMA ChildStep ==
    ASSUME TypeOK, SeqInv, NEW b \in Builds, pc[b] \in Live,
           NEW stage \in Live \cup Exited, Goto(b, stage),
           NEW f, Keep(b, f),
           f.asked = frame[b].asked, cancelled' = cancelled
    PROVE  /\ OneAtATime' /\ (Rewriting' => stage = "convWrite")
           /\ \A c \in Builds : c # b => SelfInv(c)'
           /\ pc'[b] = stage /\ frame'[b] = f
           /\ CancelInv(b)'
PROOF
<1>1. /\ OneAtATime' /\ (Rewriting' => stage = "convWrite")
      /\ \A c \in Builds : c # b => SelfInv(c)'
      /\ pc'[b] = stage /\ frame'[b] = f
  BY ActiveStep DEF Goto, Keep, Active
<1>2. CancelInv(b)'
  BY <1>1 DEF SeqInv, CancelInv
<1> QED
  BY <1>1, <1>2

\* A step of a child leaves the driver where it was.
LEMMA ChildStepStill ==
    ASSUME TypeOK, SeqInv, NEW b \in Builds, pc[b] \in Live,
           NEW stage \in Live \cup Exited, Goto(b, stage),
           frame' = frame, cancelled' = cancelled
    PROVE  /\ OneAtATime' /\ (Rewriting' => stage = "convWrite")
           /\ \A c \in Builds : c # b => SelfInv(c)'
           /\ pc'[b] = stage /\ frame'[b] = frame[b]
           /\ CancelInv(b)'
PROOF
<1>1. PICK f : f = frame[b]
  OBVIOUS
<1>2. Keep(b, f) /\ f.asked = frame[b].asked
  BY <1>1 DEF TypeOK, Keep
<1> QED
  BY <1>1, <1>2, ChildStep

\* Msbuild keeps SeqInv.
LEMMA MsbuildSeq ==
    ASSUME TypeOK, SeqInv, SlotIsNotStale', NEW b \in Builds,
           Clean(b) \/ Compile(b) \/ Link(b)
    PROVE  SeqInv'
PROOF
<1>1. CASE Clean(b)
  <2>1. /\ OneAtATime' /\ ~Rewriting' /\ (\A c \in Builds : c # b => SelfInv(c)')
        /\ pc'[b] = "compile" /\ CancelInv(b)'
    BY <1>1, ChildStepStill DEF Clean, Live, Msbuild, hostVars
  <2>2. SelfInv(b)'
    BY <2>1, NothingOwed
  <2>3. StaleExeIsOlder' /\ StampIsHonest' /\ MapInv'
    <3>1. CASE exe' = NoExe
      BY <2>1, <3>1 DEF StaleExeIsOlder, StampIsHonest, MapInv, NoExe
    <3>2. CASE UNCHANGED <<exe, mapLink>>
      BY <1>1, <2>1, <3>2, DiskStill DEF Clean, envVars
    <3> QED
      BY <1>1, <3>1, <3>2 DEF Clean
  <2> QED
    BY <2>1, <2>2, <2>3, Assemble
<1>2. CASE Compile(b)
  <2>0. PICK f : f = [frame[b] EXCEPT !.comp = srcRev]
    OBVIOUS
  <2>1. f.asked = frame[b].asked /\ f.comp = srcRev
    BY <2>0 DEF TypeOK, Frame
  <2>2. PICK stage \in {"link", "msFail"} : Goto(b, stage) /\ Keep(b, f)
    BY <1>2, <2>0 DEF Compile
  <2>3. /\ OneAtATime' /\ ~Rewriting' /\ (\A c \in Builds : c # b => SelfInv(c)')
        /\ pc'[b] = stage /\ frame'[b] = f /\ CancelInv(b)'
    <3>1. pc[b] \in Live /\ stage \in Live \cup Exited /\ cancelled' = cancelled
      BY <1>2 DEF Compile, Live, Msbuild, Exited, hostVars
    <3> QED
      BY <2>1, <2>2, <3>1, ChildStep
  <2>4. UNCHANGED <<exe, mapLink, stamp, srcRev, srcMtime, midEdit>>
    BY <1>2 DEF Compile, diskVars, envVars
  <2>5. SelfInv(b)'
    <3>1. CASE stage = "link"
      BY <2>1, <2>3, <2>4, <3>1
         DEF SelfInv, WalkInv, FreshInv, PairInv, Converter
    <3>2. CASE stage = "msFail"
      BY <2>3, <3>2, NothingOwed
    <3> QED
      BY <3>1, <3>2
  <2>6. StaleExeIsOlder' /\ StampIsHonest' /\ MapInv'
    BY <2>3, <2>4, DiskStill
  <2> QED
    BY <2>3, <2>5, <2>6, Assemble
<1>3. CASE Link(b)
  <2>1. PICK stage \in {"msDone", "msFail"} : Goto(b, stage)
    BY <1>3 DEF Link
  <2>2. /\ OneAtATime' /\ ~Rewriting' /\ (\A c \in Builds : c # b => SelfInv(c)')
        /\ pc'[b] = stage /\ frame'[b] = frame[b] /\ CancelInv(b)'
    BY <1>3, <2>1, ChildStepStill DEF Link, Live, Msbuild, Exited, hostVars
  <2>3. UNCHANGED <<srcRev, srcMtime, stamp>>
    BY <1>3 DEF Link, envVars
  <2>4. CASE /\ clock' = clock + 1
             /\ exe' = [NoExe EXCEPT !.mtime = clock', !.whole = TRUE,
                                     !.rev = frame[b].comp, !.link = b]
             /\ mapLink' = b
             /\ midEdit' = (frame[b].comp # srcRev)
    <3>1. /\ exe'.mtime = clock + 1 /\ exe'.rev = frame[b].comp
          /\ exe'.whole = TRUE /\ exe'.link = b
      BY <2>4 DEF NoExe
    <3>2. StaleExeIsOlder'
      BY <2>3, <2>4, <3>1 DEF StaleExeIsOlder
    <3>3. StampIsHonest'
      BY <2>3, <3>1 DEF StampIsHonest, TypeOK, Mtimes
    <3>4. MapInv'
      BY <2>4, <3>1 DEF MapInv
    <3>5. SelfInv(b)'
      BY <2>1, <2>2, <2>3, <2>4, <3>1
         DEF SelfInv, WalkInv, FreshInv, PairInv, Converter
    <3> QED
      BY <2>2, <3>2, <3>3, <3>4, <3>5, Assemble
  <2>5. CASE /\ UNCHANGED <<clock, exe, mapLink, midEdit>>
             /\ stage = "msDone" => NothingToLink(b)
    <3>1. SelfInv(b)'
      <4>1. CASE stage = "msDone"
        <5>1. exe.rev = frame[b].comp
          BY <2>5, <4>1 DEF NothingToLink
        <5>2. exe.rev # srcRev => midEdit
          BY <1>3, <5>1 DEF Link, SeqInv, FreshInv
        <5> QED
          BY <2>2, <2>3, <2>5, <4>1, <5>2
             DEF SelfInv, WalkInv, FreshInv, PairInv, Converter
      <4>2. CASE stage = "msFail"
        BY <2>2, <4>2, NothingOwed
      <4> QED
        BY <4>1, <4>2
    <3>2. StaleExeIsOlder' /\ StampIsHonest' /\ MapInv'
      BY <2>2, <2>3, <2>5, DiskStill
    <3> QED
      BY <2>2, <3>1, <3>2, Assemble
  <2> QED
    BY <1>3, <2>1, <2>2, <2>4, <2>5 DEF Link, Goto
<1> QED
  BY <1>1, <1>2, <1>3

\* ConvRead keeps SeqInv.
LEMMA ConvReadSeq ==
    ASSUME TypeOK, SeqInv, SlotIsNotStale', NEW b \in Builds, ConvRead(b)
    PROVE  SeqInv'
PROOF
<1>0. PICK f : f = [frame[b] EXCEPT !.got = mapLink]
  OBVIOUS
<1>1. f.asked = frame[b].asked /\ f.got = mapLink /\ f.mode = frame[b].mode
  BY <1>0 DEF TypeOK, Frame
<1>2. PICK stage \in {"convPdb", "convOpen", "cvFail"} :
          /\ Goto(b, stage) /\ Keep(b, f)
          /\ stage # "cvFail" => mapLink # None
          /\ stage = "convOpen" => frame[b].mode # "pdb"
  BY <1>0 DEF ConvRead
<1>3. /\ OneAtATime' /\ ~Rewriting' /\ (\A c \in Builds : c # b => SelfInv(c)')
      /\ pc'[b] = stage /\ frame'[b] = f /\ CancelInv(b)'
  <2>1. pc[b] \in Live /\ stage \in Live \cup Exited /\ cancelled' = cancelled
    BY DEF ConvRead, Live, Converter, Exited, hostVars
  <2> QED
    BY <1>1, <1>2, <2>1, ChildStep
<1>4. UNCHANGED <<exe, mapLink, pdb, stamp, srcRev, srcMtime, midEdit>>
  BY DEF ConvRead, diskVars, envVars
<1>5. SelfInv(b)'
  <2>1. exe.rev # srcRev => midEdit
    BY DEF ConvRead, SeqInv, FreshInv, Converter
  <2>2. CASE stage = "cvFail"
    BY <1>3, <2>2, NothingOwed
  <2>3. CASE stage # "cvFail"
    BY <1>1, <1>2, <1>3, <1>4, <2>1, <2>3
       DEF SelfInv, WalkInv, FreshInv, PairInv, Converter
  <2> QED
    BY <2>2, <2>3
<1>6. StaleExeIsOlder' /\ StampIsHonest' /\ MapInv'
  BY <1>3, <1>4, DiskStill
<1> QED
  BY <1>3, <1>5, <1>6, Assemble

\* ConvPdb keeps SeqInv.
LEMMA ConvPdbSeq ==
    ASSUME TypeOK, SeqInv, SlotIsNotStale', NEW b \in Builds, ConvPdb(b)
    PROVE  SeqInv'
PROOF
<1>1. PICK stage \in {"convOpen", "cvFail"} :
          /\ Goto(b, stage)
          /\ stage = "convOpen" => pdb'.guid = b /\ pdb'.link = frame[b].got
  BY DEF ConvPdb
<1>2. /\ OneAtATime' /\ ~Rewriting' /\ (\A c \in Builds : c # b => SelfInv(c)')
      /\ pc'[b] = stage /\ frame'[b] = frame[b] /\ CancelInv(b)'
  BY <1>1, ChildStepStill DEF ConvPdb, Live, Converter, Exited, hostVars
<1>3. UNCHANGED <<exe, mapLink, stamp, srcRev, srcMtime, midEdit>>
  BY DEF ConvPdb, envVars
<1>4. SelfInv(b)'
  <2>1. /\ exe.rev # srcRev => midEdit
        /\ frame[b].got = mapLink /\ mapLink # None
    BY DEF ConvPdb, SeqInv, FreshInv, PairInv, Converter
  <2>2. CASE stage = "cvFail"
    BY <1>2, <2>2, NothingOwed
  <2>3. CASE stage = "convOpen"
    BY <1>1, <1>2, <1>3, <2>1, <2>3
       DEF SelfInv, WalkInv, FreshInv, PairInv, Converter
  <2> QED
    BY <2>2, <2>3
<1>5. StaleExeIsOlder' /\ StampIsHonest' /\ MapInv'
  BY <1>2, <1>3, DiskStill
<1> QED
  BY <1>2, <1>4, <1>5, Assemble

\* The image is torn but its revision and link are known, and buf holds it whole.
LEMMA ConvOpenSeq ==
    ASSUME TypeOK, SeqInv, SlotIsNotStale', NEW b \in Builds, ConvOpen(b)
    PROVE  SeqInv'
PROOF
<1>1. /\ exe.rev # srcRev => midEdit
      /\ frame[b].got = mapLink /\ mapLink # None
      /\ frame[b].mode = "pdb" => pdb.guid = b /\ pdb.link = frame[b].got
  BY DEF ConvOpen, SeqInv, FreshInv, PairInv, Converter
<1>2. /\ UNCHANGED <<mapLink, pdb, stamp, srcRev, srcMtime, midEdit, cancelled>>
      /\ pc[b] \in Live
  BY DEF ConvOpen, envVars, hostVars, Live, Converter
<1>3. CASE Goto(b, "cvFail") /\ UNCHANGED <<clock, exe, frame>>
  <2>1. /\ OneAtATime' /\ ~Rewriting' /\ (\A c \in Builds : c # b => SelfInv(c)')
        /\ pc'[b] = "cvFail" /\ CancelInv(b)'
    BY <1>2, <1>3, ChildStepStill DEF Exited
  <2>2. SelfInv(b)'
    BY <2>1, NothingOwed
  <2>3. StaleExeIsOlder' /\ StampIsHonest' /\ MapInv'
    BY <1>2, <1>3, <2>1, DiskStill
  <2> QED
    BY <2>1, <2>2, <2>3, Assemble
<1>4. CASE /\ exe.whole
           /\ clock' = clock + 1
           /\ exe' = [exe EXCEPT !.mtime = clock', !.whole = FALSE]
           /\ Keep(b, [frame[b] EXCEPT !.buf = exe])
           /\ Goto(b, "convWrite")
  <2>0. PICK f : f = [frame[b] EXCEPT !.buf = exe]
    OBVIOUS
  <2>1. /\ f.asked = frame[b].asked /\ f.got = frame[b].got
        /\ f.mode = frame[b].mode /\ f.buf = exe
    BY <2>0 DEF TypeOK, Frame
  <2>2. Keep(b, f) /\ "convWrite" \in Live \cup Exited
    BY <1>4, <2>0 DEF Live, Converter
  <2>3. /\ OneAtATime' /\ (\A c \in Builds : c # b => SelfInv(c)')
        /\ pc'[b] = "convWrite" /\ frame'[b] = f /\ CancelInv(b)'
    BY <1>2, <1>4, <2>1, <2>2, ChildStep
  <2>4. /\ exe'.mtime = clock + 1 /\ exe'.whole = FALSE
        /\ exe'.rev = exe.rev /\ exe'.link = exe.link
    BY <1>4 DEF TypeOK, Image
  <2>5. SelfInv(b)'
    BY <1>1, <1>2, <1>4, <2>1, <2>3, <2>4
       DEF SelfInv, WalkInv, FreshInv, PairInv, Converter
  <2>6. StaleExeIsOlder'
    BY <1>1, <1>2, <2>4 DEF StaleExeIsOlder
  <2>7. StampIsHonest'
    BY <1>2, <2>4 DEF StampIsHonest, TypeOK, Mtimes
  <2>8. MapInv'
    BY <1>2, <1>4, <2>4 DEF SeqInv, MapInv
  <2> QED
    BY <2>3, <2>5, <2>6, <2>7, <2>8, Assemble
<1> QED
  BY <1>3, <1>4 DEF ConvOpen

\* The image becomes whole again, now with its debug information.
LEMMA ConvWriteSeq ==
    ASSUME TypeOK, SeqInv, SlotIsNotStale', NEW b \in Builds, ConvWrite(b)
    PROVE  SeqInv'
PROOF
<1>1. /\ exe.rev # srcRev => midEdit
      /\ frame[b].buf.rev = exe.rev /\ frame[b].buf.link = exe.link
      /\ frame[b].buf.whole
      /\ frame[b].got = mapLink /\ mapLink # None /\ mapLink = exe.link
      /\ frame[b].mode = "pdb" => pdb.guid = b /\ pdb.link = frame[b].got
  BY DEF ConvWrite, SeqInv, FreshInv, PairInv, MapInv, Rewriting, Converter
<1>2. /\ UNCHANGED <<mapLink, pdb, stamp, srcRev, srcMtime, midEdit, cancelled>>
      /\ frame' = frame /\ pc[b] \in Live
  BY DEF ConvWrite, envVars, hostVars, Live, Converter
<1>3. PICK stage \in {"cvDone", "cvFail"} :
          /\ Goto(b, stage)
          /\ stage = "cvDone" => clock' = clock + 1 /\ exe' = Injected(b, clock')
          /\ stage = "cvFail" => exe' = exe
  BY DEF ConvWrite
<1>4. /\ OneAtATime' /\ ~Rewriting' /\ (\A c \in Builds : c # b => SelfInv(c)')
      /\ pc'[b] = stage /\ frame'[b] = frame[b] /\ CancelInv(b)'
  BY <1>2, <1>3, ChildStepStill DEF Exited
<1>5. CASE stage = "cvFail"
  <2>1. SelfInv(b)'
    BY <1>4, <1>5, NothingOwed
  <2>2. StaleExeIsOlder' /\ StampIsHonest' /\ MapInv'
    BY <1>2, <1>3, <1>4, <1>5, DiskStill
  <2> QED
    BY <1>4, <2>1, <2>2, Assemble
<1>6. CASE stage = "cvDone"
  <2>1. PICK image : image = frame[b].buf
    OBVIOUS
  <2>2. image \in Image /\ clock \in Nat
    BY <2>1 DEF TypeOK, Frame
  <2>3. /\ exe'.mtime = clock + 1 /\ exe'.whole = image.whole
        /\ exe'.rev = image.rev /\ exe'.link = image.link
        /\ IF frame[b].mode = "pdb" THEN exe'.guid = b
           ELSE exe'.dwarf = frame[b].got
    BY <1>3, <1>6, <2>1, <2>2 DEF Injected, Image
  <2>4. StaleExeIsOlder'
    BY <1>1, <1>2, <2>1, <2>3 DEF StaleExeIsOlder
  <2>5. StampIsHonest'
    BY <1>2, <2>3 DEF StampIsHonest, TypeOK, Mtimes
  <2>6. MapInv'
    BY <1>1, <1>2, <2>1, <2>3 DEF MapInv
  <2>7. Debuggable(frame[b].mode)'
    <3>1. exe'.whole /\ exe'.link = exe.link
      BY <1>1, <2>1, <2>3
    <3>2. b # None
      BY DEF Builds, None
    <3>3. CASE frame[b].mode = "pdb"
      BY <1>1, <1>2, <2>3, <3>1, <3>2, <3>3 DEF Debuggable
    <3>4. CASE frame[b].mode # "pdb"
      BY <1>1, <1>2, <2>3, <3>1, <3>4 DEF Debuggable
    <3> QED
      BY <3>3, <3>4
  <2>8. SelfInv(b)'
    BY <1>2, <1>4, <1>6, <2>2, <2>3, <2>7
       DEF SelfInv, WalkInv, FreshInv, PairInv, Converter
  <2> QED
    BY <1>4, <2>4, <2>5, <2>6, <2>8, Assemble
<1> QED
  BY <1>5, <1>6

\* User keeps SeqInv.
LEMMA UserSeq ==
    ASSUME TypeOK, SeqInv, SlotIsNotStale',
           Edit \/ RebuildTool \/ ChangeBackend \/ Debug \/ UNCHANGED vars
    PROVE  SeqInv'
PROOF
<1>1. UNCHANGED <<exe, mapLink, pdb, stamp, cancelled, currentChild, pc>>
  BY DEF Edit, RebuildTool, ChangeBackend, Debug, vars, diskVars, hostVars
<1>2. OneAtATime' /\ StampIsHonest'
  BY <1>1 DEF SeqInv, OneAtATime, StampIsHonest, Debuggable
<1>3. MapInv'
  BY <1>1 DEF SeqInv, MapInv, Rewriting
<1>4. CASE UNCHANGED <<srcRev, srcMtime, midEdit, frame>>
  <2>1. StaleExeIsOlder' /\ \A c \in Builds : FreshInv(c)'
    BY <1>1, <1>4 DEF SeqInv, StaleExeIsOlder, FreshInv
  <2>2. \A c \in Builds : WalkInv(c)' /\ PairInv(c)' /\ CancelInv(c)'
    BY <1>1, <1>4 DEF SeqInv, WalkInv, PairInv, CancelInv, Debuggable
  <2> QED
    BY <1>2, <1>3, <2>1, <2>2 DEF SeqInv
<1>5. CASE Edit
  <2>1. midEdit' = \E b \in Builds : pc[b] \in Unseen
    BY <1>5 DEF Edit
  <2>2. /\ srcMtime' = clock + 1 /\ clock \in Nat /\ exe.mtime \in 0..clock
        /\ srcRev' = srcRev + 1
    BY <1>5 DEF Edit, TypeOK, Image, Mtimes
  <2>3. StaleExeIsOlder'
    BY <1>1, <2>2 DEF StaleExeIsOlder
  <2>4. ASSUME NEW c \in Builds
        PROVE  WalkInv(c)' /\ FreshInv(c)' /\ PairInv(c)' /\ CancelInv(c)'
    <3>1. frame[c] \in Frame /\ WalkInv(c) /\ FreshInv(c) /\ PairInv(c) /\ CancelInv(c)
      BY DEF SeqInv, TypeOK
    <3>2. CASE frame'[c] = frame[c]
      BY <1>1, <2>1, <3>1, <3>2
         DEF WalkInv, FreshInv, PairInv, CancelInv, Debuggable, Unseen, Converter
    <3>3. CASE pc[c] \in Looking /\ frame'[c] = Noticed(c)
      <4>1. /\ frame'[c].srcSeen = srcMtime' /\ frame'[c].exeSeen = frame[c].exeSeen
            /\ frame'[c].asked = frame[c].asked
        BY <3>1, <3>3 DEF Noticed, Frame
      <4>2. WalkInv(c)'
        BY <1>1, <2>2, <3>1, <3>3, <4>1 DEF WalkInv
      <4>3. FreshInv(c)' /\ PairInv(c)'
        BY <1>1, <3>3 DEF FreshInv, PairInv, Converter
      <4>4. CancelInv(c)'
        BY <1>1, <3>1, <4>1 DEF CancelInv
      <4> QED
        BY <4>2, <4>3, <4>4
    <3> QED
      BY <1>5, <3>2, <3>3, EditFrame
  <2> QED
    BY <1>1, <1>2, <1>3, <2>3, <2>4 DEF SeqInv
<1> QED
  BY <1>4, <1>5 DEF RebuildTool, ChangeBackend, Debug, vars, envVars

\* Every action keeps SeqInv.
LEMMA SeqInductive == ~Overlap /\ TypeOK /\ SeqInv /\ [Next]_vars => SeqInv'
PROOF
<1> SUFFICES ASSUME ~Overlap, TypeOK, SeqInv, [Next]_vars PROVE SeqInv' OBVIOUS
<1>1. SlotIsNotStale'
  BY SlotInductive DEF SeqInv
<1>2. CASE \E b \in Builds, t \in Targets : StartBuild(b, t)
  BY <1>1, <1>2, StartBuildSeq
<1>3. CASE \E b \in Builds : Host(b)
  BY <1>1, <1>3, WalkSeq, MsbuildCloseSeq, ConvertCloseSeq DEF Host
<1>4. CASE \E b \in Builds : Child(b)
  BY <1>1, <1>4, MsbuildSeq, ConvReadSeq, ConvPdbSeq, ConvOpenSeq, ConvWriteSeq
     DEF Child
<1>5. CASE Cancel
  BY <1>1, <1>5, CancelSeq
<1>6. CASE Edit \/ RebuildTool \/ ChangeBackend \/ Debug \/ UNCHANGED vars
  BY <1>1, <1>6, UserSeq
<1> QED
  BY <1>2, <1>3, <1>4, <1>5, <1>6 DEF Next

\* SeqInv at the start.
LEMMA SeqInit == Init => SeqInv
PROOF
<1> SUFFICES ASSUME Init PROVE SeqInv OBVIOUS
<1>1. \A b \in Builds : pc[b] = "unborn" /\ frame[b] = NoFrame
  BY DEF Init
<1>2. OneAtATime /\ ~Rewriting
  BY <1>1 DEF OneAtATime, Rewriting, Active, Walking, Live, Msbuild, Converter, Exited
<1>3. SlotIsNotStale /\ MapInv /\ StaleExeIsOlder /\ StampIsHonest
  BY <1>2 DEF Init, NoExe, SlotIsNotStale, MapInv, StaleExeIsOlder, StampIsHonest
<1>4. NoFrame.asked # "hit"
  BY DEF NoFrame
<1>5. \A b \in Builds : WalkInv(b) /\ FreshInv(b) /\ PairInv(b) /\ CancelInv(b)
  BY <1>1, <1>4 DEF WalkInv, FreshInv, PairInv, CancelInv, Converter
<1> QED
  BY <1>2, <1>3, <1>5 DEF SeqInv

\* With one build at a time, SeqInv holds in every reachable state.
THEOREM SeqSafe ==
    ASSUME ~Overlap
    PROVE  Spec => []SeqInv
PROOF
<1>1. TypeOK /\ SeqInv /\ [Next]_vars => SeqInv'
  BY SeqInductive
<1> QED
  BY <1>1, SeqInit, TypeCorrect, PTL DEF Spec

\* With one build at a time, an .exe compiled from older sources never looks
\* newer than they are, whatever was cancelled or failed on the way: the mtime
\* walk of isProjectUpToDate is sound but for saves made during a build.
THEOREM StaleExeIsOlderSafe ==
    ASSUME ~Overlap
    PROVE  Spec => []StaleExeIsOlder
PROOF
<1>1. SeqInv => StaleExeIsOlder
  BY DEF SeqInv
<1> QED
  BY <1>1, SeqSafe, PTL

\* With one build at a time, a DWARF stamp as new as the image is no lie.
THEOREM StampIsHonestSafe ==
    ASSUME ~Overlap
    PROVE  Spec => []StampIsHonest
PROOF
<1>1. SeqInv => StampIsHonest
  BY DEF SeqInv
<1> QED
  BY <1>1, SeqSafe, PTL

\* Which step ends a build, and from where.
LEMMA EndingStep ==
    ASSUME TypeOK, SeqInv, [Next]_vars, NEW b \in Builds,
           pc'[b] \in Ok, pc'[b] # pc[b]
    PROVE  \/ pc'[b] = "okSkipped" /\ OnStatSrc(b) /\ ~SourceNewer(b)
           \/ pc'[b] = "okCached" /\ OnMsbuildClose(b) /\ ~cancelled
           \/ pc'[b] = "okBuilt" /\ pc[b] = "cvDone" /\ OnConvertClose(b) /\ ~cancelled
PROOF
<1> USE DEF Ok, Goto, Keep, End, Spawned, SpawnError
<1>0. pc \in [Builds -> Stages] /\ currentChild \in Serials
  BY DEF TypeOK
<1>1. pc' # pc
  BY <1>0
<1>2. CASE \E c \in Builds, t \in Targets : StartBuild(c, t)
  BY <1>0, <1>2 DEF StartBuild
<1>3. ASSUME NEW c \in Builds, Host(c)
      PROVE  c = b /\ Host(b)
  BY <1>0, <1>3 DEF Host, OnStatExe, OnStatTool, OnStatSrc, OnMsbuildClose, OnConvertClose
<1>4. CASE Host(b)
  <2>1. CASE OnStatExe(b) \/ OnStatTool(b)
    BY <1>0, <2>1 DEF OnStatExe, OnStatTool
  <2>2. CASE OnStatSrc(b)
    BY <1>0, <2>2 DEF OnStatSrc
  <2>3. CASE OnMsbuildClose(b)
    BY <1>0, <2>3 DEF OnMsbuildClose
  <2>4. CASE OnConvertClose(b)
    BY <1>0, <2>4 DEF OnConvertClose
  <2> QED
    BY <1>4, <2>1, <2>2, <2>3, <2>4 DEF Host
<1>5. CASE \E c \in Builds : Child(c)
  BY <1>0, <1>5 DEF Child, Clean, Compile, Link, ConvRead, ConvPdb, ConvOpen, ConvWrite
<1>6. CASE Cancel
  <2>1. currentChild \in Builds /\ Kill(currentChild)
    BY <1>0, <1>1, <1>6 DEF Cancel, Serials
  <2> QED
    BY <1>0, <1>1, <2>1 DEF Kill
<1>7. CASE Edit \/ RebuildTool \/ ChangeBackend \/ Debug \/ UNCHANGED vars
  BY <1>1, <1>7 DEF Edit, RebuildTool, ChangeBackend, Debug, vars
<1> QED
  BY <1>2, <1>3, <1>4, <1>5, <1>6, <1>7 DEF Next

\* With one build at a time, a skipped Make leaves an .exe with every save made
\* before the walk looked at its file, but for one during the build before.
THEOREM SkipIsSoundSafe ==
    ASSUME ~Overlap
    PROVE  Spec => SkipIsSound
PROOF
<1>1. TypeOK /\ SeqInv /\ [Next]_vars =>
        [\A b \in Builds : Ends(b, {"okSkipped"}) => exe.rev >= frame[b].owes]_vars
  <2> SUFFICES ASSUME TypeOK, SeqInv, [Next]_vars,
                      NEW b \in Builds, Ends(b, {"okSkipped"})
               PROVE  exe.rev >= frame[b].owes
    OBVIOUS
  <2>1. OnStatSrc(b) /\ ~SourceNewer(b)
    BY EndingStep DEF Ends, Ok
  <2>2. frame[b].srcSeen \in Nat /\ frame[b].exeSeen \in Nat
    BY DEF TypeOK, Frame, Mtimes
  <2> QED
    BY <2>1, <2>2 DEF OnStatSrc, SeqInv, WalkInv
<1> QED
  BY <1>1, SeqSafe, TypeCorrect, PTL DEF Spec, SkipIsSound

\* With one build at a time, "Build succeeded" after a converter run means that
\* the image and its debug information belong together.
THEOREM OkBuiltIsDebuggableSafe ==
    ASSUME ~Overlap
    PROVE  Spec => OkBuiltIsDebuggable
PROOF
<1>1. TypeOK /\ SeqInv /\ [Next]_vars =>
        [\A b \in Builds : Ends(b, {"okBuilt"}) => Debuggable(frame[b].mode)]_vars
  <2> SUFFICES ASSUME TypeOK, SeqInv, [Next]_vars,
                      NEW b \in Builds, Ends(b, {"okBuilt"})
               PROVE  Debuggable(frame[b].mode)
    OBVIOUS
  <2>1. pc[b] = "cvDone"
    BY EndingStep DEF Ends, Ok
  <2> QED
    BY <2>1 DEF SeqInv, PairInv
<1> QED
  BY <1>1, SeqSafe, TypeCorrect, PTL DEF Spec, OkBuiltIsDebuggable

\* With one build at a time, a Cancel press that reached a child is never
\* followed by that build's success.
THEOREM CancelledBuildNeverOkSafe ==
    ASSUME ~Overlap
    PROVE  Spec => CancelledBuildNeverOk
PROOF
<1>1. TypeOK /\ SeqInv /\ [Next]_vars =>
        [\A b \in Builds : Ends(b, Ok) => frame[b].asked # "hit"]_vars
  <2> SUFFICES ASSUME TypeOK, SeqInv, [Next]_vars,
                      NEW b \in Builds, Ends(b, Ok), frame[b].asked = "hit"
               PROVE  FALSE
    OBVIOUS
  <2>1. cancelled /\ pc[b] \in Live \cup Exited
    BY DEF SeqInv, CancelInv
  <2>2. OnStatSrc(b)
    BY <2>1, EndingStep DEF Ends
  <2> QED
    BY <2>1, <2>2 DEF OnStatSrc, Live, Msbuild, Converter, Exited
<1> QED
  BY <1>1, SeqSafe, TypeCorrect, PTL DEF Spec, CancelledBuildNeverOk
-----------------------------------------------------------------------------
(* What one build leaves to the next: TurnInv is inductive beside SeqInv.   *)

\* A step starts one build, takes one build in progress further, or moves none.
LEMMA StageStep ==
    ASSUME TypeOK, [Next]_vars
    PROVE  \/ \E b \in Builds, t \in Targets : StartBuild(b, t)
           \/ \E b \in Builds : \E stage \in Active \cup Ended :
                  pc[b] \in Active /\ Goto(b, stage)
           \/ pc' = pc
PROOF
<1> USE DEF Active, Walking, Live, Msbuild, Converter, Exited, Ended, Ok
<1>1. CASE \E b \in Builds : Host(b)
  <2> PICK b \in Builds : Host(b)
    BY <1>1
  <2> DEFINE Moves == \E stage \in Active \cup Ended : pc[b] \in Active /\ Goto(b, stage)
  <2>1. CASE OnStatExe(b)
    <3>1. Moves
      BY <2>1 DEF OnStatExe, Spawned, SpawnError, End
    <3> QED BY <3>1
  <2>2. CASE OnStatTool(b) \/ OnStatSrc(b)
    <3>1. Moves
      BY <2>2 DEF OnStatTool, OnStatSrc, Spawned, SpawnError, End
    <3> QED BY <3>1
  <2>3. CASE OnMsbuildClose(b)
    <3>1. Moves
      BY <2>3 DEF OnMsbuildClose, Spawned, SpawnError, End, Outcome
    <3> QED BY <3>1
  <2>4. CASE OnConvertClose(b)
    <3>1. Moves
      BY <2>4 DEF OnConvertClose, End, Outcome
    <3> QED BY <3>1
  <2> QED
    BY <2>1, <2>2, <2>3, <2>4 DEF Host
<1>2. CASE \E b \in Builds : Child(b)
  <2> PICK b \in Builds : Child(b)
    BY <1>2
  <2>1. \E stage \in Active \cup Ended : pc[b] \in Active /\ Goto(b, stage)
    BY DEF Child, Clean, Compile, Link, ConvRead, ConvPdb, ConvOpen, ConvWrite
  <2> QED BY <2>1
<1>3. CASE Cancel
  <2>1. CASE currentChild = None
    BY <1>3, <2>1 DEF Cancel
  <2>2. CASE currentChild # None
    <3>1. currentChild \in Builds /\ Kill(currentChild)
      BY <1>3, <2>2 DEF Cancel, TypeOK, Serials
    <3> QED
      BY <3>1 DEF Kill
  <2> QED BY <2>1, <2>2
<1>4. CASE Edit \/ RebuildTool \/ ChangeBackend \/ Debug \/ UNCHANGED vars
  BY <1>4 DEF Edit, RebuildTool, ChangeBackend, Debug, vars
<1> QED
  BY <1>1, <1>2, <1>3, <1>4 DEF Next

\* Every action keeps the builds in the order of their serials.
LEMMA InTurnInductive ==
    ASSUME ~Overlap, TypeOK, InTurn, [Next]_vars
    PROVE  InTurn'
PROOF
<1> SUFFICES ASSUME NEW b \in Builds, NEW c \in Builds, b < c, pc'[c] # "unborn"
             PROVE  pc'[b] \in Ended
  BY DEF InTurn
<1>1. pc \in [Builds -> Stages] /\ (pc[c] # "unborn" => pc[b] \in Ended)
  BY DEF TypeOK, InTurn
<1>2. b # c
  BY DEF Builds
<1>3. ASSUME NEW d \in Builds, NEW t \in Targets, StartBuild(d, t)
      PROVE  pc'[b] \in Ended
  <2>1. /\ pc[d] = "unborn"
        /\ \A e \in Builds : e < d => pc[e] # "unborn"
        /\ \A e \in Builds : pc[e] \notin Active
    BY <1>3, Zenon DEF StartBuild
  <2>0. \A e \in Builds : e # d => pc'[e] = pc[e]
    <3>1. PICK stage \in {"failed", "statExe", "clean"} : Goto(d, stage)
      BY <1>3, Zenon DEF StartBuild, End, Spawned, SpawnError
    <3> QED
      BY <1>1, <3>1 DEF Goto
  <2>2. CASE c = d
    <3>1. pc[b] # "unborn" /\ pc[b] \notin Active
      BY <2>1, <2>2
    <3>2. pc[b] \in Ended
      BY <1>1, <3>1 DEF Stages
    <3> QED BY <1>2, <2>0, <2>2, <3>2
  <2>3. CASE c # d
    <3>1. pc[b] \in Ended
      BY <1>1, <2>0, <2>3
    <3>2. b # d
      BY <2>1, <3>1 DEF Ended, Ok
    <3> QED
      BY <2>0, <3>1, <3>2
  <2> QED BY <2>2, <2>3
<1>4. ASSUME NEW d \in Builds, NEW stage \in Active \cup Ended,
             pc[d] \in Active, Goto(d, stage)
      PROVE  pc'[b] \in Ended
  <2>1. "unborn" \notin Active /\ \A s \in Ended : s \notin Active
    BY DEF Active, Walking, Live, Msbuild, Converter, Exited, Ended, Ok
  <2>2. \A e \in Builds : e # d => pc'[e] = pc[e]
    BY <1>1, <1>4 DEF Goto
  <2>3. pc[c] # "unborn"
    <3>1. CASE c = d
      BY <1>4, <2>1, <3>1
    <3>2. CASE c # d
      BY <2>2, <3>2
    <3> QED BY <3>1, <3>2
  <2>4. pc[b] \in Ended /\ b # d
    BY <1>1, <1>4, <2>1, <2>3
  <2> QED
    BY <2>2, <2>4
<1>5. CASE pc' = pc
  BY <1>1, <1>5
<1> QED
  BY <1>3, <1>4, <1>5, StageStep

\* Diagnostics are published by a build in progress, and cleared by the next.
LEMMA ProblemsInductive ==
    ASSUME ~Overlap, TypeOK, InTurn, ProblemsAreLatest, [Next]_vars
    PROVE  ProblemsAreLatest'
PROOF
<1> SUFFICES ASSUME problems' # None, NEW c \in Builds, c > problems'
             PROVE  pc'[c] = "unborn"
  BY DEF ProblemsAreLatest
<1>1. pc \in [Builds -> Stages]
  BY DEF TypeOK
<1>2. ASSUME NEW b \in Builds, NEW t \in Targets, StartBuild(b, t)
      PROVE  FALSE
  BY <1>2 DEF StartBuild, ClearProblems
<1>3. CASE problems' = problems
  <2>1. pc[c] = "unborn"
    BY <1>3 DEF ProblemsAreLatest
  <2>2. ASSUME NEW b \in Builds, NEW stage \in Active \cup Ended,
               pc[b] \in Active, Goto(b, stage)
        PROVE  pc'[c] = pc[c]
    <3>1. b # c
      BY <2>1, <2>2 DEF Active, Walking, Live, Msbuild, Converter, Exited
    <3> QED
      BY <1>1, <2>2, <3>1 DEF Goto
  <2> QED
    BY <1>2, <2>1, <2>2, StageStep
<1>4. ASSUME NEW b \in Builds, OnMsbuildClose(b)
      PROVE  pc'[c] = "unborn"
  <2>1. problems' = b /\ pc[b] \in {"msDone", "msFail"}
    BY <1>4 DEF OnMsbuildClose
  <2>2. b < c /\ c # b
    BY <2>1 DEF Builds
  <2>3. pc[c] = "unborn"
    BY <2>1, <2>2 DEF InTurn, Ended, Ok
  <2>4. pc'[c] = pc[c]
    BY <1>1, <1>4, <2>2 DEF OnMsbuildClose, Spawned, SpawnError, End, Goto
  <2> QED BY <2>3, <2>4
<1>5. \/ \E b \in Builds, t \in Targets : StartBuild(b, t)
      \/ \E b \in Builds : OnMsbuildClose(b)
      \/ problems' = problems
  BY Zenon DEF Next, vars, hostVars, Host, Child, OnStatExe, OnStatTool, OnStatSrc, OnConvertClose,
         Clean, Compile, Link, ConvRead, ConvPdb, ConvOpen, ConvWrite,
         Cancel, Edit, RebuildTool, ChangeBackend, Debug
<1> QED
  BY <1>2, <1>3, <1>4, <1>5

\* A step of build b that leaves rsm2pdb.exe alone has to answer for b, and for
\* what it makes of the image, only.
LEMMA ToolStep ==
    ASSUME TypeOK, TypeOK', ToolDated, \A c \in Builds : ToolInv(c),
           toolRev' = toolRev, toolMtime' = toolMtime,
           NEW b \in Builds,
           \A c \in Builds : c # b => /\ pc[c] \notin Active
                                      /\ pc'[c] = pc[c]
                                      /\ frame'[c] = frame[c],
           exe' = exe \/ ~Injectee' \/ exe'.tool = toolRev,
           frame'[b].toolAt <= toolRev,
           pc'[b] = "statSrc" /\ Injectee' => exe'.tool >= frame'[b].toolAt,
           pc'[b] = "cvDone" => exe'.tool >= frame'[b].toolAt
    PROVE  ToolDated' /\ \A c \in Builds : ToolInv(c)'
PROOF
<1>1. ToolDated'
  <2>1. CASE exe' = exe
    BY <2>1 DEF ToolDated, Injectee
  <2>2. CASE ~Injectee'
    BY <2>2 DEF ToolDated
  <2>3. CASE exe'.tool = toolRev
    BY <2>3 DEF ToolDated, TypeOK
  <2> QED BY <2>1, <2>2, <2>3
<1>2. ASSUME NEW c \in Builds, c # b
      PROVE  ToolInv(c)'
  <2>1. pc'[c] \notin {"statSrc", "cvDone"}
    BY <1>2 DEF Active, Walking, Exited
  <2>2. frame'[c].toolAt <= toolRev'
    BY <1>2 DEF ToolInv
  <2> QED BY <2>1, <2>2 DEF ToolInv
<1>3. ToolInv(b)'
  BY DEF ToolInv
<1> QED BY <1>2, <1>3, <1>1

\* The same for a build in progress that moves to `stage' and remembers f.
LEMMA ActiveToolStep ==
    ASSUME TypeOK, TypeOK', SeqInv, ToolDated, \A c \in Builds : ToolInv(c),
           toolRev' = toolRev, toolMtime' = toolMtime,
           NEW b \in Builds, pc[b] \in Active,
           NEW stage, Goto(b, stage), NEW f, Keep(b, f),
           f.toolAt \in {0, frame[b].toolAt},
           exe' = exe \/ ~Injectee' \/ exe'.tool = toolRev,
           stage = "statSrc" /\ Injectee' => exe'.tool >= f.toolAt,
           stage = "cvDone" => exe'.tool >= f.toolAt
    PROVE  ToolDated' /\ \A c \in Builds : ToolInv(c)'
PROOF
<1>1. /\ pc'[b] = stage /\ frame'[b] = f
      /\ \A c \in Builds : c # b => /\ pc[c] \notin Active
                                    /\ pc'[c] = pc[c]
                                    /\ frame'[c] = frame[c]
  BY DEF TypeOK, SeqInv, OneAtATime, Goto, Keep
<1>2. frame'[b].toolAt <= toolRev
  <2>1. frame[b].toolAt <= toolRev /\ 0 <= toolRev
    BY DEF ToolInv, TypeOK
  <2> QED BY <1>1, <2>1
<1>3. /\ pc'[b] = "statSrc" /\ Injectee' => exe'.tool >= frame'[b].toolAt
      /\ pc'[b] = "cvDone" => exe'.tool >= frame'[b].toolAt
  BY <1>1
<1> QED BY <1>1, <1>2, <1>3, ToolStep

\* What the lemmas on tools assume of a step.
ToolsHold == TypeOK /\ TypeOK' /\ SeqInv /\ ToolDated /\ \A c \in Builds : ToolInv(c)

\* Every handler keeps the dates of converters.
LEMMA HostTool ==
    ASSUME ToolsHold, NEW b \in Builds, Host(b)
    PROVE  ToolDated' /\ \A c \in Builds : ToolInv(c)'
PROOF
<1> USE DEF ToolsHold
<1>0. /\ frame[b] \in Frame /\ NoFrame.toolAt = 0
      /\ frame[b].toolAt \in Nat /\ toolRev \in Nat /\ exe \in Image
  BY DEF TypeOK, Frame, NoFrame
<1>1. CASE OnStatTool(b)
  <2>1. PICK stage \in {"compile", "statSrc", "failed"}, g \in {frame[b], NoFrame} :
            /\ Goto(b, stage) /\ Keep(b, g)
            /\ stage = "statSrc" => ~ToolNewer(b) /\ g = frame[b]
    <3>1. frame' = frame => Keep(b, frame[b])
      BY DEF Keep, TypeOK
    <3> QED
      BY <1>1, <3>1, Zenon DEF OnStatTool, Spawned, SpawnError, End
  <2>2. stage = "statSrc" /\ Injectee => exe.tool >= frame[b].toolAt
    <3> SUFFICES ASSUME stage = "statSrc", Injectee PROVE exe.tool >= frame[b].toolAt
      OBVIOUS
    <3>1. frame[b].exeSeen = exe.mtime
      BY <1>1 DEF OnStatTool, SeqInv, WalkInv
    <3>2. ~(exe.tool < toolRev)
      BY <2>1, <3>1 DEF ToolDated
    <3>3. frame[b].toolAt <= toolRev /\ exe.tool \in Nat
      BY <1>0 DEF ToolInv, Image
    <3> QED BY <1>0, <3>2, <3>3
  <2>3. UNCHANGED <<exe, toolRev, toolMtime>> /\ pc[b] \in Active
    BY <1>1 DEF OnStatTool, envVars, diskVars, Active, Walking
  <2>4. /\ g.toolAt \in {0, frame[b].toolAt}
        /\ stage = "statSrc" /\ Injectee' => exe'.tool >= g.toolAt
        /\ stage # "cvDone"
    BY <1>0, <2>1, <2>2, <2>3 DEF Injectee
  <2> QED BY <2>1, <2>3, <2>4, ActiveToolStep
<1>2. ASSUME OnStatExe(b) \/ OnStatSrc(b) \/ OnMsbuildClose(b) \/ OnConvertClose(b)
      PROVE  ToolDated' /\ \A c \in Builds : ToolInv(c)'
  <2>1. PICK f : f = [frame[b] EXCEPT !.mode = backend]
    OBVIOUS
  <2>2. f.toolAt = frame[b].toolAt
    BY <1>0, <2>1 DEF Frame
  <2>7. Looked(b).toolAt = frame[b].toolAt
    BY <1>0 DEF Looked, Frame
  <2>3. PICK stage \in {"statTool", "compile", "convRead"} \cup Ended,
             g \in {f, Looked(b), frame[b], NoFrame} :
            Goto(b, stage) /\ Keep(b, g)
    <3>4. CASE OnStatExe(b)
      BY <3>4 DEF OnStatExe, Looked, Spawned, SpawnError, End, Ended
    <3>1. CASE OnStatSrc(b)
      BY <3>1 DEF OnStatSrc, Spawned, SpawnError, End, Ended, Ok
    <3>2. CASE OnMsbuildClose(b)
      BY <2>1, <3>2 DEF OnMsbuildClose, Spawned, SpawnError, End, Outcome, Ended, Ok
    <3>3. CASE OnConvertClose(b)
      BY <3>3 DEF OnConvertClose, End, Outcome, Ended, Ok
    <3> QED BY <1>2, <3>1, <3>2, <3>3, <3>4
  <2>4. stage \notin {"statSrc", "cvDone"}
    BY DEF Ended, Ok
  <2>5. g.toolAt \in {0, frame[b].toolAt}
    BY <1>0, <2>2, <2>7
  <2>6. UNCHANGED <<exe, toolRev, toolMtime>> /\ pc[b] \in Active
    BY <1>2 DEF OnStatExe, OnStatSrc, OnMsbuildClose, OnConvertClose, envVars, diskVars,
                Active, Walking, Exited
  <2> QED BY <2>3, <2>4, <2>5, <2>6, ActiveToolStep
<1> QED BY <1>1, <1>2 DEF Host

\* Every step of a child does: what it writes is newer than its converter.
LEMMA ChildTool ==
    ASSUME ToolsHold, NEW b \in Builds, Child(b)
    PROVE  ToolDated' /\ \A c \in Builds : ToolInv(c)'
PROOF
<1> USE DEF ToolsHold
<1>0. /\ frame[b] \in Frame /\ frame = [frame EXCEPT ![b] = frame[b]]
      /\ frame[b].toolAt \in Nat /\ toolRev \in Nat /\ frame[b].toolAt <= toolRev
  BY DEF TypeOK, Frame, ToolInv
<1>1. UNCHANGED <<toolRev, toolMtime>> /\ pc[b] \in Active
  BY DEF Child, Clean, Compile, Link, ConvRead, ConvPdb, ConvOpen, ConvWrite, envVars,
         Active, Live, Msbuild, Converter
<1>2. PICK f : Keep(b, f) /\ f.toolAt = frame[b].toolAt
  <2>1. CASE frame' = frame
    BY <1>0, <2>1 DEF Keep
  <2>2. CASE Compile(b)
    BY <1>0, <2>2 DEF Compile, Frame
  <2>3. CASE ConvRead(b)
    BY <1>0, <2>3 DEF ConvRead, Frame
  <2>4. CASE ConvOpen(b)
    BY <1>0, <2>1, <2>4 DEF ConvOpen, Frame
  <2> QED
    BY <2>1, <2>2, <2>3, <2>4 DEF Child, Clean, Link, ConvPdb, ConvWrite
<1>3. PICK stage \in Live \cup Exited :
          Goto(b, stage) /\ (stage = "cvDone" => ConvWrite(b))
  BY DEF Child, Clean, Compile, Link, ConvRead, ConvPdb, ConvOpen, ConvWrite,
         Live, Msbuild, Converter, Exited
<1>4. exe' = exe \/ ~Injectee' \/ exe'.tool = toolRev
  <2>1. CASE Clean(b)
    BY <2>1 DEF Clean, NoExe, Injectee
  <2>2. CASE Link(b)
    BY <2>2 DEF Link, NoExe, Injectee
  <2>3. CASE ConvOpen(b)
    <3>1. exe \in Image
      BY DEF TypeOK
    <3> QED BY <2>3, <3>1 DEF ConvOpen, Injectee, Image
  <2>4. CASE ConvWrite(b)
    <3>1. frame[b].buf \in Image
      BY <1>0 DEF Frame
    <3> QED BY <2>4, <3>1 DEF ConvWrite, Injected, Image
  <2> QED
    BY <2>1, <2>2, <2>3, <2>4 DEF Child, Compile, ConvRead, ConvPdb, diskVars
<1>5. stage = "cvDone" => exe'.tool >= f.toolAt
  <2> SUFFICES ASSUME stage = "cvDone" PROVE exe'.tool >= f.toolAt
    OBVIOUS
  <2>1. exe' = Injected(b, clock')
    BY <1>3 DEF ConvWrite, Goto, TypeOK
  <2>2. frame[b].buf \in Image
    BY <1>0 DEF Frame
  <2>3. exe'.tool = toolRev
    BY <2>1, <2>2 DEF Injected, Image
  <2> QED BY <1>0, <1>2, <2>3
<1>6. stage # "statSrc"
  BY DEF Live, Msbuild, Converter, Exited
<1>7. f.toolAt \in {0, frame[b].toolAt}
  BY <1>2
<1> QED
  BY <1>1, <1>2, <1>3, <1>4, <1>5, <1>6, <1>7, ActiveToolStep

\* A build that starts knows the date of its converter.
LEMMA StartBuildTool ==
    ASSUME ~Overlap, ToolsHold, NEW b \in Builds, NEW t \in Targets, StartBuild(b, t)
    PROVE  ToolDated' /\ \A c \in Builds : ToolInv(c)'
PROOF
<1> USE DEF ToolsHold
<1>1. PICK f : f = [NoFrame EXCEPT !.target = t, !.toolAt = toolRev]
  OBVIOUS
<1>2. PICK stage \in {"failed", "statExe", "clean"}, g \in {NoFrame, f} :
          Goto(b, stage) /\ Keep(b, g)
  BY <1>1, Zenon DEF StartBuild, End, Spawned, SpawnError
<1>3. g.toolAt \in {0, toolRev} /\ toolRev \in Nat
  <2>1. NoFrame \in Frame /\ NoFrame.toolAt = 0 /\ toolRev \in Nat
    BY NoFrameType DEF NoFrame, TypeOK
  <2>2. f.toolAt = toolRev
    BY <1>1, <2>1 DEF Frame
  <2> QED BY <1>2, <2>1, <2>2
<1>4. /\ pc'[b] = stage /\ frame'[b] = g
      /\ \A c \in Builds : c # b => pc'[c] = pc[c] /\ frame'[c] = frame[c]
  BY <1>2 DEF Goto, Keep, TypeOK
<1>5. \A c \in Builds : pc[c] \notin Active
  BY Zenon DEF StartBuild
<1>6. UNCHANGED <<exe, toolRev, toolMtime>>
  BY DEF StartBuild, envVars, diskVars
<1>7. frame'[b].toolAt <= toolRev
  BY <1>3, <1>4
<1>8. pc'[b] \notin {"statSrc", "cvDone"}
  BY <1>4
<1> QED BY <1>4, <1>5, <1>6, <1>7, <1>8, ToolStep

\* A press moves at most its child's build, to an exit that is no success.
LEMMA CancelTool ==
    ASSUME ToolsHold, Cancel
    PROVE  ToolDated' /\ \A c \in Builds : ToolInv(c)'
PROOF
<1> USE DEF ToolsHold
<1>1. UNCHANGED <<toolRev, toolMtime>>
  BY DEF Cancel, envVars
<1>2. exe' = exe \/ ~Injectee'
  BY DEF Cancel, Kill, NoExe, Injectee
<1>3. ToolDated'
  BY <1>1, <1>2 DEF ToolDated, Injectee
<1>4. \A c \in Builds : frame'[c].toolAt = frame[c].toolAt
  BY DEF Cancel, TypeOK, Frame
<1>5. ASSUME NEW c \in Builds, pc'[c] \in {"statSrc", "cvDone"}
      PROVE  pc[c] = pc'[c] /\ exe' = exe
  <2>1. currentChild # None => currentChild \in Builds
    BY DEF TypeOK, Serials
  <2>2. CASE pc' = pc /\ exe' = exe
    BY <2>2
  <2>3. CASE currentChild # None /\ Kill(currentChild) /\ ~(pc' = pc /\ exe' = exe)
    <3>1. PICK d \in Builds : d = currentChild
      BY <2>1, <2>3
    <3>2. /\ pc[d] \in Msbuild \cup Converter
          /\ Goto(d, "msFail") \/ Goto(d, "cvFail")
      BY <2>3, <3>1 DEF Kill, Msbuild
    <3>3. c # d /\ pc[c] = pc'[c]
      BY <1>5, <3>2 DEF Goto, TypeOK
    <3>4. pc[c] \in Active /\ pc[d] \in Active
      BY <1>5, <3>2, <3>3 DEF Active, Live, Walking, Exited
    <3> QED BY <3>3, <3>4 DEF SeqInv, OneAtATime
  <2> QED BY <2>2, <2>3 DEF Cancel
<1>6. \A c \in Builds : ToolInv(c)'
  BY <1>1, <1>4, <1>5 DEF ToolInv, Injectee
<1> QED BY <1>3, <1>6

\* A new converter is newer than any image.
LEMMA UserTool ==
    ASSUME ToolsHold, Edit \/ RebuildTool \/ ChangeBackend \/ Debug \/ UNCHANGED vars
    PROVE  ToolDated' /\ \A c \in Builds : ToolInv(c)'
PROOF
<1> USE DEF ToolsHold
<1>1. UNCHANGED <<exe, pc>> /\ \A c \in Builds : frame'[c].toolAt = frame[c].toolAt
  <2>1. UNCHANGED <<exe, pc>> /\ (Edit \/ frame' = frame)
    BY DEF Edit, RebuildTool, ChangeBackend, Debug, vars, diskVars
  <2>2. \A c \in Builds : Noticed(c).toolAt = frame[c].toolAt
    BY DEF Noticed, TypeOK, Frame
  <2> QED BY <2>1, <2>2, EditFrame
<1>2. toolRev' >= toolRev
  <2>1. toolRev' = toolRev \/ toolRev' = toolRev + 1
    BY Zenon DEF Edit, RebuildTool, ChangeBackend, Debug, vars, envVars
  <2>2. toolRev \in Nat
    BY DEF TypeOK
  <2> QED BY <2>1, <2>2
<1>3. ToolDated'
  <2>1. CASE UNCHANGED <<toolRev, toolMtime>>
    BY <1>1, <2>1 DEF ToolDated, Injectee
  <2>2. CASE RebuildTool
    <3>1. toolMtime' = clock + 1 /\ exe.mtime \in 0..clock /\ clock \in Nat
      BY <2>2 DEF RebuildTool, TypeOK, Image, Mtimes
    <3> QED BY <1>1, <3>1 DEF ToolDated
  <2> QED BY <2>1, <2>2 DEF Edit, ChangeBackend, Debug, vars, envVars
<1>4. ASSUME NEW c \in Builds
      PROVE  ToolInv(c)'
  <2>1. ToolInv(c) /\ frame[c].toolAt \in Nat /\ toolRev \in Nat /\ toolRev' \in Nat
    BY DEF TypeOK, Frame
  <2>2. frame'[c].toolAt <= toolRev'
    BY <1>1, <1>2, <2>1 DEF ToolInv
  <2> QED BY <1>1, <2>1, <2>2 DEF ToolInv, Injectee
<1> QED BY <1>3, <1>4

\* Every action keeps TurnInv.
LEMMA TurnInductive ==
    ~Overlap /\ TypeOK /\ SeqInv /\ TurnInv /\ [Next]_vars => TurnInv'
PROOF
<1> SUFFICES ASSUME ~Overlap, TypeOK, SeqInv, TurnInv, [Next]_vars PROVE TurnInv'
  OBVIOUS
<1>1. InTurn' /\ ProblemsAreLatest'
  BY InTurnInductive, ProblemsInductive DEF TurnInv
<1>2. ToolsHold
  BY NextType DEF ToolsHold, TurnInv
<1>3. ToolDated' /\ \A c \in Builds : ToolInv(c)'
  BY <1>2, StartBuildTool, HostTool, ChildTool, CancelTool, UserTool DEF Next
<1> QED BY <1>1, <1>3 DEF TurnInv

\* TurnInv at the start.
LEMMA TurnInit == Init => TurnInv
PROOF
<1> SUFFICES ASSUME Init PROVE TurnInv OBVIOUS
<1>1. \A b \in Builds : pc[b] = "unborn" /\ frame[b].toolAt = 0
  BY DEF Init, NoFrame
<1>2. problems = None /\ ~Injectee /\ toolRev = 0
  BY DEF Init, NoExe, Injectee
<1> QED BY <1>1, <1>2 DEF TurnInv, InTurn, ProblemsAreLatest, ToolDated, ToolInv

\* One build at a time: what a build leaves to those after it, for any number of
\* builds, saves and converters.
THEOREM TurnSafe ==
    ASSUME ~Overlap
    PROVE  Spec => []TurnInv
PROOF
<1>1. TypeOK /\ SeqInv /\ TurnInv /\ [Next]_vars => TurnInv'
  BY TurnInductive
<1> QED
  BY <1>1, TurnInit, SeqSafe, TypeCorrect, PTL DEF Spec

\* With one build at a time, the Problems panel never shows diagnostics of a
\* build before the newest.
THEOREM ProblemsAreLatestSafe ==
    ASSUME ~Overlap
    PROVE  Spec => []ProblemsAreLatest
PROOF
<1>1. TurnInv => ProblemsAreLatest
  BY DEF TurnInv
<1> QED BY <1>1, TurnSafe, PTL

\* With one build at a time, no build that converts or skips leaves an image
\* whose debug information was injected by a converter since replaced.
THEOREM ConverterRebuildIsSeenSafe ==
    ASSUME ~Overlap
    PROVE  Spec => ConverterRebuildIsSeen
PROOF
<1>1. TypeOK /\ SeqInv /\ TurnInv /\ [Next]_vars =>
        [\A b \in Builds :
           Ends(b, {"okBuilt", "okSkipped"}) /\ Injectee
               => exe.tool >= frame[b].toolAt]_vars
  <2> SUFFICES ASSUME TypeOK, SeqInv, TurnInv, [Next]_vars,
                      NEW b \in Builds, Ends(b, {"okBuilt", "okSkipped"}), Injectee
               PROVE  exe.tool >= frame[b].toolAt
    OBVIOUS
  <2>1. pc[b] \in {"statSrc", "cvDone"}
    BY EndingStep DEF Ends, Ok, OnStatSrc
  <2> QED BY <2>1 DEF TurnInv, ToolInv
<1> QED
  BY <1>1, TurnSafe, SeqSafe, TypeCorrect, PTL DEF Spec, ConverterRebuildIsSeen

=============================================================================
