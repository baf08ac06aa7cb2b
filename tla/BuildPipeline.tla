---------------------------- MODULE BuildPipeline ----------------------------
(***************************************************************************)
(* The build driver of the VS Code extension: runBuild() and cancelBuild() *)
(* of vscode-ext/src/buildRunner.ts, the "is this Make a no-op?" walk of    *)
(* vscode-ext/src/upToDateCheck.ts, and, for every child process they       *)
(* start, the order in which it writes the files the driver later looks     *)
(* at: msbuild (external) and `rsm2pdb pdb' / `rsm2pdb dwarf'.              *)
(*                                                                         *)
(* A build is a serial number.  The number also names what the build makes: *)
(* the link it produces and the GUID its converter run draws (random in the *)
(* code, so never drawn twice).  `clock' gives every file write a later     *)
(* mtime than any write before it.                                         *)
(*                                                                         *)
(* An action is one handler of the extension's event loop, run to its next  *)
(* await, or one file access of a child.                                   *)
(***************************************************************************)
EXTENDS Naturals

CONSTANTS
    MaxBuilds,  \* how many builds the user starts
    MaxEdits,   \* how many times a source or the .dproj is saved
    MaxTools,   \* how many times rsm2pdb.exe itself is rebuilt
    Overlap,    \* may a build start while another is in progress?
    Relinks     \* does a Make with nothing to compile always re-run the linker?

ASSUME BoundsAssumption ==
    MaxBuilds \in Nat /\ MaxEdits \in Nat /\ MaxTools \in Nat
ASSUME ModeAssumption == Overlap \in BOOLEAN /\ Relinks \in BOOLEAN

Builds   == 1..MaxBuilds
None     == 0                       \* no build, no link, no GUID
Serials  == Builds \cup {None}
Targets  == {"Make", "Rebuild"}
Backends == {"pdb", "dwarf"}

Looking   == {"statTool", "statSrc"}            \* the walk over the inputs
Walking   == {"statExe"} \cup Looking           \* inside isProjectUpToDate
Msbuild   == {"clean", "compile", "link"}
Converter == {"convRead", "convPdb", "convOpen", "convWrite"}
Live      == Msbuild \cup Converter             \* the child is running
Exited    == {"msDone", "msFail", "cvDone", "cvFail"} \* 'close' is pending
Active    == Walking \cup Live \cup Exited
Ok        == {"okBuilt", "okCached", "okSkipped"}
Ended     == Ok \cup {"failed", "cancelled"}
Stages    == {"unborn"} \cup Active \cup Ended

\* mtime 0 is a file that does not exist.  `rev' is the source revision the
\* linked code was compiled from, `guid' the RSDS pointer injected into the
\* image, `dwarf' the link whose .map the injected DWARF describes, `tool' the
\* converter that injected it.
NoExe == [mtime |-> 0, whole |-> FALSE, rev |-> 0, link |-> None,
          guid |-> None, dwarf |-> None, tool |-> 0]
NoPdb == [mtime |-> 0, guid |-> None, link |-> None]

\* What a build in progress remembers: its msbuild target, the .exe mtime its
\* walk compares with and the newest input the walk comes to see, the source
\* revision its compiler read, the backend its converter was started for, the
\* link whose .map and the image which that converter read.  The last three
\* fields are history: the source revision an .exe the walk keeps must not be
\* behind, the converter when the build started, and whether a Cancel press
\* reached the build or missed it.
NoFrame == [target |-> "Make", exeSeen |-> 0, srcSeen |-> 0, comp |-> 0,
            mode |-> "pdb", got |-> None, buf |-> NoExe,
            owes |-> 0, toolAt |-> 0, asked |-> "no"]

VARIABLES
    clock,        \* the newest mtime
    srcRev, srcMtime,   \* the sources and .dproj: contents and newest mtime
    toolRev, toolMtime, \* rsm2pdb.exe
    backend,      \* setting rsm2pdb.backend
    debugging,    \* the program runs under a debugger: .exe and .pdb locked
    exe, mapLink, pdb, stamp,           \* the files in the output directory
    cancelled, currentChild, problems,  \* buildRunner.ts module state
    pc,           \* how far each build is
    frame,        \* what each build remembers
    midEdit       \* history: were sources saved after the compiler read them
                  \* and before the build wrote the .exe for the last time?

envVars  == <<srcRev, srcMtime, toolRev, toolMtime, backend, debugging>>
diskVars == <<exe, mapLink, pdb, stamp>>
hostVars == <<cancelled, currentChild, problems>>
vars == <<clock, envVars, diskVars, hostVars, pc, frame, midEdit>>

-----------------------------------------------------------------------------
Init ==
    /\ clock = 2
    /\ srcRev = 0 /\ srcMtime = 1
    /\ toolRev = 0 /\ toolMtime = 2
    /\ backend \in Backends
    /\ debugging = FALSE
    /\ exe = NoExe /\ mapLink = None /\ pdb = NoPdb /\ stamp = 0
    /\ cancelled = FALSE /\ currentChild = None /\ problems = None
    /\ pc = [b \in Builds |-> "unborn"]
    /\ frame = [b \in Builds |-> NoFrame]
    /\ midEdit = FALSE

Goto(b, stage) == pc' = [pc EXCEPT ![b] = stage]
Keep(b, f)     == frame' = [frame EXCEPT ![b] = f]
\* runBuild returns, and what it remembered is gone.
End(b, outcome) == Goto(b, outcome) /\ Keep(b, NoFrame)

\* The 'close' handler of a child empties the slot, whoever's child it holds,
\* and passes on the exit code; runBuild looks at `cancelled' first.
FreeSlotForgotten == UNCHANGED currentChild
FreeSlot          == currentChild' = None

ExitCodeIgnored(b) == pc[b] \in Exited
ChildOk(b)         == pc[b] \in {"msDone", "cvDone"}

OutcomeIgnoringCancel(b, ok) == IF ~ChildOk(b) THEN "failed" ELSE ok
Outcome(b, ok) ==
    IF cancelled THEN "cancelled" ELSE IF ~ChildOk(b) THEN "failed" ELSE ok

\* spawnAndPipe: the new child takes the global slot, whoever held it.  A
\* spawn error empties the slot again before any other event is handled, and
\* fails the build.
Spawned(b, stage, f) == Goto(b, stage) /\ Keep(b, f) /\ currentChild' = b
SpawnError(b)        == End(b, "failed") /\ currentChild' = None

-----------------------------------------------------------------------------
(* The extension.                                                          *)

\* runBuild clears the DiagnosticCollection.
ProblemsLeftStanding == UNCHANGED problems
ClearProblems        == problems' = None

\* runBuild up to its first await.  Serials are handed out in order.
StartBuild(b, t) ==
    LET f == [NoFrame EXCEPT !.target = t, !.toolAt = toolRev]
    IN  /\ pc[b] = "unborn"
        /\ \A c \in Builds : c < b => pc[c] # "unborn"
        /\ ~Overlap => \A c \in Builds : pc[c] \notin Active
        /\ cancelled' = FALSE
        /\ ClearProblems
        /\ \/ End(b, "failed") /\ UNCHANGED currentChild \* resolveTools fails
           \/ /\ t = "Make"
              /\ Goto(b, "statExe") /\ Keep(b, f) /\ UNCHANGED currentChild
           \/ t = "Rebuild" /\ (Spawned(b, "clean", f) \/ SpawnError(b))
        /\ UNCHANGED <<clock, envVars, diskVars, midEdit>>

\* The two comparisons of isProjectUpToDate.
ToolNotCompared(b) == FALSE
ToolNewer(b)       == toolMtime > frame[b].exeSeen

SourcesNotCompared(b) == FALSE
SourceNewer(b)        == frame[b].srcSeen > frame[b].exeSeen

Compiled(b) == Spawned(b, "compile", frame[b]) \/ SpawnError(b)

\* isProjectUpToDate: no .exe ends the walk at once; else its mtime is what
\* every input is compared with.  From here to its end the walk awaits one
\* file, directory or chunk of files after another: see Edit.
OnStatExe(b) ==
    /\ pc[b] = "statExe"
    /\ \/ exe.mtime = 0 /\ Compiled(b)
       \/ /\ exe.mtime # 0
          /\ Goto(b, "statTool")
          /\ Keep(b, [frame[b] EXCEPT !.exeSeen = exe.mtime, !.srcSeen = srcMtime,
                         !.owes = IF midEdit THEN 0 ELSE srcRev])
          /\ UNCHANGED currentChild
    /\ UNCHANGED <<clock, envVars, diskVars, cancelled, problems, midEdit>>

\* The .dproj (one of the sources) and rsm2pdb.exe come before the sources.
OnStatTool(b) ==
    /\ pc[b] = "statTool"
    /\ \/ (ToolNewer(b) \/ SourceNewer(b)) /\ Compiled(b)
       \/ /\ ~ToolNewer(b)
          /\ Goto(b, "statSrc") /\ UNCHANGED <<frame, currentChild>>
    /\ UNCHANGED <<clock, envVars, diskVars, cancelled, problems, midEdit>>

OnStatSrc(b) ==
    /\ pc[b] = "statSrc"
    /\ \/ SourceNewer(b) /\ Compiled(b)
       \/ ~SourceNewer(b) /\ End(b, "okSkipped") /\ UNCHANGED currentChild
    /\ UNCHANGED <<clock, envVars, diskVars, cancelled, problems, midEdit>>

\* runRsm2pdb's own skip: is the .pdb (or the DWARF stamp) at least as new as
\* every input?  The .map and .rsm are never newer than the .exe.
Cached ==
    LET output == IF backend = "pdb" THEN pdb.mtime ELSE stamp
    IN  output > 0 /\ output >= exe.mtime /\ output >= toolMtime

\* 'close' of msbuild, publishDiagnostics, the tests on `cancelled' and on the
\* exit code, and runRsm2pdb up to its spawn.
OnMsbuildClose(b) ==
    LET missing == exe.mtime = 0 \/ mapLink = None
        convert == Outcome(b, "convert") = "convert" /\ ~missing /\ ~Cached
    IN  /\ pc[b] \in {"msDone", "msFail"}
        /\ problems' = b
        /\ \/ /\ convert
              /\ \/ Spawned(b, "convRead", [frame[b] EXCEPT !.mode = backend])
                 \/ SpawnError(b)
           \/ /\ ~convert
              /\ FreeSlot
              /\ End(b, Outcome(b, IF missing THEN "failed" ELSE "okCached"))
        /\ UNCHANGED <<clock, envVars, diskVars, cancelled, midEdit>>

StampAlways(b) == frame[b].mode = "dwarf"
StampDue(b)    == frame[b].mode = "dwarf" /\ ChildOk(b)

\* 'close' of rsm2pdb: the DWARF stamp is refreshed before runBuild looks at
\* `cancelled'.
OnConvertClose(b) ==
    /\ pc[b] \in {"cvDone", "cvFail"}
    /\ FreeSlot
    /\ IF StampDue(b)
       THEN clock' = clock + 1 /\ stamp' = clock'
       ELSE UNCHANGED <<clock, stamp>>
    /\ End(b, Outcome(b, "okBuilt"))
    /\ UNCHANGED <<envVars, exe, mapLink, pdb, cancelled, problems, midEdit>>

\* taskkill /T /F on the child of build b.  A linker killed in mid-write leaves
\* a torn image, and so does a converter that had truncated it.
Kill(b) ==
    \/ pc[b] \in Msbuild /\ Goto(b, "msFail")
       /\ UNCHANGED <<clock, exe, midEdit>>
    \/ /\ pc[b] = "link" /\ ~debugging
       /\ Goto(b, "msFail")
       /\ clock' = clock + 1
       /\ exe' = [NoExe EXCEPT !.mtime = clock', !.rev = frame[b].comp, !.link = b]
       /\ midEdit' = (frame[b].comp # srcRev)
    \/ pc[b] \in Converter /\ Goto(b, "cvFail")
       /\ UNCHANGED <<clock, exe, midEdit>>
    \/ UNCHANGED <<clock, exe, pc, midEdit>>    \* too late, or taskkill fails

\* cancelBuild.  Without a child the press only prints "nothing to cancel".
Cancel ==
    /\ \E b \in Builds : pc[b] \in Active
    /\ frame' = [b \in Builds |->
           IF b = currentChild THEN [frame[b] EXCEPT !.asked = "hit"]
           ELSE IF pc[b] \in Active /\ frame[b].asked = "no"
                THEN [frame[b] EXCEPT !.asked = "missed"]
           ELSE frame[b]]
    /\ \/ currentChild = None /\ UNCHANGED <<clock, exe, pc, cancelled, midEdit>>
       \/ currentChild # None /\ cancelled' = TRUE /\ Kill(currentChild)
    /\ UNCHANGED <<envVars, mapLink, pdb, stamp, currentChild, problems>>

-----------------------------------------------------------------------------
(* The children.                                                           *)

\* msbuild /t:Rebuild cleans first; a file in use stays.
Clean(b) ==
    /\ pc[b] = "clean"
    /\ Goto(b, "compile")
    /\ \/ ~debugging /\ exe' = NoExe /\ mapLink' = None
       \/ debugging /\ UNCHANGED <<exe, mapLink>>
    /\ UNCHANGED <<clock, envVars, pdb, stamp, hostVars, frame, midEdit>>

\* The compiler reads the sources; they may have errors.
Compile(b) ==
    /\ pc[b] = "compile"
    /\ Keep(b, [frame[b] EXCEPT !.comp = srcRev])
    /\ Goto(b, "link") \/ Goto(b, "msFail")
    /\ UNCHANGED <<clock, envVars, diskVars, hostVars, midEdit>>

NothingToLink(b) ==
    /\ ~Relinks /\ frame[b].target = "Make"
    /\ exe.whole /\ exe.rev = frame[b].comp

\* The linker writes a new .exe, .map and .rsm, all of this build; the image
\* carries no debug pointer yet.
Link(b) ==
    /\ pc[b] = "link"
    /\ \/ /\ ~debugging
          /\ clock' = clock + 1
          /\ exe' = [NoExe EXCEPT !.mtime = clock', !.whole = TRUE,
                                  !.rev = frame[b].comp, !.link = b]
          /\ mapLink' = b
          /\ midEdit' = (frame[b].comp # srcRev)
          /\ Goto(b, "msDone")
       \/ /\ NothingToLink(b) /\ Goto(b, "msDone")
          /\ UNCHANGED <<clock, exe, mapLink, midEdit>>
       \/ /\ Goto(b, "msFail")                       \* locked, or link errors
          /\ UNCHANGED <<clock, exe, mapLink, midEdit>>
    /\ UNCHANGED <<envVars, pdb, stamp, hostVars, frame>>

\* rsm2pdb loads the image and the .map.
ConvRead(b) ==
    /\ pc[b] = "convRead"
    /\ Keep(b, [frame[b] EXCEPT !.got = mapLink])
    /\ \/ /\ exe.whole /\ mapLink # None
          /\ Goto(b, IF frame[b].mode = "pdb" THEN "convPdb" ELSE "convOpen")
       \/ Goto(b, "cvFail")
    /\ UNCHANGED <<clock, envVars, diskVars, hostVars, midEdit>>

\* cmdPdb commits the .pdb, under a GUID of its own, before it touches the
\* image that must name that GUID.
ConvPdb(b) ==
    /\ pc[b] = "convPdb"
    /\ \/ /\ ~debugging
          /\ clock' = clock + 1
          /\ pdb' = [mtime |-> clock', guid |-> b, link |-> frame[b].got]
          /\ Goto(b, "convOpen")
       \/ Goto(b, "cvFail") /\ UNCHANGED <<clock, pdb>>
    /\ UNCHANGED <<envVars, exe, mapLink, stamp, hostVars, frame, midEdit>>

\* A converter that waits for the debugger to let go of the image.
ConvOpenWaiting(b) ==
    /\ pc[b] = "convOpen" /\ ~debugging /\ exe.whole
    /\ clock' = clock + 1
    /\ exe' = [exe EXCEPT !.mtime = clock', !.whole = FALSE]
    /\ Keep(b, [frame[b] EXCEPT !.buf = exe])
    /\ Goto(b, "convWrite")
    /\ UNCHANGED <<envVars, mapLink, pdb, stamp, hostVars, midEdit>>

\* The injector re-reads the image, lays out the new one in memory and
\* truncates the file.
ConvOpen(b) ==
    /\ pc[b] = "convOpen"
    /\ \/ /\ ~debugging /\ exe.whole
          /\ clock' = clock + 1
          /\ exe' = [exe EXCEPT !.mtime = clock', !.whole = FALSE]
          /\ Keep(b, [frame[b] EXCEPT !.buf = exe])
          /\ Goto(b, "convWrite")
       \/ Goto(b, "cvFail") /\ UNCHANGED <<clock, exe, frame>>
    /\ UNCHANGED <<envVars, mapLink, pdb, stamp, hostVars, midEdit>>

InjectedInFuture(b, m)  == [frame[b].buf EXCEPT !.mtime = m + 1]
InjectedUnnamed(b, m)   == [frame[b].buf EXCEPT !.mtime = m, !.tool = toolRev]

\* What the converter of build b makes of the image it read.
Injected(b, m) ==
    LET image == [frame[b].buf EXCEPT !.mtime = m, !.tool = toolRev]
    IN  IF frame[b].mode = "pdb" THEN [image EXCEPT !.guid = b]
        ELSE [image EXCEPT !.dwarf = frame[b].got]

ConvWrite(b) ==
    /\ pc[b] = "convWrite"
    /\ \/ clock' = clock + 1 /\ exe' = Injected(b, clock') /\ Goto(b, "cvDone")
       \/ Goto(b, "cvFail") /\ UNCHANGED <<clock, exe>>     \* disk full
    /\ UNCHANGED <<envVars, mapLink, pdb, stamp, hostVars, frame, midEdit>>

-----------------------------------------------------------------------------
(* The user.                                                               *)

\* From the compiler's read to the last write of the .exe a save is invisible
\* to this build, and older than the .exe the next one compares it with.
Unseen == {"link", "msDone"} \cup Converter

\* A walk may have looked at the saved file already, or have listed the
\* directory before the file was there; or it has yet to come to it.
Edit ==
    /\ srcRev < MaxEdits
    /\ srcRev' = srcRev + 1
    /\ clock' = clock + 1 /\ srcMtime' = clock'
    /\ midEdit' = \E b \in Builds : pc[b] \in Unseen
    /\ \E ahead \in SUBSET {b \in Builds : pc[b] \in Looking} :
           frame' = [b \in Builds |->
               IF b \in ahead
               THEN [frame[b] EXCEPT !.srcSeen = srcMtime', !.owes = srcRev']
               ELSE frame[b]]
    /\ UNCHANGED <<toolRev, toolMtime, backend, debugging, diskVars, hostVars, pc>>

\* A running rsm2pdb.exe cannot be overwritten.
RebuildTool ==
    /\ toolRev < MaxTools
    /\ \A b \in Builds : pc[b] \notin Converter
    /\ toolRev' = toolRev + 1
    /\ clock' = clock + 1 /\ toolMtime' = clock'
    /\ UNCHANGED <<srcRev, srcMtime, backend, debugging, diskVars, hostVars,
                   pc, frame, midEdit>>

ChangeBackend ==
    /\ backend' \in Backends \ {backend}
    /\ UNCHANGED <<clock, srcRev, srcMtime, toolRev, toolMtime, debugging,
                   diskVars, hostVars, pc, frame, midEdit>>

\* A debug session starts or ends.
Debug ==
    /\ debugging \/ exe.whole
    /\ debugging' = ~debugging
    /\ UNCHANGED <<clock, srcRev, srcMtime, toolRev, toolMtime, backend,
                   diskVars, hostVars, pc, frame, midEdit>>

-----------------------------------------------------------------------------
Host(b) ==
    \/ OnStatExe(b) \/ OnStatTool(b) \/ OnStatSrc(b)
    \/ OnMsbuildClose(b) \/ OnConvertClose(b)
Child(b) ==
    \/ Clean(b) \/ Compile(b) \/ Link(b)
    \/ ConvRead(b) \/ ConvPdb(b) \/ ConvOpen(b) \/ ConvWrite(b)

Next ==
    \/ \E b \in Builds, t \in Targets : StartBuild(b, t)
    \/ \E b \in Builds : Host(b) \/ Child(b)
    \/ Cancel
    \/ Edit \/ RebuildTool \/ ChangeBackend \/ Debug

\* The event loop handles every pending event, and every child runs on: both
\* msbuild and rsm2pdb terminate.  Nothing obliges the user.
Fairness == \A b \in Builds : WF_vars(Host(b)) /\ WF_vars(Child(b))

Spec == Init /\ [][Next]_vars
FairSpec == Spec /\ Fairness

-----------------------------------------------------------------------------
(* Properties.                                                             *)

\* The shape of every variable; mtimes never run ahead of the clock.
Mtimes == 0..clock
Image  == [mtime : Mtimes, whole : BOOLEAN, rev : 0..MaxEdits, link : Serials,
           guid : Serials, dwarf : Serials, tool : 0..MaxTools]
Frame  == [target : Targets, exeSeen : Mtimes, srcSeen : Mtimes,
           comp : 0..MaxEdits, mode : Backends, got : Serials, buf : Image,
           owes : 0..MaxEdits, toolAt : 0..MaxTools,
           asked : {"no", "missed", "hit"}]
TypeOK ==
    /\ clock \in Nat
    /\ srcRev \in 0..MaxEdits /\ srcMtime \in Mtimes
    /\ toolRev \in 0..MaxTools /\ toolMtime \in Mtimes
    /\ backend \in Backends /\ debugging \in BOOLEAN
    /\ exe \in Image /\ mapLink \in Serials /\ stamp \in Mtimes
    /\ pdb \in [mtime : Mtimes, guid : Serials, link : Serials]
    /\ cancelled \in BOOLEAN /\ currentChild \in Serials /\ problems \in Serials
    /\ pc \in [Builds -> Stages]
    /\ frame \in [Builds -> Frame]
    /\ midEdit \in BOOLEAN

\* The image and what a debugger finds through it belong together: the .pdb
\* with the image's GUID, or the injected DWARF, describes this very link.
Debuggable(m) ==
    /\ exe.whole
    /\ IF m = "pdb"
       THEN exe.guid # None /\ pdb.guid = exe.guid /\ pdb.link = exe.link
       ELSE exe.dwarf = exe.link

Ends(b, outcomes) == pc[b] \notin outcomes /\ pc'[b] \in outcomes

\* What makes the mtime walk sound at all: while an .exe compiled from older
\* sources lies on disk, some source is newer than it, however often linker
\* and converter have rewritten it and in whatever step a build was killed.
\* The exception is a save the last build did not see (midEdit).
StaleExeIsOlder ==
    exe.mtime # 0 /\ exe.rev # srcRev /\ ~midEdit => srcMtime > exe.mtime

\* A Make that isProjectUpToDate turns into "nothing to do" leaves an .exe that
\* has every save made before the walk looked at its file, the same exception
\* apart, however saves, new converters and the steps of the walk interleave.
\* (A save behind the walk's back is missed this once: it is newer than the
\* .exe, so by StaleExeIsOlder the next Make finds it.)
SkipIsSound ==
    [][\A b \in Builds :
         Ends(b, {"okSkipped"}) => exe.rev >= frame[b].owes]_vars

\* A build that ran its converter and reports success leaves a matching pair:
\* no failed or cancelled build before it, no debugger session during it and
\* no switch of rsm2pdb.backend makes runBuild say "Build succeeded" over an
\* image whose debug information is of another link.
OkBuiltIsDebuggable ==
    [][\A b \in Builds :
         Ends(b, {"okBuilt"}) => Debuggable(frame[b].mode)]_vars

\* runRsm2pdb skips the DWARF injection when the sidecar stamp is as new as
\* the image.  Such an image is whole and carries the DWARF of its own link,
\* whatever was cancelled, cleaned or injected in between.
StampIsHonest ==
    exe.mtime # 0 /\ stamp >= exe.mtime => Debuggable("dwarf")

\* A whole image that a converter has injected something into.  (A torn one is
\* a truncated file: whatever pointer it had is gone.)
Injectee == exe.whole /\ (exe.guid # None \/ exe.dwarf # None)

\* Once rsm2pdb.exe is rebuilt, no build started afterwards converts or skips
\* and leaves debug information injected by the old converter ("I just rebuilt
\* the converter -> please regenerate the PDB", upToDateCheck.ts).  A build whose
\* msbuild rewrote nothing and which trusts the existing .pdb may.
ConverterRebuildIsSeen ==
    [][\A b \in Builds :
         Ends(b, {"okBuilt", "okSkipped"}) /\ Injectee
             => exe.tool >= frame[b].toolAt]_vars

\* A press of Cancel that found the build's child makes the build end as
\* cancelled or failed: never as a success, even when taskkill was too late.
CancelledBuildNeverOk ==
    [][\A b \in Builds : Ends(b, Ok) => frame[b].asked # "hit"]_vars

\* cancelBuild kills by pid: the slot it takes the pid from never holds a child
\* whose 'close' has been handled, so no reused pid is killed, and
\* isBuildRunning() is not left true when nothing runs.
SlotIsNotStale ==
    currentChild # None => pc[currentChild] \in Live \cup Exited

\* The Problems panel never shows an older build's diagnostics once a newer
\* build has started.
ProblemsAreLatest ==
    problems # None => \A c \in Builds : c > problems => pc[c] = "unborn"

\* Every build that starts comes to an end, whatever is cancelled, fails or is
\* locked on the way.
EveryBuildEnds == \A b \in Builds : pc[b] \in Active ~> pc[b] \in Ended

-----------------------------------------------------------------------------
(* The inductive invariant behind the safety properties of one build at a   *)
(* time (~Overlap): what is known of the files at each stage of the build.  *)

OneAtATime == \A b, c \in Builds : pc[b] \in Active /\ pc[c] \in Active => b = c

\* The walk compares with the .exe that is still there, and what it owes is in
\* that .exe or newer than it.
WalkInv(b) ==
    pc[b] \in Looking =>
        /\ exe.mtime # 0 /\ frame[b].exeSeen = exe.mtime
        /\ frame[b].srcSeen <= frame[b].exeSeen => exe.rev >= frame[b].owes

\* What the build is about to write over the .exe is current, or midEdit says so.
FreshInv(b) ==
    /\ pc[b] = "link" /\ frame[b].comp # srcRev => midEdit
    /\ pc[b] \in {"msDone"} \cup Converter /\ exe.rev # srcRev => midEdit
    /\ pc[b] = "convWrite" => frame[b].buf.rev = exe.rev

\* A whole image has its own link's .map beside it, and the converter works on
\* that pair.
Rewriting == \E b \in Builds : pc[b] = "convWrite"
MapInv    == exe.whole \/ Rewriting => mapLink = exe.link
PairInv(b) ==
    /\ pc[b] \in {"convPdb", "convOpen", "convWrite"} =>
           frame[b].got = mapLink /\ mapLink # None
    /\ pc[b] \in {"convOpen", "convWrite"} /\ frame[b].mode = "pdb" =>
           pdb.guid = b /\ pdb.link = frame[b].got
    /\ pc[b] = "convWrite" => frame[b].buf.link = exe.link /\ frame[b].buf.whole
    /\ pc[b] = "cvDone" => Debuggable(frame[b].mode) /\ exe.mtime # 0

\* A press that hit is remembered by the flag until runBuild has looked at it.
CancelInv(b) ==
    frame[b].asked = "hit" => cancelled /\ pc[b] \in Live \cup Exited

SeqInv ==
    /\ OneAtATime /\ SlotIsNotStale /\ MapInv
    /\ StaleExeIsOlder /\ StampIsHonest
    /\ \A b \in Builds : WalkInv(b) /\ FreshInv(b) /\ PairInv(b) /\ CancelInv(b)

(* What one build leaves to the next.                                       *)

\* Builds take turns: when one starts, all before it have ended.
InTurn == \A b, c \in Builds : b < c /\ pc[c] # "unborn" => pc[b] \in Ended

\* What a replaced converter injected is older than the one that replaced it,
\* however often the image was opened, torn or given up in between.
ToolDated == Injectee /\ exe.tool < toolRev => toolMtime > exe.mtime

\* A walk that got past the comparison with the converter, and a converter that
\* is done, are not behind the converter the build started with.
ToolInv(b) ==
    /\ frame[b].toolAt <= toolRev
    /\ pc[b] = "statSrc" /\ Injectee => exe.tool >= frame[b].toolAt
    /\ pc[b] = "cvDone" => exe.tool >= frame[b].toolAt

\* Inductive together with TypeOK and SeqInv.
TurnInv == InTurn /\ ProblemsAreLatest /\ ToolDated /\ \A b \in Builds : ToolInv(b)
=============================================================================
