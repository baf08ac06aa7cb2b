# A formal model of rsm2pdb and its VS Code extension

The repository builds and debugs Delphi programs in VS Code. It has two halves: a VS Code
extension in TypeScript (`src/vscode-ext/src/`), which runs msbuild, the converter and the
debug sessions, and a converter in C++ (`src/src/`), `rsm2pdb`, which reads what the Delphi
linker leaves behind (`.exe`, `.map`, `.rsm`), writes a `.pdb` or DWARF sections, and injects
the reference to it into the `.exe`.

This directory holds TLA+ modules that model the parts whose correctness is hard to test, TLC
configurations that check them on small instances, and TLAPS proofs. `PROJECT.json` is the
index: components, runs, mutants, the source lines of every definition, findings, hazards and
theorems.

## Inventory

### The extension

| Component | State | Operations | Hard behaviour |
|---|---|---|---|
| Build driver, `buildRunner.ts` | `currentChild`, `cancelled`, the diagnostics; on disk the `.exe`, `.map`, `.rsm`, `.pdb`, DWARF stamp | `runBuild`, `cancelBuild`, `runMsbuild`, `runRsm2pdb`, `spawnAndPipe`, `publishDiagnostics` | promises and child events interleave with the user's saves, Cancel, settings and debug sessions; children fail, are killed, find files locked; two builds may overlap |
| Up-to-date check, `upToDateCheck.ts` | none: reads mtimes over several awaits | `isProjectUpToDate` | mtimes that three programs bump; sources that change during the walk |
| Step filter, `extension.ts` 817-990 | one `autoStepState` for all sessions and threads | tracker message, deferred callback, its await of a stack trace, session end | adapter events and user commands arrive between the callback's steps |
| Active pick, `extension.ts` | the remembered project, configuration, platform | pickers, refresh | asynchronous pickers over a changing list |
| `.dproj` parser | none | a pure pass over XML | property conditions, inheritance |
| Commands and UI | none of its own | VS Code calls | - |

A build is correct when its outcome tells the truth: success means the image on disk carries
the debug information of its own link, a skip means there was nothing to build, a Cancel that
reached a child never ends in success, and every build ends. The step filter is correct when it
never steps away from a place the user wanted as long as its adapter answers, keeps its budgets and
comes to rest.

### The converter

| Component | State | Operations | What makes it correct |
|---|---|---|---|
| `pdb` / `dwarf` drivers, `cli/cli_cmd_pdb.cpp`, `cli/cli_cmd_dwarf.cpp` | the files they rewrite | `cmdPdb`, `cmdDwarf` | order of file writes; the pair on disk matches |
| `.map` reader, `map/` | section state, open line table, records | `parse`, `populate` | each record is read once, in its section, and filed under one unit |
| `.rsm` reader, `rsm/` | cursor, open procedure, anchors, tables, pending members | five passes of record scanners that guess where a record starts | the scan advances; procedures stay ordered and disjoint; a hash or marker means the type of its own unit |
| Frame layout: prologue, sizes, `pe/*.h`, `compose/` | none | pure scans of machine code and record bytes | offsets and sizes agree with the compiler's frame layout |
| PDB composition, `cli/cli_cmd_pdb_*.cpp` | modules, publics, the registered types | `composeModules`, thunks, the registrar | a function belongs to one module, its extent is right, a type is registered after what it refers to |
| PDB writer, `pdb/` | type records, symbol records, blocks, contributions | `emitModules`, `emitTypes`, globals and publics | references survive growth; the two numberings of modules agree |
| DWARF emitter, `dwarf/`, `rsm/rsm_decorate.cpp` | units and section buffers | decorate, compose, emit | ranges are disjoint; offsets across sections resolve; lines decode to what was put in |
| PE injectors, `pe/pe_injector.cpp`, `pe/pe_pdb_injector.cpp` | the image | add sections, move the body, rewrite tables and the debug directory | nothing is overwritten, every header leads to its data, the newest debug information is found |
| NatVis, inspection commands | none | formatting | - |

The extension and the converter meet only in processes and files: the driver starts a child,
waits for its `close`, and looks at mtimes. Inside the converter the `.map` and `.rsm` readers
fill in-memory tables; a command joins them with the bytes of the `.exe` (addresses, owners of
code, frames, types), a writer serialises the result and an injector rewrites the `.exe`. The
converter is one thread, so its hazards are not interleavings but the order of its passes: a
table read before it is complete, a reference kept across growth, a number assigned in one pass
and used in another.

`PROJECT.json` lists the hazards of all these parts at their lines, with the properties that
watch over them; those without a property say why.

## Modules

| Module | Models | Used by |
|---|---|---|
| `BuildPipeline` | build driver, up-to-date check, file accesses of msbuild and converter | `MCBuildPipeline` (a bound for TLC), `BuildPipelineClaims` (two sentences of the comments), `BuildPipelineProofs` |
| `AutoStep` | step filter, debug adapter, debuggee, user | `AutoStepProofs` |
| `PeInject` | both injectors on one image | `MCPeInject` (linked images for TLC), `PeInjectProofs` |
| `MapReader` | `.map` parser and `populate()` | `MCMapReader` (a two-unit program for TLC), `Image`, `MapReaderProofs` |
| `RsmBytes` | the file, its tags, the byte helpers | the `.rsm` passes |
| `RsmProcs` | pass 1: procedures, parameters, locals, globals | `RsmUnits` |
| `RsmUnits` | pass 2: unit anchors, type tables, type names | `RsmAggregates` |
| `RsmAggregates` | pass 3: aggregates and their members, and which type a hash means | `RsmReader` |
| `RsmReader` | `Reader::open()`: the primitives, then the passes in order | `MCRsmReader`, `RsmReaderProofs` |
| `RsmEncoding` | the compiler that writes the file (external) | `MCRsmReader` (files for TLC) |
| `FrameLayout` | prologue parser, size sniffer, `resolveFunction()` | `Image` |
| `Image` | the tables both commands have read, what their readers guarantee of them, and the look-ups | `Registrar`, `Dwarf` |
| `Registrar` | the registration of `.rsm` types for the PDB | `PdbModules` |
| `PdbModules` | publics, thunks, modules, functions, lines of the `pdb` command | `PdbWriter` |
| `PdbWriter` | the type, symbol and module streams | `Converter` |
| `Dwarf` | the `dwarf` command from `populate()` to the sections, and what a debugger reads in a line program | `Converter`, `DwarfProofs` |
| `Converter` | one run of either command, and a debugger that reads the result | `MCConverter` (programs for TLC), `ConverterProofs` |
| `AddressMap` | the abstract promise of debug information | `Converter` implements it |
| `SeqHelpers` | the elements of a sequence that are in a set; a sequence without repetitions | `MapReader`, `Image` |
| `DataLemmas` | no code: what the proofs need of numbers, sets of numbers and sequences | the proof modules |

### BuildPipeline

An action is one handler of the extension's event loop up to its next await, or one file access
of a child. `pc[b]` says how far build `b` is: `unborn`, in the walk (`statExe`, `statTool`,
`statSrc`), with a live child (`clean`, `compile`, `link`, `convRead`, `convPdb`, `convOpen`,
`convWrite`), with a `close` pending (`msDone`, `msFail`, `cvDone`, `cvFail`) or ended (`okBuilt`,
`okCached`, `okSkipped`, `failed`, `cancelled`). `frame[b]` is what the handlers' closures keep. The files
are records: `exe` has an mtime, whether it is whole, the source revision it was compiled from,
the link that made it, the GUID, DWARF and converter injected into it; `mapLink`, `pdb` and
`stamp` are the other files. A build's serial also names its link and its (random) GUID. Every
write gets a later mtime (`clock`).

`StartBuild`, `OnStatExe`, `OnStatTool`, `OnStatSrc`, `OnMsbuildClose`, `OnConvertClose` and
`Cancel` are the handlers, each with everything it calls up to the next await. The walk awaits one
file, directory or chunk of files after another. It is modelled by what it has come to see: it sets
out with the sources' newest mtime (`srcSeen`), and each `Edit` that falls into it chooses, for each
walk under way, whether the walk has yet to come to the saved file (`srcSeen` rises) or has passed
it. The two stages stand for before and after its look at `rsm2pdb.exe`. `Clean`, `Compile` and `Link` are
msbuild and the compiler, outside the repository and modelled by what the driver relies on;
`ConvRead` to `ConvWrite` are the converter's file accesses in the order of `cmdPdb` and
`injectPdbReferenceFile`; `Kill` is what `taskkill` may leave, a torn image included; `Edit`,
`RebuildTool`, `ChangeBackend` and `Debug` are the user. A debug session locks the `.exe` and the
`.pdb`. Two switches cover unknowns: `Overlap` (may a build start while another runs? no command
prevents it) and `Relinks` (does a Make with nothing to compile run the linker?
`buildRunner.ts:413-415` and `upToDateCheck.ts:3-5` disagree).

History: `midEdit` and, in the frame, `owes`, `toolAt`, `asked`. `midEdit` is set when a source
was saved after the compiler had read it and before the build's last write of the `.exe`. Such a
save is older than the `.exe`, the next Make skips it, and the code cannot see it. The properties
about freshness except it. `owes` is the source revision a walk must not skip over: that of its
start, or of the last save it had yet to come to. `SkipIsSound` promises no more than that, since a
save behind the walk is missed by this Make. It is missed once: the saved file is newer than the
`.exe` (`StaleExeIsOlder`), so that the next walk, which starts behind the save, owes it and finds
it.

### AutoStep

The filter's three pieces (`OnStopped`, `OnImmediate`, `OnStack` with `OnStepFailed`) share
`autoStepState`, as in the code. Each session has a FIFO of requests to its adapter and one of
events and answers from it. `Answer` and `Stop` are adapter and debuggee: a breakpoint, a pause or
an exception on any thread may stop the debuggee before a step ends. `Command` is the user, who
may step or continue any thread while the filter works; `StopSession` ends a session at any time.
The stack trace is awaited, so events fall between `OnImmediate` and `OnStack`, and a state
cleared in between makes the callback throw, as in the code.

An adapter may fail any request, also of a stopped thread, and both of the code's error paths are
in the model: a failed `stackTrace` counts as a frame without readable source
(`extension.ts:874-876`), so that the filter steps on, and a failed step clears the record
(`:954-956`, `:967-969`), so that it gives up. `LandingIsKept` and `GivesUpOnlyWhenSpent` each except
the failure that leads to it, and only that one. A breakpoint is known by its reason or its
`hitBreakpointIds`; one that the adapter reports as a plain step (`:836-840`) is kept when the code
there is readable, like any other landing, and `LandingIsKept` says no more. What is assumed of the
adapter is that a stop it calls a step is on the thread that steps.

History: `autoSteps` (since the last command, saturating one above the budget), `raced` (the last
command was given while the filter was at work) and `failed` (the requests that failed since the
session last stopped). The properties hold of users who wait; the
run shows nothing of a raced command beyond the types. The setting is read at the start and not
changed afterwards.

### PeInject

An image is its layout: section headers, where the bytes of each section really are (`at`, moved
when the body moves), the symbol and string tables, appended data, the debug directory. One action
per injector: `InjectDwarf` renames older `.debug*` sections, extends the string table by the long
names, adds one section for each non-empty buffer; `InjectPdb` adds `.debug` and points the debug
directory to it. Both share the layout computation, which the two source files duplicate
(`Expansion`, `NextVa`, `NextFo`, `NewSections`, `Extended`). The address and the file offset of
each new section depend on those of the one before it: `NewVas` and `NewFos` are the running values
of the code's loop. Sizes are in units of a section header, and the alignments, where the section
table starts and what surrounds it are constants. The initial images come from the linker, and
`LinkedAssumption` says how it lays them out, with appended data or without (`tail`); a malformed PE
is not modelled.

### MapReader

The linker (external) writes the file line by line, in the order of the `.map` fixtures; the
reader takes each line in the action named for it, and `EndOfFile` and `Populate` finish. `state`,
`current` and `file` are the variables of `Reader::parse`; `model` is what `populate()` builds;
`written` is the history of the file. A dotted name is the sequence of its parts, so that a
prefix of the sequence is a dotted prefix. The properties compare the records with the history,
by the last header above each line, which the reader itself never looks at. The entry point's
value (only dumped), the tokens of a row and malformed lines are left out.

A unit compiled without line numbers has no table and so no compile unit; if its name nests in
that of a unit with one (`App` has lines, `App.Colors` has none), its publics go to the outer
unit. `PublicsInTheirUnit` speaks of the units that exist, as the code does.

### The .rsm reader

The file is a sequence of bytes without index or record lengths; a pass finds its records by
their shape, so the bytes are what this model is about and `Files` is a set of byte sequences.
`phase` is the pass, `pos` its cursor (offset 0 is byte 0x400 of the file), and one action is one
turn of a pass's loop: a record taken, a byte skipped, the end of the pass. `current` is the
procedure being read. What the passes leave is what `Reader` keeps: `procedures`, `variables`,
`primitives`, `anchors`, `tables`, `aggregates`, and `pending`, the members whose type has not been
seen. Offsets of one and two bytes, with their signs, are decoded as in the code; names are
sequences of letters' codes.

`RsmEncoding` is the other side: an encoder for every record form the reader, its tests and
`rsm-format.txt` describe. The properties compare what is read with the declarations the encoder
was given, never with a second decoder. Only forms the notes describe are written: the reader's
guesses that a lucky byte defeats are in the findings below.

### The converter

`phase` is the step of the command that comes next: `populate`, `decorate`, `compose`, `emit` for
`dwarf`; `publics`, `thunks`, `globals`, `modules`, `aggregates`, `write`, `symbols` for `pdb`, which
registers the types it meets on the way. A step is one loop of the command, or one turn of a loop where later turns
depend on what an earlier one wrote (a module, a unit, a type record). A program is a record: the
tables of the `.map` and of the `.rsm` as their readers leave them, the section headers and the
bytes of the code, and `truth`, what the source declares, which no definition of the code reads.
`Image` reaches `populate()` and its helpers by `INSTANCE MapReader` with the program's tables for
the reader's variables.

Two things are left to the platform, and every outcome is explored: which of two elements an
unstable sort puts first (symbols at one address in `Compose`, rows at one address for a thunk), and
in which order `equal_range` of a hash table goes (`latestFirst`). One case is not explored: of
several spans of code that start at one address the code's unstable sort may leave any as the last,
and `FindUnit` takes one of them; only a unit with an empty span can share its start.

DWARF sections are sequences of entries, [code, values], where an offset counts the entries before
it; the length of a unit is patched at the end as in the code, so that a wrong base or a length
that misses a part sends a reference astray. PDB symbols have an offset in their module, and `End`
and `procRefs` name such offsets. A string the code keeps by pointer into a vector that has
outgrown its reserve becomes `Overwritten`.

`AddressMap` is the promise: unit by unit, the debug information answers which function starts at
an address and which line an address has. It gives every answer it owes (`owed`), none that is not
so (`facts`), and never takes one back. `Converter` implements it twice, by the `pdb` command
(`published` are the modules of the DBI stream, `answers` its procedures and line blocks, with
addresses recomputed from segment and offset) and by the `dwarf` command (`published` are the
emitted units, `answers` the subprograms and the rows its line programs decode to). The history
variable `promised` holds `facts` and `owed`, computed from the program before the first step.
What each command owes is weaker than one might wish, on purpose: `pdb` skips units of the
run-time library and rows that lie in no function of their unit; `dwarf` names functions only of
units with lines.

## Runs

| Run | Instance | Distinct states, about | Shows |
|---|---|---|---|
| `build_seq` | up to 3 builds in turn, 2 saves, 1 rebuild of the converter, 4 of these in all | 1 209 000 | the mtime walk, the stamp, the diagnostics and the outcomes are right, and so is the invariant of the proofs, through any cancel, failure, kill, lock or switch |
| `build_overlap` | 2 builds at once | 279 000 | the slot never names a child that is gone; every build ends |
| `auto_step` | 1 session, 2 threads, 3 commands, budgets 2 and 1 | 497 000 | budgets, landings, giving up, rest, whichever requests fail |
| `pe_inject` | 24 linked images, any 4 injections | 133 000 | no byte overwritten, headers lead to data, memory in order, newest found |
| `map_reader` | 2 nested units and an include file, 2 publics (one may lie in a segment the file does not list), 3 tables, 3 rows | 279 000 | records as written, publics and lines in their unit |
| `rsm_reader` | 4 files with every record form, the first also cut off at every eleventh byte | 26 000 | everything declared is read under its own name, type and unit; the scan goes forward and ends, in the cut files too |
| `converter` | 4 programs through both commands | 2 000 | the implementation of `AddressMap`, frames, types, ranges, references, names |
| `claim_*` | the smallest instance that shows it | - | the five findings with a run |

Why the bounds are enough. Two builds suffice for most properties: a build finds what an earlier one
left. The third is there because a proof asked for it: a second build whose converter is killed
leaves a torn image that still carries the first one's GUID, and only a third finds that. Two saves
allow one before and one inside a build, one converter rebuild before and after. Four of these
events in all (`MaxActs`) keep the run short; Cancel, kills, locks and the switch of the backend are
not counted. Step budgets of 2 and 1 make both
kinds of step run out; three commands let a user command fall before, between and after
exhaustion. Four injections let each injector meet its own and the other's traces twice; the
headers have 0 to 2 units of room, so some injections expand them and some do not, and tables,
`.bss` and appended data are each present and absent. Three line tables let a module return after
another, or occur twice, or be empty in the middle; two publics can compete for one unit, and the
name tree has the depth at which longest and shortest prefix differ.

The `.rsm` files: `Every` has the five flavours of function, the old, new and out forms of a
local, padding, a descriptor, an enumeration entry among locals, odd and even and two-byte offsets
and both forms of a global; `TwoUnits` gives one marker and one hash a different type in each unit;
`Classes` has both layouts of a class header, a derived class and a record whose hash another
unit's class links to; `Unanchored` lacks primitives and anchors. A file cut off inside a record
puts the end of the file under every look-ahead of the passes.

The programs: `Types` has two units whose classes share a name and a hash, a class with an enum
field and a field of its own type, an enum with its named and its anonymous set, two records of one
name, parameters, locals, a nested procedure, four prologues, accesses of several widths and
globals without a type. `Layout` has an include file, rows out of order and two at one address, an
adjuster thunk, two publics at one address, overloads, a unit without lines, a generic whose code
lies in another unit's span, a thread variable and a unit of the run-time library. `Bare` is `Layout`
without a `.rsm` and with `--include-rtl`; `Stripped` has neither tables nor modules. The run has
few states because a command is a sequence: what varies is the program, the command and what is
left to the platform.

Every property of a passing run has a mutant, a bug of the kind one makes at that place, which
the property must catch on the same instance: `PROJECT.json` lists them (a reference bumped after
the lines instead of before, an offset from the start of the unit instead of the section, a hash
looked up in any unit, a one-byte offset read unsigned, a last function without an end, ...).

Deadlock is checked in `converter` only: a command that has not ended always has a next step, and
an ended one is `Exited`. Everywhere else the system may really stop (the user does nothing, the
file is read, the bound on injections is reached).

Fairness. `BuildPipeline`: weak fairness of each build's handlers (node's event loop handles every
pending event) and of its children (msbuild and rsm2pdb terminate; neither waits for a lock).
`AutoStep`: weak fairness of the filter and of each adapter's answers; no step needs to end.
Nothing obliges the user. Safety runs of these use the specification without fairness, except
`auto_step`, which also checks `ComesToRest`. `RsmReader`: weak fairness of its one thread, for
`Terminates`. `Converter`: the same; its formula names `Running` in place of `ENABLED`, which TLC
cannot evaluate under the folds, and the deadlock check shows that the two agree. That every unit
is published at last is the `<>Complete` of `AddressMap!Spec`.

## Findings

- `SkipMeansDebuggable`: `upToDateCheck.ts` takes "nothing is newer than the `.exe`" for "the last
  build is still valid", but the linker has made the `.exe` new before the converter fails or is
  cancelled; the next Make succeeds over an image without debug information.
- `CancelHonoured`: a Cancel during the up-to-date walk finds no child and is lost.
- `BudgetHolds` with two sessions: the one record changes hands at every stop and is refilled, so
  the budgets bound nothing.
- `DirectoryEntryFound`: a `dwarf` injection that grows the headers after a `pdb` injection leaves
  the file offset in the debug directory entry behind.
- `OneFilePerSource`: `populate()` registers the source of a module's first line table and gives
  it to the lines of its include files.

Seen while reading, without a run: a save during a build is skipped by the next Make (`midEdit`), one
behind a walk by the Make that walks;
the skip test of the PDB backend (`buildRunner.ts:436`) would trust a `.pdb` whose injection failed
after it was committed, if msbuild rewrote nothing in between; nothing compares the headers an
injection has grown with the address of the first section, where `docs/06-gotchas.md:115` calls the
accumulation of sections harmless; `extension.ts` and `package.json` name different defaults for
the step filter's mode.

The converter's own, also without a run. Each is outside a property's terms, and the property's
comment says so.

- Overloads have one qualified name, but a scoped name is pushed for each function:
  `pdb_writer_modules.cpp:46-52` reserves one entry per class method and `:135` pushes past it, so
  the pointers kept from short names dangle. `NamesStayPut` excepts programs with overloads. All
  overloads also get the member function type of the last (`MethodFor`), and methods are matched to
  classes by bare name (`cli_cmd_pdb_modules.cpp:471-478`).
- A variable whose class is registered only later keeps its kind and size.
- `pdb_writer.h:31-32` promises a byte for a field that cannot be resolved (as does
  `cli_cmd_pdb_aggregates.cpp:259-260`). A class is not registered yet when its own fields are, so a
  field of the class's own type is one, and `pdb_writer_types.cpp:193` writes it as an integer of four
  bytes. `TypedAsDeclared` excepts such fields and says what they are shown as.
- Thunks: `cli_cmd_pdb_thunks.cpp:143-146` says the smallest line is taken; the
  rows are sorted by address only, so it is any of the duplicates. The row is filed under the first table's source, and
  a function's contribution covers the thunks inside its extent.
- The `pdb` command gives no lines to rows outside the functions of their own unit (generics that
  the linker puts in another unit's span). Of two publics at one address the zero-sized one has no
  code to look at, so its frame offsets are those of an unknown prologue.
- DWARF: the last function of the program reads 1024 bytes and has no code if the file ends
  earlier; a function that ends at the next symbol of its own unit covers another unit's code when
  the two interleave (`SubprogramsDisjoint` is conditioned on it); a variable without a type refers
  to offset 0; the last row of a unit has an empty range; every row gets the unit's primary file.
- `.rsm`: padding after a local of the new form changes how much is looked ahead
  (`rsm_procs_vars.cpp:403-408`); the letter `c` in an enumeration's name is taken for the end mark
  (`:430-445`); a composite with a one-byte offset equal to a tag is read as a primitive; a global
  whose hash has an even low byte below 0x40 is too; classes are chained by the low byte of any
  header, where the comment at `rsm_aggregates.cpp:446-447` says of the same unit.

## Proofs

What a run shows on its instance a theorem shows for every value of the constants: any number of
builds, sessions, threads, injections, bytes of a file, lines of a map. Each proof module holds one
inductive invariant, which TLC checked before it was proved, one lemma for each action, and the
theorems that follow from it.

| Theorem | Assumes | States |
|---|---|---|
| `BuildPipelineProofs` | | |
| `TypeCorrect` | - | `[]TypeOK` |
| `SlotSafe` | - | `[]SlotIsNotStale`, overlapping builds included |
| `SeqSafe`, `TurnSafe` | `~Overlap` | `[]SeqInv`, `[]TurnInv`, the inductive invariants |
| `StaleExeIsOlderSafe`, `StampIsHonestSafe` | `~Overlap` | the two invariants the skip tests rest on |
| `ProblemsAreLatestSafe` | `~Overlap` | the problems shown are those of the latest compiler run |
| `SkipIsSoundSafe` (saves interleave with the walk), `OkBuiltIsDebuggableSafe`, `CancelledBuildNeverOkSafe`, `ConverterRebuildIsSeenSafe` | `~Overlap` | the action properties |
| `AutoStepProofs` | | |
| `TypeCorrect` | - | `[]TypeOK`, any number of sessions and threads |
| `LandingKept` | - | the action property `LandingIsKept`: a session is stepped on by itself only from a stop reported as a plain step, in code without source or whose stack the adapter failed to give |
| `ChainSafe`, `BudgetSafe`, `GivesUpSafe` | one session | the budgets bound the steps; the filter gives up only when they are spent or a step it asked for failed |
| `PeInjectProofs` | | |
| `TypeCorrect`, `RawDataFoundSafe`, `NothingOverwrittenSafe`, `MemoryInOrderSafe`, `NewestIsFoundSafe` | - | the five invariants of `pe_inject`, any linked images, with appended data or without, and any sequence of injections |
| `RsmReaderProofs` | | |
| `ProceduresSafe`, `GlobalsSafe` | - | `[]ProceduresInOrder`, `[]GlobalsOutsideProcedures`, any bytes |
| `CursorSafe` | - | the action property: no record holds a scan up or sends it back |
| `MapReaderProofs` | | |
| `TypeCorrect`, `RecordsAsWrittenSafe`, `PublicsInTheirUnitSafe`, `LinesInTheirUnitSafe` | - | the four invariants of `map_reader`, files of any length |
| `DwarfProofs` | | |
| `RangesNeverMeet`, `ReferencesFind` | - | `[]SubprogramsDisjoint`, `[]DwarfRefsResolve` of the `dwarf` command, any number of units, symbols and types |
| `ConverterProofs` | | |
| `ReferencesLead` | - | `[]ProcedureReferencesHold`: in a finished PDB every reference to a procedure leads to it, and the code of every procedure to its module |
| `NamesAreKept` | - | `[]NamesStayPut`: no name kept by pointer is overwritten while there are no overloads |
| `RunsDwarf` | - | `Spec => DwarfSpec`: a run of either command is a behaviour of `Dwarf` |
| `RangesApart`, `ReferencesInUnits` | - | the two invariants of `Dwarf` in a run |
| `DwarfAnswersUnitByUnit` | the `dwarf` command | `AddressMap!Safety`: unit by unit, every answer owed is given, none that is untrue, none is taken back |
| `DwarfImplementsAddressMap` | the `dwarf` command, and that it comes to its end | `ImplementsAddressMap`, the property of the run: at the end every unit is published |

The assumptions on constants. `BuildPipeline`: bounds are naturals and switches Booleans.
`AutoStep`: budgets are naturals, and "no record" is not a record (`BudgetAssumption`,
`NoAutoAssumption`). `PeInject`: alignments and payloads are positive (`LayoutAssumption`), the long
names of DWARF are none of the short names in use (`NamesAssumption`), and an image the linker wrote
satisfies what the injectors must keep: its headers lead to its data, no two regions meet, sections
are in order, names resolve (`LinkedAssumption`). `RsmReader`: the files are sequences of bytes.
`MapReader` (`ReaderAssumption`): a segment's number identifies it, no module's name is empty, rows
and headers are of the form the linker writes. `Image` (`ProgramsAssumption`): what the readers leave
in memory. Sections, publics, line tables, procedures with their parameters and locals, aggregates
with their fields are sequences; offsets, sizes and line numbers are naturals; a table that is kept
has lines (`map_reader.cpp:177` flushes no empty one); code segments lie above the image base, where the
headers are; what the `.rsm` tables index is an aggregate. Nothing is assumed of `program.truth`, of
the bytes of the file or of how tables and segments fit together. That one session is needed for the
budgets is a finding: with two, `claim_step_budget` refutes `BudgetHolds`.

### BuildPipeline

None of the properties is inductive. That a success leaves a debuggable image depends on what the
converter read several steps earlier, so `PairInv` carries, stage by stage, that it works on the
`.map` of the image on disk and that the `.pdb` it has committed has its GUID and that link;
`MapInv` says a whole image always has its own `.map` beside it. That an `.exe` of old sources is
older than some source survives the rewriting steps because of `FreshInv`: what is about to be
written is current or `midEdit` says it is not. `WalkInv` ties the mtime the walk remembers to the
`.exe` still there, and says that what the walk owes is in that `.exe` or newer than it. `CancelInv`
keeps a press in the flag until the handler reads it. All need `OneAtATime`. `SeqInv` is their conjunction; there is one preservation lemma per handler, child step
and user action (`StartBuildSeq`, `WalkSeq`, ...), each about build `b` only, and `OthersIdle` /
`ActiveStep` dispose of the other builds.

`TurnInv` adds `InTurn` (builds start in the order of their serials, so the last one started is the
one whose problems are shown) and `ToolDated` (a converter is dated before every image it injected
into). It showed that `ConverterRebuildIsSeen` was false as first stated, of any image with the old
GUID: a converter killed while it rewrites leaves a torn image that still carries it, and the third
Make passes over it. The property now speaks of whole images; that a torn one is passed over is part
of `claim_skip_debuggable`.

### AutoStep

`StepInv` is the types and, unless a command raced with the filter, `InStep` of every session: at most
one message, request or callback of it is under way (`OneItem`), and what that one says of the
stopped thread is still so, however many events have fallen in between. For the budgets `ChainInv`
adds that the steps taken since the user's last command and those left in the record, or on their
way in the one item, add up to the budget.

### PeInject

`WellFormed` is `Images`, `DataFound` (every header's file range is where its bytes are), `Disjoint`
(no two regions of the file share a unit), `InOrder` (sections ascend in memory, aligned and within the image's size) and
`NamesResolve` (a long name's offset lies in the string table). `NewestIsFound`
alone does not survive an injection: the next one looks sections up by name, so all names must
resolve, and they do only while the string table and its headers stay where they are. The
preservation lemma is one for both injectors (`ExtendedWellFormed`), as they share the layout.

### The .rsm reader

`Found` says what has been found so far: procedures in the order of the file with disjoint extents,
their symbols inside them, globals outside them. `InTurn` says how far each pass has come, and `AtPrimitive`, `AtFunction`,
`AtLocal`, `AtAnchor` and `AtTable` what the cursor may stand on in it. Later passes rewrite the
symbols' types and nothing else.

### MapReader

The invariant relates the reader to the file as written: `FileOK` (a file begins with a header, and
the section being read is that of the last header), `RowsOK` (the rows that stand for themselves),
`TablesOK` (the tables read, with the open one, are those of the headers that have lines) and
`LinesOK` (module by module, the lines read are those its headers stand over). `TablesOK` has a
case for each way a table is closed; the header of the entry point is the one that flushes nothing,
so the open table outlives its section. `populate()` is then a lemma about functions: `OrderIs` and
`UnitsAre` (one unit for each module, in order of first table), `FilesKnownSafe`, `LinesKeptSafe`,
`FiledOnceSafe` (the bucket of a name is the longest of its prefixes that names a module).

### Dwarf

The two theorems are of `DwarfSpec`: the steps of the command over its own variables, whatever else
moves `phase`. A behaviour of `Converter` is one of them (`RunsDwarf` in `ConverterProofs`), because
the steps of the `pdb` command leave `program` and `dwarfVars` alone.

`Inv` is `UnitsOK` (whatever has a frame has a type in each slot, so that a slot never refers to
offset 0) and `Structured`: every header of `.debug_info` leads to the next one, each entry belongs
to the last header before it, and each unit is a `CompleteUnit`: it has its line program, its
references name types written in it, and its functions lie in its range and apart from each other.
The work is in the unit that is being written. Its references are unit-relative while it is alone
(`UnitWritten`): `TypesAreWritten` follows the recursion over the types and says where each one
lands, `SymbolsWritten` that each entry of a symbol names one of these, `SymbolEnds` that a function
ends where the next symbol starts, at the latest. `UnitMoved` and `UnitAdded` then say that a unit
put behind the others keeps all that and disturbs nothing. `DecoratedOK` and `ComposedOK` are the
steps before, which type the slots and resize the frames.

The disjointness of functions holds across units only if the units' ranges are disjoint, a
condition in `SubprogramsDisjoint` itself: the code does not guarantee it (see the findings).

Two more results say what a debugger finds in what is written. `UnitStarts`: the entries of a unit
start the functions that lie in its range, each under its name, and `FunctionsPlaced`: that is every
function with an address. `ProgramRead`: the rows decoded from a line program are the unit's lines,
no more and no fewer, whatever order the sort leaves for equal addresses; it goes through the
program opcode by opcode, with the address and line registers as the debugger has them
(`Follows`).

### Converter

`ConverterInv` is about the `pdb` command from the registrar to the last stream. `InputsOK` and
`TpiOK` say that what the registrar, the thunk scanner, the composer and the type writer hand over
keeps its form, with one lemma for each operation on the type records (`EmitMethodsOK`,
`EmitClassOK`, ...). `OutputsOK` describes the streams: `modIndex` is the number of modules written,
and the symbols of the one being written are kept apart. `RefsOK` is the invariant proper: every
reference names a symbol that is a procedure of its name, in a written module or in the one being
written (`Leads`), and every procedure has a contribution under its own module's number
(`Contributed`). The step from one to the next is where the numberings could part: a module moves
from `writing` to `dbi` under the number its references and contributions already carry.

`NamesOK` ties the names kept by pointer to the references, one for one. `Unmoved` says that none
has moved while there are no more names than methods. That this is enough is a counting argument:
references stand at different places and each name is a method's, so without overloads two names
are never equal, and there are at most as many names as methods, for which the vector was reserved.
`NamesStayPut` alone is not inductive: it says nothing of how full the vector is.

The implementation of `AddressMap` by the `dwarf` command rests on `Told`: what the sections have
said so far (`DwarfSaid`) is what the modules of the emitted units owe. `AsSaid` shows that the
answers of the debugger, which reads `.debug_info` and the line programs, are just that. The
argument follows the passes. `populate()` leaves a unit for each module that owes something, once,
with the functions and lines it owes (`UnitsTaken`, from `SymbolsTaken` and `LinesTaken`); the
passes that type slots and resize frames change no address, kind or name (`UnitsRetold`); a unit
with its line program adds exactly what it owes (`UnitSaid`, from `UnitStarts`, `FunctionsPlaced` and
`ProgramRead`). Each step then publishes one module with all it owes (`Publishes`) or changes
neither side (`Quiet`). `promised` is computed before the first step, and the program it
is computed from never changes (`OwedStays`).

`DwarfImplementsAddressMap` has the liveness of `AddressMap` as a hypothesis, that the command comes
to `done`; what is proved is that every unit has been published by then.

### Induction

The library's induction theorems take an operator and cannot be used. Induction is stated with
sets instead: `DataLemmas` proves that a set of naturals has a least and a greatest element
(`Smallest`, `MaxIsGreatest`), and from it that a set closed under successor is all of them (`Induction`,
`IntervalInduction`), that a recursive function is the one its equation says (`Recursion`), and
rounding to multiples. It goes on to sequences: a set of them closed under `Append` is all of
them (`SeqInduction`), what `Among` and `FlattenSeq` do with one element more, and that sorting by
ranks keeps the elements (`SortedIs`). Every loop in a model that a theorem reaches is a recursive
function or a fold: `NewVas` in `PeInject`, `Among` in `SeqHelpers`, `TypeDIEs`, `LineProgram` and
`RowsIn` in `Dwarf`, `ThunksIn` in `PdbModules`, the descent over the types in `Registrar`.

### Model-checked only

Liveness (`EveryBuildEnds`, `ComesToRest`, `Terminates`, and that a command ends, on which
`<>Complete` depends), which the prover does not reach. `SymbolsAsDeclared` and
`AggregatesAsDeclared`: they compare with the declarations that `RsmEncoding` wrote into the files of
`MCRsmReader`, and for all declarations that is an induction over data. `FrameSlots`,
`TypedAsDeclared` and the implementation of `AddressMap` by the `pdb` command: they compare with what
the source declares (`program.truth`: slots, types, thunks), which the programs of `MCConverter` have
in agreement with their bytes and tables, while a theorem would need an assumption that says what the
compiler makes of every program. The five claims are false.

## Not modelled

A crash of the extension host in the middle of a build; a late `close` after a spawn error (the
handlers run before anything else sees the slot); mtimes that tie or go back (a version-control
checkout that restores old files); the msbuild target Build; the parsing of compiler output; the
`.natstepfilter` file, which the native debugger reads; the pick of the active configuration, the
`.dproj` parser and the VS Code user interface; malformed PE and `.map` input; formatting, logging
and the developers' inspection commands.

Of the converter: the command that writes DWARF sections to separate files; the NatVis writer and
the property names only it reads; variables in registers or optimized out, which the PDB writer
could emit but no composer asks for; unique names, checksums and the layout of the PDB streams,
which LLVM writes; the encoding of DWARF numbers; memory limits. The converter reads whole tables:
a program in which its readers went wrong is the readers' modules' business.

## Plan

Modelled: the build, the step filter, the injectors, both readers, both commands. Left, in this
order:

1. Proofs: the implementation of `AddressMap` by the `pdb` command. It needs an assumption that
   ties `program.truth` to the bytes, for the thunks at least.
2. `ActivePick` and `DiagStream`: the extension's remaining state.
3. Abstract specifications of the other two machines: a build as one atomic step from sources to a
   matching pair, implemented by `BuildPipeline` with `~Overlap`; the debugger's view of an image,
   implemented by `PeInject`.
