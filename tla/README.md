# Verification of pixel-modem-extractor in TLA+

pixel-modem-extractor is a batch program: it unpacks a Pixel modem firmware
image, drives headless Ghidra and a Thumb analyzer (radare2, with rizin as
fallback) over the code images in it, and publishes a directory of sidecar
artifacts that later stages and later runs validate before they use. Most of
its source is sequential parsing; what is hard about it is process supervision,
files that several steps (and several runs) rewrite, artifacts that name each
other by digest, names and facts that two sides decide on. The modules here
model those parts, and of the parsers and analyses those whose result several
rules have to agree on.

## Components

| component | state it keeps | operations | what is hard |
|---|---|---|---|
| thumb analyzer attempt (`thumb_analysis/stream.rs`) | one child process and its group, a drain thread, the capture file, deadlines | spawn, drain, observe, terminate, reap, finalize, drop | threads, signals, pid reuse, escaped descendants, failing system calls |
| thumb coordinator and assembly (`stream.rs`, `artifact.rs`) | captures, spills, attempt records, the v3 sidecar | carve, run, parse, select, validate, assemble | crash and rerun over one directory, fallback order, layout of runs |
| thumb region parsing (`stream.rs`, `rizin.rs`, `execution_ranges.rs`) | one spill and the budgets while a capture is read | scan, pair, project, normalize, spill | two readings of a stream must agree with the whole document |
| image decompilation run (`decompile.rs`) | Ghidra project, export trio and completion marker, run outcome | import, tighten watch, fallback, validate, mark | files of earlier or killed runs taken for this run's, silent hangs |
| marshalling and generation (`decompose.rs`, `decompile.rs`) | manifests in the kit and in the image's directory | generate, publish, bind | manifests of an earlier run beside this run's |
| second pass (`decompile.rs`, `terminal_pass2.rs`, `exception_pass2.rs`, `symbolicate.rs`, scripts) | retained inputs, maps, project, second export | snapshot, plan, validate, run the scripts, accept | inputs that drift between the check and each use; a project saved half-way |
| refresh transaction (`decompose.rs`) | destination trio, export trio, backup directory | validate, swap, roll back | partial failure and crash between renames |
| orchestration (`decompose.rs`) | report rows and stage entries, versions of the artifacts | the pipeline's stages, two symbol routes | artifacts that bind digests of files rewritten later |
| global shapes (`global_shapes/`) | facts per block, records per global | decode, track, seed, merge | joins over loops and shared code, evidence from calls |
| discovery and recovery (`scatter`, `exception_roots`, `pal_tasks`, `pal_messages`, `startup_metadata`, `dbt_traces`, `globals`, `global_types`) | none: functions of an image and earlier artifacts | discover, validate, render | boundary values |
| extraction and decoders (`fbpk`, `archive`, `ext4`, `gzip`, `toc`, `classify`, `manifest`, `decode_rf`, `tokens`, `hwcfg`, `source_tree`, `recover_source`) | none | parse, write | nothing concurrent |

`PROJECT.json` lists every component with what is modelled of it, or why it is
not.

How the parts meet: `decompose` calls extraction, then `decompile` in-process;
`decompile` runs one headless Ghidra per image and, for images with dense Thumb
code, the Thumb coordinator, which runs one supervised analyzer attempt after
another and parses what each captured. Everything they hand on is a file:
export trios with a completion marker, `thumb_functions.json` with its
captures, manifests and maps that bind other files by SHA-256, and in the end
`report.json`. The second pass goes back into the saved Ghidra projects with
names and types and its exports replace the first ones, through the refresh
transaction.

## Modules

| module | models | states it is checked on |
|---|---|---|
| `AttemptContract` | what one analyzer attempt promises its caller | as a property of `AnalyzerAttempt` |
| `AnalyzerAttempt` | `run_backend_capture`, `supervise_spawned_analyzer`, `AnalyzerProcess`, the drain thread, the OS | 512 972 |
| `ThumbRegion` | `process_region_inner` and what it calls | 130 816 |
| `ThumbCoordinator` | `run_thumb_analysis`, `assemble_v3_atomic` | 343 191 |
| `GhidraImageRun` | the loop body of `run_report_impl`, the export attempt, the tighten watch | 1 604 034 |
| `PassTwoInputs` | generation, marshalling, the terminal snapshot, `run_two_pass`'s checks, what each script opens | 4 018 592 |
| `SymbolPass` | the symbol map, `ApplyThumbNames`, `ApplySymbols`, the export's inventory, its acceptance | 712 343 |
| `RefreshTransaction` | `refresh_decompiled_with`, `rollback_refresh` | 275 860 |
| `DecomposeRoute` | the pipeline of `decompose` with both symbol routes | 942 560 |
| `GlobalShapes` | decoding, the must-facts fixpoint, call seeds, aggregation; the processor | 941 562 |

The modules named `MC...` only name small sets for TLC; `..._proofs` hold the
proofs. `PROJECT.json` maps every definition to its source lines.

### AnalyzerAttempt and AttemptContract

Four actors interleave. The *supervisor* (`pc`) is the thread that runs
`run_backend_capture`: it spawns the child, makes the pipe non-blocking,
creates the capture, starts the drain and loops over limits, join and
observation. `terminate_and_reap` is a subroutine (steps `t...`) with the return
address in `after`; it has one step per system call, so the processes move
between them. The *drain thread* (`drain`) copies the pipe to the capture file
chunk by chunk under the cap. The *processes* (`leader`, `member`, `writers`)
fork, write, close the pipe, exit, or leave the group; a pid can be reused once
nothing in its group can be waited for. The *clock* moves the two finalization
windows and the rizin deadline. System calls fail at the price of a unit of
`faults`.

Only the byte counts of a capture are modelled, as every comparison in the code
is of lengths. The early returns of `terminate_and_reap` for a child that was
already reaped, and the half of `Drop` that would join a drain, are left out;
`OmittedUnreachable`, a theorem, says that no caller reaches them.

`AttemptContract` is what `ThumbCoordinator` needs: an attempt ends once, and if
its outcome is not terminal then no process, drain thread or unrecorded partial
file is left, then or ever after. `AnalyzerAttempt` refines it (`MeetsContract`),
and the coordinator's `RunAttempt` takes its results from the contract's
`AttemptResults`, so the two modules compose without a product of their states.

### ThumbRegion

A capture is a sequence of values, each an object or an array of elements; an
element is a function, a body, a reference or none of them, and an instruction
has an address, a length and bytes that are the image's or not. `ScanInventory`
is pass A (with rizin's stricter shape, which the code checks in a reading of
its own before), `Match` is B1, `Reread` and `Fallback` are B2, `Verdict` the
checks after them, `Rest` is C. `NormalizeAndSpill` is one function's
normalization: its record must be sound, its `Projection` (the code's sort,
farthest-reach comparison and joining of extents) is charged to the budget, and
a slot of the spill is written. The reference is the definition that the tests'
whole-buffer oracle gives of the pairing, and for the ranges plain sets of
addresses; `SpillMatchesReference` compares success and every slot.
`ThumbCoordinator`'s `Parse` has any outcome that this module may have.

### ThumbCoordinator

One step per operation of the region loop (carve, remove a stale spill, attempt,
parse, clean a failure, select) and of the assembly (temporary file, validated
write, rename), any of which may fail; `Crash` loses the memory and keeps the
directory, over which `Begin` starts another invocation. Regions have any
inventory within the bound; a spill is its slot counts. `ValidMetadata` is
`validate_v3_metadata`, and `AssemblyAccepts` says that the assembly never
rejects what the coordinator itself built. `FilesMatchRecords` joins what has to
be true of the files of a region: captures are of this run, and a failed
attempt leaves no fragments.

### GhidraImageRun

The supervisor (`pc`) scrubs the four owned files, passes the opaque gate,
spawns, watches or collects, waits or kills, retries as datamark, validates,
runs the Thumb step, certifies and drops. What it spawns is a launcher (a shell
script) that forks the JVM; `child.wait()` waits for the launcher, and SIGKILL
to the group reaches the JVM in its own time: it may finish the system call it
is in (`jsig`: sent, spent) and holds the project lock until it dies. The JVM
moves the export's files one by one, the marker last. Ordinary log lines are
left out because a poll that times out has the same effect; what a line can do
to the watch is in `Lines`. `CertifiedIsThisRuns` speaks of the export and of
the sidecar beside it, `ProcessesOK` of the processes when the image is done.

### PassTwoInputs

The files that describe the runtime of one image, over two runs on one output
directory: the kit that Ghidra runs in (`kit`) and `images/<label>` (`term`).
Generation puts manifests into the kit; marshalling moves them, in a fixed
order and each only if what it was derived from got there (`Blocked`); the
context (`ctx`) authenticates what was published; startup metadata are
discovered from it; the snapshot (`snap`) stages inputs back into the kit, and
the maps are planned and bound to it. Then the second pass: `Begin` scrubs,
`Validate` looks at everything once more, `Script(s)` opens the files that each
script reads, at a time of its own, `Export` writes the marker, `Accept` or
`Scrub` ends it. A content is the number of the firmware version (or the run)
that it comes from, and a digest of it the same number, so a manifest fits
exactly the content it was derived from. `Alter` changes any file behind the
program's back, `Crash` ends a run anywhere, and every operation can fail, each
at the price of a mishap.

### SymbolPass

Planner and scripts. `PlanMap` is the symbol map: `Candidate` is the ranking of
evidence (`__func__`, registration, ss, exception role, task, startup, guesses),
`NameOf` the disambiguation, `Authorized` who may be renamed, `MirrorOf`
the thunks whose name follows a renamed target. The scripts work on `prog`, a
program with functions, the registry of roles, the owned creations and the
property that a map was applied; `ApplyThumbNames` creates functions,
`AuthorizeSymbols` checks every decision against the program, `RenameOne`
applies one (`queue` is the set of those left, taken in the map's order by
`Before`), `FinishSymbols` verifies all of them; `ScriptFails` rolls back or
cannot, `Save` may come after any script, and `Killed` leaves what was saved.
`Accepted` is the refresh's comparison of inventories with the counts that the
scripts printed. What a thunk without a name shows is found at the end of its chain
(`EndOf`); targets are numbered below their thunks, which is how the inventories
say that chains end. Roles (exception and task owners, preserved entries), thunks,
names of firmware or tools, and entries that only the Thumb producers know are
enumerated in all combinations that the MC module lists.

An entry may have evidence of every rank at once: a record with a name or none for
`func`, `reg`, `ss` and `startup`, and the number of guesses. Only a registration
looks at the primary that the entry has (`Registered`, `OwnsName`). `Found` is
the strongest name that the firmware gives; it stands above the roles, startup
names and guesses below. What names an entry is not always what may rename it:
`Authorized` lets every recovered name displace a task's, and only `__func__` and
a registration (`Authority`) an exception role's. Two guesses for one function
name nothing, and no other rank can propose two names. A task that found a
primary and preserved it has no role of its own: both role scripts run before
the analysis, over a raw image, so that primary is an exception role's, and
the exception's rules come first.

### RefreshTransaction

One step per rename, removal or validation; every one may fail, and `Crash` may
come between any two. The next call starts from whatever is in the trees, with
the producer report of the earlier call or of a new run. A file is the number
of the export that wrote it and the functions it lists, as far as they matter:
pass 1's, and the creations that the saved Ghidra project owns. `Valid` is the
terminal inventory validation, and the four `...View`/`...Baseline` operators
are the counts it is given at each of its four uses. `before` and `committed`
are observations: the destination when the call began and the trio that was
last validated in place.

### DecomposeRoute

The stages are a sequence `todo` that `Pipeline` builds from `--no-symbol-pass`;
an action consumes its head. Each stage fails for any subset of the images,
within a budget of `MaxFaults`, and images may hold the tree of an earlier run.
Files are version numbers: a rewrite increments, and a sidecar records the
versions it read, which is what a digest is for. `row` is rebuilt by
`FromResults` wherever the code rebuilds the rows; `kept` holds the outcomes
that the code keeps beside them to apply again. `DispatchPass2` and `PostPass2`
are two halves of one function, split because the second pass is the point at
which `report` may be lost. What a stage computes is left nondeterministic.
`BindingsOK` is about the two sidecars that rewrites can overtake,
`GlobalsInOrder` about `globals.json` on the two routes.

### GlobalShapes

The analysis and, beside it, the processor. `Begin` cuts a function into
reachable blocks (`Prefix`, `Successors`, `Linear`, `Boundaries`, `Blocks`),
`Visit` is one visit of a block in the sweeps of `track_function`: transfer
through its instructions (`Apply`, `Evaluated`), then `JoinInto` each successor,
which keeps what both agree on and joins provenance. When nothing is dirty the
function's observations and call facts are harvested; pass 2 tracks the callees
with the facts their callers agree on (`Groups`, `Seeded`); a block that no edge
has spoken to is harvested with no facts (`StateAt`); `Aggregate` and
`MergeInterprocedural` make the records. After that the processor executes the
same program from any entry (`Start`, `Step`, `Enter`), remembering by which call
it came in: a hop of an observation names its caller by function and address of
the call, as two accepted functions may have one entry. The ranges of a function
are canonical (`ProgramAssumption`: `canonicalize_instruction_extents` joins those
that touch and rejects those that overlap). `ObservationsTrue` compares each access that it makes with what the
records say of it. A value that a callee left in an argument register is
`Returned` and excepted (see Observed).

## Runs

Deadlock checking is on in `pass_two`, `symbol_pass` and `symbol_thunk`, where
only the end of the last run may stutter; it is off in the others, whose
programs end.

| run | bounds | shows |
|---|---|---|
| `attempt` | cap 1, output 2, windows 1 and 2, two failing calls | signals stay home; captures and outcomes are truthful; the contract is met; attempts end; groups die out |
| `region` | three functions, three bodies, three instructions; small budgets | reading twice as a stream comes to what the whole document says |
| `coordinator` | two regions, one function each, two invocations | layout, whole sidecars, crash and rerun |
| `image_run` | two lines of any kind, spam limit 1, two failing operations | what is certified is this run's; what is not is not left complete; a watched hang is killed |
| `image_retry_lock` | no line, no failing operation | violated: see Findings |
| `pass_two` | two firmware versions, two runs, two mishaps | what is published, retained, staged and applied is this run's or is not used |
| `symbol_pass` | three known and two fresh entries, three runs of the scripts | programs have all names or none; names keep their rank; maps apply and replay; exports are taken over exactly over the two baselines |
| `symbol_thunk` | the same | violated: see Findings |
| `refresh` | two candidates, three exports | nothing validated is lost; halves are marked; errors restore; inventories grow |
| `route` | two images (one may be MAIN), five option sets that pair each option with each, one failure, empty or earlier trees | rows keep every outcome; sidecars bind what the tree ends with; ok means ok |
| `route_lost` | the same | violated: see Findings |
| `shapes` | five families of programs of six to eight instructions, two globals, values to 7 | records are true of the code; calls only add evidence; the worklist runs dry |

Why these bounds are enough. In `attempt` the cap is smaller than the output, so
the capped chunk, the exact fit and the short capture all occur, and the idle
window is shorter than the absolute one, so either can expire first; two faults
let a cleanup fail after the failure that caused it. In `region` three
functions with up to three bodies let two of one entry compete while a third
takes a body by its position, three instructions let one reach over another,
and every budget is below what a capture can ask for. Two regions let an
earlier region's outcome (with or without functions, by either producer)
precede a later one, and two invocations let each file of the directory be of
an earlier one. In `image_run`, two lines past a limit of one cross it; two
faults let the scrub fail in two places, before and after the retry. In
`pass_two` a second run of the same or of another firmware finds everything
that the first can leave behind, and two mishaps let a file change after it was
checked and something fail because of it; the scatter map, the roots and the
tasks are there or not in either version. In `symbol_pass` three entries make a
chain of thunks; two creations can be made by one run each, and a third run
finds a project that the earlier ones saved at any point, published or not. Three exports let a refresh follow one that committed, one
that failed and one that crashed, with both candidates created at once, one by
one or not at all. Each image of `route` is independent but for the stages that
end at the first failure, which two images show. The programs of `shapes` have
two nested loops at most, a diamond with conditional writes, two callers of one
callee, a callee that is its own caller's tail, an entry that two functions
claim, and two functions of one entry that end in different places.

Some properties are conjunctions that name their parts: `ProcessesOK`,
`FilesMatchRecords`, `BindingsOK`, `GlobalsInOrder`, `CertifiedIsThisRuns`,
`ProgramOK`, `SecondPassOK`, and the type invariant is a part of one of them
where it has no run of its own.

### Fairness

`AnalyzerAttempt` assumes that the supervisor's thread is scheduled, that time
passes, that the kernel ends a process with a SIGKILL pending and that init
reaps orphans; it assumes nothing of the drain thread or of the analyzer, which
is what the deadlines in the code are for. `GhidraImageRun`'s `FairSpec` assumes
the same of its supervisor, clock and kernel; a JVM owes nothing. These are the
threads and the operating system that the code relies on; there is no fairness
on failures or on crashes. The other modules have no liveness property: they
are sequential code in which every step is followed by the next. That the
worklist of `GlobalShapes` ends is not obvious, and is stated as what every visit
does (`TrackingConverges`): it leaves less to visit, or facts die, or a path
gains addresses it did not have.

## Findings

Disagreements between the code and what it says of itself, each with a run that
exhibits it:

- `image_retry_lock`: `child.wait()` reaps the launcher. The killed JVM may
  still hold Ghidra's project lock when the datamark retry opens the project,
  although the comment says the lock is released by then.
- `route_lost`: preparation errors are dropped when nothing is left to dispatch:
  the stage is then "skipped" and the report ok, while the test of function-only
  errors expects the stage to fail.
- `symbol_thunk`: an entry that an exception role shares or preserves gets a
  `preserve` decision even when it is a thunk of a renamed function. Ghidra then
  shows the new name, and `ApplySymbols` refuses the whole image, although the
  comment says the map encodes that drift as a `mirror` decision.

Observed while modelling, without a run:

- A line that is not UTF-8 ends the watch loop of `decompile.rs`, after which the
  tighten budget is no longer looked at; the comment (2771-2772) has a silent
  hang killed. `HangIsKilledWhileWatched` says what holds.
- Facts in r0-r3 survive a direct call, which the test at `tracker.rs:2258` pins;
  the contract at `arm32/mod.rs:259-263` has them unknown after one.
- An instruction that may leave a function by an exception, a return under a
  condition or an indirect branch ends its path: its edges take no part in the
  join, and neither do bytes that do not decode.
- Where a callee also has evidence of its own, that evidence carries the `via` of
  the calls as well.
- An ss name outranks an exception role in `decide` (the precedence pinned at
  `symbolicate.rs:82-85`), but is no authority for the role's transition
  (`symbolicate.rs:1554`): the symbol carries the ss name while the map keeps the
  role's in the project. A task's name does yield to it, where the comment at
  2123-2126 names func and registration only.
- A startup application that the script refuses fails the pass, and never
  reaches the row's `startup_apply_error` (`README.md:338-341`).
- A second enrichment has no stage entry when `run_two_pass` itself fails.
- On the route without a symbol pass shapes are swept once, on the other twice;
  the first sweep's entry is replaced by the second's.
- The error of a first enrichment sweep stays in the row after a second sweep
  that succeeded.
- A rerun over a published tree cannot rename its export over it, so its images
  have no current context; `route` has such trees among its initial states.
- A rerun of the Thumb analysis that fails after its first attempt has already
  replaced captures whose digests the prior sidecar names.
- A run that publishes, and after it one that creates a function whose name a
  rename had freed, is saved and not published: the counts of every later export
  then fit neither of the two baselines that the refresh considers
  (`decompose.rs:2889-2928`), which rejects it although its comment has a saved
  transaction commit before publication fails. `ExportIsPublishable` states which
  exports are taken over.
- Two accepted functions may have one entry and different ranges. The entry in a
  hop does not tell which of them made the call; its name does.
- The marker certifies the inputs of an export, not the run that made it: the
  export of an interrupted run's surviving JVM would be certified as this run's.
- The maps of globals and types carry no digest of the files they were derived
  from; a `functions.json` altered before the maps are planned is noticed only by
  the scripts or the refresh.

## Proofs

TLAPS checks every theorem below for all values of the constants; the only
assumptions are the named `ASSUME`s of the modules (limits are natural numbers,
captures are made of functions, bodies and references, sets of entries and
candidates are finite, thunks point down, ranges are canonical), which TLC
evaluates on every run.

`AnalyzerAttempt_proofs`: each safety property of the `attempt` run is a theorem.

- `TypeCorrect` (`TypeOK`), one group of variables at a time: a frame lemma says
  which steps touch the group, the next that each of them keeps its type.
- `SignalsStayHome` (`NoStraySignal`) through the invariant `Identity`: neither
  the leader's reaping nor the reuse of its pid precedes `reapAttempted`, which
  every signal checks.
- The others follow from one inductive invariant, `AttemptInv`. None of them is
  inductive alone, because what a step may conclude depends on where the
  supervisor is and on where `terminate_and_reap` will return to
  (`HeadingFor(k)`). Its parts say, for each such place, whether an outcome is
  set (`Outcomes`), who holds the drain and whether its capture was taken
  (`Phases`), where the terminal mark may be pending (`NoTerm`), that an
  abandoned drain makes the failure terminal (`Abandoned`), whose file is on
  disk (`OwnFile`), what a recorded capture is (`Captured`), when a reap was
  attempted (`Reaping`), that a cleanup without error saw the group gone
  (`Group`), that an uncancelled drain ends with everything written
  (`Complete`), and that a cancelled one means a failure (`CancelledFails`).
  From it: `RetainedIsFinal` (`RetainedCaptureIsFinal`), `SuccessHoldsAll`
  (`SuccessIsComplete`), `OmittedIsDead` (`OmittedUnreachable`: the branches the
  model leaves out are dead) and `NothingLeftBehind` (`CleanUnlessTerminal` and
  `NullCaptureLeavesNoPartial`, which `MeetsContract` implies in the run).
- `ImplementsContract` (`MeetsContract`): every step maps to a step of
  `AttemptContract` or a stutter. Before the outcome it is `Work`; the step
  that sets it is `Finish`, because a non-terminal outcome comes without
  residue in the next state; after it, outcome and capture are final, so only
  a terminal attempt's residue may still change (`Settle`).

`RefreshTransaction_proofs`: each property of the `refresh` run is a theorem.

- `TypeCorrect` (`TypeOK`). Bounds on counters are not inductive by themselves:
  the invariant adds that a summary's creations and re-applications together do
  not exceed the candidates, which needs the cardinality of a disjoint union.
- `NothingValidatedIsLost` (`Recoverable`), `HalfReplacedIsMarked`
  (`MixedIsMarked`), `RollbackRestores` (`ErrorRestores`). The three follow from
  one inductive invariant `FileInv`. Its parts go with the phases of the call:
  until the first rename the destination is as it was found (`Untouched`); in
  the rename loops the found trio is whole, each of its files is where it was
  or in the backup (`Held`), and for each file the loop counter says in which
  (`Replacing`); during the rollback, what has not failed so far is back where
  it was (`Restoring`); at any time, a crash included, the disk is `Safe`. The
  renames need the last two to imply each other: a whole trio split over two
  directories is marked because the backup cannot be empty (`HeldIsMarked`).
- `SuccessPublishesAll` (`SuccessIsWhole`), `ReportCountsPublished`
  (`CountersAreHonest`), `NoFunctionIsLost` (`InventoryGrows`) follow from a
  second invariant, `ListInv`, over the first: everything on disk lists owned
  creations only, what is installed is this call's export, and the validations
  compare with the inventory that the call found.

`GhidraImageRun_proofs`: each property of the `image_run` run but the liveness is
a theorem: `ProcessesAreTornDown` (`ProcessesOK`), `Certified`
(`CertifiedIsThisRuns`), `NotCurrent` (`NotCurrentIsIncomplete`), `CurrentStays`
(`CurrentIsStable`). They need to know what a process that was killed may still
do. The invariant says in which state each kill is (`ProcInv`: a JVM that was
not waited for has at least been sent SIGKILL), that a JVM over before a scrub
began leaves at most the one file of the call it was in (`ScrubInv`, through
`LeavesOne`), that a process's files are a prefix of its publication order
(`PrefixInv`), and that once the datamark run has moved a file the tighten run
moves none (`QuietInv`: the project lock). `NotCurrent` is then arithmetic: two
killed JVMs leave two files of four.

`Thumb_proofs`: each property of the `coordinator` and `region` runs is a theorem. Of
`ThumbCoordinator`:
`RecordsMatchFiles`, `AssemblyNeverRejects`, `SidecarWhole`,
`CurrentnessAgrees`, `PriorKept`. The invariant says of each record what its
attempts may look like (`RecordsInv`), of the files what the records claim of
them (`DiskInv`, `SpillInv`), and of the summary what it counts (`SummaryInv`).
The layout of the functions is a sum over the runs of all regions, computed by
the recursive functions `RunsOf` and `NextFunction`: what they return for one
more region, and that the two agree, is proved by induction over the length in
the form of the least counterexample (a nonempty set of natural numbers has a
least member, from the library's well-foundedness of `<` on `Nat`), since the
library's own induction rules cannot be instantiated.

Of `ThumbRegion`, in the same module: `StreamIsTheDocument`
(`SpillMatchesReference`), for every capture, image and limit of the budget. The
argument has three layers.

- What the operators compute, for sequences of any length. Each recursive
  function has a lemma that it exists and of what type it is
  (`RecursionExists`), and one that says what it returns, by induction over the
  positions (`EveryPosition`): a sort by keys is a permutation in order
  (`SortedByFacts`), comparing with the farthest end so far finds an overlap
  exactly when two extents share an address (`OverlapFacts`,
  `DisjointIsInOrder`), joining what touches leaves ranges that are apart and
  cover the same addresses (`JoinedFacts`), and their number and bytes are those
  of the covered set (`CoverCount`). So the ranges of the stream are the sets of
  the reference (`ProjectionFacts`, `CountFacts`).
- What the whole document pairs: each function with the least body of its
  address that no earlier one has (`ByEntryFacts`, `PairsFacts`), and no body
  with two.
- `RegionInv`, the inductive invariant (`RegionKeepsToReference`). In the first
  reading the functions that have a body are those whose body by the reference
  lies before the reader (`MatchInv`): the parser gives a body to the least
  function of its address, the reference gives a function the least body of its
  address, and the two meet because both are greedy. In the second the functions
  paired by position follow (`FallbackInv`), then those without a body
  (`RestInv`); the slots written are the reference's, one for each function,
  and the budget charged is the sum over them (`SlotsInv`). A failure is the
  reference's too: a record it rejects, or a sum that only grows from there
  (`SlotStep`, `TotalGrows`). At the end the sorted spill is the inventory
  because what increases and misses no number counts (`Counting`).

`ParsedRegionsFit` ties the two modules: whatever `ThumbRegion` parses has the
counts that `ThumbCoordinator`'s `Parse` assumes, provided the coordinator's bound
on functions is not below the parser's limit.

`PassTwoInputs_proofs`: each property of the `pass_two` run is a theorem:
`ContextSpeaksOfThisRun`, `PublishedManifestsBind`, `AppliedWhatWasBound`,
`SecondPassAllOrNothing`. The invariant follows a file from where it is made to
where it is read: what generation found is what is known of it (`FoundInv`), what
the kit holds where it is moved without another look (`KitInv`), what an outcome
says of the image's directory (`OutInv`), that a context and a snapshot are of
one run (`CtxInv`, `SnapInv`), and that a script that was let in read what it
was promised (`AppliedInv`). A file is this run's or altered since (-1), and
every reader refuses the altered one.

`DecomposeRoute_proofs`: each property of the `route` run is a theorem:
`ReportRowsCurrent`, `SidecarsBindFinal`, `GlobalsKeepTheirPlace`,
`ForeignTreesStayOut`, `OkReportsAreHonest`. All properties but one speak of the end of
the pipeline only, so the invariant (`Invariance`) says what holds at each step
of each route: `TodoInv` that what is left is the end of the pipeline, from
which `Moves` derives the step that follows each step; `ReportInv` who holds
the results; `RowInv` when a row lags behind them (between the globals and the
second pass, and nulled when the second pass fails) and that it never does
otherwise; `KeptInv` that no outcome is kept before its stage; `GlobalsInv`
which images have a `globals.json` and what their text shows; `BindInv` what
the sidecars bind; `HonestInv` that each failure is in the entry of its stage
or has not happened; `MapsInv` that a map without a snapshot makes the second
pass fail. One lemma per action; `KeepWorks` and `ReapplyWorks` say what the
operators on rows do for every set of groups. Failures are counted with the
cardinality of sets of labelled images, hence the theorems on finite sets.

`SymbolPass_proofs`: each property of the `symbol_pass` run is a theorem:
`SavedAllOrNothing`, `RanksHold`, `ReplaysKeepNames`, `ExportsPublishable`,
`MapsApply`. The invariant (`Invariance`) describes every program that occurs,
the one the scripts work on, the one in the project and the one the current script
began with, by two sets: the functions of pass 1 that were renamed and the
functions that were created (`ProgramOf`). The control state says which sets
(`RunInv`), a saved project has all or none of the renames (`Settled`), the counts are
cardinalities of differences of these sets (`CountInv`), the tree lists functions
of pass 1 and creations only (`TreeInv`). The checks of the scripts follow from the
two sets and from what thunks show; that is by induction along their chains
(`EndOfDef`, `EndOfSame`), again by least counterexample. `MapsApply` is the
theorem that ties the two sides together: whatever the planner authorizes, the
scripts authorize, over the imported program and over every one an earlier run
left, up to the one case that `symbol_thunk` shows.

`GlobalShapes_proofs`: each property of the `shapes` run is a theorem:
`Observations` (`ObservationsTrue`), `SeedsAdd` (`SeedsOnlyAdd`), `Converges`
(`TrackingConverges`). The link between the analysis and the processor is the
`Certificate`: fact states that assume no more at the entry than the seed says
and, at the start of each block, no more than every block that leads there
leaves. Three arguments meet in it.

- Tracking ends in one. `Tracked` is the certificate but for the dirty blocks; a
  visit keeps it, because a join knows no more than the edge and no more than
  before (`JoinFacts`), and what changes becomes dirty (`VisitFacts`). With nothing
  left to visit no block is excepted (`FixpointFacts`).
- Execution follows one. An instruction keeps what its facts say of the registers,
  held or not, wrapped or not (`ApplyHolds`); where it continues its block the
  next one is the only one that can follow, and otherwise what follows starts a
  block (`BlocksFacts`, `StartOfFacts`, `EdgeFacts`, for every set of canonical ranges);
  so a certificate that holds before a step holds after it (`StepHolds`).
- `MachineInv` joins them: wherever the processor is, it has what *every*
  certificate of its function claims there that its way in justifies. A call
  justifies the seed that its own function's cold certificate claims at the call
  (`EnterInv`); a hop of a record leads back to such a call, and to one callee only
  (`RecordsInv`, `ClaimsFollow`).

That the walk of `Reachable` has come to its end after as many rounds as there are
decoded addresses is proved by counting (`ReachableFacts`), what `Through` and `Merge`
compute for one more element by least counterexample. The theorem needs the
exception of `Returned`: with it removed, TLC finds the call of the observation
above.

Out of the prover's reach, and so only model-checked: liveness (`AttemptEnds`,
`GroupDies`, `HangIsKilledWhileWatched`). `TrackingConverges` is proved as what every
visit does; that no run of visits is endless follows from it by an argument on
the finitely many facts and addresses which is not formalized.

## Not modelled

- Builds for other systems than unix: process groups and `waitid` are the
  subject here.
- Processes that leave the analyzer's group: the code cannot reach them either;
  they occur in the model as holders of the pipe.
- Wording, formatting and layout of JSON and C; digests are the contents they
  stand for. The scanner that finds JSON values in an analyzer's output.
- The operations of `trusted_fs` (descriptor-relative, no-follow) are atomic
  steps that may fail; a file that is gone is not told apart from one that was
  altered, as every reader refuses both.
- The scripts of pass 1 and the bodies of the scripts for globals and types.
- Widths, kinds and conditions of accesses and both instruction sets in
  `GlobalShapes`; recovery of the globals and the map of types.
- Container extraction, the discovery passes, debug traces, source recovery and
  the decoders: sequential functions of their input. They, their validators and
  the tests that stand in the same files are most of the repository's lines,
  which is why the map covers a small share of them.

## Plan

1. `ScatterDecompress`: the runs and back references of `decompress1` at the ends
   of its output, against a reference definition.
2. The recovery of globals, as far as two producers decide on one address.
