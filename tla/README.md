# Specifications of the ReScript build system

The repository holds the ReScript compiler (OCaml), its build system rewatch
(Rust), an older build system around ninja (`cli/rescript-legacy.js`,
`compiler/bsb*`), the editor analysis and the runtime library.  These modules
specify the parts whose correctness depends on the order in which things happen:
**rewatch**, which decides what is compiled, when, and from what, runs
compilers in parallel, survives being killed, watches files and excludes other
builds; the **legacy watch mode**, a program of callbacks and timers; and the
**data structures** of the runtime library that keep invariants in mutable memory.
Paths below are relative to `rewatch/src` unless they begin with another
directory of the repository; Belt is `packages/@rescript/runtime/lib/js`.

## Inventory

| Part | State it keeps | Operations | What is hard | Module |
|---|---|---|---|---|
| compile loop, `build/compile.rs` | `BuildState.modules` (deps, dependents, compile_dirty), the sets of the loop, artifacts in `lib/` | `compile`, `compile_file` | parallel bsc processes, partial failure, digest cut-off, cycles | `Compile` |
| incremental build, `build.rs`, `build/{parse,deps,clean,read_compile_state}.rs` | ASTs, `.cmt`/`.cmi` and their times, parse_dirty, deleted modules | `initialize_build`, `incremental_build`, `cleanup_*`, `generate_asts`, `get_deps`, `mark_*` | the process may be killed anywhere; the next one has only file times to go by | `IncrementalBuild` |
| packages and namespaces, `build/{packages,namespaces,build_types}.rs` | packages, source files, the module graph | `parse_packages`, `gen_mlmap` | a namespace depends on its members and is a dependency of other packages | graph in `Compile` |
| dependency cycles, `build/compile/dependency_cycle.rs` | the shortest cycle so far | `find`, `format` | searches cut off by earlier ones, a start set that leaves modules out | `DependencyCycle` |
| build lock, `lock.rs`, `main.rs` | `lib/rescript.lock` | `get`, `create`, `exists` | four steps that are not atomic, a file that is not truncated when written, kills, reused PIDs | `BuildLock` |
| watcher, `watcher.rs` | the kind of the next build, events, the BuildState between builds | `async_watch`, `start` | edits while a build runs, coalesced events, files moved with old times | `Watcher`; how it takes the lock in `BuildLock` |
| event queue, `queue.rs` | `VecDeque`, `Condvar` | `push`, `pop`, `is_empty` | lost wake-ups | `FifoQueue` implements `AtomicQueue` |
| legacy command line, `cli/common/bsb.js` | `.bsb.lock`, the child process, pending rebuild reasons, timers | `acquireBuild`, `releaseBuild`, `onChange`, `build`, `buildFinishedCallback` | callbacks in any order, lock race, dropped events | `LegacyWatch` |
| runtime library, structures of Belt | linked cells, buckets, balanced trees | queues, hash maps, sorting, sets | pointers and cached heights that no call checks | `MutableQueue` implements `Queues`; `HashMap`; `SortArray`, `StableSort`; `AvlSet`, `MutableSet`, `SetDict` |
| configuration, `config.rs`, `cli.rs`, `project_context.rs`, `helpers.rs`, `format.rs`, `sourcedirs.rs`, `build/logs.rs` | none that outlives a call | parsing and formatting | - | not modelled |
| bsc, `compiler/` | none between runs | one file in, artifacts out | large tree transformations | environment of `Compile` |

**How they interact.**  `main.rs` takes the lock and then calls `build::build` or
`watcher::start`.  A build is `initialize_build` (packages, state of the last build
from file times, clean-up) and `incremental_build` (ASTs and namespaces, deps,
marking of expired modules, `compile::compile`).  The watcher calls
`incremental_build` again and again on the same BuildState and `initialize_build`
when files appear or disappear.  `compile` runs bsc through rayon's thread pool; all
bsc processes share the artifact directory of the package.  The file-system
notifier, a thread of its own, feeds the watcher through `FifoQueue`.

The legacy command line is a node process around the old build program: each callback
runs alone, but callbacks interleave with the child, with other commands and with
the user.  Belt's structures are called by one thread; what interleaves there
are the operations of a long sequence of calls.

**What makes each part correct.**  The compile loop: nothing is read while it is
written, nothing out of date is forgotten or left behind by a success, the loop
ends, cycles are reported when there are some.  The incremental build: the same
across processes, whatever was killed.  The lock: one build at a time, refusals that
are true and not for ever.  The watcher: every edit is built in the end, and a build that
reported no error has compiled what there is.  The queue: first in, first out, no lost wake-up.  The legacy
watch mode: the events it drops are none that a build would miss, and its retries
end.  The structures: they hold what was put into them, in the order that they
promise, and keep the invariants that their next call relies on.

## Modules

### `Compile`: the compile loop

| Variable | Code |
|---|---|
| `deps`, `dependents`, `compileDirty` | the fields of `Module` (`build_types.rs:67-77`) |
| `universe`, `compiled`, `inProgress`, `batch`, `total`, `errors` | the locals `compile_universe`, `compiled_modules`, `in_progress_modules`, `current_in_progres_modules`, `files_total_count`, `compile_errors` |
| `job`, `seen`, `digestDiffers`, `result` | the closure run by rayon for a module: where it is, which of its inputs are still what it read, how `cmi_digest` compares with the file now, the tuple it returns |
| `current`, `fresh`, `hasCmi` | the artifacts: built from the present source; dependencies whose `.cmi` did not change since; `.cmi` exists |
| `phase`, `outcome`, `edits` | position in `compile`, its return value, a bound |

`Edit`, `RegenerateMlMap` and `MarkDirty` are what happens to the BuildState between
two calls (`generate_asts`, `get_deps`, `mark_modules_with_*`).  `StartCompile`,
`StartBatch`, the job actions (`SkipClean`, `PassMlMap`, `StartFile`,
`CompileInterface`, `CompileImplementation`), `CollectResults`, `ProcessResult`,
`NextBatch` and `Return` are the call.  The jobs of a batch interleave at every bsc
run.  bsc succeeds, warns or fails as it likes, and a `.cmi` it writes differs from
the old one or not.  Results are applied in any order (the code has that of a hash
set).

Contents of artifacts are abstracted to the two questions above.  Nothing is
assumed about dependency graphs except that `get_deps` removes a module from its own
deps and that a namespace and its members do not depend on each other both ways:
cycles are included.  `Reads(m)` says what bsc opens for `m`: the `.cmi` files of its
deps and, through a namespace, of the namespace's members.

Properties:

* `NoReadWhileWritten`: no two bsc processes of a batch where one is upstream of the
  other.
* `StaleIsDirty`: between calls, however the last one ended, a module that is out of
  date is dirty or depends on a dirty namespace, and so is in the next universe.
* `SuccessLeavesNothingStale`: a call without errors leaves nothing out of date,
  although it skips dependents of modules whose `.cmi` digest did not change.
* `CycleWhenStuck`: `dependency_cycle::find` is called only if there is a cycle.
* `CompileEnds`: every call returns.

### `IncrementalBuild`: builds one after the other

It extends `Compile` with the steps around the loop and with what one build leaves for
the next.  Every run is a process of its own: when it ends or is killed, `deps`,
`dependents`, `compileDirty` and the locals are gone (`Forget`), and the next one
reads its state from files.

| Variable | Code |
|---|---|
| `step` | where `build::build` is: `initialize_build` leads to "parsing", then "marked", "compiling", "cleanup", "down" |
| `present`, `refs` | the source files, and the module names in them |
| `onDisk`, `newer` | sources, `.ast`, `.iast` and `.cmt` files in `lib/ocaml`, and which was written after which; the code compares `last_modified` |
| `parsed`, `answered` | what the contents of the files are worth: ASTs that are those of the present text; what bsc said of a source as it is now |
| `unclean`, `logged` | files that bsc made with a warning; warnings of this run |
| `toParse`, `parseFailed`, `deleted` | `parse_dirty`, `has_failure`, `BuildState.deleted_modules` |
| `succeeded` | a history variable: the run before ended in success and nothing changed since |

`initialize_build` is `read_compile_state::read` and `cleanup_previous_build`;
`generate_ast` is the parse of one file; `StopAtParseError` and `get_deps_and_mark`
are the two ways on (`get_deps`, `mark_modules_with_expired_deps_dirty`,
`mark_modules_with_deleted_deps_dirty`); `BeginCompile`, `CompileLoop`, `EndCompile`
are `compile` with the actions of `Compile`; `cleanup_after_build` removes ASTs.
`EditSource`, `CreateModule`, `DeleteModule` are the user between two runs.  `Kill`
may come at any step, and also after the `.cmi` of a module was copied and before its
`.cmt` was.  bsc is deterministic (`Answer`): what it says of a source stays the same
until the source or a `.cmi` it reads changes, so no counterexample needs an error
that comes and goes.

Three constants say what may happen, and each property is checked under the weakest
restriction it needs:

| Property | holds with | fails with |
|---|---|---|
| `UpToDateAfterSuccess` | neither of the three | a half-accepted module, a deleted module, a kill between two copies |
| `RepairedByNextRun` | `Kills`, modules without interface (proved) | a rejected interface (`HalfFailures`), `Kills` with an interface, `Deletions` |
| `RepairedButForDeletions` | `Kills` or `Deletions`, modules without interface | a rejected interface, `Kills` with an interface, `Kills` and `Deletions` in one behaviour |
| `ParsedBeforeCompiled` | all of them | - |
| `WarningsAreShownAgain` | `Deletions` | `Kills` (no `cleanup_after_build`) |

`UpToDateAfterSuccess` says that a build that reports success left no module out of
date; `RepairedByNextRun` says it of the second of two builds in a row that report
success, which is what the comparison of `.cmt` times can still give after a kill.
`RepairedButForDeletions` says the same of modules that name no deleted module.

### `BuildLock`: the lock

`Start`, `Read`, `Check`, `Create`, `Write` are a command on its way through
`main::get_lock` and `lock::get`; `Exit` is the end of a command or its death at any point;
`RemoveLockfile` is the user (and the tests) deleting the file; `ForeignStart` and
`ForeignStop` are other programs taking and freeing PIDs.  PIDs are sequences of digits:
`File::create` truncates the file, the `write` that follows does not, so what another
command has written in between stays behind the end of a shorter PID (`Overwritten`).
Everything may happen in one run, and history variables say what has gone wrong:

| Variable | Meaning | Property |
|---|---|---|
| `overlapped` | since there last was no command at all, one has started while another was taking the lock | `AtMostOneHolder`: if not, at most one command holds the lock |
| `misleading` | numbers in the file, or read from it, that a process has got since, or that are a mixture of two PIDs | `LockedByAnother`: a refusal for any other number names a rescript command that runs |
| `abandoned` | the command that emptied the file has ended without writing it | `UnparsableOnlyWhileWritten`: if not, a file without a PID is being written |

Without the exceptions the properties are what `lock.rs` says of itself, `OneBuildAtATime` and
`RefusalNamesACommand`, and two runs refute them.  `PidReuse` is a constant only because the second
is refuted by a reused PID sooner than by a mixture.

What a watcher does when its lockfile is deleted is in `Watcher`.

### `Watcher`: the event loop

| Variable | Code |
|---|---|
| `text`, `ast`, `cmt` | the sources, and the text from which each `.ast` in `lib/bs` and each `.cmt` was made |
| `misdated` | a history variable: sources of which the copy may be newer although it is not made from their text |
| `copied`, `astNewer`, `cmtNewer` | the sources with a copy of the AST in `lib/ocaml`, the file whose time is compared; whether that copy is newer than the source, and the `.cmt` newer than the copy |
| `inFlight`, `queue`, `events` | events before the notifier has pushed them, in the `FifoQueue`, and drained to the local of that name |
| `needs`, `step` | `needs_compile_type`; the position in the loop of `async_watch` |
| `known`, `parseDirty`, `compileDirty` | `build_state` between two builds |
| `toParse`, `reading`, `hasFailure` | `generate_asts`: sources without a bsc yet, what a running bsc has read, `has_failure` |
| `outcome`, `announced` | what the last `incremental_build` returned, whose errors it prints itself; which "Finished ... compilation" the loop printed after it, if any |
| `pressed`, `changes` | `ctrlc_pressed`, a bound |

`Edit`, `Create`, `Delete`, `Replace`, `RemoveLockfile` and `PressCtrlC` are the user, at
any time; `Notify` is the notifier's thread.  `CheckCtrlC`, `Drain`, `EndDrain`,
`HandleEvent`, `LockfileRemoved`, `Sleep`, `IncrementalBuild` and `FullBuild` are a round
of the loop; `ReadSource`, `WriteAst`, `FailSilently`, `StopAtParseError` and `Compile` the build
in it.  bsc reads a source and writes its AST in two steps, between which the
source may change.  A build may end the watcher by a panic: a source that is gone when it is to be read
(`SourceIsGone`), an AST that is not there when its deps are read (`AstIsMissing`).

`EndBuild` is the end of either kind of build.  An incremental build that failed prints no more
than its errors.  The result of a full build is dropped, and "Finished compilation" is printed whatever it
was; `Announcement` tells the two apart.

* `NothingForgotten`: at rest, the modules are those of the sources there are, and each source
  was compiled as it is now or is still marked, but for those that are `misdated`.
* `LastOutcomeIsTrue`: at rest, if the last build returned no error, or the end of an
  initial or incremental compilation was announced after it, all sources are compiled as they
  are, with the same exception.
* `ComesToRest`, `StopsWhenTold`: the loop settles after the last change, and ends when
  the lockfile is deleted or Ctrl-C was pressed, also in the middle of a build.

A source is misdated for one of three reasons, each with a switch.  All are on in the run
`watcher`.  `FullScanFindsChanges`, which makes no exception, is what a comment in `watcher.rs`
says; each switch alone breaks it (`watcher_lost_edit` for the first), and without all three it is proved.

| Switch | What may happen |
|---|---|
| `EditsWhileParsed` | a source changes while bsc parses it |
| `OldFilesMoved` | a file that is moved to a source is older than its AST |
| `SilentFailures` | a bsc that parses is killed and prints nothing, which counts as success: the AST that there is is copied with a new time |

### `FifoQueue` implements `AtomicQueue`

`push`, `pop` and `notify_one` with the mutex as the grain of a step, threads that sleep in
`Condvar::wait` and those that were woken and compete for the mutex again.
`NoLostWakeup` is about the consumers that sleep while values wait;
`ImplementsAtomicQueue` maps the deque to the abstract queue and leaves the waits out.

### `LegacyWatch`: the legacy watch mode

Each callback of `bsb.js` is an action: the `close` of the child (`CloseCommand`,
`BuildFinished`, `WatchMissingDir`), `onChange`, `Immediate` and `Timeout`, which both run
`build`, and signals (`exitProcess`).  `Kill` is SIGKILL.  `recent` stands for the clock:
what happened in the 5 ms that `onChange` looks back on, until `FiveMilliseconds`.  The child
reads the sources in one step (`Scan`) between its start and its exit.  `unread` are
the changes that no build has read.

* `EveryChangeIsRead`: a watcher at rest has missed no change, and watches the
  directories of the project, unless its last build failed.  Needs `QuickScans = FALSE` (a
  child takes 5 ms to start; otherwise an event just after its scan is dropped) and
  `Unwatched = FALSE` (nothing is edited in a directory before it is watched).
* `LockIsNotLeftBehind`: only SIGKILL leaves a lockfile of a build that ended.
* `Settles`: the retries, every 40 ms and then less often, neither starve a rebuild nor go
  on for ever.

That the lock excludes other builds is not claimed: `acquireBuild` starts the child before
it creates the lockfile and returns the child also when the file exists
(`cli/common/bsb.js:50-70`).

### `DependencyCycle`: the cycle that is reported

`FindFrom` is one turn of the loop over start nodes in `find`: the order by connectivity,
the bound from the shortest cycle so far, the early stop.  `find_cycle_bfs` is the search, given
by its layers: which of several parents is recorded depends on a hash set, so every way back
is a possible result.  `CycleFoundIffThereIsOne` and `CycleIsShortest` compare the
result with reachability and girth, defined independently.

### The structures of the runtime library

* `MutableQueue` has the heap of cells and the records of `Belt_MutableQueue`: `add`, `pop`,
  `map`/`copy`, `transfer`, `clear`.  It implements `Queues`, which knows only sequences
  (`ImplementsQueues`); `ChainsAreSound` is what the operations rely on: `length` counts the
  cells, `last` is the end of the chain, no two queues share a cell.
* `HashMap` has the buckets of `Belt_HashMap` and `Belt_internalBuckets`: `set` with resize
  and rehash, `remove`, `clear`, `keepMapInPlace`.  `Doubled` is the 32-bit `<<` that makes the
  table stop growing; `SignBit` is the first number that does not fit into a word.  `EntriesAreTheBindings` is about
  iteration, `TableHoldsItsBindings` about lookup.
* `SortArray` holds the sort and the binary search of `Belt_SortArray`.  Its loops are functions
  of how often they were done and `sortTo` one of how many elements a call has; it is only defined
  for `Calls`, whose two parts do not overlap.  `StableSort` calls them.
* `AvlSet` holds the merges of sorted arrays and the operators of `Belt_internalAVLset`, both those that share nodes and
  those that change them in place; `MutableSet` and `SetDict` are the two interfaces, each
  as a state machine whose calls come in any order.  `...HoldsItsMembers` compares a tree with the set
  that the calls describe; `...IsBalanced` says that cached heights are true and
  siblings within 2; `MutableSetAnswers` is about the queries.

`MCStructures` puts these and the two queues above beside each other: a behaviour chooses one `subject`
and calls only its operations, and the others stay in their initial state.  They
share nothing, so nothing is lost by that.

## Runs

| Run | Instance | Shows |
|---|---|---|
| `compile_calls` | a source file with an interface, one without and a namespace, all graphs, 2 edits | types, nothing stale is forgotten or left by a success, no read while written, changes pass through namespaces, cycles beside acyclic parts, termination |
| `lock` | 2 builds and a watcher, 4 PIDs of one or two digits, everything | exclusion and true refusals, with the exceptions above |
| `lock_race` | the same with 4 PIDs of one digit that are not reused | overlapping starts do break exclusion |
| `lock_mixture` | the same with PIDs of one or two digits | overlapping starts leave a PID of neither |
| `build_interface` | a module with an interface, one without, 2 edits | success means up to date; warnings come back |
| `build_kills` | 2 modules without interface, 2 edits; kills, deletions and creations | what a kill or a deletion leaves is repaired by the next run; no old AST is compiled |
| `build_deleted` | 2 modules, deletions, no kills | a build succeeds without a module that others need |
| `watcher` | 2 sources, 3 texts, 2 changes, all three switches | no change is forgotten, a build without error has compiled everything, but for misdated sources; the loop rests and stops |
| `watcher_lost_edit` | 4 texts, edits while a source is parsed | an edit is lost for ever |
| `legacy_watch` | a watcher and a build, 2 directories, 3 changes or kills | dropped events are covered by a build, no stale lock, retries end |
| `structures` | each structure, see Bounds | refinements, invariants and answers of the structures |
| `hash_map_keep` | a hash map of 4 keys | `keepMapInPlace` loses entries |

**Bounds.**  `MaxEdits` limits the changes between calls of `compile`, not the calls.
Two edits are enough for an edit on top of a failed build (the state a failure leaves,
then a change of the graph); what more modules and edits could show of the compile loop
the proofs below cover.  Three modules give chains, a shared dependency, cycles of
two and three, and a cycle of two beside a module that does compile.  Symmetry is used only where no
liveness is checked, over modules without interface and over PIDs.  Three
processes and four PIDs leave a PID free for another program while all
commands run; of the PIDs of unequal length one is what is left when another is written over
the third.  `IncrementalBuild` needs two modules for a dependency (in either
direction, or a cycle of two) and two edits for "break and repair"; the number of runs
and kills is not bounded.  With two modules a behaviour may have both kills and deletions;
with three that is too much, and `RepairedButForDeletions` promises less (below): for kills
alone it is proved; deletions alone of three modules were searched to a depth of 35 steps, without
a counterexample.

`Watcher` needs two sources so that an event of one comes while the other is parsed, three
texts (good, with a syntax error, with a type error) because each takes another way through a
build, and two changes so that the second meets the build of the first; its safety is proved for any
number.  A text with a warning differs from a good one only in what stays marked; with it the
run `watcher` passes too, and takes three times as long.  `LegacyWatch` needs two
directories for one that is added while the other is edited, and three
changes for a change, a kill and a change after it.

The structures: three consumers and four values, so that one thread is woken, one
sleeps and one comes between; every graph of five modules with up to two deps each, in a
universe of all and one of three (five modules give a cycle of four and of five beside
shorter ones; a renumbering keeps one graph of each kind); two linked queues with four cells; four keys
of which three collide until the table has grown twice, where 4-bit words end its growth;
sorts of up to twelve elements, since insertion sort takes pieces of five and twelve
need merges of merges; sets of up to nine elements, which give trees
of height four and rotations of every kind, built and combined with eight arrays (empty,
ascending, descending, with repeats).  `MaxLen`, `MutMaxSize` and `DictMaxSize` bound a
structure's size and not the number of calls.

**Fairness.**  `Compile` has weak fairness of the steps of a call that has begun: bsc
terminates and rayon schedules its jobs.  Nothing obliges anybody to edit or build.
`IncrementalBuild` has weak fairness of the steps of a run, for the same reasons; a run
that is killed is not obliged to anything.  `BuildLock` has none.  `Watcher` has
weak fairness of `Notify` and of `LoopStep`: two threads that run on, and a bsc that ends; the
user does nothing by obligation.  `LegacyWatch` has weak fairness of each kind of
callback for itself (node's queues serve all that is due), of the child (it ends) and of
time; no fairness of users, orphans or signals.  The structures have no
liveness properties.

Operators with a suffix (`Ready_Always`) are faults used to see that each property
can fail; no specification uses them.

## Proofs

Safety is proved for all values of the constants in the modules below.  The assumptions are
those of the modules they extend: sets that the code's hash tables
hold are finite, kinds of things are subsets of them, markers are not members.

`CompileProofs`.  The inductive invariant `IInv` has, besides
types and bookkeeping: `ReverseEdges` (dependents covers deps, and a namespace is a
dependent of its members only), `UniverseClosed`, `JobsAreReady` and
`CompiledAreReady` (what runs or has run had its dependencies compiled),
`ReadyInProgress` and `BatchNotReady` (why a batch without progress means a cycle),
`RunningJobs` (what a running job has read did not change under it), `MlMaps` and
`NothingForgotten`: whatever a clean module has read and is no longer what is on disk
is *awaited*, that is, its writer has a job or result that will mark the dependents,
or a dirty namespace will.  `SuccessLeavesNothingStale` is not inductive because it
says nothing of a call under way; `DoneIsUpToDate` and `CompiledIsUpToDate` carry it
through the loop.  Theorems: `TypeCorrect`, `NothingStaleIsForgotten`,
`SuccessIsFresh`, `NoConcurrentReadAndWrite`, `CycleIsReal`.

`IncrementalBuildProofs` proves `BuildTypeCorrect` and `OldAstIsNotCompiled`
(`ParsedBeforeCompiled`) without a switch: for kills and deletions too, if what the user writes
has a new time and a bsc that fails says so, which are assumptions of the module.  `PInv` says
that an AST newer than its source holds the text of that source (`NewerAstIsParsed`), that a
source whose AST does not is among those to parse until the run has parsed them all
(`ParsedOrToParse`), and that only modules that exist are dirty or have jobs.

`BuildSuccessProofs` proves `SuccessMeansUpToDate` (`UpToDateAfterSuccess`) under
`Undisturbed`: no kill, no deletion, a bsc that rejects both files of a module or
neither.  Between two processes nothing is left but the times of files, so `SInv` says what
those tell: a `.cmt` newer than an AST of its module belongs to a compilation of the last
text (`CompiledIsCurrent`, for which both files must have been parsed together,
`BothAreParsed`), and whatever a compiled module uses is either what it has read, or newer than its `.cmt`, or
half written by a call under way (`ChangedIsNewer`, `HalfDone`).  From the moment
dirty modules are marked the state satisfies `CompileProofs!IInv` (`CallIsSound`), and its step lemma
carries the call.  The three parts of `Undisturbed` are needed: for each of them a run
or a changed constant below breaks the property.

It also proves `WarningsAreKept` (`WarningsAreShownAgain`), under the same
`Undisturbed`.  A warning outlives its process only in what `cleanup_after_build` did
to the ASTs, so `WInv` says of each file with a warning what will make a later run give it again: a
source of its module is dirty (`UncleanAsts`), or its `.cmt` is not newer than
any AST (`UncleanCmts`).  That a success has compiled all of those needs `DirtyIsMarked`,
`DoneWasWritten` and the count of `CompileProofs!CountIsComplete`.

And it proves `KillsAreRepaired` (`RepairedByNextRun`, and with it
`RepairedButForDeletions`) under `OnlyKilled`: builds are killed anywhere, modules have no
interface and are not deleted.  `IInv` does not survive a kill: a job that has copied its `.cmi` and
not its `.cmt` leaves a dependent that is out of date and that no time gives away.
`RInv` rests on two ideas.  A module is *bound* to be compiled if the times make the next run
mark it, and only bound modules have jobs (`DirtyIsBound`, `ChangeBinds`); so whatever
a kill interrupts is bound afterwards, and of a compiled module the times *tell* whether each
dependency changed unless that dependency is bound (`ToldOrBound`).  The run after the kill therefore
compiles whatever the times do not tell, and if it ends well they tell
everything (`ToldOrToCompile`, `SuccessSettles`); that it need not be up to date itself is the
reason why one success is not enough.  The next run then starts from a state in which `IInv`
holds (`CallIsInOrder`).  The part of the loop's invariant that says nothing of
contents, `CompileProofs!LoopInv`, holds in every run and is proved apart for this.

`BuildLockProofs` proves `TypeCorrect`, `MutualExclusion`, `RefusalIsTrue` and
`UnparsableIsTransient`, without an assumption on what happens.  `Exclusive` is what holds until starts
overlap: one command takes the lock at a time (`OneStarter`), the file names the holder
(`HolderIsNamed`), what was read from it is still in it (`FoundIsCurrent`) and nobody else has written
it (`EmptyWhenWriting`); when the last command ends it holds again of whatever is left.  Refusals do
not rest on exclusion: `OutsidersMislead` says that a number in the file, or read from it, that names a
stranger or the reader itself is one of `misleading`, and `PidsDistinct` that a PID names one process.

`WatcherProofs` proves `WatcherTypeCorrect`, `NoChangeIsForgotten` (`NothingForgotten`) and
`OutcomeIsTrue` (`LastOutcomeIsTrue`) whatever the switches are, and without the three
`FullScanIsEnough` (`FullScanFindsChanges`), because then no source is misdated (`NothingMisleads`).
The properties speak only of a watcher at rest; what carries them there are events.
`Pending` collects those in flight, queued and drained; the invariant says that a source
that came or went has a structural event pending (`KnownIsPresent`), that one whose AST is
older is marked or has an event of its own (`DirtyOrParsed`), that an AST
newer than the `.cmt` is marked (`DirtyOrCompiled`), and that a build that will succeed leaves
nothing unparsed but what has an event (`ParsedUnlessFailed`, `OkIsTrue`); an incremental compilation
is announced only after a build that returned no error (`AnnouncedIsOk`).  `Settled`
excludes the states in which a full build is due that reads everything anew.

Of the event queue it proves `QueueTypeCorrect`, `NoWakeupIsLost` by counting the woken
threads, and `QueueIsAtomic`, the refinement: a push or a pop of a value is
the abstract one, a wait or wake-up is a stutter.

`LegacyWatchProofs` proves `LegacyTypeCorrect`, `NoStaleLock` and `NoChangeIsMissed`
(`EveryChangeIsRead`).  The type invariant says that a command that is off has no events; to
keep that it needs `OffWatchesNothing`: no watcher of it is left that could report one.  That
no dropped event is missed holds without `Unwatched` and `QuickScans`, each of which breaks it.
The invariant says that while a watcher runs either every source was read and every directory
listed, or something answers for it: a pending reason, an event, a child that has still to read, a
failed one; the same of the directories it watches, once the child has ended; and that an event is
dropped only while one of these does.

`BeltProofs` proves of the linked queues `QueuesShareNoCell` (`ChainsAreSound`) and
`LinkedQueuesAreSequences`, the refinement of `Queues`, for any number of queues and cells.
`Walk`, which follows `next`, is a recursive function: lemma `Iteration` shows that it exists, and
`ChainIs` what it finds.  Both go by induction on a set of numbers (`Induction`, from the
least-number principle `Least`), since the library's induction theorems take an operator.  After that
an operation is a change of one sequence of cells.  The invariant says that the chain from `first`
ends at `last`, has the length the queue states and shares no cell with another queue.

Of hash maps it proves `HashMapListsItsEntries` (`EntriesAreTheBindings`) and
`HashMapFindsItsBindings` (`TableHoldsItsBindings`), for any keys, hash function and number of
buckets, if `keepMapInPlace` keeps no two cells of one bucket (`~KeepSeveral`; the run
`hash_map_keep` shows that this is needed).  The invariant `Binds` says that each bucket is a chain of
just the bound keys that hash to it, and `size` their number.  What takes work is `RehashKeeps`: the
new buckets take the cells in the order in which the old table lists them, so that order must be a
total one (`ListingOrders`) and a finite set that is ordered can be listed (`Enumerated`).

`DependencyCycleProofs` proves `CycleIsFound` and `ShortestIsFound` for any graph of modules, with
no bound on deps or modules.  `Visited` and `Reaches` are recursive functions as well (`Recursion`,
`Climb`).  Both are measured by walks: one of `k` deps is followed by the reference in `k` steps
(`WalkIsReached`, `ReachedIsWalked`) and by the search as far as it is not cut off
(`WalkIsVisited`); from a module that closes a cycle the parents lead back to the start
(`ParentsLeadBack`), so a search finds a cycle if one through its start is shorter than the bound
(`BfsFinds`).  The invariant is that no module that was tried is on a cycle shorter than the one
known.  The start set loses nothing because a module without deps or dependents is on no cycle.

Of the sort it proves `SortIsStable` (`SortedAndStable`) and `SearchIsExact` (`SearchFindsTheKey`),
for any array and key.  `Stages` says that a function whose stages depend on each other exists;
`InsertionSorts` and `MergeSorts` have what a loop keeps as such stages.  The merge goes on in place
because what it writes stays behind what it still reads (`Safe`), and it is stable because the
items of the first part had the lower places (`HalvesAre`).  `HalvesSort` is the step of both callers:
the second half is sorted into the buffer, the first over the second, and the merge of the two needs
neither of the places it overwrites; `SortToSorts` is the induction over the number of elements,
which also shows that every call made is one of `Calls`.  `Searching` is the range that
`binarySearchAux` keeps: the key is between its ends, and it shrinks or stays as it is.

Only model-checked: the liveness properties (`CompileEnds`, `ComesToRest`, `StopsWhenTold`,
`Settles`), which the prover does not treat;
`RepairedButForDeletions` when sources are deleted; and what RECURSIVE operators compute
(`AvlSet` with `MutableSet` and `SetDict`), which the provers cannot expand.

## Disagreements with the code's own words

Five runs end in a counterexample; `findings` in `PROJECT.json` quotes what they disagree with.

1. Two commands that start together can both take the lock (`lock_race`).
2. If their PIDs differ in length the lockfile may end with a PID of neither, and later
   commands are refused in the name of a program that has nothing to do with rescript
   (`lock_mixture`).
3. A module that others need is deleted: the first build fails, or not even that one
   if the module had warnings, and later ones succeed (`build_deleted`).
4. A source is replaced by another file while bsc parses it: the event asks for a full build,
   which compares times only and takes the AST of the old text for that of the new
   file (`watcher_lost_edit`).
5. `keepMapInPlace` of a hash map links a kept cell to itself: when a bucket keeps several,
   entries are lost or listed for ever (`hash_map_keep`).

Others need only a constant of a `.cfg` changed.  In `MCIncrementalBuildInterface.cfg`:

* `HalfFailures = {"implementation"}` breaks `UpToDateAfterSuccess`.  An interface is
  accepted, its implementation is not, and is then repaired: the build succeeds with
  dependents compiled against the old interface, because `mark_modules_with_expired_deps_dirty`
  asks for `last_compiled_cmt` twice and never for `last_compiled_cmi`
  (`build/compile.rs:776`).  The next build repairs it.
* `HalfFailures = {"interface"}` and the invariant `RepairedByNextRun`: bsc rejects an
  interface and accepts the implementation, whose `.cmt` is then newer than both ASTs;
  all later builds succeed (`build/clean.rs:176`).
* `Kills = TRUE` and `RepairedByNextRun`: a build is killed after it parsed
  an implementation and before it parsed the interface.  The older `.iast` clears
  `compile_dirty` again and the edit is never compiled (`build/clean.rs:177`).
* `Kills = TRUE` and `UpToDateAfterSuccess` (a kill between the copies of `.cmi` and
  `.cmt`) or `WarningsAreShownAgain` (a kill before `cleanup_after_build`).

In `MCIncrementalBuildKills.cfg`, a third module: with
kills and deletions together `RepairedButForDeletions` fails.  `c` uses `b` and `b` uses `a`; after an
edit of `a` the build is killed between the copies of `b`'s `.cmi` and `.cmt`, then `b`'s dependency
`a` is deleted and the next build killed after its clean-up.  Two successful builds follow that compile
`b` or `c` no more, and `c` was compiled against the old `.cmi` of `b`.

In `MCWatcherLostEdit.cfg`, another of the three switches: with `OldFilesMoved` alone a file that is older
than the AST is moved over a source with nothing being parsed, the full build does not parse it, and the
old text stays compiled; with `SilentFailures` alone a killed bsc leaves the old AST for that of the
new text.  In `MCBuildLockMixture.cfg`, `PidReuse = TRUE`: the "build is already running" message names
somebody else.  In the run `lock`, `abandoned`: a kill between `File::create` and `write` leaves
a lockfile that refuses every later command.  And in `LegacyWatch` `Unwatched` (an edit in a directory before it is
watched is missed) and `QuickScans` (a change just after the scan of a child that
was quick is dropped).

Seen while reading, and part of the models without a property of their own:

* The watcher panics if a dirty source is deleted before `generate_ast` reads it
  (`build/parse.rs:289`, `SourceIsGone`), and if a module has no AST when deps are read
  (`build/deps.rs:33`, `AstIsMissing`); `Over` in the liveness properties allows both.
* After a full build the watcher runs `after_build` and prints "Finished compilation" also
  when the build failed, because it drops the result (`watcher.rs:275-298`); after an
  incremental one that failed it does neither.
* A bsc that fails and prints nothing counts as one that succeeded (`build/parse.rs:316-324`).
* The warnings of the parser are lost after a full rebuild of the watcher, which never
  calls `cleanup_after_build`, although `build/parse.rs:113-115` means to "keep on
  propagating the warning with every compile".
* The legacy watch mode starts to watch whatever the exit code of its first build
  (`cli/common/bsb.js:470-472`), and ends by an uncaught exception if `.sourcedirs.json` names a
  directory that is gone (`WatchMissingDir`).
* The comment at `build/compile/dependency_cycle.rs:37` speaks of nodes with no incoming
  edges where the code leaves out those without deps; `CycleFoundIffThereIsOne` shows
  that this loses no cycle.

## Not modelled

Of `IncrementalBuild`: namespaces across processes (regenerating one is in `Compile`), `.cmj` and
`.js` files, files whose times are equal, `write_build_ninja` and the `clean` command; the deletion of an interface
whose module stays (`deleted_interfaces` in `build/clean.rs`); sources that are moved with old times and a bsc that
fails in silence, which are in `Watcher`: across processes they break
`ParsedBeforeCompiled` for the same reasons.
Of `Watcher`: dependencies between sources (those are in `Compile`, whose call is one step
here), the filters on paths, `after_build`.  Of `LegacyWatch`: the WebSocket that announces
builds, the filter on file names, arguments.

Of Belt: `Belt_Map*`, `Belt_HashSet*` and the variants for `Int` and `String` keys are the
algorithms of `AvlSet` and `HashMap` over again with another comparison or a value beside the key;
`copy` of a hash map; `Belt_List`, `Belt_Array`, `Belt_Option`, `Belt_Result` and the bindings
of `Stdlib` are functions without state.  Each file of the library exists twice, in
`lib/es6` and `lib/js`; the modules are about the algorithm and name the one in `lib/js`.

Not at all: the compiler and the analysis, which are transformations of trees
without concurrency; configuration and command line parsing, which keep no state; the
compiled projects under `analysis/examples`, which are test inputs; bsb, which writes ninja
files in one pass; ninja, which is vendored.

Worth adding, in this order: namespaces in `IncrementalBuild`; the dependencies of
`Compile` in `Watcher`; a proof of what deletions leave, which needs a loop invariant for
modules that are named and have no sources.
