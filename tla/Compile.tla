------------------------------ MODULE Compile ------------------------------
(***************************************************************************)
(* The compile loop of the rewatch build system: `compile::compile` and    *)
(* `compile_file` (rewatch/src/build/compile.rs), together with the parts  *)
(* of the BuildState that outlive one call of it.                          *)
(*                                                                         *)
(* A call takes the modules that are marked compile_dirty, closes them     *)
(* under `dependents` (the compile universe) and works through the         *)
(* universe in batches.  The jobs of a batch run in parallel (rayon), the  *)
(* results are then applied one by one.  A module is compiled by running   *)
(* bsc, which reads the .cmi files of the modules it depends on and writes *)
(* its own; a dependent is recompiled only when that .cmi really changed.  *)
(*                                                                         *)
(* The contents of artifacts are abstracted to two questions: was the      *)
(* module built from its present source, and has the .cmi of a dependency  *)
(* changed since the module was built against it?                          *)
(***************************************************************************)
EXTENDS Integers, FiniteSets

CONSTANTS
  Module,          \* the keys of BuildState.modules
  MlMap,           \* those whose source_type is MlMap: the namespace modules
  WithInterface,   \* source files that have a .resi
  MaxEdits         \* bound on the changes made between the calls of compile

ASSUME ModuleAssumption == IsFiniteSet(Module)
ASSUME KindAssumption == /\ MlMap \subseteq Module
                         /\ WithInterface \subseteq Module \ MlMap
ASSUME BoundAssumption == MaxEdits \in Nat

SourceFile == Module \ MlMap

(***************************************************************************)
(* An operator named after another with a suffix, such as Ready_Always, is *)
(* that operator with a fault a change to the code could introduce; the    *)
(* specification does not use it.  PROJECT.json lists which property of    *)
(* which run detects the fault when the operator takes the other's place.  *)
(***************************************************************************)

VARIABLES
  deps,          \* Module.deps
  dependents,    \* Module.dependents; get_deps only ever adds to it
  compileDirty,  \* the modules with compile_dirty set
  current,       \* source files whose artifacts come from their present source
  fresh,         \* fresh[m]: what m reads and has not changed since m was built
  hasCmi,        \* modules with a .cmi in lib/ocaml
  edits,         \* number of changes so far, for MaxEdits only
  phase,         \* where the call of compile is
  universe,      \* compile_universe
  compiled,      \* compiled_modules
  inProgress,    \* in_progress_modules
  batch,         \* current_in_progres_modules
  total,         \* files_total_count
  errors,        \* compile_errors is not empty
  outcome,       \* how the last call ended, "none" once a change follows it
  job,           \* state of the parallel job of a module
  seen,          \* seen[m]: what m reads and has not changed since m's job began
  digestDiffers, \* modules whose cmi_digest is absent or is not that on disk now
  result         \* what a finished job returned

project  == <<deps, dependents, current, fresh, hasCmi, edits>>
loopVars == <<universe, compiled, inProgress, batch, total, errors, outcome>>
jobVars  == <<job, seen, digestDiffers, result>>
vars == <<project, compileDirty, phase, loopVars, jobVars>>

(***************************************************************************)
(* What bsc says of a file: nothing, a warning on stderr or a failure; a   *)
(* module without a .resi has no interface result.                         *)
(***************************************************************************)
Verdict == {"ok", "warning", "error"}
NoInterface == "none"
JobResult == [impl : Verdict, intf : Verdict \cup {NoInterface}, clean : BOOLEAN]
InterfaceDone(verdict) == [impl |-> "ok", intf |-> verdict, clean |-> TRUE]
Untouched(m) == [impl |-> "ok", intf |-> NoInterface, clean |-> TRUE]

Failed(r)    == "error" \in {r.impl, r.intf}
Succeeded(r) == r.impl = "ok" /\ r.intf \in {"ok", NoInterface}

(***************************************************************************)
(* A namespace depends on the members of its package, and only the entry   *)
(* of a package, which is not a member, depends on the package's own       *)
(* namespace; a module of another package that names a member depends on   *)
(* the namespace alone.                                                    *)
(***************************************************************************)
Graph == {g \in [Module -> SUBSET Module] :
            /\ \A m \in Module : m \notin g[m]
            /\ \A n \in MlMap : g[n] \subseteq SourceFile /\ \A m \in g[n] : n \notin g[m]}

TypeOK ==
  /\ deps \in Graph
  /\ dependents \in [Module -> SUBSET Module]
  /\ compileDirty \subseteq Module
  /\ current \subseteq Module
  /\ fresh \in [Module -> SUBSET Module]
  /\ hasCmi \subseteq Module
  /\ edits \in 0..MaxEdits
  /\ phase \in {"idle", "loop", "batch", "results"}
  /\ universe \subseteq Module
  /\ compiled \subseteq Module
  /\ inProgress \subseteq Module
  /\ batch \subseteq Module
  /\ total \in Nat
  /\ errors \in BOOLEAN
  /\ outcome \in {"none", "running", "ok", "failed"}
  /\ job \in [Module -> {"idle", "queued", "interface", "implementation", "done"}]
  /\ seen \in [Module -> SUBSET Module]
  /\ digestDiffers \subseteq Module
  /\ result \in [Module -> JobResult]

(***************************************************************************)
(* The first build of a project: every module is dirty and nothing but the *)
(* namespaces, which generate_asts compiles, has a .cmi.                   *)
(***************************************************************************)
Init ==
  /\ deps \in Graph
  /\ dependents = [d \in Module |-> {m \in Module : d \in deps[m]}]
  /\ compileDirty = Module
  /\ current = {}
  /\ fresh = [m \in Module |-> {}]
  /\ hasCmi = MlMap
  /\ edits = 0
  /\ phase = "idle"
  /\ universe = {} /\ compiled = {} /\ inProgress = {} /\ batch = {}
  /\ total = 0 /\ errors = FALSE /\ outcome = "none"
  /\ job = [m \in Module |-> "idle"]
  /\ seen = [m \in Module |-> {}]
  /\ digestDiffers = {}
  /\ result = [m \in Module |-> Untouched(m)]

-----------------------------------------------------------------------------
(* Between two calls: what the steps before compile do to the BuildState.  *)

Change == /\ phase = "idle" /\ edits < MaxEdits
          /\ edits' = edits + 1
          /\ outcome' = "none"
          /\ UNCHANGED <<hasCmi, phase, universe, compiled, inProgress, batch,
                         total, errors, jobVars>>

(* The AST of a module may name the module itself; get_deps removes it. *)
WithoutItself_Kept(m, names) == names
WithoutItself(m, names) == names \ {m}

(* A source file changes and is parsed again: generate_asts marks the module
   compile_dirty, get_deps replaces its deps and adds it to the dependents of
   each of them, but never takes it out of the dependents of the old ones. *)
Edit(m, newDeps) ==
  /\ Change
  /\ m \in SourceFile
  /\ \A n \in newDeps \cap MlMap : m \notin deps[n]
  /\ deps' = [deps EXCEPT ![m] = WithoutItself(m, newDeps)]
  /\ dependents' = [d \in Module |-> IF d \in deps'[m] THEN dependents[d] \cup {m}
                                                       ELSE dependents[d]]
  /\ compileDirty' = compileDirty \cup {m}
  /\ current' = current \ {m}
  /\ UNCHANGED fresh

(* generate_asts compiled a namespace again and its .cmi changed. *)
RegenerateMlMap(n) ==
  /\ Change
  /\ n \in MlMap
  /\ compileDirty' = compileDirty \cup {n}
  /\ fresh' = [m \in Module |-> fresh[m] \ {n}]
  /\ UNCHANGED <<deps, dependents, current>>

(* mark_modules_with_expired_deps_dirty and mark_modules_with_deleted_deps_dirty;
   which modules they mark is decided from times, see IncrementalBuild. *)
MarkDirty(m) ==
  /\ Change
  /\ m \in Module \ compileDirty
  /\ compileDirty' = compileDirty \cup {m}
  /\ UNCHANGED <<deps, dependents, current, fresh>>

-----------------------------------------------------------------------------
(* The call itself. *)

(* The dirty modules and everything that is transitively a dependent of one. *)
CompileUniverse ==
  {m \in Module : \A S \in SUBSET Module :
                    (/\ compileDirty \subseteq S
                     /\ \A x \in S : dependents[x] \subseteq S) => m \in S}

StartCompile ==
  /\ phase = "idle"
  /\ universe' = CompileUniverse
  /\ compiled' = {}
  /\ inProgress' = {m \in CompileUniverse : deps[m] \cap CompileUniverse = {}}
  /\ batch' = {}
  /\ total' = 0
  /\ errors' = FALSE
  /\ outcome' = "running"
  /\ phase' = "loop"
  /\ UNCHANGED <<project, compileDirty, jobVars>>

(* All dependencies that we care about are compiled. *)
Ready_Always(m) == TRUE
Ready(m) == deps[m] \cap universe \subseteq compiled

(* A batch starts: par_iter over a copy of in_progress_modules; the modules
   that are not ready return None and are not touched. *)
StartBatch ==
  /\ phase = "loop"
  /\ batch' = inProgress
  /\ job' = [m \in Module |-> IF m \in inProgress /\ Ready(m) THEN "queued" ELSE "idle"]
  /\ phase' = "batch"
  /\ UNCHANGED <<project, compileDirty, universe, compiled, inProgress, total,
                 errors, outcome, seen, digestDiffers, result>>

Finish(m, r) ==
  /\ job' = [job EXCEPT ![m] = "done"]
  /\ result' = [result EXCEPT ![m] = r]

(* Not dirty: compiled and clean without running bsc. *)
SkipClean(m) ==
  /\ phase = "batch" /\ job[m] = "queued" /\ m \notin compileDirty
  /\ Finish(m, Untouched(m))
  /\ UNCHANGED <<project, compileDirty, phase, loopVars, seen, digestDiffers>>

PassMlMap_AsClean(m) ==
  /\ phase = "batch" /\ job[m] = "queued" /\ m \in compileDirty \cap MlMap
  /\ Finish(m, Untouched(m))
  /\ UNCHANGED <<project, compileDirty, phase, loopVars, seen, digestDiffers>>

(* A namespace was compiled when the ASTs were made.  It is never clean, and so hands
   a change of a member on to the other packages. *)
PassMlMap(m) ==
  /\ phase = "batch" /\ job[m] = "queued" /\ m \in compileDirty \cap MlMap
  /\ Finish(m, [impl |-> "ok", intf |-> "ok", clean |-> FALSE])
  /\ UNCHANGED <<project, compileDirty, phase, loopVars, seen, digestDiffers>>

(* bsc reads the .cmi files of the dependencies of m and, through a namespace, those
   of its members. *)
Reads(m) == deps[m] \cup UNION {deps[n] : n \in deps[m] \cap MlMap}

(* The job takes the digest of the .cmi and runs bsc on the interface, if there
   is one, or else on the implementation. *)
StartFile(m) ==
  /\ phase = "batch" /\ job[m] = "queued" /\ m \in compileDirty \cap SourceFile
  /\ job' = [job EXCEPT ![m] = IF m \in WithInterface THEN "interface"
                                                       ELSE "implementation"]
  /\ seen' = [seen EXCEPT ![m] = Reads(m)]
  /\ digestDiffers' = IF m \in hasCmi THEN digestDiffers \ {m}
                                      ELSE digestDiffers \cup {m}
  /\ UNCHANGED <<project, compileDirty, phase, loopVars, result>>

(* compile_file copies a .cmi to lib/ocaml only when bsc succeeded; whoever
   read the one it replaces, in a job or earlier, has read something old.
   A first .cmi is always different. *)
WriteCmi(m, differs) ==
  /\ m \notin hasCmi => differs
  /\ hasCmi' = hasCmi \cup {m}
  /\ seen' = IF differs THEN [x \in Module |-> seen[x] \ {m}] ELSE seen
  /\ digestDiffers' = IF differs THEN digestDiffers \cup {m} ELSE digestDiffers

CompileInterface(m, verdict, differs) ==
  /\ job[m] = "interface"
  /\ job' = [job EXCEPT ![m] = "implementation"]
  /\ result' = [result EXCEPT ![m] = InterfaceDone(verdict)]
  /\ IF verdict = "error"
     THEN UNCHANGED <<hasCmi, fresh, seen, digestDiffers>>
     ELSE /\ WriteCmi(m, differs)
          /\ fresh' = IF differs THEN [x \in Module |-> fresh[x] \ {m}] ELSE fresh
  /\ UNCHANGED <<deps, dependents, current, edits, compileDirty, phase, loopVars>>

(* The implementation is compiled whatever became of the interface; with an
   interface bsc reads the .cmi (-bs-read-cmi) and the copy changes nothing. *)
CompileImplementation(m, verdict, differs) ==
  LET intf == IF m \in WithInterface THEN result[m].intf ELSE NoInterface
      writes == verdict # "error" /\ m \notin WithInterface
      built == ~Failed([impl |-> verdict, intf |-> intf])
      unread(f) == IF writes /\ differs THEN [x \in Module |-> f[x] \ {m}] ELSE f
  IN /\ job[m] = "implementation"
     /\ IF writes THEN WriteCmi(m, differs)
                  ELSE UNCHANGED <<hasCmi, seen, digestDiffers>>
     /\ Finish(m, [impl |-> verdict, intf |-> intf, clean |-> m \notin digestDiffers'])
     /\ current' = IF built THEN current \cup {m} ELSE current
     /\ fresh' = IF built THEN [unread(fresh) EXCEPT ![m] = seen[m]]
                          ELSE unread(fresh)
     /\ UNCHANGED <<deps, dependents, edits, compileDirty, phase, loopVars>>

(* collect() returns when every job of the batch has. *)
CollectResults ==
  /\ phase = "batch"
  /\ \A m \in Module : job[m] \in {"idle", "done"}
  /\ phase' = "results"
  /\ UNCHANGED <<project, compileDirty, loopVars, jobVars>>

(* The module is clean only after a success without warnings; unless its .cmi
   stayed the same its dependents are to be compiled as well. *)
DirtyAfter_CleanWhenFailed(m) ==
  (IF result[m].clean THEN compileDirty ELSE compileDirty \cup dependents[m]) \ {m}
DirtyAfter(m) ==
  LET marked == IF result[m].clean THEN compileDirty
                                   ELSE compileDirty \cup dependents[m]
  IN IF m \in MlMap \/ Succeeded(result[m]) THEN marked \ {m} ELSE marked \cup {m}

InProgressAfter_DirtyOnly(m) ==
  (inProgress \ {m}) \cup ((dependents[m] \cap DirtyAfter(m)) \ (compiled \cup {m}))

InProgressAfter(m) ==
  (inProgress \ {m}) \cup (dependents[m] \ (compiled \cup {m}))

(* One round of the loop over the results, in whatever order they came; what the
   job kept to itself is gone afterwards. *)
ProcessResult(m) ==
  /\ phase = "results" /\ job[m] = "done"
  /\ job' = [job EXCEPT ![m] = "idle"]
  /\ total' = total + 1
  /\ compiled' = compiled \cup {m}
  /\ inProgress' = InProgressAfter(m)
  /\ compileDirty' = DirtyAfter(m)
  /\ errors' = (errors \/ Failed(result[m]))
  /\ seen' = [seen EXCEPT ![m] = {}]
  /\ digestDiffers' = digestDiffers \ {m}
  /\ result' = [result EXCEPT ![m] = Untouched(m)]
  /\ UNCHANGED <<project, phase, universe, batch, outcome>>

(* The results are applied.  If the batch left in_progress_modules as it was, no
   module of it was ready: there is a dependency cycle to find and report. *)
Applied == phase = "results" /\ \A m \in Module : job[m] # "done"
AllCompiled == total = Cardinality(universe)
Stuck_OnlyWhenEmpty == ~AllCompiled /\ inProgress = {}
Stuck == ~AllCompiled /\ (inProgress = {} \/ inProgress = batch)

NextBatch ==
  /\ Applied /\ ~AllCompiled /\ ~Stuck /\ ~errors
  /\ phase' = "loop"
  /\ UNCHANGED <<project, compileDirty, loopVars, jobVars>>

(* compile returns, with the locals of the call going out of scope. *)
Return ==
  /\ Applied /\ (AllCompiled \/ Stuck \/ errors)
  /\ phase' = "idle"
  /\ outcome' = IF errors \/ Stuck THEN "failed" ELSE "ok"
  /\ universe' = {} /\ compiled' = {} /\ inProgress' = {} /\ batch' = {}
  /\ total' = 0 /\ errors' = FALSE
  /\ UNCHANGED <<project, compileDirty, jobVars>>

RunJob(m) ==
  \/ SkipClean(m) \/ PassMlMap(m) \/ StartFile(m)
  \/ \E verdict \in Verdict, differs \in BOOLEAN :
        CompileInterface(m, verdict, differs) \/ CompileImplementation(m, verdict, differs)

CompileStep ==
  \/ StartBatch \/ CollectResults \/ NextBatch \/ Return
  \/ \E m \in Module : RunJob(m) \/ ProcessResult(m)

ChangeStep ==
  \E m \in Module :
    \/ \E newDeps \in SUBSET Module : Edit(m, newDeps)
    \/ RegenerateMlMap(m) \/ MarkDirty(m)

Next == ChangeStep \/ StartCompile \/ CompileStep

(* bsc always returns and the loop is a thread of its own: a call that has
   begun keeps taking steps.  Nothing obliges the user to edit or to build. *)
Spec == Init /\ [][Next]_vars /\ WF_vars(CompileStep)

-----------------------------------------------------------------------------
(* Everything a module depends on, directly or not. *)
Upstream(m) ==
  {d \in Module : \A S \in SUBSET Module :
                    (/\ deps[m] \subseteq S
                     /\ \A x \in S : deps[x] \subseteq S) => d \in S}

Running(m) == job[m] \in {"interface", "implementation"}

(* No bsc reads a .cmi that another bsc of the batch may be writing: two modules
   that are compiled at the same time never depend on one another, however
   indirectly. *)
NoReadWhileWritten ==
  \A m, d \in Module : Running(m) /\ Running(d) => d \notin Upstream(m)

Stale(m) == m \in SourceFile /\ (m \notin current \/ ~(Reads(m) \subseteq fresh[m]))

(* Nothing stale is forgotten: between two calls, even after a call that stopped
   at an error, every module whose artifacts are out of date will be in the
   compile universe of the next call, as it is compile_dirty itself or depends on
   a namespace that is. *)
StaleIsDirty ==
  phase = "idle" =>
    \A m \in Module : Stale(m) => m \in compileDirty \/ deps[m] \cap MlMap \cap compileDirty # {}

(* A call that reports no error leaves no module built from an old source or
   against an old .cmi, although it recompiles the dependents of a module only
   when the digest of its .cmi changed. *)
SuccessLeavesNothingStale ==
  outcome = "ok" => \A m \in Module : ~Stale(m)

(* dependency_cycle::find is called only when there is a cycle to find among the
   modules of the universe: format indexes the cycle it is given, and the message
   is never shown to a project without cycles. *)
CyclicWithin(S) == \E C \in SUBSET S : C # {} /\ \A m \in C : deps[m] \cap C # {}

CycleWhenStuck == Applied /\ Stuck => CyclicWithin(universe)

(* The compile loop ends, also when bsc fails or the modules form a cycle. *)
CompileEnds == phase # "idle" ~> phase = "idle"
=============================================================================
