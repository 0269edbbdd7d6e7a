--------------------------- MODULE CompileProofs ---------------------------
(***************************************************************************)
(* The invariants of Compile, proved for every set of modules, every       *)
(* dependency graph and any number of edits.                               *)
(***************************************************************************)
EXTENDS Compile, FiniteSetTheorems, TLAPS

-----------------------------------------------------------------------------
(* The inductive invariant, in parts. *)

(* dependents is kept up with deps: it has every reverse dependency, and it may
   have more, but no namespaces, whose deps never change. *)
ReverseEdges ==
  /\ \A m, d \in Module : d \in deps[m] => m \in dependents[d]
  /\ \A n \in MlMap, d \in Module : n \in dependents[d] => d \in deps[n]

(* While a call runs its universe has the dirty modules and is closed under
   dependents; the sets of the loop live inside it. *)
UniverseClosed ==
  phase # "idle" => /\ compileDirty \subseteq universe
                    /\ \A x \in universe : dependents[x] \subseteq universe

Bookkeeping ==
  /\ phase = "idle" <=> outcome # "running"
  /\ phase = "idle" => universe = {}
  /\ compiled \subseteq universe
  /\ inProgress \subseteq universe \ compiled
  /\ total = Cardinality(compiled)
  /\ phase \in {"idle", "loop"} => \A m \in Module : job[m] = "idle"
  /\ phase = "results" => \A m \in Module : job[m] \in {"idle", "done"}

(* A module with a job is in the batch, is not compiled yet and has all its
   dependencies of the universe compiled; so has a module that was compiled. *)
JobsAreReady ==
  \A m \in Module : job[m] # "idle" => m \in batch \cap (universe \ compiled) /\ Ready(m)
CompiledAreReady == \A m \in compiled : Ready(m)

(* A module that is ready is in_progress, and a batch whose modules were all not
   ready compiles none of them. *)
ReadyInProgress == phase # "idle" => \A m \in universe \ compiled : Ready(m) => m \in inProgress
BatchNotReady ==
  phase \in {"batch", "results"} /\ batch \cap compiled = {} =>
    \A m \in batch : job[m] = "idle" => ~Ready(m)

(* The jobs that run bsc are those of dirty source files, and all that they have
   read is still what is on disk. *)
RunningJobs == \A m \in Module : Running(m) => m \in SourceFile \cap compileDirty /\ seen[m] = Reads(m)

(* A namespace that is dirty is not yet compiled and never counts as clean. *)
MlMaps ==
  \A n \in MlMap \cap compileDirty :
    n \notin compiled /\ (job[n] = "done" => ~result[n].clean)

LoopInv ==
  /\ TypeOK
  /\ ReverseEdges
  /\ UniverseClosed
  /\ Bookkeeping
  /\ JobsAreReady
  /\ CompiledAreReady
  /\ ReadyInProgress
  /\ BatchNotReady
  /\ RunningJobs
  /\ MlMaps

UpToDate(m) == m \in current /\ Reads(m) \subseteq fresh[m]

(* The dependents of d will be marked when the result of d is applied. *)
Pending(d) ==
  \/ d \in MlMap \cap compileDirty
  \/ Running(d) /\ d \in digestDiffers
  \/ job[d] = "done" /\ ~result[d].clean

(* Or they have been, and a namespace will hand the change on to m. *)
Awaited(m, d) ==
  Pending(d) \/ \E n \in deps[m] \cap MlMap \cap compileDirty : d \in deps[n]

NothingForgotten ==
  \A m \in SourceFile \ compileDirty :
    m \in current /\ \A d \in Reads(m) \ fresh[m] : Awaited(m, d)

(* What the call has compiled without an error is up to date. *)
DoneIsUpToDate ==
  \A m \in SourceFile : job[m] = "done" /\ ~Failed(result[m]) => UpToDate(m)
CompiledIsUpToDate == ~errors => \A m \in compiled \cap SourceFile : UpToDate(m)

IInv ==
  /\ LoopInv
  /\ NothingForgotten
  /\ DoneIsUpToDate
  /\ CompiledIsUpToDate
  /\ SuccessLeavesNothingStale

-----------------------------------------------------------------------------
(* Lemmas about the operators of the model. *)

(* The compile universe holds the dirty modules and is closed under dependents. *)
LEMMA UniverseIsClosed ==
  ASSUME TypeOK
  PROVE  /\ CompileUniverse \subseteq Module
         /\ compileDirty \subseteq CompileUniverse
         /\ \A x \in CompileUniverse : dependents[x] \subseteq CompileUniverse
<1>1. CompileUniverse \subseteq Module /\ compileDirty \subseteq CompileUniverse
  BY DEF CompileUniverse, TypeOK
<1>2. ASSUME NEW x \in CompileUniverse, NEW y \in dependents[x]
      PROVE  y \in CompileUniverse
  <2>1. x \in Module /\ y \in Module
    BY <1>1 DEF TypeOK, SourceFile
  <2>2. ASSUME NEW S \in SUBSET Module, compileDirty \subseteq S,
               \A z \in S : dependents[z] \subseteq S
        PROVE  y \in S
    <3>1. x \in S
      BY <2>2 DEF CompileUniverse
    <3> QED BY <2>2, <3>1
  <2> QED BY <2>1, <2>2 DEF CompileUniverse
<1> QED BY <1>1, <1>2

(* The sets of modules are finite, so a count that reaches the size of the
   universe has reached the whole universe. *)
LEMMA CountIsComplete ==
  ASSUME TypeOK, Bookkeeping
  PROVE  AllCompiled <=> compiled = universe
<1>1. IsFiniteSet(universe)
  BY ModuleAssumption, FS_Subset DEF TypeOK
<1>2. compiled \subseteq universe /\ total = Cardinality(compiled)
  BY DEF Bookkeeping
<1> QED BY <1>1, <1>2, FS_Subset DEF AllCompiled

(* What a module reads are modules, and it changes only with deps. *)
LEMMA ReadsAreModules ==
  ASSUME TypeOK, NEW m \in Module
  PROVE  Reads(m) \subseteq Module /\ deps[m] \subseteq Reads(m)
BY KindAssumption DEF TypeOK, Graph, Reads

LEMMA ReadsKept ==
  ASSUME UNCHANGED deps, NEW m \in Module
  PROVE  Reads(m)' = Reads(m)
BY DEF Reads

(* What is awaited stays awaited while no module becomes clean. *)
LEMMA AwaitedKept ==
  ASSUME UNCHANGED deps, compileDirty \subseteq compileDirty',
         \A d \in Module : Pending(d) => Pending(d)',
         NEW m \in Module, NEW d \in Module, Awaited(m, d)
  PROVE  Awaited(m, d)'
BY DEF Awaited

LEMMA NothingForgottenKept ==
  ASSUME IInv, UNCHANGED <<deps, current>>, compileDirty \subseteq compileDirty',
         \A m \in Module : fresh[m] \subseteq fresh'[m],
         \A d \in Module : Pending(d) => Pending(d)'
  PROVE  NothingForgotten'
<1>1. ASSUME NEW m \in SourceFile, m \notin compileDirty'
      PROVE  m \in current' /\ \A d \in Reads(m)' \ fresh'[m] : Awaited(m, d)'
  <2>1. m \in Module /\ m \notin compileDirty
    BY <1>1 DEF SourceFile
  <2>2. Reads(m)' = Reads(m) /\ Reads(m) \subseteq Module
    BY <2>1, ReadsKept, ReadsAreModules DEF IInv, LoopInv
  <2>3. m \in current /\ \A d \in Reads(m) \ fresh[m] : Awaited(m, d)
    BY <1>1, <2>1 DEF IInv, NothingForgotten
  <2> QED BY <2>1, <2>2, <2>3, AwaitedKept
<1> QED BY <1>1 DEF NothingForgotten, SourceFile

-----------------------------------------------------------------------------
(* Type correctness. *)

LEMMA TypeOKStep == ASSUME TypeOK, Next PROVE TypeOK'
<1> USE DEF TypeOK, SourceFile
<1>1. ASSUME NEW m \in Module, NEW newDeps \in SUBSET Module, Edit(m, newDeps)
      PROVE  TypeOK'
  <2>1. deps' \in Graph
    BY <1>1, KindAssumption DEF Edit, Graph, WithoutItself
  <2>2. dependents' \in [Module -> SUBSET Module]
    BY <1>1 DEF Edit
  <2> QED BY <1>1, <2>1, <2>2, BoundAssumption DEF Edit, Change, jobVars
<1>2. ASSUME NEW m \in Module, RegenerateMlMap(m) \/ MarkDirty(m)
      PROVE  TypeOK'
  BY <1>2, BoundAssumption DEF RegenerateMlMap, MarkDirty, Change, jobVars
<1>3. CASE StartCompile
  BY <1>3, UniverseIsClosed DEF StartCompile, project, jobVars
<1>4. CASE StartBatch
  BY <1>4 DEF StartBatch, project
<1>5. CASE CollectResults \/ NextBatch
  BY <1>5 DEF CollectResults, NextBatch, project, loopVars, jobVars
<1>6. CASE Return
  BY <1>6 DEF Return, project, jobVars
<1>7. ASSUME NEW m \in Module, SkipClean(m) \/ PassMlMap(m)
      PROVE  TypeOK'
  <2>1. PICK r \in JobResult : Finish(m, r)
    <3>1. CASE SkipClean(m)
      BY <3>1 DEF SkipClean, Untouched, JobResult, Verdict, NoInterface
    <3>2. CASE PassMlMap(m)
      BY <3>2 DEF PassMlMap, JobResult, Verdict
    <3> QED BY <1>7, <3>1, <3>2
  <2>2. /\ job' \in [Module -> {"idle", "queued", "interface", "implementation", "done"}]
        /\ result' \in [Module -> JobResult]
    BY <2>1 DEF Finish
  <2>3. UNCHANGED <<project, compileDirty, phase, loopVars, seen, digestDiffers>>
    BY <1>7 DEF SkipClean, PassMlMap
  <2> QED BY <2>2, <2>3 DEF project, loopVars
<1>8. ASSUME NEW m \in Module, StartFile(m)
      PROVE  TypeOK'
  <2>1. job' \in [Module -> {"idle", "queued", "interface", "implementation", "done"}]
    BY <1>8 DEF StartFile
  <2>2. seen' \in [Module -> SUBSET Module] /\ digestDiffers' \subseteq Module
    BY <1>8, ReadsAreModules DEF StartFile
  <2> QED BY <1>8, <2>1, <2>2 DEF StartFile, project, loopVars
<1>9. ASSUME NEW m \in Module, NEW verdict \in Verdict, NEW differs \in BOOLEAN,
             CompileInterface(m, verdict, differs)
      PROVE  TypeOK'
  <2>1. result' \in [Module -> JobResult]
    BY <1>9 DEF CompileInterface, InterfaceDone, JobResult, Verdict
  <2> QED BY <1>9, <2>1 DEF CompileInterface, WriteCmi, loopVars
<1>10. ASSUME NEW m \in Module, NEW verdict \in Verdict, NEW differs \in BOOLEAN,
             CompileImplementation(m, verdict, differs)
      PROVE  TypeOK'
  <2>1. result[m] \in JobResult
    OBVIOUS
  <2>2. result' \in [Module -> JobResult]
    BY <1>10, <2>1 DEF CompileImplementation, Finish, JobResult, Verdict, NoInterface
  <2>3. fresh' \in [Module -> SUBSET Module]
    BY <1>10 DEF CompileImplementation
  <2> QED BY <1>10, <2>2, <2>3 DEF CompileImplementation, WriteCmi, Finish, loopVars
<1>11. ASSUME NEW m \in Module, ProcessResult(m)
      PROVE  TypeOK'
  BY <1>11 DEF ProcessResult, InProgressAfter, DirtyAfter, Untouched, JobResult, Verdict,
              NoInterface, project
<1> QED BY <1>1, <1>2, <1>3, <1>4, <1>5, <1>6, <1>7, <1>8, <1>9, <1>10, <1>11
        DEF Next, ChangeStep, CompileStep, RunJob

-----------------------------------------------------------------------------
(* The loop does its bookkeeping right, whatever is stale. *)

LEMMA InitIsLoop == Init => LoopInv
<1> SUFFICES ASSUME Init PROVE LoopInv
  OBVIOUS
<1> USE DEF Init
<1>1. TypeOK
  <2>1. dependents \in [Module -> SUBSET Module]
    OBVIOUS
  <2>2. result \in [Module -> JobResult]
    BY DEF Untouched, JobResult, Verdict, NoInterface
  <2>3. hasCmi \subseteq Module /\ edits \in 0..MaxEdits
    BY KindAssumption, BoundAssumption
  <2> QED BY <2>1, <2>2, <2>3 DEF TypeOK
<1>2. ReverseEdges
  BY DEF ReverseEdges
<1>3. Bookkeeping
  BY FS_EmptySet DEF Bookkeeping
<1>4. UniverseClosed /\ ReadyInProgress /\ BatchNotReady
  BY DEF UniverseClosed, ReadyInProgress, BatchNotReady
<1>5. JobsAreReady /\ CompiledAreReady /\ RunningJobs /\ MlMaps
  BY DEF JobsAreReady, CompiledAreReady, RunningJobs, Running, MlMaps
<1> QED BY <1>1, <1>2, <1>3, <1>4, <1>5 DEF LoopInv

(* Between two calls there is no job and nothing is compiled. *)
LEMMA ChangeKeepsLoop ==
  ASSUME LoopInv, TypeOK', NEW m \in Module,
         (\E newDeps \in SUBSET Module : Edit(m, newDeps)) \/ RegenerateMlMap(m) \/ MarkDirty(m)
  PROVE  LoopInv'
<1>1. /\ phase = "idle" /\ phase' = "idle" /\ outcome' = "none"
      /\ UNCHANGED <<universe, compiled, inProgress, batch, total, errors, jobVars>>
  BY DEF Edit, RegenerateMlMap, MarkDirty, Change
<1>2. universe = {} /\ compiled = {} /\ \A x \in Module : job[x] = "idle"
  BY <1>1 DEF LoopInv, Bookkeeping
<1>3. ReverseEdges'
  <2>1. ASSUME NEW newDeps \in SUBSET Module, Edit(m, newDeps) PROVE ReverseEdges'
    BY <2>1, KindAssumption
       DEF LoopInv, TypeOK, ReverseEdges, Edit, WithoutItself, Graph, SourceFile
  <2>2. CASE RegenerateMlMap(m) \/ MarkDirty(m)
    BY <2>2 DEF LoopInv, ReverseEdges, RegenerateMlMap, MarkDirty
  <2> QED BY <2>1, <2>2
<1>4. UniverseClosed' /\ Bookkeeping' /\ ReadyInProgress' /\ BatchNotReady'
  BY <1>1, <1>2 DEF LoopInv, UniverseClosed, Bookkeeping, ReadyInProgress, BatchNotReady, jobVars
<1>5. JobsAreReady' /\ CompiledAreReady' /\ RunningJobs' /\ MlMaps'
  BY <1>1, <1>2 DEF JobsAreReady, CompiledAreReady, RunningJobs, Running, MlMaps, jobVars,
                    TypeOK, KindAssumption
<1> QED BY <1>3, <1>4, <1>5 DEF LoopInv

LEMMA StartCompileKeepsLoop ==
  ASSUME LoopInv, TypeOK', StartCompile
  PROVE  LoopInv'
<1> USE DEF StartCompile, project, jobVars
<1>1. /\ CompileUniverse \subseteq Module
      /\ compileDirty \subseteq CompileUniverse
      /\ \A x \in CompileUniverse : dependents[x] \subseteq CompileUniverse
  BY UniverseIsClosed DEF LoopInv
<1>2. \A x \in Module : job[x] = "idle"
  BY DEF LoopInv, Bookkeeping
<1>3. ReverseEdges' /\ UniverseClosed' /\ BatchNotReady'
  BY <1>1 DEF LoopInv, ReverseEdges, UniverseClosed, BatchNotReady
<1>4. Bookkeeping'
  BY <1>1, <1>2, FS_EmptySet DEF Bookkeeping
<1>5. JobsAreReady' /\ CompiledAreReady' /\ RunningJobs' /\ MlMaps'
  BY <1>2 DEF LoopInv, TypeOK, JobsAreReady, CompiledAreReady, RunningJobs, Running, MlMaps
<1>6. ReadyInProgress'
  BY <1>1 DEF ReadyInProgress, Ready
<1> QED BY <1>3, <1>4, <1>5, <1>6 DEF LoopInv

LEMMA StartBatchKeepsLoop ==
  ASSUME LoopInv, TypeOK', StartBatch
  PROVE  LoopInv'
<1> USE DEF StartBatch, project
<1>1. \A x \in Module : job[x] = "idle"
  BY DEF LoopInv, Bookkeeping
<1>2. ReverseEdges' /\ UniverseClosed' /\ Bookkeeping'
  BY <1>1 DEF LoopInv, TypeOK, ReverseEdges, UniverseClosed, Bookkeeping
<1>3. JobsAreReady' /\ CompiledAreReady'
  BY DEF LoopInv, TypeOK, Bookkeeping, JobsAreReady, CompiledAreReady, Ready
<1>4. ReadyInProgress' /\ BatchNotReady'
  BY DEF LoopInv, TypeOK, ReadyInProgress, BatchNotReady, Ready
<1>5. RunningJobs' /\ MlMaps'
  BY DEF LoopInv, TypeOK, RunningJobs, Running, MlMaps
<1> QED BY <1>2, <1>3, <1>4, <1>5 DEF LoopInv

LEMMA CollectKeepsLoop ==
  ASSUME LoopInv, TypeOK', CollectResults \/ NextBatch
  PROVE  LoopInv'
<1> USE DEF CollectResults, NextBatch, Applied, project, loopVars, jobVars
<1>1. ReverseEdges' /\ UniverseClosed' /\ Bookkeeping'
  BY DEF LoopInv, TypeOK, ReverseEdges, UniverseClosed, Bookkeeping
<1>2. JobsAreReady' /\ CompiledAreReady' /\ ReadyInProgress' /\ BatchNotReady'
  BY DEF LoopInv, JobsAreReady, CompiledAreReady, ReadyInProgress, BatchNotReady, Ready
<1>3. RunningJobs' /\ MlMaps'
  BY DEF LoopInv, RunningJobs, Running, Reads, MlMaps
<1> QED BY <1>1, <1>2, <1>3 DEF LoopInv

LEMMA ReturnKeepsLoop ==
  ASSUME LoopInv, TypeOK', Return
  PROVE  LoopInv'
<1> USE DEF Return, Applied, project, jobVars
<1>1. \A x \in Module : job[x] = "idle"
  BY DEF LoopInv, TypeOK, Bookkeeping
<1>2. ReverseEdges' /\ UniverseClosed' /\ Bookkeeping'
  BY <1>1, FS_EmptySet DEF LoopInv, ReverseEdges, UniverseClosed, Bookkeeping
<1>3. JobsAreReady' /\ CompiledAreReady' /\ ReadyInProgress' /\ BatchNotReady'
  BY <1>1 DEF JobsAreReady, CompiledAreReady, ReadyInProgress, BatchNotReady
<1>4. RunningJobs' /\ MlMaps'
  <2>1. compiled' = {} /\ \A x \in Module : job'[x] = "idle"
    BY <1>1
  <2> QED BY <2>1, KindAssumption DEF RunningJobs, Running, MlMaps
<1> QED BY <1>2, <1>3, <1>4 DEF LoopInv

(* What the steps of a job have in common: they are taken in a batch and leave
   the loop alone. *)
LEMMA JobStepKeepsLoop ==
  ASSUME LoopInv, NEW m \in Module, job[m] \notin {"idle", "done"},
         UNCHANGED <<deps, dependents, edits, compileDirty, phase, loopVars>>,
         \A x \in Module \ {m} : job'[x] = job[x],
         job'[m] # "idle"
  PROVE  /\ phase = "batch" /\ outcome = "running"
         /\ ReverseEdges' /\ UniverseClosed' /\ Bookkeeping' /\ JobsAreReady'
         /\ CompiledAreReady' /\ ReadyInProgress' /\ BatchNotReady'
<1> USE DEF loopVars
<1>1. phase = "batch" /\ outcome = "running"
  BY DEF LoopInv, TypeOK, Bookkeeping
<1>2. ReverseEdges' /\ UniverseClosed' /\ Bookkeeping'
  BY <1>1 DEF LoopInv, ReverseEdges, UniverseClosed, Bookkeeping
<1>3. JobsAreReady' /\ CompiledAreReady' /\ ReadyInProgress'
  BY DEF LoopInv, JobsAreReady, CompiledAreReady, ReadyInProgress, Ready
<1>4. BatchNotReady'
  BY DEF LoopInv, TypeOK, BatchNotReady, Ready, JobsAreReady
<1> QED BY <1>1, <1>2, <1>3, <1>4

(* A module that is being compiled is not read by one that is ready, neither directly
   nor through a namespace: that would be compiled, and so the module too. *)
LEMMA NotReadByReady ==
  ASSUME LoopInv, NEW m \in Module, NEW x \in Module, job[m] # "idle", Ready(x)
  PROVE  m \notin Reads(x)
<1>1. m \in universe \ compiled /\ phase # "idle"
  BY DEF LoopInv, JobsAreReady, Bookkeeping
<1>2. m \notin deps[x]
  BY <1>1 DEF Ready
<1>3. ASSUME NEW n \in deps[x] \cap MlMap PROVE m \notin deps[n]
  <2>1. n \in Module
    BY KindAssumption
  <2>2. CASE n \in universe
    BY <1>1, <2>2 DEF Ready, LoopInv, CompiledAreReady
  <2>3. CASE n \notin universe
    BY <1>1, <2>1, <2>3 DEF LoopInv, ReverseEdges, UniverseClosed
  <2> QED BY <2>2, <2>3
<1> QED BY <1>2, <1>3 DEF Reads

LEMMA SkipCleanKeepsLoop ==
  ASSUME LoopInv, TypeOK', NEW m \in Module, SkipClean(m) \/ PassMlMap(m)
  PROVE  LoopInv'
<1> USE DEF SkipClean, PassMlMap, Finish, project
<1>1. /\ job' = [job EXCEPT ![m] = "done"] /\ job[m] = "queued"
      /\ job \in [Module -> {"idle", "queued", "interface", "implementation", "done"}]
      /\ result \in [Module -> JobResult]
      /\ UNCHANGED <<compileDirty, deps, seen>>
      /\ m \in MlMap \cap compileDirty => ~result'[m].clean
      /\ \A x \in Module \ {m} : result'[x] = result[x]
  BY DEF LoopInv, TypeOK
<1>2. /\ ReverseEdges' /\ UniverseClosed' /\ Bookkeeping' /\ JobsAreReady'
      /\ CompiledAreReady' /\ ReadyInProgress' /\ BatchNotReady'
  BY <1>1, JobStepKeepsLoop
<1>3. RunningJobs' /\ MlMaps'
  BY <1>1, KindAssumption DEF LoopInv, RunningJobs, Running, Reads, MlMaps, loopVars
<1> QED BY <1>2, <1>3 DEF LoopInv

LEMMA StartFileKeepsLoop ==
  ASSUME LoopInv, TypeOK', NEW m \in Module, StartFile(m)
  PROVE  LoopInv'
<1> USE DEF StartFile, project
<1>1. /\ job'[m] \in {"interface", "implementation"}
      /\ \A x \in Module \ {m} : job'[x] = job[x] /\ seen'[x] = seen[x]
      /\ seen'[m] = Reads(m)
      /\ UNCHANGED <<compileDirty, deps, result>>
      /\ job[m] = "queued" /\ m \in compileDirty \cap SourceFile
  BY DEF LoopInv, TypeOK
<1>2. /\ ReverseEdges' /\ UniverseClosed' /\ Bookkeeping' /\ JobsAreReady'
      /\ CompiledAreReady' /\ ReadyInProgress' /\ BatchNotReady'
  BY <1>1, JobStepKeepsLoop
<1>3. RunningJobs' /\ MlMaps'
  BY <1>1, ReadsKept DEF LoopInv, RunningJobs, Running, MlMaps, loopVars, SourceFile
<1> QED BY <1>2, <1>3 DEF LoopInv

(* bsc writes the .cmi of a module that no running job reads. *)
LEMMA WriteKeepsLoop ==
  ASSUME LoopInv, TypeOK', NEW m \in Module, NEW verdict \in Verdict, NEW differs \in BOOLEAN,
         CompileInterface(m, verdict, differs) \/ CompileImplementation(m, verdict, differs)
  PROVE  LoopInv'
<1> USE DEF CompileInterface, CompileImplementation, Finish
<1>1. /\ job[m] \in {"interface", "implementation"}
      /\ job'[m] = "implementation" => job[m] = "interface"
      /\ job'[m] \in {"implementation", "done"}
      /\ job \in [Module -> {"idle", "queued", "interface", "implementation", "done"}]
      /\ \A x \in Module \ {m} : job'[x] = job[x] /\ result'[x] = result[x]
      /\ UNCHANGED <<deps, dependents, edits, compileDirty, phase, loopVars>>
      /\ deps \in [Module -> SUBSET Module] /\ seen \in [Module -> SUBSET Module]
      /\ m \in SourceFile \cap compileDirty /\ seen[m] = Reads(m)
  BY DEF LoopInv, TypeOK, Graph, RunningJobs, Running
<1>2. /\ ReverseEdges' /\ UniverseClosed' /\ Bookkeeping' /\ JobsAreReady'
      /\ CompiledAreReady' /\ ReadyInProgress' /\ BatchNotReady'
  BY <1>1, JobStepKeepsLoop
<1>3. \A x \in Module : seen'[x] = seen[x] \/ seen'[x] = seen[x] \ {m}
  BY <1>1 DEF WriteCmi
<1>4. \A x \in Module : Ready(x) => m \notin Reads(x)
  BY <1>1, NotReadByReady
<1>5. RunningJobs'
  <2>1. \A x \in Module : Running(x)' => Running(x) /\ Ready(x)
    BY <1>1 DEF Running, LoopInv, JobsAreReady
  <2>2. ASSUME NEW x \in Module, Ready(x), seen[x] = Reads(x) PROVE seen'[x] = Reads(x)
    <3>1. Reads(x) \ {m} = Reads(x)
      BY <1>4, <2>2
    <3> QED BY <1>3, <2>2, <3>1
  <2> QED BY <1>1, <2>1, <2>2, ReadsKept DEF LoopInv, RunningJobs
<1>6. MlMaps'
  <2>1. \A n \in MlMap : n \in Module \ {m}
    BY <1>1, KindAssumption DEF SourceFile
  <2> QED BY <1>1, <2>1 DEF LoopInv, MlMaps, loopVars
<1> QED BY <1>2, <1>5, <1>6 DEF LoopInv

(* Applying a result makes m compiled and ends its job. *)
LEMMA ProcessResultKeepsLoop ==
  ASSUME LoopInv, TypeOK', NEW m \in Module, ProcessResult(m)
  PROVE  LoopInv'
<1> USE DEF ProcessResult, project
<1>1. /\ phase = "results" /\ job[m] = "done" /\ outcome = "running"
      /\ job' = [job EXCEPT ![m] = "idle"]
      /\ job \in [Module -> {"idle", "queued", "interface", "implementation", "done"}]
      /\ compiled' = compiled \cup {m}
      /\ UNCHANGED <<deps, dependents, phase, universe, batch, outcome>>
      /\ \A x \in Module \ {m} : result'[x] = result[x]
  BY DEF LoopInv, TypeOK, Bookkeeping
<1>2. /\ m \in batch \cap (universe \ compiled) /\ Ready(m) /\ m \notin deps[m]
      /\ \A x \in Module : job[x] \in {"idle", "done"}
  BY <1>1 DEF LoopInv, JobsAreReady, Bookkeeping, TypeOK, Graph
<1>3. /\ compileDirty' \subseteq compileDirty \cup dependents[m] \cup {m}
      /\ m \in MlMap => m \notin compileDirty'
  BY DEF DirtyAfter
<1>4. ReverseEdges' /\ UniverseClosed'
  BY <1>1, <1>2, <1>3 DEF LoopInv, ReverseEdges, UniverseClosed
<1>5. Bookkeeping'
  <2>1. IsFiniteSet(compiled)
    BY ModuleAssumption, FS_Subset DEF LoopInv, TypeOK
  <2>2. total' = Cardinality(compiled')
    BY <1>1, <1>2, <2>1, FS_AddElement DEF LoopInv, Bookkeeping
  <2>3. inProgress' \subseteq universe' \ compiled'
    BY <1>1, <1>2 DEF LoopInv, Bookkeeping, UniverseClosed, InProgressAfter
  <2> QED BY <1>1, <1>2, <2>2, <2>3 DEF LoopInv, Bookkeeping
<1>6. \A x \in Module : Ready(x) => Ready(x)'
  BY <1>1 DEF Ready
<1>7. JobsAreReady' /\ CompiledAreReady'
  BY <1>1, <1>2, <1>6 DEF LoopInv, TypeOK, JobsAreReady, CompiledAreReady
<1>8. ReadyInProgress'
  <2>1. ASSUME NEW x \in universe \ compiled', Ready(x)'
        PROVE  x \in inProgress'
    <3>1. x \in Module /\ x \in universe \ compiled /\ x # m
      BY <1>1, <2>1 DEF LoopInv, TypeOK
    <3>2. CASE m \in deps[x]
      BY <1>1, <3>1, <3>2 DEF LoopInv, ReverseEdges, InProgressAfter
    <3>3. CASE m \notin deps[x]
      <4>1. Ready(x)
        BY <1>1, <2>1, <3>3 DEF Ready
      <4> QED BY <1>1, <3>1, <4>1 DEF LoopInv, ReadyInProgress, InProgressAfter
    <3> QED BY <3>2, <3>3
  <2> QED BY <1>1, <2>1 DEF ReadyInProgress
<1>9. BatchNotReady'
  BY <1>1, <1>2 DEF BatchNotReady
<1>10. RunningJobs'
  BY <1>1, <1>2 DEF RunningJobs, Running
<1>11. MlMaps'
  <2>1. ASSUME NEW n \in MlMap, n \in compileDirty', n \notin compileDirty
        PROVE  n \notin compiled' /\ job'[n] = "idle"
    <3>1. n \in dependents[m] /\ n # m /\ n \in Module
      BY <1>3, <2>1, KindAssumption
    <3>2. m \in deps[n]
      BY <3>1 DEF LoopInv, ReverseEdges
    <3>3. ~Ready(n)
      BY <1>2, <3>2 DEF Ready
    <3> QED BY <1>1, <3>1, <3>3 DEF LoopInv, JobsAreReady, CompiledAreReady
  <2>2. ASSUME NEW n \in MlMap, n \in compileDirty', n \in compileDirty
        PROVE  n \notin compiled' /\ (job'[n] = "done" => ~result'[n].clean)
    <3>1. n # m /\ n \in Module
      BY <1>3, <2>2, KindAssumption
    <3> QED BY <1>1, <2>2, <3>1 DEF LoopInv, MlMaps
  <2> QED BY <2>1, <2>2 DEF MlMaps
<1> QED BY <1>4, <1>5, <1>7, <1>8, <1>9, <1>10, <1>11 DEF LoopInv

LEMMA LoopKept == ASSUME LoopInv, [Next]_vars PROVE LoopInv'
<1>1. CASE UNCHANGED vars
  BY <1>1 DEF vars, project, loopVars, jobVars, LoopInv, TypeOK, ReverseEdges, UniverseClosed,
              Bookkeeping, JobsAreReady, CompiledAreReady, ReadyInProgress, BatchNotReady,
              RunningJobs, MlMaps, Ready, Reads, Running
<1>2. CASE Next
  <2>1. TypeOK'
    BY <1>2, TypeOKStep DEF LoopInv
  <2>2. CASE ChangeStep
    BY <2>1, <2>2, ChangeKeepsLoop DEF ChangeStep
  <2>3. CASE StartCompile
    BY <2>1, <2>3, StartCompileKeepsLoop
  <2>4. CASE StartBatch \/ CollectResults \/ NextBatch \/ Return
    BY <2>1, <2>4, StartBatchKeepsLoop, CollectKeepsLoop, ReturnKeepsLoop
  <2>5. ASSUME NEW m \in Module, RunJob(m) \/ ProcessResult(m) PROVE LoopInv'
    BY <2>1, <2>5, SkipCleanKeepsLoop, StartFileKeepsLoop, WriteKeepsLoop,
       ProcessResultKeepsLoop DEF RunJob
  <2> QED BY <1>2, <2>2, <2>3, <2>4, <2>5 DEF Next, CompileStep
<1> QED BY <1>1, <1>2

-----------------------------------------------------------------------------
(* Nothing stale is forgotten. *)

LEMMA InitEstablishes == Init => IInv
<1> SUFFICES ASSUME Init PROVE IInv
  OBVIOUS
<1>1. NothingForgotten /\ DoneIsUpToDate /\ CompiledIsUpToDate /\ SuccessLeavesNothingStale
  BY DEF Init, NothingForgotten, DoneIsUpToDate, CompiledIsUpToDate, SourceFile,
         SuccessLeavesNothingStale
<1> QED BY <1>1, InitIsLoop DEF IInv

(* Between two calls only the project changes, and whatever becomes stale is marked,
   or depends on a namespace that is. *)
LEMMA ChangePreserves ==
  ASSUME IInv, LoopInv', NEW m \in Module,
         (\E newDeps \in SUBSET Module : Edit(m, newDeps)) \/ RegenerateMlMap(m) \/ MarkDirty(m)
  PROVE  IInv'
<1>1. /\ phase = "idle" /\ phase' = "idle" /\ outcome' = "none"
      /\ UNCHANGED <<universe, compiled, inProgress, batch, total, errors, jobVars>>
  BY DEF Edit, RegenerateMlMap, MarkDirty, Change
<1>2. universe = {} /\ compiled = {} /\ \A x \in Module : job[x] = "idle"
  BY <1>1 DEF IInv, LoopInv, Bookkeeping
<1>3. DoneIsUpToDate' /\ CompiledIsUpToDate' /\ SuccessLeavesNothingStale'
  BY <1>1, <1>2 DEF DoneIsUpToDate, CompiledIsUpToDate, SuccessLeavesNothingStale, jobVars, SourceFile
<1>4. NothingForgotten'
  <2>1. \A d \in Module : Pending(d) => Pending(d)'
    <3>1. compileDirty \subseteq compileDirty'
      BY DEF Edit, RegenerateMlMap, MarkDirty
    <3> QED BY <1>1, <1>2, <3>1 DEF Pending, Running, jobVars
  <2>2. ASSUME NEW newDeps \in SUBSET Module, Edit(m, newDeps) PROVE NothingForgotten'
    <3>1. ASSUME NEW x \in SourceFile, x \notin compileDirty'
          PROVE  x \in current' /\ \A d \in Reads(x)' \ fresh'[x] : Awaited(x, d)'
      <4>1. x \in Module /\ x # m /\ x \notin compileDirty /\ m \in SourceFile
        BY <2>2, <3>1 DEF Edit, SourceFile
      <4>2. deps'[x] = deps[x] /\ \A n \in MlMap : deps'[n] = deps[n]
        BY <2>2, <4>1, KindAssumption DEF Edit, IInv, LoopInv, TypeOK, Graph, SourceFile
      <4>3. Reads(x)' = Reads(x) /\ fresh' = fresh /\ Reads(x) \subseteq Module
        BY <2>2, <4>1, <4>2, ReadsAreModules DEF Edit, Reads, IInv, LoopInv
      <4>4. x \in current /\ x \in current' /\ \A d \in Reads(x) \ fresh[x] : Awaited(x, d)
        BY <2>2, <3>1, <4>1 DEF IInv, NothingForgotten, Edit
      <4>5. \A d \in Module : Awaited(x, d) => Awaited(x, d)'
        BY <2>1, <2>2, <4>2 DEF Awaited, Edit
      <4> QED BY <4>3, <4>4, <4>5
    <3> QED BY <3>1 DEF NothingForgotten, SourceFile
  <2>3. CASE RegenerateMlMap(m)
    <3>1. ASSUME NEW x \in SourceFile, x \notin compileDirty'
          PROVE  x \in current' /\ \A d \in Reads(x)' \ fresh'[x] : Awaited(x, d)'
      <4>1. x \in Module /\ x \notin compileDirty /\ fresh'[x] = fresh[x] \ {m}
        BY <2>3, <3>1 DEF RegenerateMlMap, SourceFile
      <4>2. Reads(x)' = Reads(x) /\ Reads(x) \subseteq Module
        BY <2>3, <4>1, ReadsKept, ReadsAreModules DEF RegenerateMlMap, IInv, LoopInv
      <4>3. x \in current' /\ \A d \in Reads(x) \ fresh[x] : Awaited(x, d)
        BY <2>3, <3>1, <4>1 DEF IInv, NothingForgotten, RegenerateMlMap
      <4>4. Awaited(x, m)'
        BY <2>3 DEF Awaited, Pending, RegenerateMlMap
      <4>5. \A d \in Module : Awaited(x, d) => Awaited(x, d)'
        BY <2>1, <2>3 DEF Awaited, RegenerateMlMap
      <4> QED BY <4>1, <4>2, <4>3, <4>4, <4>5
    <3> QED BY <3>1 DEF NothingForgotten, SourceFile
  <2>4. CASE MarkDirty(m)
    BY <2>1, <2>4, NothingForgottenKept DEF MarkDirty
  <2> QED BY <2>2, <2>3, <2>4
<1> QED BY <1>3, <1>4 DEF IInv

LEMMA StartCompilePreserves ==
  ASSUME IInv, LoopInv', StartCompile
  PROVE  IInv'
<1> USE DEF StartCompile, project, jobVars
<1>1. \A x \in Module : job[x] = "idle"
  BY DEF IInv, LoopInv, Bookkeeping
<1>2. NothingForgotten'
  BY NothingForgottenKept DEF Pending, Running
<1>3. DoneIsUpToDate' /\ CompiledIsUpToDate' /\ SuccessLeavesNothingStale'
  BY <1>1 DEF DoneIsUpToDate, CompiledIsUpToDate, SuccessLeavesNothingStale, SourceFile
<1> QED BY <1>2, <1>3 DEF IInv

LEMMA StartBatchPreserves ==
  ASSUME IInv, LoopInv', StartBatch
  PROVE  IInv'
<1> USE DEF StartBatch, project
<1>1. \A x \in Module : job[x] = "idle"
  BY DEF IInv, LoopInv, Bookkeeping
<1>2. NothingForgotten'
  <2>1. \A d \in Module : Pending(d) => Pending(d)'
    BY <1>1 DEF Pending, Running
  <2> QED BY <2>1, NothingForgottenKept
<1>3. DoneIsUpToDate' /\ CompiledIsUpToDate' /\ SuccessLeavesNothingStale'
  BY DEF IInv, LoopInv, Bookkeeping, TypeOK, DoneIsUpToDate, CompiledIsUpToDate, UpToDate, Reads,
         SuccessLeavesNothingStale, SourceFile
<1> QED BY <1>2, <1>3 DEF IInv

LEMMA CollectPreserves ==
  ASSUME IInv, LoopInv', CollectResults \/ NextBatch
  PROVE  IInv'
<1> USE DEF CollectResults, NextBatch, Applied, project, loopVars, jobVars
<1>1. NothingForgotten'
  BY NothingForgottenKept DEF Pending, Running
<1>2. DoneIsUpToDate' /\ CompiledIsUpToDate' /\ SuccessLeavesNothingStale'
  BY DEF IInv, DoneIsUpToDate, CompiledIsUpToDate, UpToDate, Reads, SuccessLeavesNothingStale,
         Stale
<1> QED BY <1>1, <1>2 DEF IInv

(* At the end of the call nothing is running any more.  If it succeeded, the
   whole universe is compiled and so up to date; a module outside of the universe
   is neither dirty nor a dependent of a namespace that is. *)
LEMMA ReturnPreserves ==
  ASSUME IInv, LoopInv', Return
  PROVE  IInv'
<1> USE DEF Return, Applied, project, jobVars
<1>1. \A x \in Module : job[x] = "idle"
  BY DEF IInv, LoopInv, TypeOK, Bookkeeping
<1>2. DoneIsUpToDate' /\ CompiledIsUpToDate'
  <2>1. compiled' = {} /\ \A x \in Module : job'[x] = "idle"
    BY <1>1
  <2> QED BY <2>1 DEF DoneIsUpToDate, CompiledIsUpToDate, SourceFile
<1>3. NothingForgotten'
  BY NothingForgottenKept DEF Pending, Running
<1>4. ASSUME outcome' = "ok", NEW m \in SourceFile
      PROVE  UpToDate(m)
  <2>1. ~errors /\ compiled = universe
    BY <1>4, CountIsComplete DEF IInv, LoopInv
  <2>2. CASE m \in universe
    BY <2>1, <2>2 DEF IInv, CompiledIsUpToDate
  <2>3. CASE m \notin universe
    <3>1. m \in Module \ compileDirty
      BY <2>3 DEF IInv, LoopInv, UniverseClosed, SourceFile
    <3>2. MlMap \cap compileDirty = {}
      BY <2>1 DEF IInv, LoopInv, MlMaps, UniverseClosed
    <3>3. \A d \in Module : ~Awaited(m, d)
      BY <1>1, <3>2 DEF Awaited, Pending, Running
    <3> QED BY <3>1, <3>3, ReadsAreModules DEF IInv, LoopInv, NothingForgotten, UpToDate
  <2> QED BY <2>2, <2>3
<1>5. SuccessLeavesNothingStale'
  BY <1>4, ReadsKept DEF SuccessLeavesNothingStale, Stale, UpToDate, SourceFile
<1> QED BY <1>2, <1>3, <1>5 DEF IInv

LEMMA NothingEnds ==
  ASSUME LoopInv, phase # "idle", UNCHANGED outcome
  PROVE  SuccessLeavesNothingStale'
BY DEF LoopInv, Bookkeeping, SuccessLeavesNothingStale

(* Nothing that a module reads is awaited once the module is ready. *)
LEMMA NotAwaitedByReady ==
  ASSUME LoopInv, phase # "idle", NEW x \in Module, Ready(x), NEW d \in Reads(x)
  PROVE  ~Awaited(x, d)
<1>1. d \in Module
  BY ReadsAreModules DEF LoopInv
<1>2. job[d] = "idle"
  BY <1>1, NotReadByReady
<1>3. \A n \in deps[x] \cap MlMap : n \notin compileDirty
  BY DEF Ready, LoopInv, TypeOK, MlMaps, UniverseClosed, Bookkeeping
<1>4. d \in deps[x] \/ d \notin MlMap
  BY KindAssumption DEF Reads, LoopInv, TypeOK, Graph, SourceFile
<1> QED BY <1>2, <1>3, <1>4 DEF Awaited, Pending, Running

LEMMA SkipCleanPreserves ==
  ASSUME IInv, LoopInv', NEW m \in Module, SkipClean(m)
  PROVE  IInv'
<1> USE DEF SkipClean, Finish, project
<1>1. /\ job' = [job EXCEPT ![m] = "done"] /\ result' = [result EXCEPT ![m] = Untouched(m)]
      /\ job \in [Module -> {"idle", "queued", "interface", "implementation", "done"}]
      /\ result \in [Module -> JobResult]
      /\ UNCHANGED <<compileDirty, current, deps, fresh, seen, digestDiffers>>
      /\ job[m] = "queued" /\ m \notin compileDirty
  BY DEF IInv, LoopInv, TypeOK
<1>2. SuccessLeavesNothingStale'
  BY NothingEnds DEF IInv, loopVars
<1>3. \A d \in Module : Pending(d) => Pending(d)'
  BY <1>1 DEF Pending, Running
<1>4. NothingForgotten'
  BY <1>1, <1>3, NothingForgottenKept
<1>5. m \in SourceFile => UpToDate(m)
  <2>1. Ready(m) /\ phase # "idle"
    BY <1>1 DEF IInv, LoopInv, JobsAreReady
  <2>2. \A d \in Reads(m) : ~Awaited(m, d)
    BY <2>1, NotAwaitedByReady DEF IInv
  <2> QED BY <1>1, <2>2 DEF IInv, NothingForgotten, UpToDate
<1>6. DoneIsUpToDate' /\ CompiledIsUpToDate'
  BY <1>1, <1>5 DEF IInv, DoneIsUpToDate, CompiledIsUpToDate, UpToDate, Reads, SourceFile,
                    loopVars
<1> QED BY <1>2, <1>4, <1>6 DEF IInv

LEMMA PassMlMapPreserves ==
  ASSUME IInv, LoopInv', NEW m \in Module, PassMlMap(m)
  PROVE  IInv'
<1> USE DEF PassMlMap, Finish, project
<1>1. /\ job' = [job EXCEPT ![m] = "done"]
      /\ result' = [result EXCEPT ![m] = [impl |-> "ok", intf |-> "ok", clean |-> FALSE]]
      /\ job \in [Module -> {"idle", "queued", "interface", "implementation", "done"}]
      /\ result \in [Module -> JobResult]
      /\ UNCHANGED <<compileDirty, current, deps, fresh, seen, digestDiffers>>
      /\ job[m] = "queued" /\ m \in MlMap
  BY DEF IInv, LoopInv, TypeOK
<1>2. SuccessLeavesNothingStale'
  BY NothingEnds DEF IInv, loopVars
<1>3. \A d \in Module : Pending(d) => Pending(d)'
  BY <1>1 DEF Pending, Running
<1>4. NothingForgotten'
  BY <1>1, <1>3, NothingForgottenKept
<1>5. DoneIsUpToDate' /\ CompiledIsUpToDate'
  BY <1>1 DEF IInv, DoneIsUpToDate, CompiledIsUpToDate, UpToDate, Reads, SourceFile, loopVars
<1> QED BY <1>2, <1>4, <1>5 DEF IInv

LEMMA StartFilePreserves ==
  ASSUME IInv, LoopInv', NEW m \in Module, StartFile(m)
  PROVE  IInv'
<1> USE DEF StartFile, project
<1>1. /\ job'[m] \in {"interface", "implementation"}
      /\ \A x \in Module \ {m} : job'[x] = job[x]
      /\ UNCHANGED <<compileDirty, current, deps, fresh, result>>
      /\ job[m] = "queued" /\ m \in compileDirty \cap SourceFile
      /\ \A x \in Module \ {m} : x \in digestDiffers' <=> x \in digestDiffers
  BY DEF IInv, LoopInv, TypeOK
<1>2. SuccessLeavesNothingStale'
  BY NothingEnds DEF IInv, loopVars
<1>3. \A d \in Module : Pending(d) => Pending(d)'
  BY <1>1 DEF Pending, Running, SourceFile
<1>4. NothingForgotten'
  BY <1>1, <1>3, NothingForgottenKept
<1>5. DoneIsUpToDate' /\ CompiledIsUpToDate'
  BY <1>1 DEF IInv, DoneIsUpToDate, CompiledIsUpToDate, UpToDate, Reads, SourceFile, loopVars
<1> QED BY <1>2, <1>4, <1>5 DEF IInv

(* When the .cmi of m is replaced nobody who is ready loses anything: m is none of
   their dependencies.  The others lose m, which makes m pending. *)
LEMMA CompileInterfacePreserves ==
  ASSUME IInv, LoopInv', NEW m \in Module, NEW verdict \in Verdict, NEW differs \in BOOLEAN,
         CompileInterface(m, verdict, differs)
  PROVE  IInv'
<1> USE DEF CompileInterface
<1>1. /\ job' = [job EXCEPT ![m] = "implementation"] /\ job[m] = "interface"
      /\ job \in [Module -> {"idle", "queued", "interface", "implementation", "done"}]
      /\ result' = [result EXCEPT ![m] = InterfaceDone(verdict)]
      /\ result \in [Module -> JobResult]
      /\ UNCHANGED <<compileDirty, current, deps>>
      /\ deps \in [Module -> SUBSET Module] /\ fresh \in [Module -> SUBSET Module]
      /\ m \in SourceFile \cap compileDirty
  BY DEF IInv, LoopInv, TypeOK, Graph, RunningJobs, Running
<1>2. SuccessLeavesNothingStale'
  <2>1. phase # "idle"
    BY <1>1 DEF IInv, LoopInv, Bookkeeping
  <2> QED BY <2>1, NothingEnds DEF IInv, loopVars
<1>3. \A x \in Module : /\ fresh'[x] \subseteq fresh[x] /\ fresh[x] \ {m} \subseteq fresh'[x]
  BY <1>1 DEF WriteCmi
<1>4. /\ \A d \in Module \ {m} : d \in digestDiffers' <=> d \in digestDiffers
      /\ m \in digestDiffers => m \in digestDiffers'
      /\ m \in digestDiffers' \/ fresh' = fresh
  BY DEF WriteCmi
<1>5. \A x \in Module : Ready(x) => m \notin Reads(x)
  BY <1>1, NotReadByReady DEF IInv
<1>6. NothingForgotten'
  <2>1. \A d \in Module : Pending(d) => Pending(d)'
    BY <1>1, <1>4 DEF Pending, Running
  <2>2. m \in digestDiffers' => Pending(m)'
    BY <1>1 DEF Pending, Running
  <2>3. ASSUME NEW x \in SourceFile, x \notin compileDirty'
        PROVE  x \in current' /\ \A d \in Reads(x)' \ fresh'[x] : Awaited(x, d)'
    <3>1. x \in Module /\ Reads(x)' = Reads(x) /\ Reads(x) \subseteq Module
      BY <1>1, ReadsKept, ReadsAreModules DEF IInv, LoopInv, SourceFile
    <3>2. x \in current /\ \A d \in Reads(x) \ fresh[x] : Awaited(x, d)
      BY <1>1, <2>3 DEF IInv, NothingForgotten
    <3>3. \A d \in Module : Awaited(x, d) => Awaited(x, d)'
      BY <1>1, <2>1, <3>1, AwaitedKept
    <3>4. m \notin fresh[x] \/ m \in fresh'[x] \/ Awaited(x, m)'
      BY <1>4, <2>2 DEF Awaited
    <3> QED BY <1>1, <1>3, <3>1, <3>2, <3>3, <3>4
  <2> QED BY <2>3 DEF NothingForgotten, SourceFile
<1>7. DoneIsUpToDate' /\ CompiledIsUpToDate'
  <2>1. \A x \in Module : Ready(x) /\ UpToDate(x) => UpToDate(x)'
    BY <1>1, <1>3, <1>5, ReadsKept DEF UpToDate
  <2>2. DoneIsUpToDate'
    BY <1>1, <2>1 DEF IInv, LoopInv, JobsAreReady, DoneIsUpToDate, SourceFile
  <2>3. CompiledIsUpToDate'
    BY <1>1, <2>1 DEF IInv, LoopInv, CompiledAreReady, CompiledIsUpToDate, SourceFile, loopVars
  <2> QED BY <2>2, <2>3
<1> QED BY <1>2, <1>6, <1>7 DEF IInv

LEMMA CompileImplementationPreserves ==
  ASSUME IInv, LoopInv', NEW m \in Module, NEW verdict \in Verdict, NEW differs \in BOOLEAN,
         CompileImplementation(m, verdict, differs)
  PROVE  IInv'
<1> DEFINE r == result'[m]
           built == ~Failed(r)
<1> USE DEF CompileImplementation, Finish
<1>1. /\ job' = [job EXCEPT ![m] = "done"] /\ job[m] = "implementation"
      /\ job \in [Module -> {"idle", "queued", "interface", "implementation", "done"}]
      /\ \A x \in Module \ {m} : result'[x] = result[x]
      /\ r.clean = (m \notin digestDiffers')
      /\ result \in [Module -> JobResult]
      /\ UNCHANGED <<compileDirty, deps>>
      /\ deps \in [Module -> SUBSET Module] /\ fresh \in [Module -> SUBSET Module]
      /\ m \in SourceFile \cap compileDirty /\ seen[m] = Reads(m)
  BY DEF IInv, LoopInv, TypeOK, Graph, RunningJobs, Running
<1>2. SuccessLeavesNothingStale'
  <2>1. phase # "idle"
    BY <1>1 DEF IInv, LoopInv, Bookkeeping
  <2> QED BY <2>1, NothingEnds DEF IInv, loopVars
<1>3. /\ \A x \in Module \ {m} : /\ fresh'[x] \subseteq fresh[x]
                                 /\ fresh[x] \ {m} \subseteq fresh'[x]
      /\ seen'[m] = seen[m] \/ seen'[m] = seen[m] \ {m}
  BY <1>1 DEF WriteCmi, IInv, LoopInv, TypeOK
<1>4. built => m \in current' /\ fresh'[m] = Reads(m)
  BY <1>1 DEF Failed
<1>5. \A x \in Module \ {m} : x \in current' <=> x \in current
  OBVIOUS
<1>6. /\ \A d \in Module \ {m} : d \in digestDiffers' <=> d \in digestDiffers
      /\ m \in digestDiffers => m \in digestDiffers'
      /\ m \in digestDiffers' \/ \A x \in Module \ {m} : fresh'[x] = fresh[x]
  BY <1>1 DEF WriteCmi
<1>7. \A x \in Module : Ready(x) => m \notin Reads(x)
  BY <1>1, NotReadByReady DEF IInv
<1>8. NothingForgotten'
  <2>1. \A d \in Module : Pending(d) => Pending(d)'
    BY <1>1, <1>6 DEF Pending, Running, SourceFile
  <2>2. m \in digestDiffers' => Pending(m)'
    BY <1>1 DEF Pending
  <2>3. ASSUME NEW x \in SourceFile, x \notin compileDirty'
        PROVE  x \in current' /\ \A d \in Reads(x)' \ fresh'[x] : Awaited(x, d)'
    <3>1. x \in Module \ {m} /\ Reads(x)' = Reads(x) /\ Reads(x) \subseteq Module
      BY <1>1, <2>3, ReadsKept, ReadsAreModules DEF IInv, LoopInv, SourceFile
    <3>2. x \in current /\ \A d \in Reads(x) \ fresh[x] : Awaited(x, d)
      BY <1>1, <2>3 DEF IInv, NothingForgotten
    <3>3. \A d \in Module : Awaited(x, d) => Awaited(x, d)'
      BY <1>1, <2>1, <3>1, AwaitedKept
    <3>4. m \notin fresh[x] \/ m \in fresh'[x] \/ Awaited(x, m)'
      BY <1>6, <2>2, <3>1 DEF Awaited
    <3> QED BY <1>3, <1>5, <3>1, <3>2, <3>3, <3>4
  <2> QED BY <2>3 DEF NothingForgotten, SourceFile
<1>9. DoneIsUpToDate' /\ CompiledIsUpToDate'
  <2>1. \A x \in Module \ {m} : Ready(x) /\ UpToDate(x) => UpToDate(x)'
    BY <1>1, <1>3, <1>5, <1>7, ReadsKept DEF UpToDate
  <2>2. built => UpToDate(m)'
    BY <1>1, <1>4, ReadsKept DEF UpToDate
  <2>3. DoneIsUpToDate'
    BY <1>1, <2>1, <2>2 DEF IInv, LoopInv, JobsAreReady, DoneIsUpToDate, SourceFile
  <2>4. m \notin compiled
    BY <1>1 DEF IInv, LoopInv, JobsAreReady
  <2>5. CompiledIsUpToDate'
    BY <1>1, <2>1, <2>4 DEF IInv, LoopInv, CompiledAreReady, CompiledIsUpToDate, SourceFile, loopVars
  <2> QED BY <2>3, <2>5
<1> QED BY <1>2, <1>8, <1>9 DEF IInv

(* Applying a result makes m compiled and ends its job.  If its .cmi changed, all
   its dependents, hence all that were waiting for it, are marked. *)
LEMMA ProcessResultPreserves ==
  ASSUME IInv, LoopInv', NEW m \in Module, ProcessResult(m)
  PROVE  IInv'
<1> USE DEF ProcessResult, project
<1>1. /\ phase = "results" /\ job[m] = "done"
      /\ job' = [job EXCEPT ![m] = "idle"]
      /\ job \in [Module -> {"idle", "queued", "interface", "implementation", "done"}]
      /\ compiled' = compiled \cup {m}
      /\ UNCHANGED <<deps, dependents, current, fresh, phase, universe, batch, outcome>>
      /\ deps \in [Module -> SUBSET Module]
      /\ \A x \in Module \ {m} : result'[x] = result[x]
  BY DEF IInv, LoopInv, TypeOK, Graph
<1>2. m \in Module /\ \A x \in Module : job[x] \in {"idle", "done"}
  BY <1>1 DEF IInv, LoopInv, Bookkeeping
<1>3. /\ compileDirty \ {m} \subseteq compileDirty'
      /\ ~result[m].clean => dependents[m] \ {m} \subseteq compileDirty'
      /\ m \notin MlMap /\ ~Succeeded(result[m]) => m \in compileDirty'
  BY DEF DirtyAfter
<1>4. m \in SourceFile /\ m \notin compileDirty' => UpToDate(m)
  BY <1>1, <1>3 DEF IInv, DoneIsUpToDate, Succeeded, Failed, NoInterface, SourceFile
<1>5. NothingForgotten'
  <2>1. ASSUME NEW x \in SourceFile, x \notin compileDirty', x # m
        PROVE  x \in current /\ \A d \in Reads(x) \ fresh[x] : Awaited(x, d)
    BY <1>3, <2>1 DEF IInv, NothingForgotten, SourceFile
  <2>2. ASSUME NEW x \in SourceFile, x \notin compileDirty', x # m,
               NEW d \in Reads(x), Awaited(x, d)
        PROVE  Awaited(x, d)'
    <3>1. x \in Module /\ d \in Module /\ m \in Module
      BY <2>2, ReadsAreModules DEF SourceFile, IInv, LoopInv
    <3>2. ASSUME ~result[m].clean PROVE m \notin deps[x]
      BY <1>3, <2>2, <3>1, <3>2 DEF IInv, LoopInv, ReverseEdges
    <3>3. CASE Pending(d) /\ d # m
      BY <1>1, <1>2, <1>3, <3>1, <3>3 DEF Awaited, Pending, Running
    <3>4. CASE Pending(d) /\ d = m
      <4>1. ~result[m].clean /\ m \notin deps[x]
        BY <1>1, <3>2, <3>4 DEF Pending, Running, IInv, LoopInv, MlMaps
      <4>2. PICK n \in deps[x] \cap MlMap : m \in deps[n]
        BY <2>2, <3>4, <4>1 DEF Reads
      <4>3. n \in Module /\ n # m
        BY <4>1, <4>2, KindAssumption
      <4>4. n \in compileDirty'
        BY <1>3, <4>1, <4>2, <4>3 DEF IInv, LoopInv, ReverseEdges
      <4> QED BY <1>1, <3>4, <4>2, <4>4 DEF Awaited
    <3>5. ASSUME NEW n \in deps[x] \cap MlMap \cap compileDirty, d \in deps[n]
          PROVE  Awaited(x, d)'
      <4>1. n # m
        <5>1. CASE n = m
          BY <1>1, <3>2, <3>5, <5>1 DEF IInv, LoopInv, MlMaps
        <5> QED BY <5>1
      <4> QED BY <1>1, <1>3, <3>5, <4>1 DEF Awaited
    <3> QED BY <2>2, <3>3, <3>4, <3>5 DEF Awaited
  <2>3. \A x \in Module : Reads(x)' = Reads(x)
    BY <1>1, ReadsKept
  <2> QED BY <1>1, <1>4, <2>1, <2>2, <2>3 DEF NothingForgotten, UpToDate, SourceFile
<1>6. DoneIsUpToDate' /\ CompiledIsUpToDate'
  <2>1. \A x \in SourceFile : UpToDate(x) => UpToDate(x)'
    BY <1>1, ReadsKept DEF UpToDate, SourceFile
  <2>2. DoneIsUpToDate'
    BY <1>1, <2>1 DEF IInv, DoneIsUpToDate, SourceFile
  <2>3. CompiledIsUpToDate'
    BY <1>1, <2>1 DEF IInv, CompiledIsUpToDate, DoneIsUpToDate, SourceFile
  <2> QED BY <2>2, <2>3
<1>7. SuccessLeavesNothingStale'
  BY <1>1, NothingEnds DEF IInv
<1> QED BY <1>5, <1>6, <1>7 DEF IInv

LEMMA NextPreserves == IInv /\ [Next]_vars => IInv'
<1> SUFFICES ASSUME IInv, [Next]_vars PROVE IInv'
  OBVIOUS
<1>1. LoopInv'
  BY LoopKept DEF IInv
<1>2. CASE UNCHANGED vars
  BY <1>1, <1>2 DEF vars, project, loopVars, jobVars, IInv, NothingForgotten, DoneIsUpToDate,
                    CompiledIsUpToDate, SuccessLeavesNothingStale, Reads, Running, UpToDate,
                    Pending, Awaited, Stale
<1>3. CASE ChangeStep
  BY <1>1, <1>3, ChangePreserves DEF ChangeStep
<1>4. CASE StartCompile
  BY <1>1, <1>4, StartCompilePreserves
<1>5. CASE CompileStep
  <2>1. CASE StartBatch
    BY <1>1, <2>1, StartBatchPreserves
  <2>2. CASE CollectResults \/ NextBatch
    BY <1>1, <2>2, CollectPreserves
  <2>3. CASE Return
    BY <1>1, <2>3, ReturnPreserves
  <2>4. ASSUME NEW m \in Module, RunJob(m) PROVE IInv'
    BY <1>1, <2>4, SkipCleanPreserves, PassMlMapPreserves, StartFilePreserves,
       CompileInterfacePreserves, CompileImplementationPreserves DEF RunJob
  <2>5. ASSUME NEW m \in Module, ProcessResult(m) PROVE IInv'
    BY <1>1, <2>5, ProcessResultPreserves
  <2> QED BY <1>5, <2>1, <2>2, <2>3, <2>4, <2>5 DEF CompileStep
<1> QED BY <1>2, <1>3, <1>4, <1>5 DEF Next

THEOREM Invariance == Spec => []IInv
BY InitEstablishes, NextPreserves, PTL DEF Spec

-----------------------------------------------------------------------------
(* What follows from the inductive invariant. *)

(* Every variable of the compile loop keeps its type. *)
THEOREM TypeCorrect == Spec => []TypeOK
<1>1. IInv => TypeOK
  BY DEF IInv, LoopInv
<1> QED BY <1>1, Invariance, PTL

(* Whatever the call ends with, a module that is out of date is dirty or depends on
   a dirty namespace: the next call compiles it. *)
THEOREM NothingStaleIsForgotten == Spec => []StaleIsDirty
<1>1. IInv => StaleIsDirty
  <2> SUFFICES ASSUME IInv, phase = "idle", NEW m \in Module, Stale(m), m \notin compileDirty
               PROVE  deps[m] \cap MlMap \cap compileDirty # {}
    BY DEF StaleIsDirty
  <2>1. \A x \in Module : job[x] = "idle"
    BY DEF IInv, LoopInv, Bookkeeping
  <2>2. m \in SourceFile \ compileDirty /\ ~UpToDate(m)
    BY DEF Stale, UpToDate
  <2>3. PICK d \in Reads(m) \ fresh[m] : Awaited(m, d)
    BY <2>2 DEF IInv, LoopInv, NothingForgotten, UpToDate
  <2>4. d \in Module
    BY ReadsAreModules DEF IInv, LoopInv
  <2>5. CASE \E n \in deps[m] \cap MlMap \cap compileDirty : d \in deps[n]
    BY <2>5
  <2>6. CASE d \in MlMap \cap compileDirty
    BY <2>3, <2>6, KindAssumption DEF Reads, IInv, LoopInv, TypeOK, Graph, SourceFile
  <2> QED BY <2>1, <2>3, <2>4, <2>5, <2>6 DEF Awaited, Pending, Running
<1> QED BY <1>1, Invariance, PTL

(* A call without errors leaves every artifact up to date. *)
THEOREM SuccessIsFresh == Spec => []SuccessLeavesNothingStale
<1>1. IInv => SuccessLeavesNothingStale
  BY DEF IInv, LoopInv
<1> QED BY <1>1, Invariance, PTL

(* Two modules of which one is upstream of the other never run bsc together: what
   is compiled already, with all that is outside of the universe, is closed under
   deps and has the direct dependencies of whatever runs, hence all that is
   upstream of it; but what runs is in the universe and not compiled. *)
THEOREM NoConcurrentReadAndWrite == Spec => []NoReadWhileWritten
<1>1. IInv => NoReadWhileWritten
  <2> SUFFICES ASSUME IInv, NEW m \in Module, NEW d \in Module, Running(m), Running(d),
                      d \in Upstream(m)
               PROVE  FALSE
    BY DEF NoReadWhileWritten
  <2> DEFINE Settled == compiled \cup (Module \ universe)
  <2>1. Settled \in SUBSET Module /\ deps \in [Module -> SUBSET Module]
    BY DEF IInv, LoopInv, TypeOK, Graph
  <2>2. d \in universe \ compiled /\ Ready(m) /\ phase # "idle"
    BY DEF Running, IInv, LoopInv, JobsAreReady, Bookkeeping
  <2>3. deps[m] \subseteq Settled
    BY <2>1, <2>2 DEF Ready
  <2>4. ASSUME NEW x \in Settled, NEW y \in deps[x] PROVE y \in Settled
    <3>1. x \in Module /\ y \in Module
      BY <2>1
    <3>2. CASE x \in compiled
      BY <3>1, <3>2 DEF IInv, LoopInv, CompiledAreReady, Ready
    <3>3. CASE x \notin universe
      BY <2>2, <3>1, <3>3 DEF IInv, LoopInv, ReverseEdges, UniverseClosed
    <3> QED BY <3>2, <3>3
  <2>5. d \in Settled
    BY <2>1, <2>3, <2>4 DEF Upstream
  <2> QED BY <2>2, <2>5
<1> QED BY <1>1, Invariance, PTL

(* When no module of a batch was ready, what is left of the universe has a cycle:
   each module of it waits for another module of it. *)
THEOREM CycleIsReal == Spec => []CycleWhenStuck
<1>1. IInv => CycleWhenStuck
  <2> SUFFICES ASSUME IInv, Applied, Stuck
               PROVE  CyclicWithin(universe)
    BY DEF CycleWhenStuck
  <2> DEFINE Left == universe \ compiled
  <2>1. compiled # universe /\ compiled \subseteq universe
    BY CountIsComplete DEF Stuck, IInv, LoopInv, Bookkeeping
  <2>2. ASSUME NEW m \in Left PROVE deps[m] \cap Left # {}
    <3>1. m \in Module
      BY DEF IInv, LoopInv, TypeOK
    <3>2. ~Ready(m)
      <4>1. CASE inProgress = {}
        BY <4>1 DEF IInv, LoopInv, ReadyInProgress, Applied
      <4>2. CASE inProgress = batch
        <5>1. batch \cap compiled = {}
          BY <4>2 DEF IInv, LoopInv, Bookkeeping
        <5>2. \A x \in batch : job[x] = "idle"
          BY DEF Applied, IInv, LoopInv, TypeOK, Bookkeeping
        <5> QED BY <4>2, <5>1, <5>2 DEF IInv, LoopInv, ReadyInProgress, BatchNotReady, Applied
      <4> QED BY <4>1, <4>2 DEF Stuck
    <3> QED BY <3>2 DEF Ready
  <2>3. Left \subseteq universe /\ Left # {}
    BY <2>1
  <2> QED BY <2>2, <2>3 DEF CyclicWithin
<1> QED BY <1>1, Invariance, PTL
=============================================================================
