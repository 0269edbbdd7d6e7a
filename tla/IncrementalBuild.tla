-------------------------- MODULE IncrementalBuild --------------------------
(***************************************************************************)
(* `rescript build`, run again and again (rewatch/src/build.rs).  Each run *)
(* is a process of its own: it knows of the runs before it only what their *)
(* artifacts in lib/ocaml tell it, which are the times of the .ast, .iast  *)
(* and .cmt files (read_compile_state.rs, clean.rs).  From these it finds  *)
(* what to parse (parse.rs) and what to compile (clean.rs, and the expired *)
(* modules of compile.rs), reads the deps from the ASTs (deps.rs), runs    *)
(* the compile loop of module Compile and removes the ASTs of modules with *)
(* warnings, so that they are compiled, and the warnings shown, again.     *)
(*                                                                         *)
(* The user edits, creates and deletes sources between the runs, and may   *)
(* kill a run anywhere.  Packages have no namespaces here: MlMap is empty. *)
(*                                                                         *)
(* Left out: a bsc that fails to parse and prints nothing on stderr, as    *)
(* one does that is killed, counts as one that succeeded and the old AST   *)
(* is taken for the new (parse.rs; module Watcher has it); only the        *)
(* interface of a module is deleted (clean.rs has a case for it), the      *)
(* modules of WithInterface have one as long as they exist; a source gets  *)
(* an old time (again module Watcher).                                     *)
(***************************************************************************)
EXTENDS Compile

CONSTANTS
  Kills,         \* may a run be killed?
  HalfFailures,  \* which half of a module may fail although bsc accepts the other:
                 \* a subset of {"interface", "implementation"}
  Deletions      \* may sources be deleted?

ASSUME NoNamespaces == MlMap = {}
ASSUME RunAssumption ==
  /\ Kills \in BOOLEAN /\ Deletions \in BOOLEAN
  /\ HalfFailures \subseteq {"interface", "implementation"}

VARIABLES
  step,         \* what the run is doing
  present,      \* modules that have sources
  refs,         \* the modules that the sources of a module name
  onDisk,       \* sources, and the .ast, .iast and .cmt files in lib/ocaml
  newer,        \* which file was written after which, for those that are compared
  parsed,       \* sources whose AST comes from their present text
  unclean,      \* .ast, .iast and .cmt files that were made with a warning
  answered,     \* what bsc said of a source when it compiled what there is now
  toParse,      \* sources that generate_asts has still to parse
  parseFailed,  \* has_failure
  deleted,      \* BuildState.deleted_modules
  logged,       \* the files about which this run has warned
  succeeded     \* the run before ended well and nothing was changed or killed since

sourceVars == <<present, refs>>
diskVars   == <<onDisk, newer>>
runVars    == <<toParse, parseFailed, deleted, logged>>
buildVars  == <<vars, step, sourceVars, diskVars, parsed, unclean, answered, runVars,
               succeeded>>

Sources(m) == {<<"res", m>>} \cup (IF m \in WithInterface THEN {<<"resi", m>>} ELSE {})
AstOf(f)   == <<IF f[1] = "res" THEN "ast" ELSE "iast", f[2]>>
Asts(m)    == {AstOf(f) : f \in Sources(m)}
Cmt(m)     == <<"cmt", m>>
Cmts       == {Cmt(m) : m \in Module}

AllSources == UNION {Sources(m) : m \in Module}
Artifact   == UNION {Asts(m) \cup {Cmt(m)} : m \in Module}

(* An AST is compared with its source, a .cmt with the ASTs of the module and with the
   .cmt files of other modules. *)
Compared ==
  {<<AstOf(f), f>> : f \in AllSources}
    \cup (UNION {{Cmt(m)} \X Asts(m) : m \in Module})
    \cup (Cmts \X Cmts)

BuildTypeOK ==
  /\ TypeOK
  /\ step \in {"down", "parsing", "marked", "compiling", "cleanup"}
  /\ present \subseteq Module
  /\ refs \in [Module -> SUBSET Module]
  /\ onDisk \subseteq AllSources \cup Artifact
  /\ newer \subseteq Compared \cap (onDisk \X onDisk)
  /\ parsed \subseteq AllSources
  /\ unclean \subseteq Artifact
  /\ answered \in [AllSources -> {"unknown"} \cup Verdict]
  /\ toParse \subseteq AllSources
  /\ parseFailed \in BOOLEAN
  /\ deleted \subseteq Module
  /\ logged \subseteq Artifact
  /\ succeeded \in BOOLEAN

NoEdges == [m \in Module |-> {}]

(* A project that was never built. *)
BuildInit ==
  /\ step = "down"
  /\ present = Module
  /\ refs \in [Module -> SUBSET Module]
  /\ onDisk = AllSources /\ newer = {}
  /\ parsed = {} /\ unclean = {}
  /\ answered = [f \in AllSources |-> "unknown"]
  /\ toParse = {} /\ parseFailed = FALSE /\ deleted = {} /\ logged = {}
  /\ succeeded = FALSE
  /\ deps = NoEdges /\ dependents = NoEdges /\ compileDirty = {}
  /\ current = {} /\ fresh = NoEdges /\ hasCmi = {} /\ edits = 0
  /\ phase = "idle" /\ outcome = "none"
  /\ universe = {} /\ compiled = {} /\ inProgress = {} /\ batch = {}
  /\ total = 0 /\ errors = FALSE
  /\ job = [m \in Module |-> "idle"] /\ seen = NoEdges
  /\ digestDiffers = {} /\ result = [m \in Module |-> Untouched(m)]

WriteFiles(F) ==
  /\ onDisk' = onDisk \cup F
  /\ newer' = {p \in newer : p[2] \notin F} \cup (Compared \cap (F \X (onDisk \ F)))

RemoveFiles(F) ==
  /\ onDisk' = onDisk \ F
  /\ newer' = {p \in newer : p[1] \notin F /\ p[2] \notin F}

-----------------------------------------------------------------------------
(* Between two runs. *)

Unknown(F) == [f \in AllSources |-> IF f \in F THEN "unknown" ELSE answered[f]]

ChangeSources(m, newRefs) ==
  /\ step = "down" /\ Change
  /\ refs' = [refs EXCEPT ![m] = newRefs]
  /\ current' = current \ {m}
  /\ answered' = Unknown(Sources(m))
  /\ succeeded' = FALSE
  /\ UNCHANGED <<step, deps, dependents, compileDirty, fresh, unclean, runVars>>

EditSource(f, newRefs) ==
  /\ f[2] \in present
  /\ ChangeSources(f[2], newRefs)
  /\ WriteFiles({f})
  /\ parsed' = parsed \ {f}
  /\ UNCHANGED present

CreateModule(m, newRefs) ==
  /\ m \notin present
  /\ ChangeSources(m, newRefs)
  /\ present' = present \cup {m}
  /\ WriteFiles(Sources(m))
  /\ parsed' = parsed \ Sources(m)

(* All sources of the module. *)
DeleteModule(m) ==
  /\ Deletions /\ m \in present
  /\ ChangeSources(m, {})
  /\ present' = present \ {m}
  /\ RemoveFiles(Sources(m))
  /\ parsed' = parsed \ Sources(m)

-----------------------------------------------------------------------------
(* initialize_build: the state that the last runs have left.  A module is not dirty if its
   .cmt is newer than one of its ASTs, a source if its AST is newer; both sources of a
   module are parsed if one of them is dirty.  cleanup_previous_build removes the
   artifacts of modules that have an AST and no sources. *)
CompiledSinceParsed_WhenCmt(m) == Cmt(m) \in onDisk
CompiledSinceParsed(m) == \E a \in Asts(m) : <<Cmt(m), a>> \in newer

ParseDirty_WithoutAst(f) == AstOf(f) \notin onDisk
ParseDirty(f) == <<AstOf(f), f>> \notin newer

initialize_build ==
  LET gone == {m \in Module \ present : Asts(m) \cap onDisk # {}}
      dirty == {m \in present : \E f \in Sources(m) : ParseDirty(f)}
      removed == UNION {Asts(m) \cup {Cmt(m)} : m \in gone}
  IN /\ step = "down" /\ step' = "parsing"
     /\ deleted' = {m \in gone : <<"ast", m>> \in onDisk}
     /\ RemoveFiles(removed)
     /\ unclean' = unclean \ removed
     /\ hasCmi' = hasCmi \ gone
     /\ fresh' = [m \in Module |-> fresh[m] \ gone]
     /\ answered' = Unknown({f \in AllSources : refs[f[2]] \cap gone # {}})
     /\ compileDirty' = {m \in present : ~CompiledSinceParsed(m)}
     /\ toParse' = UNION {Sources(m) : m \in dirty}
     /\ outcome' = "none"
     /\ UNCHANGED <<deps, dependents, current, edits, phase, universe, compiled, inProgress,
                    batch, total, errors, jobVars, sourceVars, parsed, parseFailed, logged,
                    succeeded>>

UncleanAfter(file, warned) == IF warned THEN unclean \cup {file} ELSE unclean \ {file}
LoggedAfter(file, warned) == IF warned THEN logged \cup {file} ELSE logged

(* generate_asts parses in parallel, the implementation of a module first.  A bsc that
   fails says so on stderr here, and leaves the AST as it was.  A text that bsc has accepted
   it accepts again. *)
generate_ast(f, verdict) ==
  /\ step = "parsing" /\ f \in toParse
  /\ f[1] = "resi" => <<"res", f[2]>> \notin toParse
  /\ f \in parsed => verdict # "error"
  /\ toParse' = toParse \ {f}
  /\ compileDirty' = compileDirty \cup {f[2]}
  /\ IF verdict = "error"
     THEN /\ parseFailed' = TRUE
          /\ UNCHANGED <<diskVars, parsed, logged, unclean>>
     ELSE /\ WriteFiles({AstOf(f)})
          /\ parsed' = parsed \cup {f}
          /\ unclean' = UncleanAfter(AstOf(f), verdict = "warning")
          /\ logged' = LoggedAfter(AstOf(f), verdict = "warning")
          /\ UNCHANGED parseFailed
  /\ UNCHANGED <<project, phase, loopVars, jobVars, step, sourceVars, deleted, answered,
                 succeeded>>

StopAtParseError ==
  /\ step = "parsing" /\ toParse = {} /\ parseFailed
  /\ step' = "cleanup"
  /\ outcome' = "failed"
  /\ UNCHANGED <<project, compileDirty, phase, universe, compiled, inProgress, batch, total,
                 errors, jobVars, sourceVars, diskVars, parsed, unclean, answered, runVars,
                 succeeded>>

(* get_deps reads the names from the ASTs, all of them those of the present text after
   generate_asts, and takes those that belong to modules, deleted ones included. *)
DepsRead == [m \in Module |-> IF m \in present
                              THEN WithoutItself(m, refs[m] \cap (present \cup deleted))
                              ELSE {}]

(* mark_modules_with_expired_deps_dirty: a dependent whose .cmt is missing or older than
   that of the module, and a module with dependents that has no .cmt. *)
Expired_Never(g) == {}
Expired(g) ==
  {m \in present : \E d \in g[m] \cap present : Cmt(m) \notin onDisk \/ <<Cmt(d), Cmt(m)>> \in newer}
    \cup {d \in present : Cmt(d) \notin onDisk /\ \E m \in present : d \in g[m]}

(* mark_modules_with_deleted_deps_dirty *)
LostDeps(g) == {m \in present : g[m] \cap deleted # {}}

get_deps_and_mark ==
  /\ step = "parsing" /\ toParse = {} /\ ~parseFailed
  /\ step' = "marked"
  /\ deps' = DepsRead
  /\ dependents' = [d \in Module |-> IF d \in present THEN {m \in Module : d \in DepsRead[m]}
                                                      ELSE {}]
  /\ compileDirty' = compileDirty \cup Expired(DepsRead) \cup LostDeps(DepsRead)
  /\ UNCHANGED <<current, fresh, hasCmi, edits, phase, loopVars, jobVars, sourceVars,
                 diskVars, parsed, unclean, answered, runVars, succeeded>>

-----------------------------------------------------------------------------
(* The call of compile. *)

KeepRun == UNCHANGED <<sourceVars, parsed, toParse, parseFailed, deleted, succeeded>>
KeepDisk == UNCHANGED <<diskVars, unclean, logged, answered>>

BeginCompile ==
  /\ step = "marked" /\ step' = "compiling"
  /\ StartCompile
  /\ KeepRun /\ KeepDisk

(* bsc needs the .cmi of every module that the sources name, and that of the module
   itself for the implementation if there is an interface. *)
ReadBy(f) == (refs[f[2]] \ {f[2]})
               \cup (IF f[1] = "res" THEN {f[2]} \cap WithInterface ELSE {})

(* What bsc makes of a source is the same until the source or a .cmi that it reads
   has changed. *)
Answer(f, verdict, differs) ==
  /\ ReadBy(f) \subseteq hasCmi \/ verdict = "error"
  /\ answered[f] # "unknown" => verdict = answered[f] /\ ~differs
  /\ verdict = "error" => ~differs
  /\ answered' = [g \in AllSources |->
       IF g = f THEN verdict
       ELSE IF differs /\ f[2] \in ReadBy(g) THEN "unknown" ELSE answered[g]]

RunInterface(m, verdict, differs) ==
  /\ CompileInterface(m, verdict, differs)
  /\ Answer(<<"resi", m>>, verdict, differs)
  /\ UNCHANGED <<diskVars, unclean, logged>>

(* The .cmt is copied whenever bsc accepts the implementation.  It is unclean if bsc
   warned of the implementation or of the interface. *)
RunImplementation(m, verdict, differs) ==
  /\ m \in WithInterface =>
       /\ ~differs
       /\ result[m].intf = "error" /\ verdict # "error" => "interface" \in HalfFailures
       /\ result[m].intf # "error" /\ verdict = "error" => "implementation" \in HalfFailures
  /\ CompileImplementation(m, verdict, differs)
  /\ Answer(<<"res", m>>, verdict, differs)
  /\ IF verdict = "error"
     THEN UNCHANGED <<diskVars, unclean>>
     ELSE /\ WriteFiles({Cmt(m)})
          /\ unclean' = UncleanAfter(Cmt(m), "warning" \in {verdict, result[m].intf})
  /\ UNCHANGED logged

TakeResult(m) ==
  /\ ProcessResult(m)
  /\ logged' = LoggedAfter(Cmt(m), "warning" \in {result[m].impl, result[m].intf})
  /\ UNCHANGED <<diskVars, unclean, answered>>

CompileLoop ==
  /\ step = "compiling" /\ UNCHANGED step /\ KeepRun
  /\ \/ (StartBatch \/ CollectResults \/ NextBatch) /\ KeepDisk
     \/ \E m \in Module :
          \/ (SkipClean(m) \/ StartFile(m)) /\ KeepDisk
          \/ \E verdict \in Verdict, differs \in BOOLEAN :
               RunInterface(m, verdict, differs) \/ RunImplementation(m, verdict, differs)
          \/ TakeResult(m)

EndCompile ==
  /\ step = "compiling" /\ step' = "cleanup"
  /\ Return
  /\ KeepRun /\ KeepDisk

-----------------------------------------------------------------------------
(* The end of a run: what it had in memory is gone. *)
Forget ==
  /\ step' = "down"
  /\ deps' = NoEdges /\ dependents' = NoEdges /\ compileDirty' = {}
  /\ toParse' = {} /\ parseFailed' = FALSE /\ deleted' = {} /\ logged' = {}
  /\ UNCHANGED <<current, edits, sourceVars, parsed, unclean>>

(* cleanup_after_build removes the ASTs of modules with warnings. *)
AstsWithWarnings_Kept == {}
AstsWithWarnings == UNION {Asts(m) : m \in {file[2] : file \in logged}}

cleanup_after_build ==
  /\ step = "cleanup"
  /\ RemoveFiles(AstsWithWarnings)
  /\ Forget
  /\ succeeded' = (outcome = "ok")
  /\ UNCHANGED <<fresh, hasCmi, answered, phase, loopVars, jobVars>>

(* compile_file copies the .cmi of a module without interface to lib/ocaml, and then its
   .cmt: these may be between the two. *)
BetweenCopies ==
  {m \in Module \ WithInterface : /\ job[m] = "implementation"
                                 /\ ReadBy(<<"res", m>>) \subseteq hasCmi
                                 /\ answered[<<"res", m>>] = "unknown"}

Kill ==
  /\ Kills /\ step # "down"
  /\ \E copied \in SUBSET BetweenCopies :
       /\ hasCmi' = hasCmi \cup copied
       /\ fresh' = [x \in Module |-> fresh[x] \ copied]
       /\ answered' = [g \in AllSources |-> IF g[2] \in copied THEN "ok"
                                            ELSE IF ReadBy(g) \cap copied # {} THEN "unknown"
                                            ELSE answered[g]]
  /\ Forget
  /\ succeeded' = FALSE
  /\ phase' = "idle" /\ outcome' = "none"
  /\ universe' = {} /\ compiled' = {} /\ inProgress' = {} /\ batch' = {}
  /\ total' = 0 /\ errors' = FALSE
  /\ job' = [m \in Module |-> "idle"] /\ seen' = NoEdges
  /\ digestDiffers' = {} /\ result' = [m \in Module |-> Untouched(m)]
  /\ UNCHANGED diskVars

RunStep ==
  \/ \E f \in AllSources, verdict \in Verdict : generate_ast(f, verdict)
  \/ StopAtParseError \/ get_deps_and_mark
  \/ BeginCompile \/ CompileLoop \/ EndCompile
  \/ cleanup_after_build

UserStep ==
  \E newRefs \in SUBSET Module :
    \/ \E f \in AllSources : EditSource(f, newRefs)
    \/ \E m \in Module : CreateModule(m, newRefs)

BuildNext ==
  \/ UserStep
  \/ \E m \in Module : DeleteModule(m)
  \/ initialize_build \/ RunStep \/ Kill

(* A run that is not killed goes on. *)
BuildSpec == BuildInit /\ [][BuildNext]_buildVars /\ WF_buildVars(RunStep)

-----------------------------------------------------------------------------
OutOfDate(m) == m \notin current \/ ~(refs[m] \ {m} \subseteq present \cap fresh[m])

(* A run that reports success leaves every module compiled from its present sources and
   against the present .cmi files of the modules it names. *)
UpToDateAfterSuccess ==
  step = "cleanup" /\ outcome = "ok" => \A m \in present : ~OutOfDate(m)

(* If a run nevertheless leaves a module out of date, because a run before it was killed,
   the next run does not. *)
RepairedByNextRun ==
  step = "cleanup" /\ outcome = "ok" /\ succeeded => \A m \in present : ~OutOfDate(m)

(* The same for modules that name no module without sources, if runs are killed or sources
   deleted and created again, but not both: dependents are compiled against the new module. *)
RepairedButForDeletions ==
  step = "cleanup" /\ outcome = "ok" /\ succeeded =>
    \A m \in present : refs[m] \ {m} \subseteq present => ~OutOfDate(m)

(* bsc compiles an AST only if it is that of the present text. *)
ParsedBeforeCompiled == \A m \in Module : Running(m) => Sources(m) \subseteq parsed

(* A warning is given again by every run until its cause is gone: "this will cause the
   file to be recompiled (and thus keep showing the warning)". *)
WarningsAreShownAgain ==
  step = "cleanup" /\ outcome = "ok" =>
    {file \in unclean : file[2] \in present} \subseteq logged

=============================================================================
