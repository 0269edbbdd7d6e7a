----------------------- MODULE IncrementalBuildProofs -----------------------
(***************************************************************************)
(* Builds one after the other, killed anywhere: their state keeps its type *)
(* and bsc compiles an AST only if it is that of the present text, for any *)
(* set of modules, any texts and any number of edits.                      *)
(***************************************************************************)
EXTENDS IncrementalBuild, CompileProofs

(* An AST that is newer than its source comes from the text that is there. *)
NewerAstIsParsed == \A f \in AllSources : <<AstOf(f), f>> \in newer => f \in parsed

(* What a run does not parse it need not, and it compiles when all is parsed. *)
ParsedOrToParse ==
  /\ step = "parsing" => \A f \in toParse : f[2] \in present
  /\ step = "parsing" /\ ~parseFailed =>
       \A m \in present : Sources(m) \subseteq parsed \cup toParse
  /\ step \in {"marked", "compiling"} => \A m \in present : Sources(m) \subseteq parsed

(* The modules that a run marks and compiles have sources. *)
DirtyIsPresent ==
  /\ step \in {"parsing", "marked", "compiling"} => compileDirty \subseteq present
  /\ step \in {"marked", "compiling"} => \A d \in Module : dependents[d] \subseteq present
  /\ step = "compiling" => inProgress \subseteq present

(* There are jobs only during a call of compile. *)
JobsArePresent ==
  \A m \in Module : job[m] # "idle" =>
    step = "compiling" /\ m \in present /\ (phase = "results" => job[m] = "done")

PInv == BuildTypeOK /\ NewerAstIsParsed /\ ParsedOrToParse /\ DirtyIsPresent /\ JobsArePresent

-----------------------------------------------------------------------------
(* Files. *)

LEMMA SourceFiles ==
  ASSUME NEW f \in AllSources
  PROVE  /\ f[2] \in Module /\ f \in Sources(f[2])
         /\ AstOf(f) \in Artifact /\ AstOf(f) \notin AllSources
         /\ \A m \in Module : Cmt(m) # AstOf(f) /\ Cmt(m) # f
         /\ \A g \in AllSources : AstOf(g) = AstOf(f) => g = f
<1>1. PICK m \in Module : f \in Sources(m)
  BY DEF AllSources
<1>2. f = <<"res", m>> \/ f = <<"resi", m>>
  BY <1>1 DEF Sources
<1>3. f[2] = m /\ f[1] \in {"res", "resi"}
  BY <1>2
<1>4. AstOf(f) \in Artifact
  BY <1>1 DEF Asts, Artifact
<1>5. ASSUME NEW g \in AllSources
      PROVE  AstOf(f) # g /\ (AstOf(g) = AstOf(f) => g = f)
  <2>1. PICK x \in Module : g \in Sources(x)
    BY DEF AllSources
  <2>2. g = <<"res", x>> \/ g = <<"resi", x>>
    BY <2>1 DEF Sources
  <2> QED BY <1>2, <2>2 DEF AstOf
<1>6. \A x \in Module : Cmt(x) # AstOf(f) /\ Cmt(x) # f
  BY <1>2 DEF Cmt, AstOf
<1> QED BY <1>1, <1>3, <1>4, <1>5, <1>6

LEMMA SourcesAreFiles ==
  ASSUME NEW m \in Module
  PROVE  Sources(m) \subseteq AllSources /\ Cmt(m) \in Artifact
BY DEF AllSources, Artifact

LEMMA WriteKeepsType ==
  ASSUME BuildTypeOK, NEW F \in SUBSET (AllSources \cup Artifact), WriteFiles(F)
  PROVE  onDisk' \subseteq AllSources \cup Artifact /\ newer' \subseteq Compared \cap (onDisk' \X onDisk')
BY DEF BuildTypeOK, WriteFiles

LEMMA RemoveKeepsType ==
  ASSUME BuildTypeOK, NEW F, RemoveFiles(F)
  PROVE  /\ onDisk' \subseteq AllSources \cup Artifact
         /\ newer' \subseteq Compared \cap (onDisk' \X onDisk')
         /\ newer' \subseteq newer
BY DEF BuildTypeOK, RemoveFiles

-----------------------------------------------------------------------------
(* Types. *)

LEMMA BuildInitKeepsTypes == ASSUME BuildInit PROVE BuildTypeOK
<1> USE DEF BuildInit, NoEdges
<1>1. result \in [Module -> JobResult]
  BY DEF Untouched, JobResult, Verdict, NoInterface
<1>2. deps \in Graph
  BY NoNamespaces DEF Graph
<1>3. edits \in 0..MaxEdits /\ total \in Nat
  BY BoundAssumption
<1>4. TypeOK
  BY <1>1, <1>2, <1>3 DEF TypeOK
<1> QED BY <1>4 DEF BuildTypeOK

LEMMA ChangeKeepsTypes ==
  ASSUME BuildTypeOK, NEW m \in Module, NEW newRefs \in SUBSET Module, ChangeSources(m, newRefs),
         present' \subseteq Module, parsed' \subseteq AllSources,
         NEW F \in SUBSET AllSources, WriteFiles(F) \/ RemoveFiles(F)
  PROVE  BuildTypeOK'
<1> USE DEF ChangeSources, Change, BuildTypeOK
<1>1. edits' \in 0..MaxEdits
  BY BoundAssumption DEF TypeOK
<1>2. TypeOK'
  BY <1>1 DEF TypeOK, jobVars
<1>3. answered' \in [AllSources -> {"unknown"} \cup Verdict]
  BY DEF Unknown
<1>4. onDisk' \subseteq AllSources \cup Artifact /\ newer' \subseteq Compared \cap (onDisk' \X onDisk')
  BY WriteKeepsType, RemoveKeepsType
<1> QED BY <1>2, <1>3, <1>4 DEF runVars

LEMMA UserKeepsTypes ==
  ASSUME BuildTypeOK, UserStep \/ \E m \in Module : DeleteModule(m)
  PROVE  BuildTypeOK'
<1>1. ASSUME NEW newRefs \in SUBSET Module, NEW f \in AllSources, EditSource(f, newRefs)
      PROVE  BuildTypeOK'
  <2>1. f[2] \in Module /\ ChangeSources(f[2], newRefs)
    BY <1>1, SourceFiles DEF EditSource
  <2>2. {f} \in SUBSET AllSources /\ WriteFiles({f})
    BY <1>1 DEF EditSource
  <2>3. present' \subseteq Module /\ parsed' \subseteq AllSources
    BY <1>1 DEF EditSource, BuildTypeOK
  <2> QED BY <2>1, <2>2, <2>3, ChangeKeepsTypes
<1>2. ASSUME NEW newRefs \in SUBSET Module, NEW m \in Module, CreateModule(m, newRefs)
      PROVE  BuildTypeOK'
  <2>1. Sources(m) \in SUBSET AllSources /\ WriteFiles(Sources(m)) /\ ChangeSources(m, newRefs)
    BY <1>2, SourcesAreFiles DEF CreateModule
  <2>2. present' \subseteq Module /\ parsed' \subseteq AllSources
    BY <1>2 DEF CreateModule, BuildTypeOK
  <2> QED BY <2>1, <2>2, ChangeKeepsTypes
<1>3. ASSUME NEW m \in Module, DeleteModule(m) PROVE BuildTypeOK'
  <2>1. Sources(m) \in SUBSET AllSources /\ RemoveFiles(Sources(m)) /\ ChangeSources(m, {})
    BY <1>3, SourcesAreFiles DEF DeleteModule
  <2>2. present' \subseteq Module /\ parsed' \subseteq AllSources
    BY <1>3 DEF DeleteModule, BuildTypeOK
  <2> QED BY <2>1, <2>2, ChangeKeepsTypes
<1> QED BY <1>1, <1>2, <1>3 DEF UserStep

LEMMA InitializeKeepsTypes == ASSUME BuildTypeOK, initialize_build PROVE BuildTypeOK'
<1> DEFINE gone == {m \in Module \ present : Asts(m) \cap onDisk # {}}
           removed == UNION {Asts(m) \cup {Cmt(m)} : m \in gone}
           dirty == {m \in present : \E f \in Sources(m) : ParseDirty(f)}
<1> USE DEF initialize_build, BuildTypeOK
<1>1. RemoveFiles(removed)
  OBVIOUS
<1>2. onDisk' \subseteq AllSources \cup Artifact /\ newer' \subseteq Compared \cap (onDisk' \X onDisk')
  BY <1>1, RemoveKeepsType
<1>3. toParse' \subseteq AllSources
  <2>1. toParse' = UNION {Sources(m) : m \in dirty}
    OBVIOUS
  <2> QED BY <2>1, SourcesAreFiles
<1>4. TypeOK'
  BY DEF TypeOK, jobVars
<1>5. answered' \in [AllSources -> {"unknown"} \cup Verdict]
  BY DEF Unknown
<1> QED BY <1>2, <1>3, <1>4, <1>5 DEF sourceVars

LEMMA ParseKeepsTypes ==
  ASSUME BuildTypeOK, NEW f \in AllSources, NEW verdict \in Verdict, generate_ast(f, verdict)
  PROVE  BuildTypeOK'
<1> USE DEF generate_ast, BuildTypeOK
<1>1. f[2] \in Module /\ AstOf(f) \in Artifact
  BY SourceFiles
<1>2. TypeOK'
  BY <1>1 DEF TypeOK, project, loopVars, jobVars
<1>3. CASE verdict = "error"
  BY <1>2, <1>3 DEF sourceVars, diskVars
<1>4. CASE verdict # "error"
  <2>1. onDisk' \subseteq AllSources \cup Artifact /\ newer' \subseteq Compared \cap (onDisk' \X onDisk')
    BY <1>1, <1>4, WriteKeepsType
  <2> QED BY <1>1, <1>2, <1>4, <2>1 DEF sourceVars, UncleanAfter, LoggedAfter
<1> QED BY <1>3, <1>4

LEMMA MarkKeepsTypes == ASSUME BuildTypeOK, get_deps_and_mark PROVE BuildTypeOK'
<1> USE DEF get_deps_and_mark, BuildTypeOK
<1>1. DepsRead \in [Module -> SUBSET Module] /\ \A m \in Module : m \notin DepsRead[m]
  BY DEF DepsRead, WithoutItself
<1>2. deps' \in Graph
  BY <1>1, NoNamespaces DEF Graph
<1>3. compileDirty' \subseteq Module /\ dependents' \in [Module -> SUBSET Module]
  BY DEF TypeOK, Expired, LostDeps
<1>4. TypeOK'
  BY <1>2, <1>3 DEF TypeOK, loopVars, jobVars
<1> QED BY <1>4 DEF sourceVars, diskVars, runVars

LEMMA AnswerKeepsType ==
  ASSUME BuildTypeOK, NEW f, NEW verdict \in Verdict, NEW differs \in BOOLEAN,
         Answer(f, verdict, differs)
  PROVE  answered' \in [AllSources -> {"unknown"} \cup Verdict]
BY DEF BuildTypeOK, Answer

LEMMA LoopKeepsTypes == ASSUME BuildTypeOK, CompileLoop PROVE BuildTypeOK'
<1>1. step' = step /\ UNCHANGED <<present, refs, parsed, toParse, parseFailed, deleted, succeeded>>
  BY DEF CompileLoop, KeepRun, sourceVars
<1>2. ASSUME Next, KeepDisk PROVE BuildTypeOK'
  BY <1>1, <1>2, TypeOKStep DEF BuildTypeOK, KeepDisk, diskVars
<1>3. CASE (StartBatch \/ CollectResults \/ NextBatch) /\ KeepDisk
  BY <1>2, <1>3 DEF Next, CompileStep
<1>4. ASSUME NEW m \in Module, SkipClean(m) \/ StartFile(m), KeepDisk PROVE BuildTypeOK'
  BY <1>2, <1>4 DEF Next, CompileStep, RunJob
<1>5. ASSUME NEW m \in Module, NEW verdict \in Verdict, NEW differs \in BOOLEAN,
             RunInterface(m, verdict, differs)
      PROVE  BuildTypeOK'
  <2>1. TypeOK'
    BY <1>5, TypeOKStep DEF RunInterface, Next, CompileStep, RunJob, BuildTypeOK
  <2>2. UNCHANGED <<onDisk, newer, unclean, logged>>
    BY <1>5 DEF RunInterface, diskVars
  <2>3. answered' \in [AllSources -> {"unknown"} \cup Verdict]
    BY <1>5, AnswerKeepsType DEF RunInterface
  <2> QED BY <1>1, <2>1, <2>2, <2>3 DEF BuildTypeOK
<1>6. ASSUME NEW m \in Module, NEW verdict \in Verdict, NEW differs \in BOOLEAN,
             RunImplementation(m, verdict, differs)
      PROVE  BuildTypeOK'
  <2>1. TypeOK'
    BY <1>6, TypeOKStep DEF RunImplementation, Next, CompileStep, RunJob, BuildTypeOK
  <2>2. <<"res", m>> \in AllSources /\ Cmt(m) \in Artifact
    BY SourcesAreFiles DEF Sources
  <2>3. answered' \in [AllSources -> {"unknown"} \cup Verdict]
    BY <1>6, <2>2, AnswerKeepsType DEF RunImplementation
  <2>4. onDisk' \subseteq AllSources \cup Artifact /\ newer' \subseteq Compared \cap (onDisk' \X onDisk')
        /\ unclean' \subseteq Artifact /\ logged' = logged
    <3>1. CASE verdict = "error"
      BY <1>6, <3>1 DEF RunImplementation, diskVars, BuildTypeOK
    <3>2. CASE verdict # "error"
      BY <1>6, <2>2, <3>2, WriteKeepsType DEF RunImplementation, BuildTypeOK, UncleanAfter
    <3> QED BY <3>1, <3>2
  <2> QED BY <1>1, <2>1, <2>3, <2>4 DEF BuildTypeOK
<1>7. ASSUME NEW m \in Module, TakeResult(m) PROVE BuildTypeOK'
  <2>1. TypeOK'
    BY <1>7, TypeOKStep DEF TakeResult, Next, CompileStep, BuildTypeOK
  <2>2. UNCHANGED <<onDisk, newer, unclean, answered>> /\ logged' \subseteq Artifact
    BY <1>7, SourcesAreFiles DEF TakeResult, diskVars, LoggedAfter, BuildTypeOK
  <2> QED BY <1>1, <2>1, <2>2 DEF BuildTypeOK
<1> QED BY <1>3, <1>4, <1>5, <1>6, <1>7 DEF CompileLoop

LEMMA EndKeepsTypes ==
  ASSUME BuildTypeOK, StopAtParseError \/ BeginCompile \/ EndCompile \/ cleanup_after_build
  PROVE  BuildTypeOK'
<1>1. CASE StopAtParseError
  BY <1>1 DEF StopAtParseError, BuildTypeOK, TypeOK, project, jobVars, sourceVars, diskVars, runVars
<1>2. CASE BeginCompile \/ EndCompile
  <2>1. TypeOK'
    BY <1>2, TypeOKStep DEF BeginCompile, EndCompile, Next, CompileStep, BuildTypeOK
  <2> QED BY <1>2, <2>1 DEF BeginCompile, EndCompile, KeepRun, KeepDisk, sourceVars, diskVars,
                           BuildTypeOK
<1>3. CASE cleanup_after_build
  <2> USE <1>3 DEF cleanup_after_build, Forget
  <2>1. onDisk' \subseteq AllSources \cup Artifact /\ newer' \subseteq Compared \cap (onDisk' \X onDisk')
    BY RemoveKeepsType
  <2>2. deps' \in Graph
    BY NoNamespaces DEF Graph, NoEdges
  <2>3. TypeOK'
    BY <2>2 DEF BuildTypeOK, TypeOK, loopVars, jobVars, NoEdges
  <2> QED BY <2>1, <2>3 DEF BuildTypeOK, sourceVars
<1> QED BY <1>1, <1>2, <1>3

LEMMA KillKeepsTypes == ASSUME BuildTypeOK, Kill PROVE BuildTypeOK'
<1> USE DEF Kill, Forget
<1>1. PICK copied \in SUBSET BetweenCopies :
        /\ hasCmi' = hasCmi \cup copied
        /\ fresh' = [x \in Module |-> fresh[x] \ copied]
        /\ answered' = [g \in AllSources |-> IF g[2] \in copied THEN "ok"
                                             ELSE IF ReadBy(g) \cap copied # {} THEN "unknown"
                                             ELSE answered[g]]
  OBVIOUS
<1>2. hasCmi' \subseteq Module /\ fresh' \in [Module -> SUBSET Module]
  BY <1>1 DEF BetweenCopies, BuildTypeOK, TypeOK
<1>3. answered' \in [AllSources -> {"unknown"} \cup Verdict]
  BY <1>1 DEF BuildTypeOK, Verdict
<1>4. result' \in [Module -> JobResult]
  BY DEF Untouched, JobResult, Verdict, NoInterface
<1>5. deps' \in Graph
  BY NoNamespaces DEF Graph, NoEdges
<1>6. TypeOK'
  BY <1>2, <1>4, <1>5 DEF BuildTypeOK, TypeOK, NoEdges
<1> QED BY <1>3, <1>6 DEF BuildTypeOK, sourceVars, diskVars

LEMMA BuildTypesKept == ASSUME BuildTypeOK, [BuildNext]_buildVars PROVE BuildTypeOK'
<1>1. CASE UNCHANGED buildVars
  BY <1>1 DEF buildVars, vars, project, loopVars, jobVars, sourceVars, diskVars, runVars,
              BuildTypeOK, TypeOK
<1> QED BY <1>1, UserKeepsTypes, InitializeKeepsTypes, ParseKeepsTypes, MarkKeepsTypes,
           LoopKeepsTypes, EndKeepsTypes, KillKeepsTypes DEF BuildNext, RunStep

(* Every variable keeps its type, however builds are killed and sources come and go. *)
THEOREM BuildTypeCorrect == BuildSpec => []BuildTypeOK
<1>1. BuildInit => BuildTypeOK
  BY BuildInitKeepsTypes
<1>2. BuildTypeOK /\ [BuildNext]_buildVars => BuildTypeOK'
  BY BuildTypesKept
<1> QED BY <1>1, <1>2, PTL DEF BuildSpec

-----------------------------------------------------------------------------
(* What is parsed. *)

(* Writing anything but ASTs makes no AST newer; removing files neither. *)
LEMMA AstsKept ==
  ASSUME NewerAstIsParsed, NEW F, WriteFiles(F), \A f \in AllSources : AstOf(f) \notin F,
         \A f \in parsed \ parsed' : f \in F
  PROVE  NewerAstIsParsed'
BY DEF NewerAstIsParsed, WriteFiles

LEMMA UserKeepsParsed ==
  ASSUME PInv, UserStep \/ \E m \in Module : DeleteModule(m)
  PROVE  NewerAstIsParsed'
<1>1. ASSUME NEW newRefs \in SUBSET Module, NEW f \in AllSources, EditSource(f, newRefs)
      PROVE  NewerAstIsParsed'
  <2>1. \A g \in AllSources : AstOf(g) \notin {f}
    BY SourceFiles
  <2> QED BY <1>1, <2>1, AstsKept DEF EditSource, PInv
<1>2. ASSUME NEW newRefs \in SUBSET Module, NEW m \in Module, CreateModule(m, newRefs)
      PROVE  NewerAstIsParsed'
  <2>1. \A g \in AllSources : AstOf(g) \notin Sources(m)
    BY SourceFiles, SourcesAreFiles
  <2> QED BY <1>2, <2>1, AstsKept DEF CreateModule, PInv
<1>3. ASSUME NEW m \in Module, DeleteModule(m) PROVE NewerAstIsParsed'
  BY <1>3 DEF DeleteModule, RemoveFiles, PInv, NewerAstIsParsed
<1> QED BY <1>1, <1>2, <1>3 DEF UserStep

LEMMA UserKeepsPInv ==
  ASSUME PInv, UserStep \/ \E m \in Module : DeleteModule(m)
  PROVE  PInv'
<1>1. step = "down" /\ step' = "down" /\ UNCHANGED <<job, phase>>
  BY DEF UserStep, DeleteModule, EditSource, CreateModule, ChangeSources, Change, jobVars
<1>2. ParsedOrToParse' /\ DirtyIsPresent'
  BY <1>1 DEF ParsedOrToParse, DirtyIsPresent
<1>3. JobsArePresent'
  BY <1>1 DEF PInv, JobsArePresent
<1> QED BY <1>2, <1>3, UserKeepsTypes, UserKeepsParsed DEF PInv

LEMMA InitializeKeepsPInv == ASSUME PInv, initialize_build PROVE PInv'
<1> DEFINE gone == {m \in Module \ present : Asts(m) \cap onDisk # {}}
           removed == UNION {Asts(m) \cup {Cmt(m)} : m \in gone}
           dirty == {m \in present : \E f \in Sources(m) : ParseDirty(f)}
<1> USE DEF initialize_build, PInv
<1>1. /\ step = "down" /\ step' = "parsing"
      /\ UNCHANGED <<present, parsed, job, phase>>
      /\ toParse' = UNION {Sources(m) : m \in dirty}
      /\ RemoveFiles(removed)
  BY DEF jobVars, sourceVars
<1>2. BuildTypeOK' /\ NewerAstIsParsed'
  BY <1>1, InitializeKeepsTypes DEF NewerAstIsParsed, RemoveFiles
<1>3. \A f \in toParse' : f[2] \in present'
  <2>1. ASSUME NEW f \in toParse' PROVE f[2] \in present'
    <3>1. PICK m \in dirty : f \in Sources(m)
      BY <1>1, <2>1
    <3> QED BY <1>1, <3>1 DEF Sources
  <2> QED BY <2>1
<1>4. ASSUME NEW m \in present', NEW f \in Sources(m), f \notin toParse'
      PROVE  f \in parsed'
  <2>1. m \in present /\ ~ParseDirty(f)
    BY <1>1, <1>4
  <2>2. m \in Module /\ f \in AllSources
    BY <2>1, SourcesAreFiles DEF BuildTypeOK
  <2> QED BY <1>1, <2>1, <2>2 DEF ParseDirty, NewerAstIsParsed
<1>5. ParsedOrToParse'
  BY <1>1, <1>3, <1>4 DEF ParsedOrToParse
<1>6. DirtyIsPresent'
  BY <1>1 DEF DirtyIsPresent
<1>7. JobsArePresent'
  BY <1>1 DEF JobsArePresent
<1> QED BY <1>2, <1>5, <1>6, <1>7

LEMMA ParseKeepsPInv ==
  ASSUME PInv, NEW f \in AllSources, NEW verdict \in Verdict, generate_ast(f, verdict)
  PROVE  PInv'
<1> USE DEF generate_ast, PInv
<1>1. step = "parsing" /\ UNCHANGED <<step, present, job, phase>>
  BY DEF sourceVars, jobVars
<1>2. NewerAstIsParsed'
  <2>1. CASE verdict = "error"
    BY <2>1 DEF NewerAstIsParsed, diskVars
  <2>2. CASE verdict # "error"
    <3>1. \A g \in AllSources : AstOf(g) = AstOf(f) => g = f
      BY SourceFiles
    <3> QED BY <2>2, <3>1 DEF NewerAstIsParsed, WriteFiles
  <2> QED BY <2>1, <2>2
<1>3. ParsedOrToParse'
  BY <1>1 DEF ParsedOrToParse
<1>4. DirtyIsPresent'
  <2>1. f[2] \in present
    BY <1>1 DEF ParsedOrToParse
  <2> QED BY <1>1, <2>1 DEF DirtyIsPresent
<1>5. JobsArePresent'
  BY <1>1 DEF JobsArePresent
<1> QED BY <1>2, <1>3, <1>4, <1>5, ParseKeepsTypes

LEMMA MarkKeepsPInv == ASSUME PInv, get_deps_and_mark PROVE PInv'
<1> USE DEF get_deps_and_mark, PInv
<1>1. /\ step = "parsing" /\ step' = "marked" /\ toParse = {} /\ ~parseFailed
      /\ UNCHANGED <<present, job, phase, newer, parsed>>
  BY DEF sourceVars, jobVars, diskVars
<1>2. NewerAstIsParsed' /\ JobsArePresent'
  BY <1>1 DEF NewerAstIsParsed, JobsArePresent
<1>3. ParsedOrToParse'
  BY <1>1 DEF ParsedOrToParse
<1>4. DirtyIsPresent'
  <2>1. \A d \in Module : dependents'[d] \subseteq present
    BY DEF DepsRead, WithoutItself
  <2>2. compileDirty' \subseteq present
    BY <1>1 DEF DirtyIsPresent, Expired, LostDeps
  <2> QED BY <1>1, <2>1, <2>2 DEF DirtyIsPresent
<1> QED BY <1>2, <1>3, <1>4, MarkKeepsTypes

-----------------------------------------------------------------------------
(* What is compiled. *)

(* The compile universe is made of modules that have sources. *)
LEMMA BeginKeepsPInv == ASSUME PInv, BeginCompile PROVE PInv'
<1> USE DEF BeginCompile, StartCompile, PInv
<1>1. /\ step = "marked" /\ step' = "compiling" /\ phase' = "loop"
      /\ UNCHANGED <<present, parsed, newer, job, compileDirty, dependents>>
  BY DEF KeepRun, KeepDisk, sourceVars, diskVars, jobVars, project
<1>2. CompileUniverse \subseteq present
  <2>1. present \in SUBSET Module /\ compileDirty \subseteq present
    BY <1>1 DEF BuildTypeOK, DirtyIsPresent
  <2>2. \A x \in present : dependents[x] \subseteq present
    BY <1>1, <2>1 DEF DirtyIsPresent
  <2> QED BY <2>1, <2>2 DEF CompileUniverse
<1>3. DirtyIsPresent'
  BY <1>1, <1>2 DEF DirtyIsPresent
<1>4. ParsedOrToParse' /\ NewerAstIsParsed' /\ JobsArePresent'
  BY <1>1 DEF ParsedOrToParse, NewerAstIsParsed, JobsArePresent
<1> QED BY <1>3, <1>4, EndKeepsTypes

(* The steps of the loop leave sources and what was parsed alone. *)
LEMMA LoopKeepsParsed ==
  ASSUME PInv, CompileLoop
  PROVE  /\ step = "compiling" /\ UNCHANGED <<step, present, parsed, dependents>>
         /\ ParsedOrToParse' /\ NewerAstIsParsed'
<1> USE DEF PInv
<1>1. /\ step = "compiling" /\ UNCHANGED <<step, present, parsed>>
      /\ UNCHANGED <<toParse, parseFailed>>
  BY DEF CompileLoop, KeepRun, sourceVars
<1>2. UNCHANGED dependents
  <2>1. StartBatch \/ CollectResults \/ NextBatch => UNCHANGED dependents
    BY DEF StartBatch, CollectResults, NextBatch, project
  <2>2. \A m \in Module : SkipClean(m) \/ StartFile(m) \/ TakeResult(m) => UNCHANGED dependents
    BY DEF SkipClean, StartFile, TakeResult, ProcessResult, project
  <2>3. \A m \in Module, verdict \in Verdict, differs \in BOOLEAN :
          RunInterface(m, verdict, differs) => UNCHANGED dependents
    BY DEF RunInterface, CompileInterface
  <2>4. \A m \in Module, verdict \in Verdict, differs \in BOOLEAN :
          RunImplementation(m, verdict, differs) => UNCHANGED dependents
    BY DEF RunImplementation, CompileImplementation
  <2> QED BY <2>1, <2>2, <2>3, <2>4 DEF CompileLoop
<1>3. ParsedOrToParse'
  BY <1>1 DEF ParsedOrToParse
<1>4. NewerAstIsParsed'
  <2>1. CASE UNCHANGED newer
    BY <1>1, <2>1 DEF NewerAstIsParsed
  <2>2. ASSUME NEW m \in Module, WriteFiles({Cmt(m)}) PROVE NewerAstIsParsed'
    <3>1. \A f \in AllSources : AstOf(f) \notin {Cmt(m)}
      BY SourceFiles
    <3> QED BY <1>1, <2>2, <3>1, AstsKept
  <2> QED BY <2>1, <2>2 DEF CompileLoop, KeepDisk, RunInterface, RunImplementation, TakeResult,
                            diskVars
<1> QED BY <1>1, <1>2, <1>3, <1>4

LEMMA LoopKeepsPInv == ASSUME PInv, CompileLoop PROVE PInv'
<1>0. /\ step = "compiling" /\ UNCHANGED <<step, present, parsed, dependents>>
      /\ ParsedOrToParse' /\ NewerAstIsParsed' /\ BuildTypeOK'
  BY LoopKeepsParsed, LoopKeepsTypes DEF PInv
<1> USE DEF PInv, BuildTypeOK, TypeOK
<1>a. ASSUME DirtyIsPresent', JobsArePresent' PROVE PInv'
  BY <1>0, <1>a
<1>1. CASE StartBatch
  BY <1>0, <1>1, <1>a DEF StartBatch, DirtyIsPresent, JobsArePresent
<1>2. CASE CollectResults
  BY <1>0, <1>2, <1>a DEF CollectResults, loopVars, jobVars, DirtyIsPresent, JobsArePresent
<1>3. CASE NextBatch
  BY <1>0, <1>3, <1>a DEF NextBatch, loopVars, jobVars, DirtyIsPresent, JobsArePresent
<1>4. ASSUME NEW m \in Module, SkipClean(m) \/ StartFile(m) PROVE PInv'
  BY <1>0, <1>4, <1>a DEF SkipClean, StartFile, Finish, loopVars, DirtyIsPresent, JobsArePresent
<1>5. ASSUME NEW m \in Module, NEW verdict \in Verdict, NEW differs \in BOOLEAN,
             RunInterface(m, verdict, differs) \/ RunImplementation(m, verdict, differs)
      PROVE  PInv'
  <2>1. /\ job[m] \in {"interface", "implementation"}
        /\ job' \in {[job EXCEPT ![m] = "implementation"], [job EXCEPT ![m] = "done"]}
        /\ UNCHANGED <<compileDirty, phase, inProgress>>
    BY <1>5 DEF RunInterface, RunImplementation, CompileInterface, CompileImplementation, Finish,
                loopVars
  <2> QED BY <1>0, <1>a, <2>1 DEF DirtyIsPresent, JobsArePresent
<1>6. ASSUME NEW m \in Module, TakeResult(m) PROVE PInv'
  <2>1. ProcessResult(m)
    BY <1>6 DEF TakeResult
  <2>2. m \in present /\ dependents[m] \subseteq present
    BY <1>0, <2>1 DEF ProcessResult, JobsArePresent, DirtyIsPresent
  <2>3. compileDirty' \subseteq present /\ inProgress' \subseteq present
    BY <1>0, <2>1, <2>2 DEF ProcessResult, DirtyAfter, InProgressAfter, DirtyIsPresent
  <2>4. DirtyIsPresent'
    BY <1>0, <2>3 DEF DirtyIsPresent
  <2>5. JobsArePresent'
    BY <1>0, <2>1 DEF ProcessResult, JobsArePresent
  <2> QED BY <1>a, <2>4, <2>5
<1> QED BY <1>1, <1>2, <1>3, <1>4, <1>5, <1>6 DEF CompileLoop

LEMMA EndKeepsPInv ==
  ASSUME PInv, StopAtParseError \/ EndCompile \/ cleanup_after_build \/ Kill
  PROVE  PInv'
<1> USE DEF PInv
<1>1. BuildTypeOK'
  BY EndKeepsTypes, KillKeepsTypes
<1>2. step' \in {"cleanup", "down"}
  BY DEF StopAtParseError, EndCompile, cleanup_after_build, Kill, Forget
<1>3. ParsedOrToParse' /\ DirtyIsPresent'
  BY <1>2 DEF ParsedOrToParse, DirtyIsPresent
<1>4. NewerAstIsParsed'
  BY DEF StopAtParseError, EndCompile, cleanup_after_build, Kill, Forget, KeepRun, KeepDisk,
         RemoveFiles, diskVars, NewerAstIsParsed
<1>5. \A m \in Module : job'[m] = "idle"
  <2>1. CASE StopAtParseError
    BY <2>1 DEF StopAtParseError, jobVars, JobsArePresent
  <2>2. CASE EndCompile
    BY <2>2 DEF EndCompile, Return, Applied, jobVars, JobsArePresent
  <2>3. CASE cleanup_after_build
    BY <2>3 DEF cleanup_after_build, jobVars, JobsArePresent
  <2>4. CASE Kill
    BY <2>4 DEF Kill
  <2> QED BY <2>1, <2>2, <2>3, <2>4
<1>6. JobsArePresent'
  BY <1>5 DEF JobsArePresent
<1> QED BY <1>1, <1>3, <1>4, <1>6

LEMMA PInvKept == ASSUME PInv, [BuildNext]_buildVars PROVE PInv'
<1>1. CASE UNCHANGED buildVars
  <2>1. BuildTypeOK'
    BY BuildTypesKept DEF PInv
  <2> QED BY <1>1, <2>1 DEF buildVars, vars, loopVars, jobVars, project, sourceVars, diskVars,
               runVars, PInv, NewerAstIsParsed, ParsedOrToParse, DirtyIsPresent, JobsArePresent
<1> QED BY <1>1, UserKeepsPInv, InitializeKeepsPInv, ParseKeepsPInv, MarkKeepsPInv,
           BeginKeepsPInv, LoopKeepsPInv, EndKeepsPInv DEF BuildNext, RunStep

LEMMA BuildInitEstablishes == BuildInit => PInv
BY BuildInitKeepsTypes
   DEF BuildInit, PInv, NewerAstIsParsed, ParsedOrToParse, DirtyIsPresent, JobsArePresent

(* A module that bsc compiles has the ASTs of its present sources, whatever was killed,
   deleted and created before. *)
THEOREM OldAstIsNotCompiled == BuildSpec => []ParsedBeforeCompiled
<1>1. BuildInit => PInv
  BY BuildInitEstablishes
<1>2. PInv /\ [BuildNext]_buildVars => PInv'
  BY PInvKept
<1>3. PInv => ParsedBeforeCompiled
  BY DEF PInv, ParsedBeforeCompiled, Running, JobsArePresent, ParsedOrToParse
<1> QED BY <1>1, <1>2, <1>3, PTL DEF BuildSpec
=============================================================================
