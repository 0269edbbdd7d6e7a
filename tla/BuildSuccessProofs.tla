------------------------- MODULE BuildSuccessProofs -------------------------
(***************************************************************************)
(* What a build that reports success has done, for any modules, any graph  *)
(* and any number of edits and builds.                                     *)
(*                                                                         *)
(* If no build is killed, no module is deleted and bsc accepts or rejects  *)
(* a module as a whole, nothing is left out of date, whatever failed       *)
(* before it, and every warning that still has a cause was given (SInv,    *)
(* WInv).  If builds are killed, and no module has an interface or is      *)
(* deleted, the same holds of the second of two successes (RInv).          *)
(***************************************************************************)
EXTENDS IncrementalBuildProofs

Undisturbed == ~Kills /\ ~Deletions /\ HalfFailures = {}

AllPresent == present = Module /\ deleted = {}

(* Outside compile its locals are empty; sources are left to parse only while parsing. *)
OutsideCompile ==
  /\ step # "compiling" =>
       /\ phase = "idle" /\ outcome # "running"
       /\ universe = {} /\ compiled = {} /\ inProgress = {} /\ total = 0
  /\ step \in {"parsing", "marked"} => outcome = "none"
  /\ step # "parsing" => toParse = {}

(* A module whose files tell that it was compiled after it was parsed, and parsed after it
   was edited, is built from its present sources. *)
CompiledIsCurrent ==
  \A m \in Module :
    /\ Sources(m) \cap toParse = {}
    /\ \A f \in Sources(m) : ~ParseDirty(f)
    /\ CompiledSinceParsed(m)
    => m \in current

(* Between the two parses of a module the .cmt tells nothing of the first AST. *)
BothAreParsed ==
  \A m \in WithInterface :
    /\ <<"res", m>> \in toParse => <<"resi", m>> \in toParse
    /\ <<"resi", m>> \in toParse /\ <<"res", m>> \notin toParse =>
         <<Cmt(m), <<"ast", m>>>> \notin newer \/ ParseDirty(<<"res", m>>)

(* A module that this run did not mark was compiled by one before it. *)
CleanWasCompiled ==
  step = "parsing" =>
    \A m \in Module \ compileDirty :
      CompiledSinceParsed(m) /\ \A f \in Sources(m) \ toParse : ~ParseDirty(f)

(* The .cmi of d may have changed and its .cmt is still to be written. *)
HalfDone(d) == d \in WithInterface /\ job[d] = "implementation" /\ result[d].intf # "error"

OnlyInterfaces == \A m \in Module : job[m] = "interface" => m \in WithInterface

(* A module that was compiled against a .cmi that changed since has an older .cmt. *)
ChangedIsNewer ==
  \A m \in current :
    /\ Cmt(m) \in onDisk
    /\ \A d \in refs[m] \ {m} :
         d \in fresh[m] \/ <<Cmt(d), Cmt(m)>> \in newer \/ HalfDone(d)

(* From the marking of expired modules on, the invariant of the compile loop holds. *)
CallIsSound ==
  step \in {"marked", "compiling"} => IInv /\ \A m \in Module : deps[m] = refs[m] \ {m}

FilesTellTheTruth == CompiledIsCurrent /\ BothAreParsed /\ CleanWasCompiled /\ ChangedIsNewer

SInv ==
  PInv /\ AllPresent /\ OutsideCompile /\ OnlyInterfaces /\ FilesTellTheTruth
  /\ CallIsSound  /\ UpToDateAfterSuccess

-----------------------------------------------------------------------------
(* Files and times. *)

(* Writing a file makes no other file newer, and only the file itself older. *)
LEMMA PairsWritten ==
  ASSUME NEW x, WriteFiles({x}), NEW p, p[1] # x, p[2] # x
  PROVE  p \in newer' <=> p \in newer
BY DEF WriteFiles

LEMMA OlderThanWritten ==
  ASSUME NEW x, WriteFiles({x}), NEW y, y # x
  PROVE  <<y, x>> \notin newer'
BY DEF WriteFiles

LEMMA AstsOf ==
  ASSUME NEW m \in Module, NEW a \in Asts(m)
  PROVE  \E f \in Sources(m) : f \in AllSources /\ f[2] = m /\ a = AstOf(f)
BY SourcesAreFiles DEF Asts, Sources

LEMMA InterfaceIsModule == WithInterface \subseteq Module
BY KindAssumption

LEMMA SourcesOf ==
  ASSUME NEW m \in Module, NEW f \in Sources(m)
  PROVE  /\ f \in AllSources /\ f[2] = m
         /\ f = <<"res", m>> \/ (f = <<"resi", m>> /\ m \in WithInterface)
BY SourcesAreFiles DEF Sources

-----------------------------------------------------------------------------
(* Between the runs and before compile. *)

LEMMA SuccessInit == BuildInit => SInv
<1> SUFFICES ASSUME BuildInit PROVE SInv
  OBVIOUS
<1> USE DEF BuildInit
<1>1. PInv
  BY BuildInitEstablishes
<1>2. AllPresent /\ OutsideCompile /\ OnlyInterfaces /\ CallIsSound /\ UpToDateAfterSuccess
  BY DEF AllPresent, OutsideCompile, OnlyInterfaces, CallIsSound, UpToDateAfterSuccess
<1>3. FilesTellTheTruth
  BY DEF FilesTellTheTruth, CompiledIsCurrent, BothAreParsed, CleanWasCompiled, ChangedIsNewer,
         CompiledSinceParsed
<1> QED BY <1>1, <1>2, <1>3 DEF SInv

LEMMA EditKeepsFiles ==
  ASSUME SInv, NEW newRefs \in SUBSET Module, NEW f \in AllSources, EditSource(f, newRefs)
  PROVE  FilesTellTheTruth'
<1> USE DEF EditSource, ChangeSources, Change, SInv, PInv, BuildTypeOK, FilesTellTheTruth
<1>1. step = "down" /\ toParse = {} /\ UNCHANGED <<step, toParse, fresh, job, result>>
  BY DEF OutsideCompile, jobVars, runVars
<1>2. BothAreParsed' /\ CleanWasCompiled'
  BY <1>1 DEF BothAreParsed, CleanWasCompiled
<1>3. ASSUME NEW m \in Module, \A g \in Sources(m) : ~ParseDirty(g)', CompiledSinceParsed(m)'
      PROVE  m \in current'
  <2>1. f \notin Sources(m)
    <3>1. WriteFiles({f}) /\ AstOf(f) # f
      BY SourceFiles
    <3>2. <<AstOf(f), f>> \notin newer'
      BY <3>1, OlderThanWritten
    <3> QED BY <1>3, <3>2 DEF ParseDirty
  <2>2. m # f[2]
    BY <2>1, SourceFiles
  <2>3. \A g \in Sources(m) : ~ParseDirty(g)
    <3>1. ASSUME NEW g \in Sources(m) PROVE ~ParseDirty(g)
      <4>1. g \in AllSources /\ g # f /\ AstOf(g) # f
        BY <2>1, SourcesOf, SourceFiles
      <4> QED BY <1>3, <4>1, PairsWritten DEF ParseDirty
    <3> QED BY <3>1
  <2>4. CompiledSinceParsed(m)
    <3>1. PICK a \in Asts(m) : <<Cmt(m), a>> \in newer'
      BY <1>3 DEF CompiledSinceParsed
    <3>2. Cmt(m) # f /\ a # f
      BY <3>1, AstsOf, SourceFiles
    <3> QED BY <3>1, <3>2, PairsWritten DEF CompiledSinceParsed
  <2>5. m \in current
    BY <1>1, <2>3, <2>4 DEF CompiledIsCurrent
  <2> QED BY <2>2, <2>5
<1>4. CompiledIsCurrent'
  BY <1>3 DEF CompiledIsCurrent
<1>5. ASSUME NEW m \in current'
      PROVE  /\ Cmt(m) \in onDisk'
             /\ \A d \in refs'[m] \ {m} :
                  d \in fresh'[m] \/ <<Cmt(d), Cmt(m)>> \in newer' \/ HalfDone(d)'
  <2>1. m \in current /\ m \in Module /\ refs'[m] = refs[m]
    BY SourceFiles DEF TypeOK
  <2>2. \A d \in Module : <<Cmt(d), Cmt(m)>> \in newer => <<Cmt(d), Cmt(m)>> \in newer'
    BY <2>1, SourceFiles, PairsWritten
  <2>3. Cmt(m) \in onDisk'
    BY <2>1 DEF ChangedIsNewer, WriteFiles
  <2>4. \A d \in Module : HalfDone(d)' <=> HalfDone(d)
    BY <1>1 DEF HalfDone
  <2>5. refs[m] \subseteq Module
    BY <2>1
  <2> QED BY <1>1, <2>1, <2>2, <2>3, <2>4, <2>5 DEF ChangedIsNewer
<1>6. ChangedIsNewer'
  BY <1>5 DEF ChangedIsNewer
<1> QED BY <1>2, <1>4, <1>6

LEMMA UserKeepsSuccess ==
  ASSUME Undisturbed, SInv, UserStep \/ \E m \in Module : DeleteModule(m)
  PROVE  SInv'
<1>1. PInv'
  BY UserKeepsPInv DEF SInv
<1>2. PICK newRefs \in SUBSET Module, f \in AllSources : EditSource(f, newRefs)
  <2>1. \A m \in Module : ~DeleteModule(m)
    BY DEF Undisturbed, DeleteModule
  <2>2. \A m \in Module, newRefs \in SUBSET Module : ~CreateModule(m, newRefs)
    BY DEF SInv, AllPresent, CreateModule
  <2> QED BY <2>1, <2>2 DEF UserStep
<1>3. FilesTellTheTruth'
  BY <1>2, EditKeepsFiles
<1>4. step = "down" /\ step' = "down"
  BY <1>2 DEF EditSource, ChangeSources
<1>5. AllPresent' /\ OutsideCompile' /\ OnlyInterfaces'
  BY <1>2, <1>4 DEF SInv, AllPresent, OutsideCompile, OnlyInterfaces, EditSource, ChangeSources,
                    Change, jobVars, runVars
<1>6. CallIsSound' /\ UpToDateAfterSuccess'
  BY <1>4 DEF CallIsSound, UpToDateAfterSuccess
<1> QED BY <1>1, <1>3, <1>5, <1>6 DEF SInv

LEMMA InitializeKeepsSuccess == ASSUME SInv, initialize_build PROVE SInv'
<1> DEFINE gone == {m \in Module \ present : Asts(m) \cap onDisk # {}}
           removed == UNION {Asts(m) \cup {Cmt(m)} : m \in gone}
           dirty == {m \in present : \E f \in Sources(m) : ParseDirty(f)}
<1> USE DEF SInv, PInv, BuildTypeOK
<1>1. PInv'
  BY InitializeKeepsPInv
<1>2. gone = {} /\ removed = {}
  BY DEF AllPresent
<1>3. /\ step = "down" /\ step' = "parsing"
      /\ deleted' = {m \in gone : <<"ast", m>> \in onDisk}
      /\ RemoveFiles(removed)
      /\ fresh' = [m \in Module |-> fresh[m] \ gone]
      /\ compileDirty' = {m \in present : ~CompiledSinceParsed(m)}
      /\ toParse' = UNION {Sources(m) : m \in dirty}
      /\ outcome' = "none"
      /\ UNCHANGED <<current, phase, universe, compiled, inProgress, total, job, result, present, refs>>
  BY DEF initialize_build, jobVars, sourceVars
<1>4. newer' = newer /\ onDisk' = onDisk
  BY <1>2, <1>3 DEF RemoveFiles
<1>5. fresh' = fresh
  BY <1>2, <1>3 DEF TypeOK
<1>6. toParse = {} /\ present = Module
  BY <1>3 DEF OutsideCompile, AllPresent
<1>7. AllPresent' /\ OutsideCompile' /\ OnlyInterfaces'
  BY <1>2, <1>3, <1>6 DEF AllPresent, OutsideCompile, OnlyInterfaces
<1>8. CallIsSound' /\ UpToDateAfterSuccess'
  BY <1>3 DEF CallIsSound, UpToDateAfterSuccess
<1>9. CompiledIsCurrent' /\ ChangedIsNewer'
  <2>1. CompiledIsCurrent'
    BY <1>3, <1>4, <1>6
       DEF FilesTellTheTruth, CompiledIsCurrent, ParseDirty, CompiledSinceParsed
  <2>2. ChangedIsNewer'
    <3>1. UNCHANGED <<current, refs, onDisk, newer, fresh, job, result>>
      BY <1>3, <1>4, <1>5
    <3> QED BY <3>1 DEF FilesTellTheTruth, ChangedIsNewer, HalfDone
  <2> QED BY <2>1, <2>2
<1>10. BothAreParsed'
  <2>1. ASSUME NEW m \in WithInterface, NEW f \in Sources(m) \cap toParse'
        PROVE  Sources(m) \subseteq toParse'
    <3>1. PICK x \in dirty : f \in Sources(x)
      BY <1>3
    <3>2. x = m
      BY <1>6, <3>1, InterfaceIsModule, SourcesOf
    <3> QED BY <1>3, <3>1, <3>2
  <2>2. \A m \in WithInterface : <<"res", m>> \in Sources(m) /\ <<"resi", m>> \in Sources(m)
    BY DEF Sources
  <2> QED BY <2>1, <2>2 DEF BothAreParsed
<1>11. CleanWasCompiled'
  <2>1. ASSUME NEW m \in Module, m \notin compileDirty' PROVE CompiledSinceParsed(m)'
    BY <1>3, <1>4, <1>6, <2>1 DEF CompiledSinceParsed
  <2>2. ASSUME NEW m \in Module, NEW f \in Sources(m), f \notin toParse' PROVE ~ParseDirty(f)'
    BY <1>3, <1>4, <1>6, <2>2 DEF ParseDirty
  <2> QED BY <2>1, <2>2 DEF CleanWasCompiled
<1> QED BY <1>1, <1>7, <1>8, <1>9, <1>10, <1>11 DEF FilesTellTheTruth

(* bsc rejects a text, and no file changes: the AST was not made from that text. *)
LEMMA ParseErrorKeepsFiles ==
  ASSUME SInv, NEW f \in AllSources, generate_ast(f, "error")
  PROVE  FilesTellTheTruth'
<1> USE DEF SInv, PInv, generate_ast, FilesTellTheTruth
<1>1. /\ ParseDirty(f) /\ step = "parsing" /\ f \in toParse /\ toParse' = toParse \ {f}
      /\ compileDirty' = compileDirty \cup {f[2]}
      /\ UNCHANGED <<step, newer, onDisk, refs, current, fresh, job, result>>
  BY DEF ParseDirty, NewerAstIsParsed, diskVars, sourceVars, project, jobVars
<1>2. CompiledIsCurrent'
  <2>1. ASSUME NEW m \in Module, Sources(m) \cap toParse' = {}, f \notin Sources(m)
        PROVE  Sources(m) \cap toParse = {}
    BY <1>1, <2>1
  <2> QED BY <1>1, <2>1 DEF CompiledIsCurrent, ParseDirty, CompiledSinceParsed
<1>3. BothAreParsed'
  <2>1. \A g : ParseDirty(g)' <=> ParseDirty(g)
    BY <1>1 DEF ParseDirty
  <2>2. ASSUME NEW m \in WithInterface
        PROVE  /\ <<"res", m>> \in toParse' => <<"resi", m>> \in toParse'
               /\ <<"resi", m>> \in toParse' /\ <<"res", m>> \notin toParse' =>
                    <<Cmt(m), <<"ast", m>>>> \notin newer' \/ ParseDirty(<<"res", m>>)'
    <3>1. f = <<"resi", m>> => <<"res", m>> \notin toParse
      OBVIOUS
    <3> QED BY <1>1, <2>1, <3>1 DEF BothAreParsed
  <2> QED BY <2>2 DEF BothAreParsed
<1>4. CleanWasCompiled'
  <2>1. ASSUME NEW m \in Module, m \notin compileDirty', NEW g \in Sources(m), g \notin toParse'
        PROVE  g \notin toParse
    BY <1>1, <2>1, SourcesOf
  <2> QED BY <1>1, <2>1 DEF CleanWasCompiled, ParseDirty, CompiledSinceParsed
<1>5. ChangedIsNewer'
  BY <1>1 DEF ChangedIsNewer, HalfDone
<1> QED BY <1>2, <1>3, <1>4, <1>5

(* A new AST is newer than the .cmt, and so is the other one once both are parsed. *)
LEMMA ParsedKeepsFiles ==
  ASSUME SInv, NEW f \in AllSources, NEW verdict \in Verdict, verdict # "error",
         generate_ast(f, verdict)
  PROVE  FilesTellTheTruth'
<1> USE DEF SInv, PInv, generate_ast, FilesTellTheTruth
<1>1. /\ step = "parsing" /\ f \in toParse /\ toParse' = toParse \ {f}
      /\ compileDirty' = compileDirty \cup {f[2]}
      /\ WriteFiles({AstOf(f)})
      /\ UNCHANGED <<step, refs, current, fresh, job, result>>
  BY DEF sourceVars, project, jobVars
<1>2. ASSUME NEW m \in Module, NEW a \in Asts(m)
      PROVE  <<Cmt(m), a>> \in newer' <=> <<Cmt(m), a>> \in newer /\ a # AstOf(f)
  <2>1. Cmt(m) # AstOf(f) /\ WriteFiles({AstOf(f)})
    BY <1>1, SourceFiles
  <2>2. CASE a = AstOf(f)
    BY <2>1, <2>2, OlderThanWritten
  <2>3. CASE a # AstOf(f)
    BY <2>1, <2>3, PairsWritten
  <2> QED BY <2>2, <2>3
<1>3. ASSUME NEW g \in AllSources, g # f
      PROVE  ParseDirty(g)' <=> ParseDirty(g)
  <2>1. AstOf(g) # AstOf(f) /\ g # AstOf(f)
    BY <1>3, SourceFiles
  <2>2. <<AstOf(g), g>> \in newer' <=> <<AstOf(g), g>> \in newer
    BY <1>1, <2>1, PairsWritten
  <2> QED BY <2>2 DEF ParseDirty
<1>4. ASSUME NEW m \in Module, Sources(m) \cap toParse' = {},
             \A g \in Sources(m) : ~ParseDirty(g)', CompiledSinceParsed(m)'
      PROVE  m \in current
  <2>1. PICK a \in Asts(m) : <<Cmt(m), a>> \in newer /\ a # AstOf(f)
    BY <1>2, <1>4 DEF CompiledSinceParsed
  <2>2. CASE f \notin Sources(m)
    <3>1. \A g \in Sources(m) : ~ParseDirty(g)
      BY <1>3, <1>4, <2>2, SourcesOf
    <3>2. Sources(m) \cap toParse = {}
      BY <1>1, <1>4, <2>2
    <3> QED BY <2>1, <3>1, <3>2 DEF CompiledIsCurrent, CompiledSinceParsed
  <2>3. CASE f \in Sources(m)
    <3>1. PICK g \in Sources(m) : a = AstOf(g) /\ g # f
      BY <2>1, AstsOf
    <3>2. m \in WithInterface /\ {f, g} = {<<"res", m>>, <<"resi", m>>}
      BY <2>3, <3>1, SourcesOf
    <3>3. <<"resi", m>> \in Sources(m) /\ <<"resi", m>> \notin toParse'
      BY <1>4, <3>2 DEF Sources
    <3>4. f = <<"resi", m>> /\ g = <<"res", m>>
      <4>1. ASSUME f = <<"res", m>> PROVE FALSE
        BY <1>1, <3>2, <3>3, <4>1 DEF BothAreParsed
      <4> QED BY <3>2, <4>1
    <3>5. <<"res", m>> \notin toParse /\ <<"resi", m>> \in toParse
      BY <1>1, <3>4
    <3>6. a = <<"ast", m>>
      BY <3>1, <3>4 DEF AstOf
    <3>7. ParseDirty(<<"res", m>>)
      BY <2>1, <3>2, <3>5, <3>6 DEF BothAreParsed
    <3>8. ~ParseDirty(<<"res", m>>)
      BY <1>3, <1>4, <3>1, <3>4, SourcesOf
    <3> QED BY <3>7, <3>8
  <2> QED BY <2>2, <2>3
<1>5. CompiledIsCurrent'
  BY <1>1, <1>4 DEF CompiledIsCurrent
<1>6. BothAreParsed'
  <2>1. ASSUME NEW m \in WithInterface
        PROVE  /\ <<"res", m>> \in toParse' => <<"resi", m>> \in toParse'
               /\ <<"resi", m>> \in toParse' /\ <<"res", m>> \notin toParse' =>
                    <<Cmt(m), <<"ast", m>>>> \notin newer' \/ ParseDirty(<<"res", m>>)'
    <3>1. m \in Module /\ <<"res", m>> \in AllSources /\ <<"ast", m>> \in Asts(m)
          /\ AstOf(<<"res", m>>) = <<"ast", m>>
      BY InterfaceIsModule, SourcesAreFiles DEF Sources, Asts, AstOf
    <3>2. f = <<"resi", m>> => <<"res", m>> \notin toParse
      OBVIOUS
    <3>3. <<"res", m>> \in toParse' => <<"resi", m>> \in toParse'
      BY <1>1, <3>2 DEF BothAreParsed
    <3>4. CASE f = <<"res", m>>
      BY <1>2, <3>1, <3>3, <3>4
    <3>5. CASE f # <<"res", m>>
      BY <1>1, <1>2, <1>3, <3>1, <3>3, <3>5 DEF BothAreParsed
    <3> QED BY <3>4, <3>5
  <2> QED BY <2>1 DEF BothAreParsed
<1>7. CleanWasCompiled'
  <2>1. ASSUME NEW m \in Module, m \notin compileDirty'
        PROVE  CompiledSinceParsed(m)' /\ \A g \in Sources(m) \ toParse' : ~ParseDirty(g)'
    <3>1. m # f[2] /\ m \notin compileDirty
      BY <1>1, <2>1
    <3>2. \A g \in Sources(m) : g # f
      BY <3>1, SourcesOf
    <3>3. \A a \in Asts(m) : a # AstOf(f)
      BY <3>2, AstsOf, SourceFiles
    <3>4. CompiledSinceParsed(m)'
      BY <1>1, <1>2, <3>1, <3>3 DEF CleanWasCompiled, CompiledSinceParsed
    <3>5. \A g \in Sources(m) \ toParse' : ~ParseDirty(g)'
      BY <1>1, <1>3, <3>1, <3>2, SourcesOf DEF CleanWasCompiled
    <3> QED BY <3>4, <3>5
  <2> QED BY <2>1 DEF CleanWasCompiled
<1>8. ChangedIsNewer'
  <2>1. ASSUME NEW m \in Module, NEW d \in Module, <<Cmt(d), Cmt(m)>> \in newer
        PROVE  <<Cmt(d), Cmt(m)>> \in newer'
    BY <1>1, <2>1, SourceFiles, PairsWritten
  <2>2. onDisk \subseteq onDisk' /\ current \subseteq Module
    BY <1>1 DEF WriteFiles, BuildTypeOK, TypeOK
  <2>3. \A m \in Module : refs[m] \subseteq Module
    BY DEF BuildTypeOK
  <2> QED BY <1>1, <2>1, <2>2, <2>3 DEF ChangedIsNewer, HalfDone
<1> QED BY <1>5, <1>6, <1>7, <1>8

LEMMA ParseKeepsSuccess ==
  ASSUME SInv, NEW f \in AllSources, NEW verdict \in Verdict, generate_ast(f, verdict)
  PROVE  SInv'
<1>1. PInv'
  BY ParseKeepsPInv DEF SInv
<1>2. FilesTellTheTruth'
  BY ParseErrorKeepsFiles, ParsedKeepsFiles
<1>3. /\ step = "parsing" /\ step' = "parsing"
      /\ UNCHANGED <<present, deleted, phase, loopVars, job>>
  BY DEF generate_ast, sourceVars, jobVars
<1>4. AllPresent' /\ OutsideCompile' /\ OnlyInterfaces'
  BY <1>3 DEF SInv, AllPresent, OutsideCompile, OnlyInterfaces, loopVars
<1>5. CallIsSound' /\ UpToDateAfterSuccess'
  BY <1>3 DEF CallIsSound, UpToDateAfterSuccess
<1> QED BY <1>1, <1>2, <1>4, <1>5 DEF SInv

(* Before the call of compile no module is compiled or being compiled, and the edges are
   those of the present texts. *)
LEMMA MarkingIsInOrder ==
  ASSUME PInv, AllPresent, OutsideCompile, get_deps_and_mark
  PROVE  /\ LoopInv' /\ DoneIsUpToDate' /\ CompiledIsUpToDate' /\ SuccessLeavesNothingStale'
         /\ DepsRead = [m \in Module |-> refs[m] \ {m}] /\ deps' = DepsRead
         /\ \A d \in Module : dependents'[d] = {m \in Module : d \in deps'[m]}
         /\ compileDirty' = compileDirty \cup Expired(DepsRead)
         /\ \A m \in Module : job[m] = "idle" /\ job'[m] = "idle"
         /\ compiled = {} /\ compiled' = {}
<1> USE DEF get_deps_and_mark
<1>1. /\ step = "parsing" /\ step' = "marked" /\ deps' = DepsRead
      /\ dependents' = [d \in Module |-> IF d \in present THEN {m \in Module : d \in DepsRead[m]}
                                                          ELSE {}]
      /\ UNCHANGED <<phase, universe, compiled, inProgress, total, outcome, job>>
  BY DEF jobVars, loopVars
<1>2. present = Module /\ deleted = {}
  BY DEF AllPresent
<1>3. DepsRead = [m \in Module |-> refs[m] \ {m}]
  BY <1>2 DEF DepsRead, WithoutItself, PInv, BuildTypeOK
<1>4. phase' = "idle" /\ outcome' = "none" /\ \A m \in Module : job[m] = "idle" /\ job'[m] = "idle"
  BY <1>1 DEF OutsideCompile, PInv, JobsArePresent
<1>5. compileDirty' = compileDirty \cup Expired(DepsRead)
  BY <1>2 DEF LostDeps
<1>6. compiled = {} /\ compiled' = {} /\ universe' = {} /\ inProgress' = {} /\ total' = 0
  BY <1>1 DEF OutsideCompile
<1>7. TypeOK'
  BY MarkKeepsPInv DEF PInv, BuildTypeOK
<1>8. ReverseEdges' /\ \A d \in Module : dependents'[d] = {m \in Module : d \in deps'[m]}
  BY <1>1, <1>2, NoNamespaces DEF ReverseEdges
<1>9. Bookkeeping'
  BY <1>4, <1>6, FS_EmptySet DEF Bookkeeping
<1>10. UniverseClosed' /\ JobsAreReady' /\ CompiledAreReady' /\ ReadyInProgress' /\ BatchNotReady'
  BY <1>4, <1>6 DEF UniverseClosed, JobsAreReady, CompiledAreReady, ReadyInProgress, BatchNotReady
<1>11. RunningJobs' /\ MlMaps' /\ DoneIsUpToDate' /\ CompiledIsUpToDate' /\ SuccessLeavesNothingStale'
  BY <1>4, <1>6, NoNamespaces
     DEF RunningJobs, Running, MlMaps, DoneIsUpToDate, CompiledIsUpToDate,
         SuccessLeavesNothingStale, SourceFile
<1> QED BY <1>1, <1>3, <1>4, <1>5, <1>6, <1>7, <1>8, <1>9, <1>10, <1>11 DEF LoopInv

(* A module that is not marked was compiled from its present sources and against the
   present .cmi files: this is what compile relies on. *)
LEMMA MarkKeepsSuccess == ASSUME SInv, get_deps_and_mark PROVE SInv'
<1> USE DEF SInv
<1>1. PInv'
  BY MarkKeepsPInv
<1>2. /\ step = "parsing" /\ step' = "marked" /\ toParse = {}
      /\ UNCHANGED <<current, fresh, refs, present, deleted, newer, onDisk, phase, toParse>>
      /\ UNCHANGED <<universe, compiled, inProgress, total, outcome, job, result>>
  BY DEF get_deps_and_mark, sourceVars, jobVars, diskVars, runVars, loopVars
<1>3. AllPresent' /\ OutsideCompile' /\ OnlyInterfaces'
  BY <1>2 DEF AllPresent, OutsideCompile, OnlyInterfaces
<1>4. CompiledIsCurrent' /\ BothAreParsed' /\ CleanWasCompiled'
  BY <1>2 DEF FilesTellTheTruth, CompiledIsCurrent, BothAreParsed, CleanWasCompiled, ParseDirty,
              CompiledSinceParsed
<1>5. ChangedIsNewer'
  BY <1>2 DEF FilesTellTheTruth, ChangedIsNewer, HalfDone
<1>6. /\ LoopInv' /\ DoneIsUpToDate' /\ CompiledIsUpToDate' /\ SuccessLeavesNothingStale'
      /\ DepsRead = [m \in Module |-> refs[m] \ {m}] /\ deps' = DepsRead
      /\ compileDirty' = compileDirty \cup Expired(DepsRead)
      /\ \A m \in Module : job[m] = "idle"
  BY MarkingIsInOrder
<1>7. ASSUME NEW m \in SourceFile, m \notin compileDirty'
      PROVE  m \in current' /\ Reads(m)' \subseteq fresh'[m]
  <2>1. m \in Module /\ m \notin compileDirty /\ m \notin Expired(DepsRead)
    BY <1>6, <1>7 DEF SourceFile
  <2>2. CompiledSinceParsed(m) /\ \A f \in Sources(m) : ~ParseDirty(f)
    BY <1>2, <2>1 DEF FilesTellTheTruth, CleanWasCompiled
  <2>3. m \in current
    BY <1>2, <2>1, <2>2 DEF FilesTellTheTruth, CompiledIsCurrent
  <2>4. Reads(m)' = refs[m] \ {m}
    BY <1>6, <2>1, NoNamespaces DEF Reads
  <2>5. ASSUME NEW d \in refs[m] \ {m} PROVE d \in fresh[m]
    <3>1. d \in Module /\ d \in DepsRead[m]
      BY <1>6, <2>1, <2>5 DEF PInv, BuildTypeOK
    <3>2. <<Cmt(d), Cmt(m)>> \notin newer
      BY <2>1, <3>1 DEF Expired, AllPresent
    <3>3. ~HalfDone(d)
      BY <1>6, <3>1 DEF HalfDone
    <3> QED BY <2>3, <2>5, <3>2, <3>3 DEF FilesTellTheTruth, ChangedIsNewer
  <2> QED BY <1>2, <2>3, <2>4, <2>5
<1>8. NothingForgotten'
  BY <1>7 DEF NothingForgotten, SourceFile
<1>9. CallIsSound' /\ UpToDateAfterSuccess'
  BY <1>2, <1>6, <1>8 DEF CallIsSound, UpToDateAfterSuccess, IInv
<1> QED BY <1>1, <1>3, <1>4, <1>5, <1>9 DEF FilesTellTheTruth

-----------------------------------------------------------------------------
(* compile, and the end of the run. *)

LEMMA BeginKeepsSuccess == ASSUME SInv, BeginCompile PROVE SInv'
<1> USE DEF SInv, BeginCompile, StartCompile
<1>1. PInv'
  BY BeginKeepsPInv
<1>2. /\ step = "marked" /\ step' = "compiling"
      /\ UNCHANGED <<deps, refs, present, deleted, toParse, newer, onDisk, current, fresh>>
      /\ UNCHANGED <<job, result>>
  BY DEF KeepRun, KeepDisk, sourceVars, diskVars, project, jobVars
<1>3. AllPresent' /\ OutsideCompile' /\ OnlyInterfaces'
  BY <1>2 DEF AllPresent, OutsideCompile, OnlyInterfaces
<1>4. FilesTellTheTruth'
  BY <1>2 DEF FilesTellTheTruth, CompiledIsCurrent, BothAreParsed, CleanWasCompiled,
              ChangedIsNewer, ParseDirty, CompiledSinceParsed, HalfDone
<1>5. IInv'
  BY <1>2, NextPreserves DEF CallIsSound, Next, StartCompile
<1>6. CallIsSound' /\ UpToDateAfterSuccess'
  BY <1>2, <1>5 DEF CallIsSound, UpToDateAfterSuccess
<1> QED BY <1>1, <1>3, <1>4, <1>6

(* A step of the loop is a step of Compile. *)
LEMMA LoopIsCompile == ASSUME CompileLoop PROVE Next
<1>1. CASE StartBatch \/ CollectResults \/ NextBatch
  BY <1>1 DEF Next, CompileStep
<1>2. ASSUME NEW m \in Module, SkipClean(m) \/ StartFile(m) PROVE Next
  BY <1>2 DEF Next, CompileStep, RunJob
<1>3. ASSUME NEW m \in Module, NEW verdict \in Verdict, NEW differs \in BOOLEAN,
             RunInterface(m, verdict, differs) \/ RunImplementation(m, verdict, differs)
      PROVE  Next
  BY <1>3 DEF RunInterface, RunImplementation, Next, CompileStep, RunJob
<1>4. ASSUME NEW m \in Module, TakeResult(m) PROVE Next
  BY <1>4 DEF TakeResult, Next, CompileStep
<1> QED BY <1>1, <1>2, <1>3, <1>4 DEF CompileLoop

(* The steps that run no bsc, and bsc on an interface, write no .cmt. *)
LEMMA QuietStepKeepsFiles ==
  ASSUME SInv, toParse' = toParse, step' = "compiling",
         UNCHANGED <<newer, onDisk, refs, current>>,
         \A m \in Module, d \in Module :
           d \in fresh[m] \/ HalfDone(d) => d \in fresh'[m] \/ HalfDone(d)'
  PROVE  FilesTellTheTruth'
<1> USE DEF SInv, FilesTellTheTruth
<1>1. CompiledIsCurrent' /\ CleanWasCompiled'
  BY DEF CompiledIsCurrent, CleanWasCompiled, ParseDirty, CompiledSinceParsed
<1>2. BothAreParsed'
  BY DEF BothAreParsed, ParseDirty
<1>3. ChangedIsNewer'
  <2>1. current \subseteq Module /\ \A m \in Module : refs[m] \subseteq Module
    BY DEF PInv, BuildTypeOK, TypeOK
  <2>2. ASSUME NEW m \in current, NEW d \in refs[m] \ {m}
        PROVE  d \in fresh'[m] \/ <<Cmt(d), Cmt(m)>> \in newer \/ HalfDone(d)'
    <3>1. d \in fresh[m] \/ <<Cmt(d), Cmt(m)>> \in newer \/ HalfDone(d)
      BY DEF ChangedIsNewer
    <3>2. m \in Module /\ d \in Module
      BY <2>1
    <3> QED BY <3>1, <3>2
  <2>3. \A m \in current' : Cmt(m) \in onDisk'
    BY DEF ChangedIsNewer
  <2>4. ASSUME NEW m \in current', NEW d \in refs'[m] \ {m}
        PROVE  d \in fresh'[m] \/ <<Cmt(d), Cmt(m)>> \in newer' \/ HalfDone(d)'
    BY <2>2
  <2> QED BY <2>3, <2>4 DEF ChangedIsNewer
<1> QED BY <1>1, <1>2, <1>3

LEMMA InterfaceKeepsFiles ==
  ASSUME SInv, step' = "compiling", UNCHANGED <<toParse, refs>>,
         NEW m \in Module, NEW verdict \in Verdict, NEW differs \in BOOLEAN,
         RunInterface(m, verdict, differs)
  PROVE  FilesTellTheTruth'
<1> USE DEF RunInterface, CompileInterface
<1>1. UNCHANGED <<newer, onDisk, current>> /\ job[m] = "interface"
  BY DEF diskVars
<1>2. m \in WithInterface
  BY <1>1 DEF SInv, OnlyInterfaces
<1>3. job \in [Module -> {"idle", "queued", "interface", "implementation", "done"}]
      /\ result \in [Module -> JobResult] /\ fresh \in [Module -> SUBSET Module]
  BY DEF SInv, PInv, BuildTypeOK, TypeOK
<1>4. \A d \in Module : HalfDone(d) => HalfDone(d)'
  BY <1>1, <1>3 DEF HalfDone
<1>5. CASE verdict = "error"
  <2>1. fresh' = fresh
    BY <1>5
  <2> QED BY <1>1, <1>4, <2>1, QuietStepKeepsFiles
<1>6. CASE verdict # "error"
  <2>1. HalfDone(m)'
    BY <1>2, <1>3, <1>6 DEF HalfDone, InterfaceDone
  <2>2. \A x \in Module : \A d \in fresh[x] : d \in fresh'[x] \/ d = m
    BY <1>3, <1>6
  <2> QED BY <1>1, <1>4, <2>1, <2>2, QuietStepKeepsFiles
<1> QED BY <1>5, <1>6

LEMMA CmtsAreCompared ==
  ASSUME NEW x \in Module, NEW y \in Module
  PROVE  <<Cmt(x), Cmt(y)>> \in Compared
<1>1. Cmt(x) \in Cmts /\ Cmt(y) \in Cmts
  BY DEF Cmts
<1> QED BY <1>1 DEF Compared

LEMMA ImplementationKeepsFiles ==
  ASSUME Undisturbed, SInv, step = "compiling", step' = "compiling", UNCHANGED <<toParse, refs>>,
         NEW m \in Module, NEW verdict \in Verdict, NEW differs \in BOOLEAN,
         RunImplementation(m, verdict, differs)
  PROVE  FilesTellTheTruth'
<1> DEFINE intf == IF m \in WithInterface THEN result[m].intf ELSE NoInterface
           changed == verdict # "error" /\ m \notin WithInterface /\ differs
<1>1. /\ job[m] = "implementation"
      /\ job' = [job EXCEPT ![m] = "done"]
      /\ result' = [result EXCEPT ![m] = [impl |-> verdict, intf |-> intf,
                                          clean |-> m \notin digestDiffers']]
      /\ m \in WithInterface => (intf = "error" <=> verdict = "error")
  BY DEF RunImplementation, CompileImplementation, Finish, Undisturbed
<1>2. job \in [Module -> {"idle", "queued", "interface", "implementation", "done"}]
      /\ result \in [Module -> JobResult] /\ fresh \in [Module -> SUBSET Module]
      /\ current \subseteq Module /\ \A x \in Module : refs[x] \subseteq Module
  BY DEF SInv, PInv, BuildTypeOK, TypeOK
<1>3. \A d \in Module \ {m} : HalfDone(d) => HalfDone(d)'
  BY <1>1, <1>2 DEF HalfDone
<1>4. CASE verdict = "error"
  <2>1. UNCHANGED <<newer, onDisk, current, fresh>>
    BY <1>4 DEF RunImplementation, CompileImplementation, Failed, diskVars
  <2>2. ~HalfDone(m)
    BY <1>1, <1>4 DEF HalfDone
  <2> QED BY <1>3, <2>1, <2>2, QuietStepKeepsFiles
<1>5. CASE verdict # "error"
  <2>1. /\ current' = current \cup {m}
        /\ fresh' = [(IF changed THEN [x \in Module |-> fresh[x] \ {m}] ELSE fresh)
                       EXCEPT ![m] = seen[m]]
        /\ WriteFiles({Cmt(m)})
    <3>1. ~Failed([impl |-> verdict, intf |-> intf])
      BY <1>1, <1>5 DEF Failed, NoInterface
    <3> QED BY <1>5, <3>1 DEF RunImplementation, CompileImplementation
  <2>2. refs[m] \ {m} \subseteq fresh'[m]
    <3>1. seen[m] = Reads(m) /\ deps[m] = refs[m] \ {m}
      BY <1>1 DEF SInv, CallIsSound, IInv, LoopInv, RunningJobs, Running
    <3>2. fresh'[m] = seen[m]
      BY <1>2, <2>1
    <3> QED BY <3>1, <3>2 DEF Reads
  <2>3. \A x \in Module \ {m} : \A d \in fresh[x] : d \in fresh'[x] \/ d = m
    BY <1>2, <2>1
  <2>4. ASSUME NEW x \in Module \ {m}, NEW d \in Module, <<Cmt(d), Cmt(x)>> \in newer
        PROVE  <<Cmt(d), Cmt(x)>> \in newer'
    <3>1. Cmt(x) \notin {Cmt(m)}
      BY DEF Cmt
    <3> QED BY <2>1, <2>4, <3>1 DEF WriteFiles
  <2>5. ASSUME NEW x \in Module \ {m}, Cmt(x) \in onDisk
        PROVE  <<Cmt(m), Cmt(x)>> \in newer'
    <3>1. <<Cmt(m), Cmt(x)>> \in Compared
      BY CmtsAreCompared
    <3>2. Cmt(x) \in onDisk \ {Cmt(m)}
      BY <2>5 DEF Cmt
    <3> QED BY <2>1, <3>1, <3>2 DEF WriteFiles
  <2>6. ASSUME NEW x \in current'
        PROVE  /\ Cmt(x) \in onDisk'
               /\ \A d \in refs'[x] \ {x} :
                    d \in fresh'[x] \/ <<Cmt(d), Cmt(x)>> \in newer' \/ HalfDone(d)'
    <3>1. CASE x = m
      BY <2>1, <2>2, <3>1 DEF WriteFiles
    <3>2. CASE x # m
      <4>1. x \in current /\ x \in Module /\ refs'[x] = refs[x] /\ refs[x] \subseteq Module
        BY <1>2, <2>1, <3>2
      <4>2. Cmt(x) \in onDisk /\ Cmt(x) \in onDisk'
        BY <2>1, <4>1 DEF SInv, FilesTellTheTruth, ChangedIsNewer, WriteFiles
      <4>3. ASSUME NEW d \in refs[x] \ {x}
            PROVE  d \in fresh'[x] \/ <<Cmt(d), Cmt(x)>> \in newer' \/ HalfDone(d)'
        <5>1. d \in fresh[x] \/ <<Cmt(d), Cmt(x)>> \in newer \/ HalfDone(d)
          BY <4>1, <4>3 DEF SInv, FilesTellTheTruth, ChangedIsNewer
        <5>2. d \in Module
          BY <4>1
        <5> QED BY <1>3, <2>3, <2>4, <2>5, <3>2, <4>1, <4>2, <5>1, <5>2
      <4> QED BY <4>1, <4>2, <4>3
    <3> QED BY <3>1, <3>2
  <2>7. ChangedIsNewer'
    BY <2>6 DEF ChangedIsNewer
  <2>8. ASSUME NEW x \in Module, x # m, Sources(x) \cap toParse' = {},
               \A f \in Sources(x) : ~ParseDirty(f)', CompiledSinceParsed(x)'
        PROVE  x \in current
    <3>1. \A f \in Sources(x) : ~ParseDirty(f)
      <4>1. ASSUME NEW f \in Sources(x) PROVE ~ParseDirty(f)
        <5>1. AstOf(f) # Cmt(m) /\ f # Cmt(m)
          BY SourcesOf, SourceFiles
        <5> QED BY <2>1, <2>8, <5>1, PairsWritten DEF ParseDirty
      <4> QED BY <4>1
    <3>2. CompiledSinceParsed(x)
      <4>1. PICK a \in Asts(x) : <<Cmt(x), a>> \in newer'
        BY <2>8 DEF CompiledSinceParsed
      <4>2. a # Cmt(m) /\ Cmt(x) # Cmt(m)
        BY <2>8, <4>1, AstsOf, SourceFiles DEF Cmt
      <4> QED BY <2>1, <4>1, <4>2, PairsWritten DEF CompiledSinceParsed
    <3> QED BY <2>8, <3>1, <3>2 DEF SInv, FilesTellTheTruth, CompiledIsCurrent
  <2>9. CompiledIsCurrent'
    BY <2>1, <2>8 DEF CompiledIsCurrent
  <2>10. BothAreParsed' /\ CleanWasCompiled'
    BY DEF SInv, OutsideCompile, BothAreParsed, CleanWasCompiled
  <2> QED BY <2>7, <2>9, <2>10 DEF FilesTellTheTruth
<1> QED BY <1>4, <1>5

LEMMA LoopKeepsFiles ==
  ASSUME Undisturbed, SInv, CompileLoop
  PROVE  FilesTellTheTruth'
<1>1. step = "compiling" /\ step' = "compiling" /\ UNCHANGED <<toParse, refs>>
  BY DEF CompileLoop, KeepRun, sourceVars
<1>2. job \in [Module -> {"idle", "queued", "interface", "implementation", "done"}]
  BY DEF SInv, PInv, BuildTypeOK, TypeOK
<1>3. result \in [Module -> JobResult]
  BY DEF SInv, PInv, BuildTypeOK, TypeOK
<1>4. ASSUME UNCHANGED <<newer, onDisk, current, fresh>>,
             \A d \in Module : HalfDone(d) => HalfDone(d)'
      PROVE  FilesTellTheTruth'
  BY <1>1, <1>4, QuietStepKeepsFiles
<1>5. CASE StartBatch /\ KeepDisk
  <2>1. \A d \in Module : job[d] = "idle"
    BY <1>1, <1>5 DEF StartBatch, SInv, CallIsSound, IInv, LoopInv, Bookkeeping
  <2>2. UNCHANGED <<newer, onDisk, current, fresh>>
    BY <1>5 DEF StartBatch, KeepDisk, diskVars, project
  <2> QED BY <1>4, <2>1, <2>2 DEF HalfDone
<1>6. CASE (CollectResults \/ NextBatch) /\ KeepDisk
  BY <1>4, <1>6 DEF CollectResults, NextBatch, KeepDisk, diskVars, project, jobVars, HalfDone
<1>7. ASSUME NEW m \in Module, SkipClean(m) \/ StartFile(m), KeepDisk PROVE FilesTellTheTruth'
  <2>1. UNCHANGED <<newer, onDisk, current, fresh>> /\ job[m] = "queued"
    BY <1>7 DEF SkipClean, StartFile, KeepDisk, diskVars, project
  <2>2. \A d \in Module \ {m} : job'[d] = job[d] /\ result'[d] = result[d]
    BY <1>2, <1>3, <1>7 DEF SkipClean, StartFile, Finish
  <2> QED BY <1>4, <2>1, <2>2 DEF HalfDone
<1>8. ASSUME NEW m \in Module, NEW verdict \in Verdict, NEW differs \in BOOLEAN,
             RunInterface(m, verdict, differs) \/ RunImplementation(m, verdict, differs)
      PROVE  FilesTellTheTruth'
  BY <1>1, <1>8, InterfaceKeepsFiles, ImplementationKeepsFiles
<1>9. ASSUME NEW m \in Module, TakeResult(m) PROVE FilesTellTheTruth'
  <2>1. UNCHANGED <<newer, onDisk, current, fresh>> /\ job[m] = "done"
    BY <1>9 DEF TakeResult, ProcessResult, diskVars, project
  <2>2. \A d \in Module \ {m} : job'[d] = job[d] /\ result'[d] = result[d]
    BY <1>2, <1>3, <1>9 DEF TakeResult, ProcessResult
  <2> QED BY <1>4, <2>1, <2>2 DEF HalfDone
<1> QED BY <1>5, <1>6, <1>7, <1>8, <1>9 DEF CompileLoop

LEMMA LoopKeepsInterfaces ==
  ASSUME PInv, OnlyInterfaces, CompileLoop
  PROVE  OnlyInterfaces' /\ UNCHANGED <<deps, dependents>>
<1> USE DEF PInv, BuildTypeOK, TypeOK, OnlyInterfaces
<1>1. CASE StartBatch \/ CollectResults \/ NextBatch
  BY <1>1 DEF StartBatch, CollectResults, NextBatch, jobVars, project
<1>2. ASSUME NEW m \in Module, SkipClean(m) \/ StartFile(m) PROVE OnlyInterfaces' /\ UNCHANGED <<deps, dependents>>
  BY <1>2 DEF SkipClean, StartFile, Finish, project
<1>3. ASSUME NEW m \in Module, NEW verdict \in Verdict, NEW differs \in BOOLEAN,
             RunInterface(m, verdict, differs) \/ RunImplementation(m, verdict, differs)
      PROVE  OnlyInterfaces' /\ UNCHANGED <<deps, dependents>>
  <2>1. job' \in {[job EXCEPT ![m] = "implementation"], [job EXCEPT ![m] = "done"]}
        /\ UNCHANGED <<deps, dependents>>
    BY <1>3 DEF RunInterface, RunImplementation, CompileInterface, CompileImplementation, Finish
  <2> QED BY <2>1
<1>4. ASSUME NEW m \in Module, TakeResult(m) PROVE OnlyInterfaces' /\ UNCHANGED <<deps, dependents>>
  BY <1>4 DEF TakeResult, ProcessResult, project
<1> QED BY <1>1, <1>2, <1>3, <1>4 DEF CompileLoop

LEMMA LoopKeepsSuccess == ASSUME Undisturbed, SInv, CompileLoop PROVE SInv'
<1>1. PInv' /\ FilesTellTheTruth' /\ OnlyInterfaces'
  BY LoopKeepsPInv, LoopKeepsFiles, LoopKeepsInterfaces DEF SInv
<1>2. step = "compiling" /\ step' = "compiling" /\ UNCHANGED <<present, refs, deleted, toParse>>
  BY DEF CompileLoop, KeepRun, sourceVars
<1>3. AllPresent' /\ OutsideCompile'
  BY <1>2 DEF SInv, AllPresent, OutsideCompile
<1>4. IInv'
  BY <1>2, LoopIsCompile, NextPreserves DEF SInv, CallIsSound
<1>5. CallIsSound' /\ UpToDateAfterSuccess'
  BY <1>2, <1>4, LoopKeepsInterfaces DEF SInv, CallIsSound, UpToDateAfterSuccess
<1> QED BY <1>1, <1>3, <1>5 DEF SInv

(* compile returns a success only if nothing is stale. *)
LEMMA EndKeepsSuccess == ASSUME SInv, EndCompile PROVE SInv'
<1> USE DEF SInv, EndCompile, Return
<1>1. PInv'
  BY EndKeepsPInv
<1>2. /\ step = "compiling" /\ step' = "cleanup" /\ phase' = "idle" /\ outcome' \in {"ok", "failed"}
      /\ UNCHANGED <<deps, refs, present, deleted, toParse, newer, onDisk, current, fresh>>
      /\ UNCHANGED <<job, result>>
  BY DEF KeepRun, KeepDisk, sourceVars, diskVars, project, jobVars
<1>3. AllPresent' /\ OutsideCompile' /\ OnlyInterfaces' /\ CallIsSound'
  BY <1>2 DEF AllPresent, OutsideCompile, OnlyInterfaces, CallIsSound
<1>4. FilesTellTheTruth'
  BY <1>2 DEF FilesTellTheTruth, CompiledIsCurrent, BothAreParsed, CleanWasCompiled,
              ChangedIsNewer, ParseDirty, CompiledSinceParsed, HalfDone
<1>5. SuccessLeavesNothingStale'
  BY <1>2, NextPreserves DEF CallIsSound, Next, CompileStep, IInv, LoopInv
<1>6. ASSUME outcome' = "ok", NEW m \in Module PROVE ~OutOfDate(m)'
  <2>1. m \in current' /\ Reads(m)' \subseteq fresh'[m]
    BY <1>5, <1>6, NoNamespaces DEF SuccessLeavesNothingStale, Stale, SourceFile
  <2>2. refs'[m] \ {m} \subseteq Reads(m)'
    BY <1>2 DEF CallIsSound, Reads
  <2>3. refs'[m] \subseteq present'
    BY <1>1, <1>3 DEF AllPresent, PInv, BuildTypeOK
  <2> QED BY <2>1, <2>2, <2>3 DEF OutOfDate
<1>7. UpToDateAfterSuccess'
  BY <1>3, <1>6 DEF UpToDateAfterSuccess, AllPresent
<1> QED BY <1>1, <1>3, <1>4, <1>7

LEMMA StopKeepsSuccess == ASSUME SInv, StopAtParseError PROVE SInv'
<1> USE DEF SInv, StopAtParseError
<1>1. PInv'
  BY EndKeepsPInv
<1>2. /\ step = "parsing" /\ step' = "cleanup" /\ outcome' = "failed" /\ toParse = {}
      /\ UNCHANGED <<refs, present, deleted, toParse, newer, onDisk, current, fresh>>
      /\ UNCHANGED <<job, result, phase, universe, compiled, inProgress, total>>
  BY DEF runVars, sourceVars, diskVars, project, jobVars
<1>3. AllPresent' /\ OutsideCompile' /\ OnlyInterfaces' /\ CallIsSound' /\ UpToDateAfterSuccess'
  BY <1>2 DEF AllPresent, OutsideCompile, OnlyInterfaces, CallIsSound, UpToDateAfterSuccess
<1>4. FilesTellTheTruth'
  BY <1>2 DEF FilesTellTheTruth, CompiledIsCurrent, BothAreParsed, CleanWasCompiled,
              ChangedIsNewer, ParseDirty, CompiledSinceParsed, HalfDone
<1> QED BY <1>1, <1>3, <1>4

(* Without its ASTs a module is parsed again; the .cmt files stay. *)
LEMMA CleanupKeepsSuccess == ASSUME SInv, cleanup_after_build PROVE SInv'
<1> USE DEF SInv, cleanup_after_build, Forget
<1>1. PInv'
  BY EndKeepsPInv
<1>2. /\ step = "cleanup" /\ step' = "down" /\ toParse' = {} /\ deleted' = {}
      /\ RemoveFiles(AstsWithWarnings)
      /\ UNCHANGED <<refs, present, current, fresh, job, result, phase, outcome>>
      /\ UNCHANGED <<universe, compiled, inProgress, total>>
  BY DEF sourceVars, jobVars, loopVars
<1>3. AllPresent' /\ OutsideCompile' /\ OnlyInterfaces' /\ CallIsSound' /\ UpToDateAfterSuccess'
  BY <1>2 DEF AllPresent, OutsideCompile, OnlyInterfaces, CallIsSound, UpToDateAfterSuccess
<1>4. CompiledIsCurrent' /\ BothAreParsed' /\ CleanWasCompiled'
  <2>1. newer' \subseteq newer /\ toParse = {}
    BY <1>2 DEF RemoveFiles, OutsideCompile
  <2> QED BY <1>2, <2>1 DEF FilesTellTheTruth, CompiledIsCurrent, BothAreParsed, CleanWasCompiled,
                            ParseDirty, CompiledSinceParsed
<1>5. \A m \in Module : Cmt(m) \notin AstsWithWarnings
  BY DEF AstsWithWarnings, Asts, AstOf, Cmt
<1>6. ASSUME NEW m \in current', NEW d \in refs'[m] \ {m}
      PROVE  d \in fresh'[m] \/ <<Cmt(d), Cmt(m)>> \in newer' \/ HalfDone(d)'
  <2>1. m \in Module /\ d \in Module
    BY <1>2 DEF PInv, BuildTypeOK, TypeOK
  <2>2. d \in fresh[m] \/ <<Cmt(d), Cmt(m)>> \in newer \/ HalfDone(d)
    BY <1>2, <1>6 DEF FilesTellTheTruth, ChangedIsNewer
  <2> QED BY <1>2, <1>5, <2>1, <2>2 DEF RemoveFiles, HalfDone
<1>7. \A m \in current' : Cmt(m) \in onDisk'
  BY <1>2, <1>5 DEF FilesTellTheTruth, ChangedIsNewer, RemoveFiles, PInv, BuildTypeOK, TypeOK
<1>8. ChangedIsNewer'
  BY <1>6, <1>7 DEF ChangedIsNewer
<1> QED BY <1>1, <1>3, <1>4, <1>8 DEF FilesTellTheTruth

LEMMA SuccessKept == ASSUME Undisturbed, SInv, [BuildNext]_buildVars PROVE SInv'
<1>1. CASE UNCHANGED buildVars
  <2>1. PInv'
    BY PInvKept DEF SInv
  <2>2. IInv => IInv'
    BY <1>1, NextPreserves DEF buildVars
  <2>3. CallIsSound'
    BY <1>1, <2>2 DEF buildVars, vars, project, sourceVars, SInv, CallIsSound
  <2>4. FilesTellTheTruth'
    BY <1>1 DEF buildVars, vars, project, jobVars, sourceVars, diskVars, runVars, SInv,
                FilesTellTheTruth, CompiledIsCurrent, BothAreParsed, CleanWasCompiled,
                ChangedIsNewer, ParseDirty, CompiledSinceParsed, HalfDone
  <2>5. AllPresent' /\ OutsideCompile' /\ OnlyInterfaces' /\ UpToDateAfterSuccess'
    BY <1>1 DEF buildVars, vars, project, loopVars, jobVars, sourceVars, runVars, SInv, AllPresent,
                OutsideCompile, OnlyInterfaces, UpToDateAfterSuccess, OutOfDate
  <2> QED BY <2>1, <2>3, <2>4, <2>5 DEF SInv
<1>2. ~Kill
  BY DEF Undisturbed, Kill
<1> QED BY <1>1, <1>2, UserKeepsSuccess, InitializeKeepsSuccess, ParseKeepsSuccess,
           StopKeepsSuccess, MarkKeepsSuccess, BeginKeepsSuccess, LoopKeepsSuccess,
           EndKeepsSuccess, CleanupKeepsSuccess DEF BuildNext, RunStep

(* A build that reports success leaves every module compiled from its present sources and
   against the present .cmi files, whatever the builds before it left behind. *)
THEOREM SuccessMeansUpToDate ==
  ASSUME Undisturbed
  PROVE  BuildSpec => []UpToDateAfterSuccess
<1>1. BuildInit => SInv
  BY SuccessInit
<1>2. SInv /\ [BuildNext]_buildVars => SInv'
  BY SuccessKept
<1>3. SInv => UpToDateAfterSuccess
  BY DEF SInv
<1> QED BY <1>1, <1>2, <1>3, PTL DEF BuildSpec

-----------------------------------------------------------------------------
(* The warnings, under the same conditions. *)

(* Unless parsing failed, what is not to be parsed has an AST newer than its source. *)
AstsAreThere ==
  /\ step = "parsing" /\ ~parseFailed => \A f \in AllSources \ toParse : ~ParseDirty(f)
  /\ step \in {"marked", "compiling"} => \A f \in AllSources : ~ParseDirty(f)

(* A module that is not dirty has a .cmt newer than one of its ASTs, and so has one that
   was compiled. *)
DirtyIsMarked ==
  step \in {"parsing", "marked", "compiling"} =>
    \A m \in Module \ compileDirty : CompiledSinceParsed(m)
DoneWasWritten ==
  /\ \A m \in Module : job[m] = "done" /\ ~Failed(result[m]) => CompiledSinceParsed(m)
  /\ ~errors => \A m \in compiled : CompiledSinceParsed(m)

(* A run starts with nothing logged and no failure. *)
NothingLogged == step = "down" => logged = {} /\ ~parseFailed

Warned(m) == "warning" \in {result[m].impl, result[m].intf}
NoInterfaceWarning == \A m \in Module \ WithInterface : result[m].intf # "warning"

(* A warning that was not given yet is given when its source is parsed again, as something
   tells the next run to. *)
UncleanAsts ==
  \A f \in AllSources : AstOf(f) \in unclean =>
    \/ AstOf(f) \in logged
    \/ step = "parsing" /\ f \in toParse
    \/ /\ step \notin {"marked", "compiling"}
       /\ step = "parsing" => parseFailed /\ ParseDirty(f)
       /\ step = "cleanup" => outcome # "ok"
       /\ \E g \in Sources(f[2]) : ParseDirty(g)

(* Or when its module is compiled again. *)
UncleanCmts ==
  \A m \in Module : Cmt(m) \in unclean =>
    Cmt(m) \in logged \/ (job[m] = "done" /\ Warned(m)) \/ ~CompiledSinceParsed(m)

WInv ==
  /\ AllSources \subseteq onDisk /\ AstsAreThere /\ DirtyIsMarked /\ DoneWasWritten
  /\ NothingLogged /\ NoInterfaceWarning /\ UncleanAsts /\ UncleanCmts /\ WarningsAreShownAgain

-----------------------------------------------------------------------------
(* Files and times. *)

LEMMA SourceWritten ==
  ASSUME NEW f \in AllSources, WriteFiles({f})
  PROVE  /\ \A m \in Module : CompiledSinceParsed(m)' => CompiledSinceParsed(m)
         /\ \A g \in AllSources : ParseDirty(g) => ParseDirty(g)'
<1>1. ASSUME NEW m \in Module, NEW a \in Asts(m), <<Cmt(m), a>> \in newer'
      PROVE  <<Cmt(m), a>> \in newer
  <2>1. PICK g \in AllSources : a = AstOf(g)
    BY AstsOf
  <2>2. a # f /\ Cmt(m) # f
    BY <2>1, SourceFiles
  <2> QED BY <1>1, <2>2, PairsWritten
<1>2. ASSUME NEW g \in AllSources, ParseDirty(g) PROVE ParseDirty(g)'
  <2>1. AstOf(g) # f
    BY SourceFiles
  <2>2. CASE g = f
    BY <2>1, <2>2, OlderThanWritten DEF ParseDirty
  <2>3. CASE g # f
    BY <1>2, <2>1, <2>3, PairsWritten DEF ParseDirty
  <2> QED BY <2>2, <2>3
<1> QED BY <1>1, <1>2 DEF CompiledSinceParsed

LEMMA AstWritten ==
  ASSUME NEW f \in AllSources, AllSources \subseteq onDisk, WriteFiles({AstOf(f)})
  PROVE  /\ \A m \in Module : CompiledSinceParsed(m)' => CompiledSinceParsed(m)
         /\ \A m \in Module \ {f[2]} : CompiledSinceParsed(m) => CompiledSinceParsed(m)'
         /\ \A g \in AllSources : ParseDirty(g)' => ParseDirty(g)
         /\ \A g \in AllSources \ {f} : ParseDirty(g) => ParseDirty(g)'
         /\ ~ParseDirty(f)'
<1>1. ASSUME NEW m \in Module, NEW a \in Asts(m)
      PROVE  /\ <<Cmt(m), a>> \in newer' => <<Cmt(m), a>> \in newer
             /\ m # f[2] => (<<Cmt(m), a>> \in newer => <<Cmt(m), a>> \in newer')
  <2>1. PICK g \in AllSources : a = AstOf(g) /\ g[2] = m
    BY AstsOf
  <2>2. Cmt(m) # AstOf(f) /\ (g # f => a # AstOf(f))
    BY <2>1, SourceFiles
  <2>3. CASE g = f
    BY <2>1, <2>2, <2>3, OlderThanWritten
  <2>4. CASE g # f
    <3>1. Cmt(m) # AstOf(f) /\ a # AstOf(f)
      BY <2>2, <2>4
    <3>2. <<Cmt(m), a>> \in newer' <=> <<Cmt(m), a>> \in newer
      BY <3>1 DEF WriteFiles
    <3> QED BY <3>2
  <2> QED BY <2>3, <2>4
<1>2. ~ParseDirty(f)'
  <2>1. <<AstOf(f), f>> \in Compared
    BY DEF Compared
  <2>2. f \in onDisk \ {AstOf(f)}
    BY SourceFiles
  <2> QED BY <2>1, <2>2 DEF ParseDirty, WriteFiles
<1>3. ASSUME NEW g \in AllSources, g # f PROVE ParseDirty(g) <=> ParseDirty(g)'
  <2>1. AstOf(g) # AstOf(f) /\ g # AstOf(f)
    BY <1>3, SourceFiles
  <2> QED BY <2>1 DEF ParseDirty, WriteFiles
<1> QED BY <1>1, <1>2, <1>3 DEF CompiledSinceParsed

LEMMA CmtWritten ==
  ASSUME NEW m \in Module, WriteFiles({Cmt(m)}), \E a \in Asts(m) : a \in onDisk
  PROVE  /\ \A g \in AllSources : ParseDirty(g)' <=> ParseDirty(g)
         /\ \A x \in Module \ {m} : CompiledSinceParsed(x)' <=> CompiledSinceParsed(x)
         /\ CompiledSinceParsed(m)'
<1>1. ASSUME NEW g \in AllSources PROVE ParseDirty(g)' <=> ParseDirty(g)
  <2>1. AstOf(g) # Cmt(m) /\ g # Cmt(m)
    BY SourceFiles
  <2> QED BY <2>1 DEF ParseDirty, WriteFiles
<1>2. ASSUME NEW x \in Module, NEW a \in Asts(x)
      PROVE  a # Cmt(m) /\ (x # m => (<<Cmt(x), a>> \in newer' <=> <<Cmt(x), a>> \in newer))
  <2>1. a # Cmt(m)
    BY AstsOf, SourceFiles
  <2>2. x # m => Cmt(x) # Cmt(m)
    BY DEF Cmt
  <2>3. Cmt(x) # Cmt(m) => (<<Cmt(x), a>> \in newer' <=> <<Cmt(x), a>> \in newer)
    BY <2>1 DEF WriteFiles
  <2> QED BY <2>1, <2>2, <2>3
<1>3. CompiledSinceParsed(m)'
  <2>1. PICK a \in Asts(m) : a \in onDisk
    OBVIOUS
  <2>2. <<Cmt(m), a>> \in Compared
    <3>1. <<Cmt(m), a>> \in {Cmt(m)} \X Asts(m)
      OBVIOUS
    <3>2. <<Cmt(m), a>> \in UNION {{Cmt(x)} \X Asts(x) : x \in Module}
      BY <3>1
    <3> QED BY <3>2 DEF Compared
  <2>3. a \in onDisk \ {Cmt(m)}
    BY <1>2, <2>1
  <2>4. <<Cmt(m), a>> \in newer'
    BY <2>2, <2>3 DEF WriteFiles
  <2> QED BY <2>4 DEF CompiledSinceParsed
<1> QED BY <1>1, <1>2, <1>3 DEF CompiledSinceParsed

-----------------------------------------------------------------------------
(* Between the runs and before compile. *)

LEMMA WarningsInit == BuildInit => WInv
<1> SUFFICES ASSUME BuildInit PROVE WInv
  OBVIOUS
<1> USE DEF BuildInit
<1>1. AllSources \subseteq onDisk /\ AstsAreThere /\ DirtyIsMarked /\ NothingLogged
  BY DEF AstsAreThere, DirtyIsMarked, NothingLogged
<1>2. DoneWasWritten /\ NoInterfaceWarning
  BY DEF DoneWasWritten, NoInterfaceWarning, Untouched, NoInterface
<1>3. UncleanAsts /\ UncleanCmts /\ WarningsAreShownAgain
  BY DEF UncleanAsts, UncleanCmts, WarningsAreShownAgain
<1> QED BY <1>1, <1>2, <1>3 DEF WInv

(* Outside compile nothing is done or compiled. *)
LEMMA NoJobs ==
  ASSUME SInv, step # "compiling"
  PROVE  compiled = {} /\ \A m \in Module : job[m] # "done"
BY DEF SInv, PInv, OutsideCompile, JobsArePresent

LEMMA UserKeepsWarnings ==
  ASSUME Undisturbed, SInv, WInv, UserStep \/ \E m \in Module : DeleteModule(m)
  PROVE  WInv'
<1>1. PICK newRefs \in SUBSET Module, f \in AllSources : EditSource(f, newRefs)
  <2>1. \A m \in Module : ~DeleteModule(m)
    BY DEF Undisturbed, DeleteModule
  <2>2. \A m \in Module, newRefs \in SUBSET Module : ~CreateModule(m, newRefs)
    BY DEF SInv, AllPresent, CreateModule
  <2> QED BY <2>1, <2>2 DEF UserStep
<1>2. /\ step = "down" /\ step' = "down" /\ WriteFiles({f})
      /\ UNCHANGED <<unclean, logged, parseFailed, job, result, compiled>>
  BY <1>1 DEF EditSource, ChangeSources, Change, runVars, loopVars, jobVars
<1>3. AllSources \subseteq onDisk' /\ AstsAreThere' /\ DirtyIsMarked' /\ NothingLogged'
  BY <1>2 DEF WInv, WriteFiles, AstsAreThere, DirtyIsMarked, NothingLogged
<1>4. DoneWasWritten' /\ NoInterfaceWarning' /\ WarningsAreShownAgain'
  BY <1>2, NoJobs DEF WInv, DoneWasWritten, NoInterfaceWarning, WarningsAreShownAgain
<1>5. ASSUME NEW g \in AllSources, AstOf(g) \in unclean
      PROVE  \E h \in Sources(g[2]) : ParseDirty(h)'
  <2>1. PICK h \in Sources(g[2]) : ParseDirty(h)
    BY <1>2, <1>5 DEF WInv, UncleanAsts, NothingLogged
  <2>2. h \in AllSources
    BY SourceFiles, SourcesOf
  <2> QED BY <1>2, <2>1, <2>2, SourceWritten
<1>6. UncleanAsts'
  BY <1>2, <1>5 DEF UncleanAsts
<1>7. UncleanCmts'
  BY <1>2, NoJobs, SourceWritten DEF WInv, UncleanCmts, NothingLogged
<1> QED BY <1>3, <1>4, <1>6, <1>7 DEF WInv

LEMMA InitializeKeepsWarnings == ASSUME SInv, WInv, initialize_build PROVE WInv'
<1> DEFINE gone == {m \in Module \ present : Asts(m) \cap onDisk # {}}
           removed == UNION {Asts(m) \cup {Cmt(m)} : m \in gone}
           dirty == {m \in present : \E f \in Sources(m) : ParseDirty(f)}
<1>1. gone = {} /\ removed = {} /\ present = Module
  BY DEF SInv, AllPresent
<1>2. /\ step = "down" /\ step' = "parsing"
      /\ RemoveFiles(removed) /\ unclean' = unclean \ removed
      /\ compileDirty' = {m \in present : ~CompiledSinceParsed(m)}
      /\ toParse' = UNION {Sources(m) : m \in dirty}
      /\ UNCHANGED <<compiled, errors, job, result, parseFailed, logged>>
  BY DEF initialize_build, jobVars
<1>3. onDisk' = onDisk /\ newer' = newer /\ unclean' = unclean
  BY <1>1, <1>2 DEF RemoveFiles, SInv, PInv, BuildTypeOK
<1>4. ASSUME NEW f \in AllSources, NEW g \in Sources(f[2]), ParseDirty(g) PROVE f \in toParse'
  <2>1. f[2] \in dirty /\ f \in Sources(f[2])
    BY <1>1, <1>4, SourceFiles
  <2> QED BY <1>2, <2>1
<1>5. AllSources \subseteq onDisk' /\ AstsAreThere' /\ DirtyIsMarked' /\ NothingLogged'
  <2>1. \A f \in AllSources \ toParse' : ~ParseDirty(f)
    BY <1>4, SourceFiles
  <2> QED BY <1>1, <1>2, <1>3, <2>1 DEF WInv, AstsAreThere, DirtyIsMarked, NothingLogged,
                                       ParseDirty, CompiledSinceParsed
<1>6. DoneWasWritten' /\ NoInterfaceWarning' /\ WarningsAreShownAgain'
  BY <1>2, NoJobs DEF WInv, DoneWasWritten, NoInterfaceWarning, WarningsAreShownAgain
<1>7. UncleanAsts'
  BY <1>2, <1>3, <1>4 DEF WInv, UncleanAsts, NothingLogged
<1>8. UncleanCmts'
  BY <1>2, <1>3, NoJobs DEF WInv, UncleanCmts, NothingLogged, CompiledSinceParsed
<1> QED BY <1>5, <1>6, <1>7, <1>8 DEF WInv

(* A text that was parsed before is accepted again, so one that is rejected is dirty. *)
LEMMA ParseKeepsWarnings ==
  ASSUME SInv, WInv, NEW f \in AllSources, NEW verdict \in Verdict, generate_ast(f, verdict)
  PROVE  WInv'
<1>1. /\ step = "parsing" /\ step' = "parsing" /\ toParse' = toParse \ {f} /\ f \in toParse
      /\ compileDirty' = compileDirty \cup {f[2]}
      /\ UNCHANGED <<compiled, errors, job, result>>
  BY DEF generate_ast, loopVars, jobVars
<1>2. DoneWasWritten' /\ NoInterfaceWarning' /\ WarningsAreShownAgain' /\ NothingLogged'
  BY <1>1, NoJobs DEF WInv, DoneWasWritten, NoInterfaceWarning, WarningsAreShownAgain, NothingLogged
<1>3. CASE verdict = "error"
  <2>1. /\ parseFailed' = TRUE /\ f \notin parsed
        /\ UNCHANGED <<onDisk, newer, unclean, logged>>
    BY <1>3 DEF generate_ast, diskVars
  <2>2. ParseDirty(f) /\ f \in Sources(f[2])
    BY <2>1, SourceFiles DEF SInv, PInv, NewerAstIsParsed, ParseDirty
  <2>3. AllSources \subseteq onDisk' /\ AstsAreThere' /\ DirtyIsMarked'
    BY <1>1, <2>1 DEF WInv, AstsAreThere, DirtyIsMarked, CompiledSinceParsed
  <2>4. UncleanAsts'
    BY <1>1, <2>1, <2>2 DEF WInv, UncleanAsts, ParseDirty
  <2>5. UncleanCmts'
    BY <1>1, <2>1, NoJobs DEF WInv, UncleanCmts, CompiledSinceParsed
  <2> QED BY <1>2, <2>3, <2>4, <2>5 DEF WInv
<1>4. CASE verdict # "error"
  <2>1. /\ WriteFiles({AstOf(f)}) /\ UNCHANGED parseFailed
        /\ unclean' = UncleanAfter(AstOf(f), verdict = "warning")
        /\ logged' = LoggedAfter(AstOf(f), verdict = "warning")
    BY <1>4 DEF generate_ast
  <2>2. AllSources \subseteq onDisk
    BY DEF WInv
  <2>3. AllSources \subseteq onDisk' /\ DirtyIsMarked'
    BY <1>1, <2>1, <2>2, AstWritten DEF WInv, WriteFiles, DirtyIsMarked
  <2>4. AstsAreThere'
    BY <1>1, <2>1, <2>2, AstWritten DEF WInv, AstsAreThere
  <2>5. UncleanAsts'
    <3>1. ASSUME NEW g \in AllSources, g # f, AstOf(g) \in unclean'
          PROVE  /\ AstOf(g) \in unclean /\ (AstOf(g) \in logged => AstOf(g) \in logged')
                 /\ g \in toParse => g \in toParse'
      BY <1>1, <2>1, <3>1, SourceFiles DEF UncleanAfter, LoggedAfter
    <3>2. AstOf(f) \in unclean' => AstOf(f) \in logged'
      BY <2>1 DEF UncleanAfter, LoggedAfter
    <3>3. \A g \in AllSources \ {f} : ParseDirty(g) => ParseDirty(g)' /\ g \in Sources(g[2])
      BY <2>1, <2>2, AstWritten, SourceFiles
    <3>4. ASSUME NEW g \in AllSources, AstOf(g) \in unclean'
          PROVE  \/ AstOf(g) \in logged' \/ g \in toParse'
                 \/ parseFailed /\ ParseDirty(g)' /\ g \in Sources(g[2])
      <4>1. CASE g = f
        BY <3>2, <3>4, <4>1
      <4>2. CASE g # f
        BY <1>1, <3>1, <3>3, <3>4, <4>2 DEF WInv, UncleanAsts
      <4> QED BY <4>1, <4>2
    <3> QED BY <1>1, <2>1, <3>4 DEF UncleanAsts
  <2>6. UncleanCmts'
    <3>1. ASSUME NEW m \in Module, Cmt(m) \in unclean'
          PROVE  Cmt(m) \in unclean /\ (Cmt(m) \in logged => Cmt(m) \in logged')
      BY <2>1, <3>1, SourceFiles DEF UncleanAfter, LoggedAfter
    <3> QED BY <1>1, <2>1, <2>2, <3>1, AstWritten, NoJobs DEF WInv, UncleanCmts
  <2> QED BY <1>2, <2>3, <2>4, <2>5, <2>6 DEF WInv
<1> QED BY <1>3, <1>4

LEMMA StopKeepsWarnings == ASSUME SInv, WInv, StopAtParseError PROVE WInv'
<1>1. /\ step = "parsing" /\ step' = "cleanup" /\ outcome' = "failed" /\ toParse = {} /\ parseFailed
      /\ UNCHANGED <<onDisk, newer, unclean, logged, compiled, errors, job, result>>
  BY DEF StopAtParseError, runVars, diskVars, jobVars
<1>2. AllSources \subseteq onDisk' /\ AstsAreThere' /\ DirtyIsMarked' /\ NothingLogged'
  BY <1>1 DEF WInv, AstsAreThere, DirtyIsMarked, NothingLogged
<1>3. DoneWasWritten' /\ NoInterfaceWarning' /\ WarningsAreShownAgain'
  BY <1>1, NoJobs DEF WInv, DoneWasWritten, NoInterfaceWarning, WarningsAreShownAgain
<1>4. UncleanAsts'
  BY <1>1, SourceFiles DEF WInv, UncleanAsts, ParseDirty
<1>5. UncleanCmts'
  BY <1>1, NoJobs DEF WInv, UncleanCmts, CompiledSinceParsed
<1> QED BY <1>2, <1>3, <1>4, <1>5 DEF WInv

LEMMA MarkKeepsWarnings == ASSUME SInv, WInv, get_deps_and_mark PROVE WInv'
<1>1. /\ step = "parsing" /\ step' = "marked" /\ toParse = {} /\ ~parseFailed
      /\ compileDirty \subseteq compileDirty'
      /\ UNCHANGED <<onDisk, newer, unclean, logged, compiled, errors, job, result>>
  BY DEF get_deps_and_mark, runVars, diskVars, loopVars, jobVars
<1>2. AllSources \subseteq onDisk' /\ AstsAreThere' /\ DirtyIsMarked' /\ NothingLogged'
  BY <1>1 DEF WInv, AstsAreThere, DirtyIsMarked, NothingLogged, ParseDirty, CompiledSinceParsed
<1>3. DoneWasWritten' /\ NoInterfaceWarning' /\ WarningsAreShownAgain'
  BY <1>1, NoJobs DEF WInv, DoneWasWritten, NoInterfaceWarning, WarningsAreShownAgain
<1>4. UncleanAsts'
  BY <1>1 DEF WInv, UncleanAsts
<1>5. UncleanCmts'
  BY <1>1, NoJobs DEF WInv, UncleanCmts, CompiledSinceParsed
<1> QED BY <1>2, <1>3, <1>4, <1>5 DEF WInv

LEMMA BeginKeepsWarnings == ASSUME SInv, WInv, BeginCompile PROVE WInv'
<1>1. /\ step = "marked" /\ step' = "compiling" /\ compiled' = {}
      /\ UNCHANGED <<onDisk, newer, unclean, logged, compileDirty, job, result>>
  BY DEF BeginCompile, StartCompile, KeepDisk, diskVars, jobVars
<1>2. AllSources \subseteq onDisk' /\ AstsAreThere' /\ DirtyIsMarked' /\ NothingLogged'
  BY <1>1 DEF WInv, AstsAreThere, DirtyIsMarked, NothingLogged, ParseDirty, CompiledSinceParsed
<1>3. DoneWasWritten' /\ NoInterfaceWarning' /\ WarningsAreShownAgain'
  BY <1>1, NoJobs DEF WInv, DoneWasWritten, NoInterfaceWarning, WarningsAreShownAgain
<1>4. UncleanAsts'
  BY <1>1 DEF WInv, UncleanAsts
<1>5. UncleanCmts'
  BY <1>1, NoJobs DEF WInv, UncleanCmts, CompiledSinceParsed
<1> QED BY <1>2, <1>3, <1>4, <1>5 DEF WInv

-----------------------------------------------------------------------------
(* The call of compile. *)

(* The steps that write no .cmt: a job that skips its module found it clean. *)
LEMMA QuietStepKeepsWarnings ==
  ASSUME SInv, WInv, step = "compiling", step' = "compiling",
         UNCHANGED <<newer, onDisk, unclean, logged, compileDirty, compiled, errors>>,
         \A x \in Module : job[x] = "done" => job'[x] = "done" /\ result'[x] = result[x],
         \A x \in Module : job'[x] = "done" /\ job[x] # "done" => x \notin compileDirty,
         \A x \in Module \ WithInterface : result'[x].intf \in {result[x].intf, NoInterface}
  PROVE  WInv'
<1>1. AllSources \subseteq onDisk' /\ AstsAreThere' /\ DirtyIsMarked' /\ NothingLogged'
  BY DEF WInv, AstsAreThere, DirtyIsMarked, NothingLogged, ParseDirty, CompiledSinceParsed
<1>2. DoneWasWritten'
  BY DEF WInv, DoneWasWritten, DirtyIsMarked, CompiledSinceParsed
<1>3. NoInterfaceWarning' /\ WarningsAreShownAgain' /\ UncleanAsts'
  BY DEF WInv, NoInterfaceWarning, NoInterface, WarningsAreShownAgain, UncleanAsts
<1>4. UncleanCmts'
  BY DEF WInv, UncleanCmts, Warned, CompiledSinceParsed
<1> QED BY <1>1, <1>2, <1>3, <1>4 DEF WInv

(* Each module has an AST that its .cmt is now newer than. *)
LEMMA ImplementationKeepsWarnings ==
  ASSUME SInv, WInv, step = "compiling", step' = "compiling",
         NEW m \in Module, NEW verdict \in Verdict, NEW differs \in BOOLEAN,
         RunImplementation(m, verdict, differs)
  PROVE  WInv'
<1> DEFINE intf == IF m \in WithInterface THEN result[m].intf ELSE NoInterface
<1>1. /\ job[m] = "implementation" /\ job' = [job EXCEPT ![m] = "done"]
      /\ result' = [result EXCEPT ![m] = [impl |-> verdict, intf |-> intf,
                                          clean |-> m \notin digestDiffers']]
      /\ UNCHANGED <<logged, compileDirty, compiled, errors>>
  BY DEF RunImplementation, CompileImplementation, Finish, loopVars
<1>2. job \in [Module -> {"idle", "queued", "interface", "implementation", "done"}]
      /\ result \in [Module -> JobResult] /\ newer \subseteq onDisk \X onDisk
  BY DEF SInv, PInv, BuildTypeOK, TypeOK
<1>3. /\ \A x \in Module \ {m} : job'[x] = job[x] /\ result'[x] = result[x]
      /\ job'[m] = "done" /\ result'[m].impl = verdict /\ result'[m].intf = intf
  BY <1>1, <1>2
<1>4. NoInterfaceWarning' /\ NothingLogged' /\ WarningsAreShownAgain'
  BY <1>3 DEF WInv, NoInterfaceWarning, NoInterface, NothingLogged, WarningsAreShownAgain
<1>5. m \notin compiled
  BY <1>1 DEF SInv, CallIsSound, IInv, LoopInv, JobsAreReady
<1>6. CASE verdict = "error"
  <2>1. UNCHANGED <<newer, onDisk, unclean>> /\ Failed(result'[m])
    BY <1>3, <1>6 DEF RunImplementation, diskVars, Failed
  <2>2. AllSources \subseteq onDisk' /\ AstsAreThere' /\ DirtyIsMarked'
    BY <1>1, <2>1 DEF WInv, AstsAreThere, DirtyIsMarked, ParseDirty, CompiledSinceParsed
  <2>3. DoneWasWritten'
    BY <1>1, <1>3, <2>1 DEF WInv, DoneWasWritten, CompiledSinceParsed
  <2>4. UncleanAsts'
    BY <1>1, <2>1 DEF WInv, UncleanAsts
  <2>5. UncleanCmts'
    BY <1>1, <1>3, <2>1 DEF WInv, UncleanCmts, Warned, CompiledSinceParsed
  <2> QED BY <1>4, <2>2, <2>3, <2>4, <2>5 DEF WInv
<1>7. CASE verdict # "error"
  <2>1. /\ WriteFiles({Cmt(m)})
        /\ unclean' = UncleanAfter(Cmt(m), "warning" \in {verdict, result[m].intf})
    BY <1>7 DEF RunImplementation
  <2>2. \E a \in Asts(m) : a \in onDisk
    <3>1. <<"res", m>> \in Sources(m) /\ <<"res", m>> \in AllSources
      BY SourcesAreFiles DEF Sources
    <3>2. ~ParseDirty(<<"res", m>>)
      BY <3>1 DEF WInv, AstsAreThere
    <3> QED BY <1>2, <3>1, <3>2 DEF ParseDirty, Asts
  <2>3. AllSources \subseteq onDisk' /\ AstsAreThere' /\ DirtyIsMarked'
    BY <1>1, <2>1, <2>2, CmtWritten DEF WInv, WriteFiles, AstsAreThere, DirtyIsMarked
  <2>4. DoneWasWritten'
    <3>1. \A x \in Module : CompiledSinceParsed(x) => CompiledSinceParsed(x)'
      BY <2>1, <2>2, CmtWritten
    <3>2. ASSUME NEW x \in Module, job'[x] = "done", ~Failed(result'[x])
          PROVE  CompiledSinceParsed(x)'
      <4>1. CASE x = m
        BY <2>1, <2>2, <4>1, CmtWritten
      <4>2. CASE x # m
        BY <1>3, <3>1, <3>2, <4>2 DEF WInv, DoneWasWritten
      <4> QED BY <4>1, <4>2
    <3>3. ~errors' => \A x \in compiled' : CompiledSinceParsed(x)'
      BY <1>1, <3>1 DEF WInv, DoneWasWritten, SInv, PInv, BuildTypeOK, TypeOK
    <3> QED BY <3>2, <3>3 DEF DoneWasWritten
  <2>5. UncleanAsts'
    BY <1>1, <2>1, SourceFiles DEF WInv, UncleanAsts, UncleanAfter
  <2>6. UncleanCmts'
    <3>1. Cmt(m) \in unclean' => Warned(m)'
      BY <1>3, <2>1 DEF UncleanAfter, Warned, WInv, NoInterfaceWarning
    <3>2. ASSUME NEW x \in Module \ {m}, Cmt(x) \in unclean' PROVE Cmt(x) \in unclean
      BY <2>1, <3>2 DEF UncleanAfter, Cmt
    <3> QED BY <1>1, <1>3, <2>1, <2>2, <3>1, <3>2, CmtWritten DEF WInv, UncleanCmts, Warned
  <2> QED BY <1>4, <2>3, <2>4, <2>5, <2>6 DEF WInv
<1> QED BY <1>6, <1>7

(* The warnings of a result are given when it is processed. *)
LEMMA ResultKeepsWarnings ==
  ASSUME SInv, WInv, step = "compiling", step' = "compiling",
         NEW m \in Module, TakeResult(m)
  PROVE  WInv'
<1>1. /\ job[m] = "done" /\ job' = [job EXCEPT ![m] = "idle"]
      /\ result' = [result EXCEPT ![m] = Untouched(m)]
      /\ compiled' = compiled \cup {m} /\ errors' = (errors \/ Failed(result[m]))
      /\ compileDirty' = DirtyAfter(m)
      /\ UNCHANGED <<newer, onDisk, unclean>>
      /\ logged' = LoggedAfter(Cmt(m), Warned(m))
  BY DEF TakeResult, ProcessResult, diskVars, Warned
<1>2. job \in [Module -> {"idle", "queued", "interface", "implementation", "done"}]
      /\ result \in [Module -> JobResult]
  BY DEF SInv, PInv, BuildTypeOK, TypeOK
<1>3. /\ \A x \in Module \ {m} : job'[x] = job[x] /\ result'[x] = result[x]
      /\ job'[m] = "idle" /\ result'[m].intf = NoInterface
  BY <1>1, <1>2 DEF Untouched
<1>4. ~Failed(result[m]) => CompiledSinceParsed(m)
  BY <1>1 DEF WInv, DoneWasWritten
<1>5. AllSources \subseteq onDisk' /\ AstsAreThere' /\ NothingLogged' /\ WarningsAreShownAgain'
  BY <1>1 DEF WInv, AstsAreThere, NothingLogged, WarningsAreShownAgain, ParseDirty
<1>6. DirtyIsMarked'
  <2>1. ASSUME NEW x \in Module \ compileDirty'
        PROVE  x \notin compileDirty \/ (~Failed(result[m]) /\ x = m)
    BY <1>1, NoNamespaces DEF DirtyAfter, Succeeded, Failed, NoInterface
  <2> QED BY <1>1, <1>4, <2>1 DEF WInv, DirtyIsMarked, CompiledSinceParsed
<1>7. DoneWasWritten' /\ NoInterfaceWarning'
  BY <1>1, <1>3, <1>4 DEF WInv, DoneWasWritten, NoInterfaceWarning, NoInterface, CompiledSinceParsed
<1>8. UncleanAsts'
  BY <1>1 DEF WInv, UncleanAsts, LoggedAfter
<1>9. UncleanCmts'
  BY <1>1, <1>3 DEF WInv, UncleanCmts, LoggedAfter, Warned, CompiledSinceParsed
<1> QED BY <1>5, <1>6, <1>7, <1>8, <1>9 DEF WInv

LEMMA LoopKeepsWarnings == ASSUME SInv, WInv, CompileLoop PROVE WInv'
<1>1. step = "compiling" /\ step' = "compiling"
  BY DEF CompileLoop
<1>2. job \in [Module -> {"idle", "queued", "interface", "implementation", "done"}]
      /\ result \in [Module -> JobResult]
  BY DEF SInv, PInv, BuildTypeOK, TypeOK
<1>3. CASE StartBatch /\ KeepDisk
  <2>1. \A x \in Module : job[x] = "idle" /\ job'[x] # "done"
    BY <1>1, <1>3 DEF StartBatch, SInv, CallIsSound, IInv, LoopInv, Bookkeeping
  <2>2. UNCHANGED <<newer, onDisk, unclean, logged, compileDirty, compiled, errors, result>>
    BY <1>3 DEF StartBatch, KeepDisk, diskVars
  <2> QED BY <1>1, <2>1, <2>2, QuietStepKeepsWarnings
<1>4. CASE (CollectResults \/ NextBatch) /\ KeepDisk
  <2>1. UNCHANGED <<newer, onDisk, unclean, logged, compileDirty, compiled, errors, job, result>>
    BY <1>4 DEF CollectResults, NextBatch, KeepDisk, diskVars, loopVars, jobVars
  <2> QED BY <1>1, <2>1, QuietStepKeepsWarnings
<1>5. ASSUME NEW m \in Module, SkipClean(m) \/ StartFile(m), KeepDisk PROVE WInv'
  <2>1. /\ UNCHANGED <<newer, onDisk, unclean, logged, compileDirty, compiled, errors>>
        /\ job[m] = "queued"
    BY <1>5 DEF SkipClean, StartFile, KeepDisk, diskVars, loopVars
  <2>2. \A x \in Module \ {m} : job'[x] = job[x] /\ result'[x] = result[x]
    BY <1>2, <1>5 DEF SkipClean, StartFile, Finish
  <2>3. /\ job'[m] = "done" => m \notin compileDirty
        /\ result'[m].intf \in {result[m].intf, NoInterface}
    BY <1>2, <1>5 DEF SkipClean, StartFile, Finish, Untouched
  <2> QED BY <1>1, <2>1, <2>2, <2>3, QuietStepKeepsWarnings
<1>6. ASSUME NEW m \in Module, NEW verdict \in Verdict, NEW differs \in BOOLEAN,
             RunInterface(m, verdict, differs)
      PROVE  WInv'
  <2>1. /\ UNCHANGED <<newer, onDisk, unclean, logged, compileDirty, compiled, errors>>
        /\ job[m] = "interface" /\ job' = [job EXCEPT ![m] = "implementation"]
        /\ result' = [result EXCEPT ![m] = InterfaceDone(verdict)]
    BY <1>6 DEF RunInterface, CompileInterface, diskVars, loopVars
  <2>2. m \in WithInterface
    BY <2>1 DEF SInv, OnlyInterfaces
  <2>3. \A x \in Module \ {m} : job'[x] = job[x] /\ result'[x] = result[x]
    BY <1>2, <2>1
  <2>4. job'[m] # "done" /\ job[m] # "done"
    BY <1>2, <2>1
  <2> QED BY <1>1, <2>1, <2>2, <2>3, <2>4, QuietStepKeepsWarnings
<1>7. ASSUME NEW m \in Module, NEW verdict \in Verdict, NEW differs \in BOOLEAN,
             RunImplementation(m, verdict, differs)
      PROVE  WInv'
  BY <1>1, <1>7, ImplementationKeepsWarnings
<1>8. ASSUME NEW m \in Module, TakeResult(m) PROVE WInv'
  BY <1>1, <1>8, ResultKeepsWarnings
<1> QED BY <1>3, <1>4, <1>5, <1>6, <1>7, <1>8 DEF CompileLoop

(* A success has compiled every dirty module, so that what is unclean was logged. *)
LEMMA EndKeepsWarnings == ASSUME SInv, WInv, EndCompile PROVE WInv'
<1>1. /\ step = "compiling" /\ step' = "cleanup" /\ Return /\ compiled' = {}
      /\ UNCHANGED <<newer, onDisk, unclean, logged, compileDirty, job, result>>
  BY DEF EndCompile, KeepDisk, diskVars, Return, jobVars
<1>2. \A x \in Module : job[x] # "done"
  BY <1>1 DEF Return, Applied
<1>3. AllSources \subseteq onDisk' /\ AstsAreThere' /\ DirtyIsMarked' /\ NothingLogged'
  BY <1>1 DEF WInv, AstsAreThere, DirtyIsMarked, NothingLogged
<1>4. DoneWasWritten' /\ NoInterfaceWarning'
  BY <1>1, <1>2 DEF WInv, DoneWasWritten, NoInterfaceWarning
<1>5. UncleanAsts' /\ UncleanCmts'
  BY <1>1, <1>2 DEF WInv, UncleanAsts, UncleanCmts, CompiledSinceParsed
<1>6. ASSUME outcome' = "ok", NEW m \in Module PROVE CompiledSinceParsed(m)
  <2>1. IInv
    BY <1>1 DEF SInv, CallIsSound
  <2>2. ~errors /\ compiled = universe
    BY <1>1, <1>6, <2>1, CountIsComplete DEF IInv, LoopInv, Return, Stuck
  <2>3. compileDirty \subseteq compiled
    BY <1>1, <2>1, <2>2 DEF IInv, LoopInv, UniverseClosed, Bookkeeping, Return, Applied
  <2> QED BY <1>1, <2>2, <2>3 DEF WInv, DoneWasWritten, DirtyIsMarked
<1>7. WarningsAreShownAgain'
  <2>1. unclean \subseteq Artifact
    BY DEF SInv, PInv, BuildTypeOK
  <2>2. ASSUME outcome' = "ok", NEW file \in unclean PROVE file \in logged
    <3>1. PICK m \in Module : file \in Asts(m) \cup {Cmt(m)}
      BY <2>1 DEF Artifact
    <3>2. CASE file = Cmt(m)
      BY <1>2, <1>6, <2>2, <3>2 DEF WInv, UncleanCmts
    <3>3. CASE file \in Asts(m)
      <4>1. PICK f \in AllSources : file = AstOf(f)
        BY <3>3, AstsOf
      <4> QED BY <1>1, <2>2, <4>1 DEF WInv, UncleanAsts
    <3> QED BY <3>1, <3>2, <3>3
  <2> QED BY <1>1, <2>2 DEF WarningsAreShownAgain
<1> QED BY <1>3, <1>4, <1>5, <1>7 DEF WInv

(* A module with a warning loses its ASTs: the next run parses and compiles it. *)
LEMMA CleanupKeepsWarnings == ASSUME SInv, WInv, cleanup_after_build PROVE WInv'
<1>1. /\ step = "cleanup" /\ step' = "down" /\ RemoveFiles(AstsWithWarnings)
      /\ logged' = {} /\ parseFailed' = FALSE
      /\ UNCHANGED <<unclean, compiled, job, result>>
  BY DEF cleanup_after_build, Forget, loopVars, jobVars
<1>2. \A f \in AllSources : f \notin AstsWithWarnings
  <2>1. ASSUME NEW m, NEW a \in Asts(m) PROVE a[1] \in {"ast", "iast"}
    BY DEF Asts, AstOf
  <2>2. \A a \in AstsWithWarnings : a[1] \in {"ast", "iast"}
    BY <2>1 DEF AstsWithWarnings
  <2>3. \A f \in AllSources : f[1] \in {"res", "resi"}
    BY DEF AllSources, Sources
  <2> QED BY <2>2, <2>3
<1>3. AllSources \subseteq onDisk' /\ AstsAreThere' /\ DirtyIsMarked' /\ NothingLogged'
  BY <1>1, <1>2 DEF WInv, RemoveFiles, AstsAreThere, DirtyIsMarked, NothingLogged
<1>4. DoneWasWritten' /\ NoInterfaceWarning' /\ WarningsAreShownAgain'
  BY <1>1, NoJobs DEF WInv, DoneWasWritten, NoInterfaceWarning, WarningsAreShownAgain
<1>5. newer' \subseteq newer
  BY <1>1 DEF RemoveFiles
<1>6. \A file \in logged : \A a \in Asts(file[2]) : a \in AstsWithWarnings
  BY DEF AstsWithWarnings
<1>7. UncleanAsts'
  <2>1. ASSUME NEW f \in AllSources, AstOf(f) \in unclean
        PROVE  \E g \in Sources(f[2]) : ParseDirty(g)'
    <3>1. CASE AstOf(f) \in logged
      <4>1. AstOf(f)[2] = f[2] /\ f \in Sources(f[2])
        BY SourceFiles DEF AstOf
      <4>2. AstOf(f) \in AstsWithWarnings
        BY <1>6, <3>1, <4>1 DEF Asts
      <4>3. ParseDirty(f)'
        BY <1>1, <4>2 DEF RemoveFiles, ParseDirty
      <4> QED BY <4>1, <4>3
    <3>2. CASE AstOf(f) \notin logged
      BY <1>1, <1>5, <2>1, <3>2 DEF WInv, UncleanAsts, ParseDirty
    <3> QED BY <3>1, <3>2
  <2> QED BY <1>1, <2>1 DEF UncleanAsts
<1>8. UncleanCmts'
  <2>1. ASSUME NEW m \in Module, Cmt(m) \in unclean PROVE ~CompiledSinceParsed(m)'
    <3>1. CASE Cmt(m) \in logged
      <4>1. Cmt(m)[2] = m
        BY DEF Cmt
      <4>2. \A a \in Asts(m) : a \in AstsWithWarnings
        BY <1>6, <3>1, <4>1
      <4> QED BY <1>1, <4>2 DEF RemoveFiles, CompiledSinceParsed
    <3>2. CASE Cmt(m) \notin logged
      BY <1>1, <1>5, <2>1, <3>2, NoJobs DEF WInv, UncleanCmts, CompiledSinceParsed
    <3> QED BY <3>1, <3>2
  <2> QED BY <1>1, <2>1 DEF UncleanCmts
<1> QED BY <1>3, <1>4, <1>7, <1>8 DEF WInv

-----------------------------------------------------------------------------
LEMMA WarningsKept == ASSUME Undisturbed, SInv, WInv, [BuildNext]_buildVars PROVE WInv'
<1>1. CASE UNCHANGED buildVars
  <2>1. /\ UNCHANGED <<step, present, onDisk, newer, unclean, logged, toParse, parseFailed, outcome>>
        /\ UNCHANGED <<compileDirty, job, result, compiled, errors>>
    BY <1>1 DEF buildVars, vars, sourceVars, diskVars, runVars, loopVars, jobVars
  <2>2. AllSources \subseteq onDisk' /\ AstsAreThere' /\ DirtyIsMarked' /\ NothingLogged'
    BY <2>1 DEF WInv, AstsAreThere, DirtyIsMarked, NothingLogged, ParseDirty, CompiledSinceParsed
  <2>3. DoneWasWritten' /\ NoInterfaceWarning' /\ WarningsAreShownAgain'
    BY <2>1 DEF WInv, DoneWasWritten, NoInterfaceWarning, WarningsAreShownAgain, CompiledSinceParsed
  <2>4. UncleanAsts' /\ UncleanCmts'
    BY <2>1 DEF WInv, UncleanAsts, UncleanCmts, Warned, ParseDirty, CompiledSinceParsed
  <2> QED BY <2>2, <2>3, <2>4 DEF WInv
<1>2. ~Kill
  BY DEF Undisturbed, Kill
<1> QED BY <1>1, <1>2, UserKeepsWarnings, InitializeKeepsWarnings, ParseKeepsWarnings,
           StopKeepsWarnings, MarkKeepsWarnings, BeginKeepsWarnings, LoopKeepsWarnings,
           EndKeepsWarnings, CleanupKeepsWarnings DEF BuildNext, RunStep

(* A build that reports success has given every warning that still has a cause. *)
THEOREM WarningsAreKept ==
  ASSUME Undisturbed
  PROVE  BuildSpec => []WarningsAreShownAgain
<1>1. BuildInit => SInv /\ WInv
  BY SuccessInit, WarningsInit
<1>2. SInv /\ WInv /\ [BuildNext]_buildVars => SInv' /\ WInv'
  BY SuccessKept, WarningsKept
<1>3. WInv => WarningsAreShownAgain
  BY DEF WInv
<1> QED BY <1>1, <1>2, <1>3, PTL DEF BuildSpec
-----------------------------------------------------------------------------
(* Builds that are killed, of a project without interfaces. *)

OnlyKilled == WithInterface = {} /\ ~Deletions

(* What the times of the files tell of m and d: m was compiled against the present .cmi of
   d, or before the .cmt of d. *)
Told(m, d) == d \in fresh[m] \/ <<Cmt(d), Cmt(m)>> \in newer

(* A module that a run does not take for compiled, whatever the runs before it were doing
   when they were killed. *)
Bound(d) ==
  \/ \E f \in Sources(d) : ParseDirty(f)
  \/ ~CompiledSinceParsed(d)
  \/ \E e \in refs[d] \ {d} : <<Cmt(e), Cmt(d)>> \in newer

(* The call has still to compile d. *)
ToCompile(d) ==
  d \in compileDirty \ compiled /\ (job[d] = "done" => Failed(result[d]))

(* A module that is compiled is current, and has a .cmt. *)
CurrentIsCompiled ==
  \A m \in Module : /\ m \in current => Cmt(m) \in onDisk
                    /\ m \in current \/ Bound(m)

(* A kill between the copies of a .cmi and a .cmt hides a change of d from the times, but
   then d itself is compiled by the next run. *)
ToldOrBound == \A m \in current : \A d \in refs[m] \ {m} : Told(m, d) \/ Bound(d)

(* As only modules that are bound to be compiled are. *)
DirtyIsBound ==
  step \in {"parsing", "marked", "compiling"} /\ ~errors =>
    \A m \in compileDirty \ compiled : job[m] # "done" => Bound(m)
ChangeBinds ==
  \A m, x \in Module :
    job[m] = "done" /\ ~result[m].clean /\ ~Failed(result[m]) /\ m \in refs[x] \ {x} => Bound(x)

ParsingMarks ==
  step = "parsing" => \A m \in Module \ compileDirty : CompiledSinceParsed(m)

(* A run that comes to its end has compiled whatever the kill left bound, so that the times
   tell everything. *)
Settled(m) == m \in current /\ \A d \in refs[m] \ {m} : Told(m, d)
ToldOrToCompile ==
  step \in {"marked", "compiling"} /\ ~errors =>
    \A m \in Module :
      /\ m \in current \/ ToCompile(m)
      /\ \A d \in refs[m] \ {m} : m \in current => Told(m, d) \/ ToCompile(d)
SuccessSettles ==
  \/ step = "cleanup" /\ outcome = "ok"
  \/ step \in {"down", "parsing", "marked"} /\ succeeded
  => \A m \in Module : Settled(m)

CallIsInOrder ==
  step \in {"marked", "compiling"} =>
    /\ LoopInv
    /\ succeeded => IInv
    /\ \A m \in Module : deps[m] = refs[m] \ {m} /\ dependents[m] \subseteq {x \in Module : m \in deps[x]}

NoErrorYet == phase # "results" => ~errors

RInv ==
  /\ PInv /\ AllPresent /\ OutsideCompile /\ OnlyInterfaces /\ AllSources \subseteq onDisk
  /\ AstsAreThere /\ CurrentIsCompiled /\ ToldOrBound /\ DirtyIsBound /\ ChangeBinds
  /\ ParsingMarks /\ ToldOrToCompile /\ SuccessSettles /\ CallIsInOrder /\ NoErrorYet
  /\ RepairedByNextRun

(* Files and times of a project without interfaces. *)
FilesAreSound ==
  AllSources \subseteq onDisk /\ CurrentIsCompiled /\ ToldOrBound

LEMMA SingleSource ==
  ASSUME WithInterface = {}, NEW m \in Module
  PROVE  Sources(m) = {<<"res", m>>} /\ Asts(m) = {<<"ast", m>>}
BY DEF Sources, Asts, AstOf

(* A module without a .cmt is bound to be compiled. *)
LEMMA WithoutCmtIsBound ==
  ASSUME BuildTypeOK, NEW m \in Module, Cmt(m) \notin onDisk
  PROVE  ~CompiledSinceParsed(m)
BY DEF BuildTypeOK, CompiledSinceParsed

LEMMA BoundKept ==
  ASSUME NEW m \in Module, Bound(m), refs'[m] = refs[m], refs[m] \subseteq Module,
         \A f \in Sources(m) : ParseDirty(f) => ParseDirty(f)',
         CompiledSinceParsed(m)' => CompiledSinceParsed(m),
         \A e \in Module : <<Cmt(e), Cmt(m)>> \in newer => <<Cmt(e), Cmt(m)>> \in newer'
  PROVE  Bound(m)'
BY DEF Bound

(* Between two calls of compile only the files count. *)
LEMMA AtRest ==
  ASSUME PInv', AllPresent', OutsideCompile', FilesAreSound', errors' = FALSE,
         step' \in {"down", "cleanup"}, SuccessSettles', RepairedByNextRun'
  PROVE  RInv'
<1>1. \A m \in Module : job'[m] = "idle"
  BY DEF PInv, JobsArePresent
<1>2. OnlyInterfaces' /\ ChangeBinds' /\ NoErrorYet'
  BY <1>1 DEF OnlyInterfaces, ChangeBinds, NoErrorYet
<1>3. AstsAreThere' /\ DirtyIsBound' /\ ParsingMarks' /\ ToldOrToCompile' /\ CallIsInOrder'
  BY DEF AstsAreThere, DirtyIsBound, ParsingMarks, ToldOrToCompile, CallIsInOrder
<1> QED BY <1>2, <1>3 DEF RInv, FilesAreSound

LEMMA RepairInit == BuildInit => RInv
<1> SUFFICES ASSUME BuildInit PROVE RInv
  OBVIOUS
<1> USE DEF BuildInit
<1>1. PInv
  BY BuildInitEstablishes
<1>2. AllPresent /\ OutsideCompile /\ OnlyInterfaces /\ ChangeBinds /\ NoErrorYet
  BY DEF AllPresent, OutsideCompile, OnlyInterfaces, ChangeBinds, NoErrorYet
<1>3. AstsAreThere /\ DirtyIsBound /\ ParsingMarks /\ ToldOrToCompile /\ CallIsInOrder
  BY DEF AstsAreThere, DirtyIsBound, ParsingMarks, ToldOrToCompile, CallIsInOrder
<1>4. \A m \in Module : Bound(m)
  BY DEF Bound, CompiledSinceParsed
<1>5. CurrentIsCompiled /\ ToldOrBound /\ SuccessSettles /\ RepairedByNextRun
  BY <1>4 DEF CurrentIsCompiled, ToldOrBound, SuccessSettles, RepairedByNextRun
<1> QED BY <1>1, <1>2, <1>3, <1>5 DEF RInv

-----------------------------------------------------------------------------
(* Between the runs, and up to the call of compile. *)

LEMMA UserKeepsRepair ==
  ASSUME OnlyKilled, RInv, UserStep \/ \E m \in Module : DeleteModule(m)
  PROVE  RInv'
<1> USE DEF RInv
<1>1. PInv'
  BY UserKeepsPInv
<1>2. PICK newRefs \in SUBSET Module, f \in AllSources : EditSource(f, newRefs)
  <2>1. \A m \in Module : ~DeleteModule(m)
    BY DEF OnlyKilled, DeleteModule
  <2>2. \A m \in Module, newRefs \in SUBSET Module : ~CreateModule(m, newRefs)
    BY DEF AllPresent, CreateModule
  <2> QED BY <2>1, <2>2 DEF UserStep
<1>3. /\ step = "down" /\ step' = "down" /\ ~succeeded' /\ phase = "idle" /\ WriteFiles({f})
      /\ refs' = [refs EXCEPT ![f[2]] = newRefs] /\ current' = current \ {f[2]}
      /\ UNCHANGED <<errors, fresh, present, deleted, toParse, phase, universe, compiled>>
      /\ UNCHANGED <<inProgress, total>> /\ outcome' = "none"
  BY <1>2 DEF EditSource, ChangeSources, Change, runVars
<1>4. current \subseteq Module /\ refs \in [Module -> SUBSET Module] /\ f[2] \in Module
      /\ f \in Sources(f[2]) /\ <<AstOf(f), f>> \notin newer'
  <2>1. AstOf(f) # f
    BY SourceFiles
  <2> QED BY <1>3, <2>1, SourceFiles, OlderThanWritten DEF PInv, BuildTypeOK, TypeOK
<1>5. \A x, y \in Module : <<Cmt(y), Cmt(x)>> \in newer <=> <<Cmt(y), Cmt(x)>> \in newer'
  BY <1>3, SourceFiles, PairsWritten
<1>6. ASSUME NEW m \in Module, Bound(m) \/ m = f[2] PROVE Bound(m)'
  <2>1. CASE m = f[2]
    BY <1>4, <2>1 DEF Bound, ParseDirty
  <2>2. CASE m # f[2]
    <3>1. \A g \in Sources(m) : ParseDirty(g) => ParseDirty(g)'
      BY <1>3, SourceWritten, SourcesAreFiles
    <3>2. refs'[m] = refs[m] /\ refs[m] \subseteq Module
      BY <1>3, <1>4, <2>2
    <3>3. CompiledSinceParsed(m)' => CompiledSinceParsed(m)
      BY <1>3, SourceWritten
    <3> QED BY <1>5, <1>6, <2>2, <3>1, <3>2, <3>3, BoundKept
  <2> QED BY <2>1, <2>2
<1>7. CurrentIsCompiled'
  BY <1>3, <1>6 DEF CurrentIsCompiled, WriteFiles
<1>8. ToldOrBound'
  <2>1. ASSUME NEW m \in current', NEW d \in refs'[m] \ {m} PROVE (Told(m, d) \/ Bound(d))'
    <3>1. m \in current /\ m \in Module /\ refs'[m] = refs[m] /\ d \in Module
      BY <1>3, <1>4
    <3>2. Told(m, d) \/ Bound(d)
      BY <3>1 DEF ToldOrBound
    <3> QED BY <1>3, <1>5, <1>6, <3>1, <3>2 DEF Told
  <2> QED BY <2>1 DEF ToldOrBound
<1>9. FilesAreSound'
  BY <1>3, <1>7, <1>8 DEF FilesAreSound, WriteFiles
<1>10. AllPresent' /\ OutsideCompile' /\ SuccessSettles' /\ RepairedByNextRun'
  BY <1>3 DEF AllPresent, OutsideCompile, SuccessSettles, RepairedByNextRun
<1>11. errors' = FALSE
  BY <1>3 DEF NoErrorYet, PInv, BuildTypeOK, TypeOK
<1> QED BY <1>1, <1>3, <1>9, <1>10, <1>11, AtRest

LEMMA InitializeKeepsRepair == ASSUME RInv, initialize_build PROVE RInv'
<1> DEFINE gone == {m \in Module \ present : Asts(m) \cap onDisk # {}}
           removed == UNION {Asts(m) \cup {Cmt(m)} : m \in gone}
           dirty == {m \in present : \E f \in Sources(m) : ParseDirty(f)}
<1> USE DEF RInv
<1>1. PInv'
  BY InitializeKeepsPInv
<1>2. gone = {} /\ removed = {} /\ present = Module
  BY DEF AllPresent
<1>3. /\ step = "down" /\ step' = "parsing"
      /\ deleted' = {m \in gone : <<"ast", m>> \in onDisk}
      /\ RemoveFiles(removed)
      /\ fresh' = [m \in Module |-> fresh[m] \ gone]
      /\ compileDirty' = {m \in present : ~CompiledSinceParsed(m)}
      /\ toParse' = UNION {Sources(m) : m \in dirty}
      /\ outcome' = "none"
      /\ UNCHANGED <<current, phase, universe, compiled, inProgress, total, job, present, refs>>
      /\ UNCHANGED <<errors, succeeded>>
  BY DEF initialize_build, jobVars, sourceVars
<1>4. newer' = newer /\ onDisk' = onDisk /\ fresh' = fresh
  <2>1. fresh \in [Module -> SUBSET Module]
    BY DEF PInv, BuildTypeOK, TypeOK
  <2>2. newer' = newer /\ onDisk' = onDisk
    BY <1>2, <1>3 DEF RemoveFiles
  <2>3. fresh' = fresh
    BY <1>2, <1>3, <2>1
  <2> QED BY <2>2, <2>3
<1>5. AllPresent' /\ OutsideCompile' /\ OnlyInterfaces' /\ ChangeBinds' /\ NoErrorYet'
  <2>1. AllPresent' /\ OutsideCompile'
    BY <1>2, <1>3 DEF AllPresent, OutsideCompile
  <2>2. \A m \in Module : job'[m] = "idle"
    BY <1>3 DEF PInv, JobsArePresent
  <2> QED BY <1>3, <2>1, <2>2 DEF OnlyInterfaces, ChangeBinds, NoErrorYet
<1>6. \A m \in Module : /\ Bound(m)' <=> Bound(m)
                        /\ CompiledSinceParsed(m)' <=> CompiledSinceParsed(m)
  BY <1>3, <1>4 DEF Bound, ParseDirty, CompiledSinceParsed
<1>7. CurrentIsCompiled' /\ ToldOrBound'
  <2>1. refs \in [Module -> SUBSET Module] /\ current \subseteq Module
    BY DEF PInv, BuildTypeOK, TypeOK
  <2> QED BY <1>3, <1>4, <1>6, <2>1 DEF CurrentIsCompiled, ToldOrBound, Told
<1>8. DirtyIsBound' /\ ParsingMarks'
  BY <1>2, <1>3, <1>6 DEF DirtyIsBound, ParsingMarks, Bound
<1>9. AstsAreThere'
  <2>1. ASSUME NEW f \in AllSources, f \notin toParse' PROVE ~ParseDirty(f)'
    <3>1. f[2] \in Module /\ f \in Sources(f[2])
      BY SourceFiles
    <3> QED BY <1>2, <1>3, <1>4, <2>1, <3>1 DEF ParseDirty
  <2> QED BY <1>3, <2>1 DEF AstsAreThere
<1>10. SuccessSettles'
  BY <1>3, <1>4 DEF SuccessSettles, Settled, Told
<1>11. ToldOrToCompile' /\ CallIsInOrder' /\ RepairedByNextRun'
  BY <1>3 DEF ToldOrToCompile, CallIsInOrder, RepairedByNextRun
<1> QED BY <1>1, <1>4, <1>5, <1>7, <1>8, <1>9, <1>10, <1>11

(* What is bound to be compiled is marked, as long as nothing is settled in another way. *)
LEMMA ParsingKeepsRepair ==
  ASSUME RInv, PInv', step = "parsing", step' = "parsing",
         UNCHANGED <<present, deleted, phase, outcome, universe, compiled, inProgress, total>>,
         UNCHANGED <<errors, job, refs, current, fresh, succeeded>>,
         onDisk \subseteq onDisk', compileDirty \subseteq compileDirty', AstsAreThere',
         \A m \in Module : Bound(m) => Bound(m)',
         \A m \in compileDirty' \ compileDirty : Bound(m)',
         \A m \in Module \ compileDirty' : CompiledSinceParsed(m)',
         \A x, y \in Module : <<Cmt(y), Cmt(x)>> \in newer => <<Cmt(y), Cmt(x)>> \in newer'
  PROVE  RInv'
<1> USE DEF RInv
<1>1. \A m \in Module : job[m] = "idle"
  BY DEF PInv, JobsArePresent
<1>2. AllPresent' /\ OutsideCompile' /\ OnlyInterfaces' /\ ChangeBinds' /\ NoErrorYet'
  BY <1>1 DEF AllPresent, OutsideCompile, OnlyInterfaces, ChangeBinds, NoErrorYet
<1>3. refs \in [Module -> SUBSET Module] /\ current \subseteq Module /\ compileDirty \subseteq Module
  BY DEF PInv, BuildTypeOK, TypeOK
<1>4. CurrentIsCompiled'
  BY DEF CurrentIsCompiled
<1>5. \A m \in Module : \A d \in refs[m] \ {m} : Told(m, d) => Told(m, d)'
  BY <1>3 DEF Told
<1>6. ToldOrBound'
  BY <1>3, <1>5 DEF ToldOrBound
<1>7. DirtyIsBound'
  BY <1>1, <1>3 DEF DirtyIsBound
<1>8. SuccessSettles'
  BY <1>5 DEF SuccessSettles, Settled
<1>9. ParsingMarks' /\ ToldOrToCompile' /\ CallIsInOrder' /\ RepairedByNextRun'
  BY DEF ParsingMarks, ToldOrToCompile, CallIsInOrder, RepairedByNextRun
<1> QED BY <1>2, <1>4, <1>6, <1>7, <1>8, <1>9

LEMMA ParseErrorKeepsRepair ==
  ASSUME RInv, NEW f \in AllSources, generate_ast(f, "error")
  PROVE  RInv'
<1> USE DEF RInv, generate_ast
<1>1. PInv'
  BY ParseKeepsPInv DEF Verdict
<1>2. /\ step = "parsing" /\ step' = "parsing" /\ parseFailed'
      /\ compileDirty' = compileDirty \cup {f[2]}
      /\ UNCHANGED <<present, deleted, phase, outcome, universe, compiled, inProgress, total>>
      /\ UNCHANGED <<errors, job, refs, current, fresh, succeeded, newer, onDisk>>
  BY DEF diskVars, sourceVars, project, jobVars, loopVars
<1>3. f[2] \in Module /\ f \in Sources(f[2]) /\ ParseDirty(f)
  BY SourceFiles DEF PInv, ParseDirty, NewerAstIsParsed
<1>4. \A m \in Module : /\ Bound(m) <=> Bound(m)'
                        /\ CompiledSinceParsed(m) <=> CompiledSinceParsed(m)'
  BY <1>2 DEF Bound, ParseDirty, CompiledSinceParsed
<1>5. \A m \in Module \ compileDirty' : CompiledSinceParsed(m)'
  BY <1>2, <1>4 DEF ParsingMarks
<1>6. \A m \in compileDirty' \ compileDirty : Bound(m)'
  BY <1>2, <1>3, <1>4 DEF Bound
<1>7. AstsAreThere'
  BY <1>2 DEF AstsAreThere
<1> QED BY <1>1, <1>2, <1>4, <1>5, <1>6, <1>7, ParsingKeepsRepair

(* The new AST is newer than the .cmt, whatever made that. *)
LEMMA ParsedKeepsRepair ==
  ASSUME OnlyKilled, RInv, NEW f \in AllSources, NEW verdict \in Verdict, verdict # "error",
         generate_ast(f, verdict)
  PROVE  RInv'
<1> USE DEF RInv, generate_ast
<1>1. PInv'
  BY ParseKeepsPInv
<1>2. /\ step = "parsing" /\ step' = "parsing" /\ parseFailed' = parseFailed
      /\ compileDirty' = compileDirty \cup {f[2]} /\ toParse' = toParse \ {f}
      /\ WriteFiles({AstOf(f)})
      /\ UNCHANGED <<present, deleted, phase, outcome, universe, compiled, inProgress, total>>
      /\ UNCHANGED <<errors, job, refs, current, fresh, succeeded>>
  BY DEF sourceVars, project, jobVars, loopVars
<1>3. /\ \A m \in Module : CompiledSinceParsed(m)' => CompiledSinceParsed(m)
      /\ \A m \in Module \ {f[2]} : CompiledSinceParsed(m) => CompiledSinceParsed(m)'
      /\ \A g \in AllSources : ParseDirty(g)' => ParseDirty(g)
      /\ \A g \in AllSources \ {f} : ParseDirty(g) => ParseDirty(g)'
      /\ ~ParseDirty(f)'
  BY <1>2, AstWritten
<1>4. f[2] \in Module /\ f \in Sources(f[2])
  BY SourceFiles
<1>5. ~CompiledSinceParsed(f[2])'
  <2>1. Asts(f[2]) = {<<"ast", f[2]>>} /\ Sources(f[2]) = {<<"res", f[2]>>}
    BY <1>4, SingleSource DEF OnlyKilled
  <2>2. AstOf(f) = <<"ast", f[2]>>
    BY <1>4, <2>1 DEF AstOf
  <2>3. Cmt(f[2]) # AstOf(f)
    BY <1>4, SourceFiles
  <2>4. <<Cmt(f[2]), AstOf(f)>> \notin newer'
    BY <1>2, <2>3, OlderThanWritten
  <2> QED BY <2>1, <2>2, <2>4 DEF CompiledSinceParsed
<1>6. \A x, y \in Module : <<Cmt(y), Cmt(x)>> \in newer => <<Cmt(y), Cmt(x)>> \in newer'
  BY <1>2, SourceFiles, PairsWritten
<1>7. ASSUME NEW m \in Module, Bound(m) PROVE Bound(m)'
  <2>1. CASE m = f[2]
    BY <1>5, <2>1 DEF Bound
  <2>2. CASE m # f[2]
    <3>1. \A g \in Sources(m) : g \in AllSources /\ g # f
      BY <2>2, SourcesOf
    <3>2. \A g \in Sources(m) : ParseDirty(g) => ParseDirty(g)'
      BY <1>3, <3>1
    <3>3. refs'[m] = refs[m] /\ refs[m] \subseteq Module
      BY <1>2 DEF PInv, BuildTypeOK
    <3> QED BY <1>3, <1>6, <1>7, <3>2, <3>3, BoundKept
  <2> QED BY <2>1, <2>2
<1>8. \A m \in Module \ compileDirty' : CompiledSinceParsed(m)'
  BY <1>2, <1>3, <1>4 DEF ParsingMarks
<1>9. \A m \in compileDirty' \ compileDirty : Bound(m)'
  BY <1>2, <1>5 DEF Bound
<1>10. AstsAreThere'
  BY <1>2, <1>3 DEF AstsAreThere
<1>11. onDisk \subseteq onDisk' /\ compileDirty \subseteq compileDirty'
  BY <1>2 DEF WriteFiles
<1> QED BY <1>1, <1>2, <1>6, <1>7, <1>8, <1>9, <1>10, <1>11, ParsingKeepsRepair

LEMMA StopKeepsRepair == ASSUME RInv, StopAtParseError PROVE RInv'
<1> USE DEF RInv, StopAtParseError
<1>1. PInv'
  BY EndKeepsPInv
<1>2. /\ step = "parsing" /\ step' = "cleanup" /\ outcome' = "failed" /\ toParse = {}
      /\ UNCHANGED <<refs, present, deleted, toParse, newer, onDisk, current, fresh, errors>>
      /\ UNCHANGED <<phase, universe, compiled, inProgress, total>>
  BY DEF runVars, sourceVars, diskVars, project
<1>3. AllPresent' /\ OutsideCompile' /\ SuccessSettles' /\ RepairedByNextRun'
  BY <1>2 DEF AllPresent, OutsideCompile, SuccessSettles, RepairedByNextRun
<1>4. FilesAreSound'
  BY <1>2 DEF FilesAreSound, CurrentIsCompiled, ToldOrBound, Told, Bound, ParseDirty,
              CompiledSinceParsed
<1>5. errors' = FALSE
  BY <1>2 DEF OutsideCompile, NoErrorYet, PInv, BuildTypeOK, TypeOK
<1> QED BY <1>1, <1>2, <1>3, <1>4, <1>5, AtRest

(* Whatever is bound to be compiled is dirty when compile is called, and nothing else. *)
LEMMA MarkedIsBound ==
  ASSUME RInv, get_deps_and_mark, NEW m \in Module
  PROVE  m \in compileDirty' <=> Bound(m)
<1> USE DEF RInv
<1>1. step = "parsing" /\ toParse = {} /\ ~parseFailed /\ present = Module
  BY DEF get_deps_and_mark, AllPresent
<1>2. /\ compileDirty' = compileDirty \cup Expired(DepsRead)
      /\ DepsRead = [x \in Module |-> refs[x] \ {x}]
      /\ \A x \in Module : job[x] = "idle" /\ compiled = {}
  BY MarkingIsInOrder
<1>3. refs \in [Module -> SUBSET Module] /\ compileDirty \subseteq Module
  BY DEF PInv, BuildTypeOK, TypeOK
<1>4. ASSUME m \in compileDirty PROVE Bound(m)
  <2>1. ~errors
    BY <1>1 DEF NoErrorYet, OutsideCompile
  <2> QED BY <1>1, <1>2, <1>3, <1>4, <2>1 DEF DirtyIsBound
<1>5. ASSUME m \in Expired(DepsRead) PROVE Bound(m)
  <2>1. CASE Cmt(m) \notin onDisk
    BY <2>1, WithoutCmtIsBound DEF PInv, Bound
  <2>2. CASE Cmt(m) \in onDisk
    <3>1. PICK d \in DepsRead[m] : <<Cmt(d), Cmt(m)>> \in newer
      BY <1>5, <2>2 DEF Expired
    <3> QED BY <1>2, <3>1 DEF Bound
  <2> QED BY <2>1, <2>2
<1>6. ASSUME Bound(m) PROVE m \in compileDirty'
  <2>1. \A f \in Sources(m) : ~ParseDirty(f)
    BY <1>1, SourcesAreFiles DEF AstsAreThere
  <2>2. CASE ~CompiledSinceParsed(m)
    BY <1>1, <1>2, <2>2 DEF ParsingMarks
  <2>3. CASE \E e \in refs[m] \ {m} : <<Cmt(e), Cmt(m)>> \in newer
    BY <1>1, <1>2, <1>3, <2>3 DEF Expired
  <2> QED BY <1>6, <2>1, <2>2, <2>3 DEF Bound
<1> QED BY <1>2, <1>4, <1>5, <1>6

LEMMA MarkKeepsRepair == ASSUME RInv, get_deps_and_mark PROVE RInv'
<1> USE DEF RInv
<1>1. PInv'
  BY MarkKeepsPInv
<1>2. /\ step = "parsing" /\ step' = "marked" /\ toParse = {} /\ ~parseFailed
      /\ UNCHANGED <<current, fresh, refs, present, deleted, newer, onDisk, phase, toParse>>
      /\ UNCHANGED <<universe, compiled, inProgress, total, outcome, job, errors, succeeded>>
  BY DEF get_deps_and_mark, sourceVars, jobVars, diskVars, runVars, loopVars
<1>3. /\ LoopInv' /\ DoneIsUpToDate' /\ CompiledIsUpToDate' /\ SuccessLeavesNothingStale'
      /\ DepsRead = [m \in Module |-> refs[m] \ {m}] /\ deps' = DepsRead
      /\ \A d \in Module : dependents'[d] = {m \in Module : d \in deps'[m]}
      /\ \A m \in Module : job'[m] = "idle"
      /\ compiled' = {}
  BY MarkingIsInOrder
<1>4. refs \in [Module -> SUBSET Module] /\ current \subseteq Module
  BY DEF PInv, BuildTypeOK, TypeOK
<1>5. compileDirty' \subseteq Module
  BY <1>3 DEF LoopInv, TypeOK
<1>6. \A m \in Module : Bound(m)' <=> Bound(m)
  BY <1>2 DEF Bound, ParseDirty, CompiledSinceParsed
<1>7. AllPresent' /\ OutsideCompile' /\ OnlyInterfaces' /\ ChangeBinds' /\ NoErrorYet'
  BY <1>2, <1>3 DEF AllPresent, OutsideCompile, OnlyInterfaces, ChangeBinds, NoErrorYet
<1>8. CurrentIsCompiled' /\ ToldOrBound'
  BY <1>2, <1>4, <1>6 DEF CurrentIsCompiled, ToldOrBound, Told
<1>9. AstsAreThere' /\ ParsingMarks' /\ RepairedByNextRun'
  BY <1>2 DEF AstsAreThere, ParsingMarks, RepairedByNextRun, ParseDirty
<1>10. DirtyIsBound'
  BY <1>5, <1>6, MarkedIsBound DEF DirtyIsBound
<1>11. \A m \in Module : Bound(m) => ToCompile(m)'
  BY <1>3, MarkedIsBound DEF ToCompile
<1>12. ToldOrToCompile'
  BY <1>2, <1>4, <1>11 DEF ToldOrToCompile, CurrentIsCompiled, ToldOrBound, Told
<1>13. SuccessSettles'
  BY <1>2 DEF SuccessSettles, Settled, Told
<1>14. ASSUME succeeded' PROVE IInv'
  <2>1. ASSUME NEW m \in SourceFile, m \notin compileDirty'
        PROVE  m \in current' /\ Reads(m)' \subseteq fresh'[m]
    <3>1. m \in Module /\ ~Bound(m) /\ Settled(m)
      BY <1>2, <1>14, <2>1, MarkedIsBound DEF SourceFile, SuccessSettles
    <3>2. Reads(m)' = refs[m] \ {m}
      BY <1>3, <3>1, NoNamespaces DEF Reads
    <3> QED BY <1>2, <3>1, <3>2 DEF Settled, Told, Bound
  <2>2. NothingForgotten'
    BY <2>1 DEF NothingForgotten, SourceFile
  <2> QED BY <1>3, <2>2 DEF IInv
<1>15. CallIsInOrder'
  BY <1>2, <1>3, <1>14 DEF CallIsInOrder
<1> QED BY <1>1, <1>2, <1>7, <1>8, <1>9, <1>10, <1>12, <1>13, <1>15

LEMMA BeginKeepsRepair == ASSUME RInv, BeginCompile PROVE RInv'
<1> USE DEF RInv
<1>1. PInv'
  BY BeginKeepsPInv
<1>2. /\ step = "marked" /\ step' = "compiling" /\ StartCompile
      /\ phase = "idle" /\ compiled = {} /\ compiled' = {} /\ errors' = FALSE
      /\ UNCHANGED <<current, fresh, refs, present, deleted, newer, onDisk, toParse, succeeded>>
      /\ UNCHANGED <<deps, dependents, job, result, compileDirty>>
  BY DEF BeginCompile, StartCompile, KeepRun, KeepDisk, sourceVars, jobVars, diskVars, project,
         OutsideCompile
<1>3. refs \in [Module -> SUBSET Module] /\ current \subseteq Module /\ compileDirty \subseteq Module
  BY DEF PInv, BuildTypeOK, TypeOK
<1>4. \A m \in Module : Bound(m)' <=> Bound(m)
  BY <1>2 DEF Bound, ParseDirty, CompiledSinceParsed
<1>5. AllPresent' /\ OutsideCompile' /\ OnlyInterfaces' /\ NoErrorYet'
  BY <1>2 DEF AllPresent, OutsideCompile, OnlyInterfaces, NoErrorYet
<1>6. CurrentIsCompiled' /\ ToldOrBound' /\ ChangeBinds'
  BY <1>2, <1>3, <1>4 DEF CurrentIsCompiled, ToldOrBound, Told, ChangeBinds
<1>7. AstsAreThere' /\ ParsingMarks' /\ SuccessSettles' /\ RepairedByNextRun'
  BY <1>2 DEF AstsAreThere, ParsingMarks, SuccessSettles, RepairedByNextRun, ParseDirty
<1>8. ~errors
  BY <1>2 DEF NoErrorYet
<1>9. DirtyIsBound'
  BY <1>2, <1>3, <1>4, <1>8 DEF DirtyIsBound
<1>10. ToldOrToCompile'
  <2>1. \A m \in Module : ToCompile(m) => ToCompile(m)'
    BY <1>2 DEF ToCompile
  <2> QED BY <1>2, <1>3, <1>8, <2>1 DEF ToldOrToCompile, Told
<1>11. CallIsInOrder'
  <2>1. LoopInv' /\ (succeeded' => IInv')
    BY <1>2, LoopKept, NextPreserves DEF CallIsInOrder, Next
  <2> QED BY <1>2, <2>1 DEF CallIsInOrder
<1> QED BY <1>1, <1>2, <1>5, <1>6, <1>7, <1>9, <1>10, <1>11

-----------------------------------------------------------------------------
(* The call of compile. *)

(* What a step of the loop may disturb. *)
CallIsSettling ==
  FilesAreSound /\ DirtyIsBound /\ ChangeBinds /\ ToldOrToCompile /\ NoErrorYet

LEMMA LoopKeepsOrder ==
  ASSUME RInv, CompileLoop, CallIsSettling', \A f \in AllSources : ParseDirty(f)' => ParseDirty(f)
  PROVE  RInv'
<1> USE DEF RInv
<1>1. PInv' /\ OnlyInterfaces'
  BY LoopKeepsPInv, LoopKeepsInterfaces
<1>2. step = "compiling" /\ step' = "compiling"
      /\ UNCHANGED <<present, refs, deleted, toParse, succeeded>>
  BY DEF CompileLoop, KeepRun, sourceVars
<1>3. AllPresent' /\ OutsideCompile' /\ AstsAreThere' /\ ParsingMarks' /\ SuccessSettles'
      /\ RepairedByNextRun'
  BY <1>2 DEF AllPresent, OutsideCompile, AstsAreThere, ParsingMarks, SuccessSettles,
              RepairedByNextRun
<1>4. LoopInv' /\ (succeeded' => IInv')
  BY <1>2, LoopIsCompile, LoopKept, NextPreserves DEF CallIsInOrder
<1>5. CallIsInOrder'
  BY <1>2, <1>4, LoopKeepsInterfaces DEF CallIsInOrder
<1> QED BY <1>1, <1>3, <1>5 DEF CallIsSettling, FilesAreSound

(* A step that runs no bsc and ends no job but that of a module that is not dirty. *)
LEMMA QuietStepKeepsRepair ==
  ASSUME RInv, CompileLoop,
         UNCHANGED <<newer, onDisk, current, fresh, compileDirty, compiled, errors>>,
         phase' # "results" => ~errors,
         \A m \in Module :
           /\ job[m] = "done" => job'[m] = "done" /\ result'[m] = result[m]
           /\ job'[m] = "done" /\ job[m] # "done" =>
                m \notin compileDirty /\ result'[m] = Untouched(m)
  PROVE  RInv'
<1> USE DEF RInv
<1>1. step = "compiling" /\ step' = "compiling" /\ refs' = refs
  BY DEF CompileLoop, KeepRun, sourceVars
<1>2. refs \in [Module -> SUBSET Module] /\ current \subseteq Module /\ compileDirty \subseteq Module
  BY DEF PInv, BuildTypeOK, TypeOK
<1>3. \A m \in Module : Bound(m)' <=> Bound(m)
  BY <1>1 DEF Bound, ParseDirty, CompiledSinceParsed
<1>4. FilesAreSound'
  BY <1>1, <1>2, <1>3 DEF FilesAreSound, CurrentIsCompiled, ToldOrBound, Told
<1>5. DirtyIsBound'
  BY <1>1, <1>2, <1>3 DEF DirtyIsBound
<1>6. ChangeBinds'
  BY <1>1, <1>2, <1>3 DEF ChangeBinds, Untouched
<1>7. ToldOrToCompile'
  <2>1. \A m \in Module : ToCompile(m) => ToCompile(m)'
    BY DEF ToCompile
  <2> QED BY <1>1, <1>2, <2>1 DEF ToldOrToCompile, Told
<1>8. NoErrorYet' /\ \A f \in AllSources : ParseDirty(f)' => ParseDirty(f)
  BY DEF NoErrorYet, ParseDirty
<1> QED BY <1>4, <1>5, <1>6, <1>7, <1>8, LoopKeepsOrder DEF CallIsSettling

(* bsc runs only for dirty modules of a batch, on deps that are compiled. *)
LEMMA JobIsToCompile ==
  ASSUME RInv, NEW m \in Module, job[m] = "implementation"
  PROVE  /\ step = "compiling" /\ phase = "batch" /\ ~errors
         /\ m \in compileDirty \ compiled /\ Bound(m)
         /\ seen[m] = refs[m] \ {m}
         /\ \A d \in refs[m] \ {m} : job[d] = "idle"
<1> USE DEF RInv
<1>1. step = "compiling" /\ LoopInv /\ deps[m] = refs[m] \ {m}
  BY DEF PInv, JobsArePresent, CallIsInOrder
<1>2. phase = "batch"
  BY <1>1 DEF LoopInv, Bookkeeping, TypeOK
<1>3. ~errors
  BY <1>2 DEF NoErrorYet
<1>4. m \in compileDirty \ compiled
  BY <1>1 DEF LoopInv, RunningJobs, Running, JobsAreReady
<1>5. seen[m] = deps[m]
  BY <1>1, NoNamespaces DEF LoopInv, RunningJobs, Running, Reads
<1>6. ASSUME NEW d \in deps[m] PROVE job[d] = "idle"
  <2>1. d \in Module
    BY <1>1, <1>6 DEF PInv, BuildTypeOK
  <2>2. ASSUME job[d] # "idle" PROVE FALSE
    <3>1. d \in universe \ compiled /\ deps[m] \cap universe \subseteq compiled
      BY <1>1, <2>1, <2>2 DEF LoopInv, JobsAreReady, Ready
    <3> QED BY <1>6, <3>1
  <2> QED BY <2>2
<1>7. Bound(m)
  BY <1>1, <1>3, <1>4 DEF DirtyIsBound
<1> QED BY <1>1, <1>2, <1>3, <1>4, <1>5, <1>6, <1>7

LEMMA RejectedKeepsRepair ==
  ASSUME RInv, NEW m \in Module, NEW differs \in BOOLEAN, CompileLoop,
         RunImplementation(m, "error", differs)
  PROVE  RInv'
<1> USE DEF RInv
<1>1. step = "compiling" /\ step' = "compiling" /\ refs' = refs
  BY DEF CompileLoop, KeepRun, sourceVars
<1>2. /\ job[m] = "implementation" /\ job' = [job EXCEPT ![m] = "done"]
      /\ UNCHANGED <<newer, onDisk, current, fresh, compileDirty, compiled, errors, phase>>
      /\ \A x \in Module \ {m} : result'[x] = result[x]
  BY DEF RunImplementation, CompileImplementation, Finish, Failed, diskVars, loopVars, PInv,
         BuildTypeOK, TypeOK
<1>3. Failed(result'[m])
  BY DEF RunImplementation, CompileImplementation, Finish, Failed, PInv, BuildTypeOK, TypeOK
<1>4. refs \in [Module -> SUBSET Module] /\ current \subseteq Module /\ compileDirty \subseteq Module
      /\ \A x \in Module \ {m} : job'[x] = job[x]
  BY <1>2 DEF PInv, BuildTypeOK, TypeOK
<1>5. \A x \in Module : Bound(x)' <=> Bound(x)
  BY <1>1, <1>2 DEF Bound, ParseDirty, CompiledSinceParsed
<1>6. FilesAreSound'
  BY <1>1, <1>2, <1>4, <1>5 DEF FilesAreSound, CurrentIsCompiled, ToldOrBound, Told
<1>7. DirtyIsBound' /\ ChangeBinds' /\ NoErrorYet'
  <2>1. DirtyIsBound'
    BY <1>1, <1>2, <1>4, <1>5 DEF DirtyIsBound
  <2>2. ChangeBinds'
    BY <1>1, <1>2, <1>3, <1>4, <1>5 DEF ChangeBinds
  <2> QED BY <1>2, <2>1, <2>2 DEF NoErrorYet
<1>8. ToldOrToCompile'
  <2>1. \A x \in Module : ToCompile(x) => ToCompile(x)'
    BY <1>2, <1>3, <1>4 DEF ToCompile
  <2> QED BY <1>1, <1>2, <1>4, <2>1 DEF ToldOrToCompile, Told
<1>9. \A f \in AllSources : ParseDirty(f)' => ParseDirty(f)
  BY <1>2 DEF ParseDirty
<1> QED BY <1>6, <1>7, <1>8, <1>9, LoopKeepsOrder DEF CallIsSettling

(* What a new .cmt tells: its own module is compiled, every dependent is bound to be. *)
LEMMA NewCmtBinds ==
  ASSUME RInv, NEW m \in Module, WriteFiles({Cmt(m)}), refs' = refs, step = "compiling",
         NEW x \in Module \ {m}
  PROVE  /\ Bound(x) => Bound(x)'
         /\ m \in refs[x] \ {x} => Bound(x)'
         /\ Cmt(x) \in onDisk => <<Cmt(m), Cmt(x)>> \in newer'
         /\ \A d \in Module : <<Cmt(d), Cmt(x)>> \in newer => <<Cmt(d), Cmt(x)>> \in newer'
         /\ Cmt(x) \in onDisk' <=> Cmt(x) \in onDisk
<1> USE DEF RInv
<1>1. Cmt(x) # Cmt(m)
  BY DEF Cmt
<1>2. \A g \in AllSources : ParseDirty(g)' <=> ParseDirty(g)
  BY SourceFiles DEF ParseDirty, WriteFiles
<1>3. CompiledSinceParsed(x)' => CompiledSinceParsed(x)
  <2>1. \A a \in Asts(x) : a # Cmt(m)
    BY AstsOf, SourceFiles
  <2> QED BY <1>1, <2>1, PairsWritten DEF CompiledSinceParsed
<1>4. \A d \in Module : <<Cmt(d), Cmt(x)>> \in newer => <<Cmt(d), Cmt(x)>> \in newer'
  BY <1>1 DEF WriteFiles
<1>5. Cmt(x) \in onDisk => <<Cmt(m), Cmt(x)>> \in newer'
  BY <1>1, CmtsAreCompared DEF WriteFiles
<1>6. refs'[x] = refs[x] /\ refs[x] \subseteq Module
  BY DEF PInv, BuildTypeOK
<1>7. Bound(x) => Bound(x)'
  BY <1>2, <1>3, <1>4, <1>6, SourcesAreFiles, BoundKept
<1>8. ASSUME m \in refs[x] \ {x} PROVE Bound(x)'
  <2>1. CASE Cmt(x) \in onDisk
    BY <1>5, <1>6, <1>8, <2>1 DEF Bound
  <2>2. CASE Cmt(x) \notin onDisk
    BY <1>3, <2>2, WithoutCmtIsBound DEF Bound, PInv
  <2> QED BY <2>1, <2>2
<1> QED BY <1>1, <1>4, <1>5, <1>7, <1>8 DEF WriteFiles

LEMMA AcceptedKeepsRepair ==
  ASSUME OnlyKilled, RInv, CompileLoop,
         NEW m \in Module, NEW verdict \in Verdict, verdict # "error", NEW differs \in BOOLEAN,
         RunImplementation(m, verdict, differs)
  PROVE  RInv'
<1> USE DEF RInv
<1>1. step = "compiling" /\ step' = "compiling" /\ refs' = refs
  BY DEF CompileLoop, KeepRun, sourceVars
<1>2. refs \in [Module -> SUBSET Module] /\ current \subseteq Module /\ compileDirty \subseteq Module
      /\ fresh \in [Module -> SUBSET Module]
  BY DEF PInv, BuildTypeOK, TypeOK
<1>3. /\ job[m] = "implementation" /\ job'[m] = "done"
      /\ UNCHANGED <<compileDirty, compiled, errors, phase>>
      /\ WriteFiles({Cmt(m)})
      /\ \A x \in Module \ {m} : result'[x] = result[x] /\ job'[x] = job[x]
  BY DEF RunImplementation, CompileImplementation, Finish, loopVars, PInv, BuildTypeOK, TypeOK
<1>4. /\ current' = current \cup {m}
      /\ fresh'[m] = seen[m]
      /\ \A x \in Module : \A d \in fresh[x] : d = m \/ x = m \/ d \in fresh'[x]
  <2>1. m \notin WithInterface
    BY DEF OnlyKilled
  <2>2. ~Failed([impl |-> verdict, intf |-> NoInterface])
    BY DEF Failed, NoInterface
  <2> QED BY <1>2, <2>1, <2>2 DEF RunImplementation, CompileImplementation
<1>5. /\ ~errors /\ m \in compileDirty \ compiled /\ seen[m] = refs[m] \ {m}
      /\ \A d \in refs[m] \ {m} : job[d] = "idle"
  BY <1>3, JobIsToCompile
<1>6. \A x \in Module \ {m} :
        /\ Bound(x) => Bound(x)'
        /\ m \in refs[x] \ {x} => Bound(x)'
        /\ Cmt(x) \in onDisk => <<Cmt(m), Cmt(x)>> \in newer'
        /\ \A d \in Module : <<Cmt(d), Cmt(x)>> \in newer => <<Cmt(d), Cmt(x)>> \in newer'
        /\ Cmt(x) \in onDisk' <=> Cmt(x) \in onDisk
  BY <1>1, <1>3, NewCmtBinds
<1>7. CurrentIsCompiled'
  BY <1>3, <1>4, <1>6 DEF CurrentIsCompiled, WriteFiles
<1>8. ASSUME NEW x \in current', NEW d \in refs[x] \ {x}
      PROVE  /\ x = m \/ d = m => Told(x, d)'
             /\ Told(x, d) => Told(x, d)'
             /\ x \in Module /\ d \in Module
  <2>1. CASE x = m
    BY <1>2, <1>4, <1>5, <2>1 DEF Told
  <2>2. CASE x # m
    <3>1. x \in current /\ x \in Module /\ d \in Module
      BY <1>2, <1>4, <2>2
    <3>2. Cmt(x) \in onDisk
      BY <3>1 DEF CurrentIsCompiled
    <3> QED BY <1>4, <1>6, <2>2, <3>1, <3>2 DEF Told
  <2> QED BY <2>1, <2>2
<1>9. ToldOrBound'
  <2>1. ASSUME NEW x \in current', NEW d \in refs'[x] \ {x} PROVE (Told(x, d) \/ Bound(d))'
    <3>1. CASE x = m \/ d = m
      BY <1>1, <1>8, <2>1, <3>1
    <3>2. CASE x # m /\ d # m
      <4>1. Told(x, d) \/ Bound(d)
        BY <1>1, <1>4, <3>2 DEF ToldOrBound
      <4> QED BY <1>1, <1>6, <1>8, <3>2, <4>1
    <3> QED BY <3>1, <3>2
  <2> QED BY <2>1 DEF ToldOrBound
<1>10. FilesAreSound'
  BY <1>3, <1>7, <1>9 DEF FilesAreSound, WriteFiles
<1>11. DirtyIsBound'
  <2>1. ASSUME NEW x \in compileDirty' \ compiled', job'[x] # "done" PROVE Bound(x)'
    <3>1. x \in Module /\ x # m /\ job[x] # "done" /\ x \in compileDirty \ compiled
      BY <1>2, <1>3, <2>1
    <3>2. Bound(x)
      BY <1>1, <1>5, <3>1 DEF DirtyIsBound
    <3> QED BY <1>6, <3>1, <3>2
  <2> QED BY <2>1 DEF DirtyIsBound
<1>12. ChangeBinds'
  <2>1. ASSUME NEW y \in Module, NEW x \in Module, job'[y] = "done", ~result'[y].clean,
               ~Failed(result'[y]), y \in refs'[x] \ {x}
        PROVE  Bound(x)'
    <3>1. CASE y = m
      BY <1>1, <1>6, <2>1, <3>1
    <3>2. CASE y # m
      <4>1. job[y] = "done" /\ result[y] = result'[y]
        BY <1>3, <2>1, <3>2
      <4>2. x # m
        BY <1>1, <1>5, <2>1, <4>1
      <4> QED BY <1>1, <1>6, <2>1, <4>1, <4>2 DEF ChangeBinds
    <3> QED BY <3>1, <3>2
  <2> QED BY <2>1 DEF ChangeBinds
<1>13. ToldOrToCompile'
  <2>1. \A x \in Module \ {m} : ToCompile(x) => ToCompile(x)'
    BY <1>3 DEF ToCompile
  <2>2. ASSUME NEW x \in Module PROVE x \in current' \/ ToCompile(x)'
    BY <1>1, <1>4, <1>5, <2>1 DEF ToldOrToCompile
  <2>3. ASSUME NEW x \in Module, NEW d \in refs'[x] \ {x}, x \in current'
        PROVE  Told(x, d)' \/ ToCompile(d)'
    <3>1. CASE x = m \/ d = m
      BY <1>1, <1>8, <2>3, <3>1
    <3>2. CASE x # m /\ d # m
      <4>1. Told(x, d) \/ ToCompile(d)
        BY <1>1, <1>4, <1>5, <2>3, <3>2 DEF ToldOrToCompile
      <4> QED BY <1>1, <1>8, <2>1, <2>3, <3>2, <4>1
    <3> QED BY <3>1, <3>2
  <2> QED BY <2>2, <2>3 DEF ToldOrToCompile
<1>14. NoErrorYet' /\ \A f \in AllSources : ParseDirty(f)' => ParseDirty(f)
  BY <1>3, <1>5, SourceFiles DEF NoErrorYet, ParseDirty, WriteFiles
<1> QED BY <1>10, <1>11, <1>12, <1>13, <1>14, LoopKeepsOrder DEF CallIsSettling

(* A module whose .cmi changed hands its mark to those that are bound already. *)
LEMMA ResultKeepsRepair ==
  ASSUME RInv, CompileLoop, NEW m \in Module, TakeResult(m)
  PROVE  RInv'
<1> USE DEF RInv
<1>1. step = "compiling" /\ step' = "compiling" /\ refs' = refs
  BY DEF CompileLoop, KeepRun, sourceVars
<1>2. refs \in [Module -> SUBSET Module] /\ current \subseteq Module /\ compileDirty \subseteq Module
  BY DEF PInv, BuildTypeOK, TypeOK
<1>3. /\ job[m] = "done" /\ job'[m] = "idle" /\ phase = "results" /\ phase' = phase
      /\ compiled' = compiled \cup {m} /\ errors' = (errors \/ Failed(result[m]))
      /\ compileDirty' = DirtyAfter(m)
      /\ UNCHANGED <<newer, onDisk, current, fresh>>
      /\ \A x \in Module \ {m} : result'[x] = result[x] /\ job'[x] = job[x]
  BY DEF TakeResult, ProcessResult, diskVars, project, PInv, BuildTypeOK, TypeOK
<1>4. \A x \in Module : Bound(x)' <=> Bound(x)
  BY <1>1, <1>3 DEF Bound, ParseDirty, CompiledSinceParsed
<1>5. FilesAreSound'
  BY <1>1, <1>2, <1>3, <1>4 DEF FilesAreSound, CurrentIsCompiled, ToldOrBound, Told
<1>6. ASSUME NEW x \in DirtyAfter(m) \ {m}
      PROVE  /\ x \in Module
             /\ x \in compileDirty \/ (~result[m].clean /\ m \in refs[x] \ {x})
  <2>1. x \in compileDirty \/ (~result[m].clean /\ x \in dependents[m])
    BY DEF DirtyAfter
  <2>2. \A y \in dependents[m] : y \in Module /\ m \in refs[y] \ {y}
    BY <1>1 DEF CallIsInOrder
  <2> QED BY <1>2, <2>1, <2>2
<1>7. \A x \in compileDirty \ {m} : x \in DirtyAfter(m)
  BY DEF DirtyAfter
<1>8. DirtyIsBound'
  <2>1. ASSUME ~errors', NEW x \in compileDirty' \ compiled', job'[x] # "done" PROVE Bound(x)'
    <3>1. x \in DirtyAfter(m) \ {m} /\ x \notin compiled /\ ~errors /\ ~Failed(result[m])
      BY <1>3, <2>1
    <3>2. x \in Module /\ job[x] # "done"
      BY <1>3, <1>6, <2>1, <3>1
    <3> QED BY <1>1, <1>3, <1>4, <1>6, <3>1, <3>2 DEF DirtyIsBound, ChangeBinds
  <2> QED BY <2>1 DEF DirtyIsBound
<1>9. ChangeBinds'
  BY <1>1, <1>2, <1>3, <1>4 DEF ChangeBinds
<1>10. ToldOrToCompile'
  <2>1. ASSUME ~errors' PROVE /\ ~errors /\ ~ToCompile(m)
                              /\ \A x \in Module : ToCompile(x) => ToCompile(x)'
    BY <1>3, <1>7, <2>1 DEF ToCompile
  <2> QED BY <1>1, <1>2, <1>3, <2>1 DEF ToldOrToCompile, Told
<1>11. NoErrorYet' /\ \A f \in AllSources : ParseDirty(f)' => ParseDirty(f)
  BY <1>3 DEF NoErrorYet, ParseDirty
<1> QED BY <1>5, <1>8, <1>9, <1>10, <1>11, LoopKeepsOrder DEF CallIsSettling

LEMMA LoopKeepsRepair == ASSUME OnlyKilled, RInv, CompileLoop PROVE RInv'
<1>1. step = "compiling" /\ LoopInv
  BY DEF CompileLoop, RInv, CallIsInOrder
<1>2. /\ job \in [Module -> {"idle", "queued", "interface", "implementation", "done"}]
      /\ result \in [Module -> JobResult]
  BY DEF RInv, PInv, BuildTypeOK, TypeOK
<1>3. CASE (StartBatch \/ CollectResults \/ NextBatch) /\ KeepDisk
  <2>1. UNCHANGED <<newer, onDisk, current, fresh, compileDirty, compiled, errors, result>>
    BY <1>3 DEF StartBatch, CollectResults, NextBatch, KeepDisk, diskVars, project, loopVars, jobVars
  <2>2. phase' # "results" => ~errors
    BY <1>3 DEF StartBatch, CollectResults, NextBatch, RInv, NoErrorYet
  <2>3. \A m \in Module : job[m] = "done" <=> job'[m] = "done"
    <3>1. CASE StartBatch
      BY <1>1, <3>1 DEF StartBatch, LoopInv, Bookkeeping
    <3>2. CASE CollectResults \/ NextBatch
      BY <3>2 DEF CollectResults, NextBatch, jobVars
    <3> QED BY <1>3, <3>1, <3>2
  <2> QED BY <2>1, <2>2, <2>3, QuietStepKeepsRepair
<1>4. ASSUME NEW m \in Module, SkipClean(m) \/ StartFile(m), KeepDisk PROVE RInv'
  <2>1. /\ UNCHANGED <<newer, onDisk, current, fresh, compileDirty, compiled, errors>>
        /\ phase' = "batch" /\ phase = "batch" /\ job[m] = "queued"
    BY <1>4 DEF SkipClean, StartFile, KeepDisk, diskVars, project, loopVars
  <2>2. \A x \in Module \ {m} : job'[x] = job[x] /\ result'[x] = result[x]
    BY <1>2, <1>4 DEF SkipClean, StartFile, Finish
  <2>3. job'[m] = "done" => m \notin compileDirty /\ result'[m] = Untouched(m)
    BY <1>2, <1>4 DEF SkipClean, StartFile, Finish
  <2>4. ~errors
    BY <2>1 DEF RInv, NoErrorYet
  <2> QED BY <2>1, <2>2, <2>3, <2>4, QuietStepKeepsRepair
<1>5. ASSUME NEW m \in Module, NEW verdict \in Verdict, NEW differs \in BOOLEAN,
             RunInterface(m, verdict, differs)
      PROVE  RInv'
  BY <1>5 DEF RunInterface, CompileInterface, RInv, OnlyInterfaces, OnlyKilled
<1>6. ASSUME NEW m \in Module, NEW verdict \in Verdict, NEW differs \in BOOLEAN,
             RunImplementation(m, verdict, differs)
      PROVE  RInv'
  BY <1>6, RejectedKeepsRepair, AcceptedKeepsRepair
<1>7. ASSUME NEW m \in Module, TakeResult(m) PROVE RInv'
  BY <1>7, ResultKeepsRepair
<1> QED BY <1>3, <1>4, <1>5, <1>6, <1>7 DEF CompileLoop

-----------------------------------------------------------------------------
(* The end of a run. *)

LEMMA EndKeepsRepair == ASSUME RInv, EndCompile PROVE RInv'
<1> USE DEF RInv
<1>1. PInv'
  BY EndKeepsPInv
<1>2. /\ step = "compiling" /\ step' = "cleanup" /\ Return /\ errors' = FALSE
      /\ phase' = "idle" /\ outcome' \in {"ok", "failed"} /\ universe' = {} /\ compiled' = {}
      /\ inProgress' = {} /\ total' = 0
      /\ UNCHANGED <<deps, refs, present, deleted, toParse, newer, onDisk, current, fresh>>
      /\ UNCHANGED succeeded
  BY DEF EndCompile, Return, KeepRun, KeepDisk, sourceVars, diskVars, project
<1>3. AllPresent' /\ OutsideCompile'
  BY <1>2 DEF AllPresent, OutsideCompile
<1>4. FilesAreSound'
  BY <1>2 DEF FilesAreSound, CurrentIsCompiled, ToldOrBound, Told, Bound, ParseDirty,
              CompiledSinceParsed
<1>5. SuccessSettles'
  <2>1. ASSUME outcome' = "ok", NEW m \in Module PROVE ~ToCompile(m) /\ ~errors
    <3>1. LoopInv
      BY <1>2 DEF CallIsInOrder
    <3>2. ~errors /\ compiled = universe
      BY <1>2, <2>1, <3>1, CountIsComplete DEF LoopInv, Return, Stuck
    <3>3. compileDirty \subseteq compiled
      BY <1>2, <3>1, <3>2 DEF LoopInv, UniverseClosed, Bookkeeping, Return, Applied
    <3> QED BY <3>2, <3>3 DEF ToCompile
  <2>2. refs \in [Module -> SUBSET Module]
    BY DEF PInv, BuildTypeOK
  <2> QED BY <1>2, <2>1, <2>2 DEF SuccessSettles, ToldOrToCompile, Settled, Told
<1>6. RepairedByNextRun'
  <2>1. ASSUME outcome' = "ok", succeeded', NEW m \in Module PROVE ~OutOfDate(m)'
    <3>1. SuccessLeavesNothingStale'
      BY <1>2, <2>1, NextPreserves DEF CallIsInOrder, Next, CompileStep, IInv
    <3>2. m \in current' /\ Reads(m)' \subseteq fresh'[m]
      BY <2>1, <3>1, NoNamespaces DEF SuccessLeavesNothingStale, Stale, SourceFile
    <3>3. refs'[m] \ {m} \subseteq Reads(m)'
      BY <1>2 DEF CallIsInOrder, Reads
    <3>4. refs'[m] \subseteq present'
      BY <1>1, <1>3 DEF AllPresent, PInv, BuildTypeOK
    <3> QED BY <3>2, <3>3, <3>4 DEF OutOfDate
  <2> QED BY <1>3, <2>1 DEF RepairedByNextRun, AllPresent
<1> QED BY <1>1, <1>2, <1>3, <1>4, <1>5, <1>6, AtRest

LEMMA CleanupKeepsRepair == ASSUME RInv, cleanup_after_build PROVE RInv'
<1> USE DEF RInv
<1>1. PInv'
  BY EndKeepsPInv
<1>2. /\ step = "cleanup" /\ step' = "down" /\ toParse' = {} /\ deleted' = {}
      /\ RemoveFiles(AstsWithWarnings) /\ succeeded' = (outcome = "ok")
      /\ UNCHANGED <<refs, present, current, fresh, phase, outcome, errors>>
      /\ UNCHANGED <<universe, compiled, inProgress, total>>
  BY DEF cleanup_after_build, Forget, sourceVars, loopVars
<1>3. AllPresent' /\ OutsideCompile' /\ RepairedByNextRun' /\ errors' = FALSE
  BY <1>2 DEF AllPresent, OutsideCompile, RepairedByNextRun, NoErrorYet, PInv, BuildTypeOK, TypeOK
<1>4. refs \in [Module -> SUBSET Module] /\ current \subseteq Module
  BY DEF PInv, BuildTypeOK, TypeOK
<1>5. /\ \A m \in Module : Cmt(m) \notin AstsWithWarnings
      /\ \A f \in AllSources : f \notin AstsWithWarnings
  <2>1. ASSUME NEW m, NEW a \in Asts(m) PROVE a[1] \in {"ast", "iast"}
    BY DEF Asts, AstOf
  <2>2. \A a \in AstsWithWarnings : a[1] \in {"ast", "iast"}
    BY <2>1 DEF AstsWithWarnings
  <2>3. \A f \in AllSources : f[1] \in {"res", "resi"}
    BY DEF AllSources, Sources
  <2> QED BY <2>2, <2>3 DEF Cmt
<1>6. newer' \subseteq newer /\ AllSources \subseteq onDisk'
  BY <1>2, <1>5 DEF RemoveFiles
<1>7. \A x, y \in Module : <<Cmt(y), Cmt(x)>> \in newer => <<Cmt(y), Cmt(x)>> \in newer'
  BY <1>2, <1>5 DEF RemoveFiles
<1>8. \A m \in Module : Bound(m) => Bound(m)'
  <2>1. ASSUME NEW m \in Module, Bound(m) PROVE Bound(m)'
    <3>1. \A f \in Sources(m) : ParseDirty(f) => ParseDirty(f)'
      BY <1>6 DEF ParseDirty
    <3>2. CompiledSinceParsed(m)' => CompiledSinceParsed(m)
      BY <1>6 DEF CompiledSinceParsed
    <3> QED BY <1>2, <1>4, <1>7, <2>1, <3>1, <3>2, BoundKept
  <2> QED BY <2>1
<1>9. \A m \in Module, d \in Module : Told(m, d) => Told(m, d)'
  BY <1>2, <1>7 DEF Told
<1>10. CurrentIsCompiled' /\ ToldOrBound'
  <2>1. CurrentIsCompiled'
    BY <1>2, <1>5, <1>8 DEF CurrentIsCompiled, RemoveFiles
  <2>2. ToldOrBound'
    BY <1>2, <1>4, <1>8, <1>9 DEF ToldOrBound
  <2> QED BY <2>1, <2>2
<1>11. SuccessSettles'
  BY <1>2, <1>4, <1>9 DEF SuccessSettles, Settled
<1> QED BY <1>1, <1>2, <1>3, <1>6, <1>10, <1>11, AtRest DEF FilesAreSound

(* What a killed job has copied belongs to a module that is bound to be compiled. *)
LEMMA KillKeepsRepair == ASSUME RInv, Kill PROVE RInv'
<1> USE DEF RInv
<1>1. PInv'
  BY EndKeepsPInv
<1>2. PICK copied \in SUBSET BetweenCopies : fresh' = [x \in Module |-> fresh[x] \ copied]
  BY DEF Kill
<1>3. /\ step' = "down" /\ ~succeeded' /\ phase' = "idle" /\ outcome' = "none" /\ errors' = FALSE
      /\ universe' = {} /\ compiled' = {} /\ inProgress' = {} /\ total' = 0 /\ toParse' = {}
      /\ deleted' = {} /\ UNCHANGED <<refs, present, current, newer, onDisk>>
  BY DEF Kill, Forget, sourceVars, diskVars
<1>4. refs \in [Module -> SUBSET Module] /\ current \subseteq Module
      /\ fresh \in [Module -> SUBSET Module]
  BY DEF PInv, BuildTypeOK, TypeOK
<1>5. \A m \in Module : Bound(m)' <=> Bound(m)
  BY <1>3 DEF Bound, ParseDirty, CompiledSinceParsed
<1>6. \A d \in copied : d \in Module /\ Bound(d)
  BY JobIsToCompile DEF BetweenCopies
<1>7. CurrentIsCompiled'
  BY <1>3, <1>5 DEF CurrentIsCompiled
<1>8. ToldOrBound'
  <2>1. ASSUME NEW m \in current, NEW d \in refs[m] \ {m} PROVE Told(m, d)' \/ Bound(d)'
    <3>1. m \in Module /\ d \in Module
      BY <1>4
    <3>2. Told(m, d) \/ Bound(d)
      BY DEF ToldOrBound
    <3> QED BY <1>2, <1>3, <1>5, <1>6, <3>1, <3>2 DEF Told
  <2> QED BY <1>3, <2>1 DEF ToldOrBound
<1>9. AllPresent' /\ OutsideCompile' /\ SuccessSettles' /\ RepairedByNextRun'
  BY <1>3 DEF AllPresent, OutsideCompile, SuccessSettles, RepairedByNextRun
<1> QED BY <1>1, <1>3, <1>7, <1>8, <1>9, AtRest DEF FilesAreSound

LEMMA RepairKept == ASSUME OnlyKilled, RInv, [BuildNext]_buildVars PROVE RInv'
<1>1. CASE UNCHANGED buildVars
  <2>1. PInv'
    BY PInvKept DEF RInv
  <2>2. UNCHANGED vars
    BY <1>1 DEF buildVars
  <2>3. (LoopInv => LoopInv') /\ (IInv => IInv')
    BY <2>2, LoopKept, NextPreserves
  <2>4. CallIsInOrder'
    BY <1>1, <2>3 DEF buildVars, vars, project, sourceVars, RInv, CallIsInOrder
  <2>5. FilesAreSound'
    BY <1>1 DEF buildVars, vars, project, sourceVars, diskVars, RInv, FilesAreSound,
                CurrentIsCompiled, ToldOrBound, Told, Bound, ParseDirty, CompiledSinceParsed
  <2>6. DirtyIsBound' /\ ChangeBinds' /\ ParsingMarks' /\ NoErrorYet' /\ AstsAreThere'
    BY <1>1 DEF buildVars, vars, project, loopVars, jobVars, sourceVars, diskVars, runVars, RInv,
                DirtyIsBound, ChangeBinds, ParsingMarks, NoErrorYet, AstsAreThere, Bound,
                ParseDirty, CompiledSinceParsed
  <2>7. ToldOrToCompile' /\ SuccessSettles'
    BY <1>1 DEF buildVars, vars, project, loopVars, jobVars, sourceVars, diskVars, RInv,
                ToldOrToCompile, SuccessSettles, ToCompile, Settled, Told
  <2>8. AllPresent' /\ OutsideCompile' /\ OnlyInterfaces' /\ RepairedByNextRun'
    BY <1>1 DEF buildVars, vars, project, loopVars, jobVars, sourceVars, runVars, RInv, AllPresent,
                OutsideCompile, OnlyInterfaces, RepairedByNextRun, OutOfDate
  <2> QED BY <2>1, <2>4, <2>5, <2>6, <2>7, <2>8 DEF RInv, FilesAreSound
<1> QED BY <1>1, UserKeepsRepair, InitializeKeepsRepair, ParseErrorKeepsRepair,
           ParsedKeepsRepair, StopKeepsRepair, MarkKeepsRepair, BeginKeepsRepair, LoopKeepsRepair,
           EndKeepsRepair, CleanupKeepsRepair, KillKeepsRepair DEF BuildNext, RunStep

(* Wherever builds were killed, the second of two that end well and have nothing between
   them leaves every module compiled from its present source and against the present .cmi
   files: two successes repair what a kill leaves. *)
THEOREM KillsAreRepaired ==
  ASSUME OnlyKilled
  PROVE  BuildSpec => [](RepairedByNextRun /\ RepairedButForDeletions)
<1>1. BuildInit => RInv
  BY RepairInit
<1>2. RInv /\ [BuildNext]_buildVars => RInv'
  BY RepairKept
<1>3. RInv => RepairedByNextRun /\ RepairedButForDeletions
  BY DEF RInv, RepairedByNextRun, RepairedButForDeletions
<1> QED BY <1>1, <1>2, <1>3, PTL DEF BuildSpec
=============================================================================
