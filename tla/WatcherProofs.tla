--------------------------- MODULE WatcherProofs ---------------------------
(***************************************************************************)
(* The watcher forgets no change and a build that it reports no error of   *)
(* is complete, for any sources, texts and number of changes, but for      *)
(* sources that it takes to be parsed because a time misleads it.  Its     *)
(* event queue loses no wake-up and is first in, first out, for any values *)
(* and any number of threads.                                              *)
(***************************************************************************)
EXTENDS Watcher, FifoQueue, FiniteSetTheorems, TLAPS

Elems(s) == {s[i] : i \in 1..Len(s)}

(* Events that the loop has still to look at. *)
Pending == Elems(inFlight) \cup Elems(queue) \cup Elems(events)
Structural == {"create", "remove", "name"} \X Source
Quiet == Pending \cap Structural = {}
Unreported(f) == Quiet /\ <<"data", f>> \notin Pending

(* The loop has a build state and no full build is due that would replace it. *)
Settled == ~Over /\ step # "starting" /\ (needs # "full" \/ step = "parse")

(* bsc parses only during the parsing step, and modules that the build state knows. *)
ParsesWhatIsKnown ==
  /\ step # "parse" => toParse = {} /\ \A f \in Source : reading[f] = None
  /\ \A f \in Source : reading[f] # None => f \in known

(* The end of an incremental compilation is announced of a success only. *)
AnnouncedIsOk == announced = "incremental" => outcome = "ok"

TInv == WatchTypeOK /\ ParsesWhatIsKnown /\ AnnouncedIsOk

(* What bsc has read is what the source holds, unless the source is gone or misdated. *)
ReadIsCurrent == \A f \in Present \ misdated : reading[f] # None => reading[f] = text[f]

AstIsText == \A f \in (Present \cap astNewer) \ misdated : ast[f] = text[f]
CmtIsAst == \A f \in cmtNewer : cmt[f] = ast[f]

(* An AST that is newer than the .cmt is marked. *)
DirtyOrCompiled == \A f \in (known \cap astNewer) \ misdated : f \in compileDirty \cup cmtNewer

FInv == ReadIsCurrent /\ AstIsText /\ CmtIsAst /\ DirtyOrCompiled

(* A source that came or went has an event. *)
KnownIsPresent == Settled /\ Quiet => known = Present

(* A source whose AST is older is marked, or has an event. *)
DirtyOrParsed ==
  Settled => \A f \in (known \cap Present) \ misdated :
               Unreported(f) => f \in astNewer \cup parseDirty

EInv == KnownIsPresent /\ DirtyOrParsed

(* When no parse fails then everything without an event is parsed in the end, and a build
   that succeeds leaves nothing to be compiled. *)
ParsedUnlessFailed ==
  step = "parse" /\ ~hasFailure =>
    \A f \in (known \cap Present) \ misdated :
      Unreported(f) /\ f \notin toParse /\ reading[f] = None => f \in astNewer
OkIsTrue ==
  ~Over /\ needs = "none" /\ outcome = "ok" =>
    /\ compileDirty = {}
    /\ \A f \in (known \cap Present) \ misdated : Unreported(f) => f \in astNewer
NeededWhenBuilding == step \in {"starting", "parse"} => needs # "none"

OInv == ParsedUnlessFailed /\ OkIsTrue /\ NeededWhenBuilding

IInv == TInv /\ FInv /\ EInv /\ OInv

-----------------------------------------------------------------------------
(* The types. *)

LEMMA EventSequences ==
  /\ <<>> \in Seq(Event)
  /\ \A s \in Seq(Event), e \in Event : Append(s, e) \in Seq(Event)
  /\ \A s \in Seq(Event) : s # <<>> => Head(s) \in Event /\ Tail(s) \in Seq(Event)
OBVIOUS

LEMMA InitEstablishes == WatchInit => IInv
<1> SUFFICES ASSUME WatchInit PROVE IInv
  OBVIOUS
<1> USE TextAssumption, WatchAssumption DEF WatchInit
<1>1. TInv
  <2>1. inFlight \in Seq(Event) /\ queue \in Seq(Event) /\ events \in Seq(Event)
    BY EventSequences
  <2>2. changes \in 0..MaxChanges
    OBVIOUS
  <2>3. WatchTypeOK
    BY <2>1, <2>2 DEF WatchTypeOK
  <2> QED BY <2>3 DEF TInv, ParsesWhatIsKnown, AnnouncedIsOk
<1>2. FInv
  BY DEF FInv, ReadIsCurrent, AstIsText, CmtIsAst, DirtyOrCompiled, Present
<1>3. EInv /\ OInv
  BY DEF EInv, KnownIsPresent, DirtyOrParsed, Settled, OInv, ParsedUnlessFailed, OkIsTrue,
         NeededWhenBuilding
<1> QED BY <1>1, <1>2, <1>3 DEF IInv

LEMMA ChangeKeepsTypes ==
  ASSUME TInv, NEW f \in Source, NEW t \in Text \cup {None},
         NEW kind \in {"data", "create", "remove", "name"}, NEW older,
         Change(f, t, kind, older)
  PROVE  TInv'
<1> USE TextAssumption, WatchAssumption
        DEF TInv, Change, eventVars, stateVars, buildVars, resultVars, loopVars
<1>1. <<kind, f>> \in Event
  BY DEF Event
<1>2. inFlight' \in Seq(Event) /\ changes' \in 0..MaxChanges
  BY <1>1 DEF WatchTypeOK
<1>3. WatchTypeOK'
  BY <1>2 DEF WatchTypeOK
<1>4. ParsesWhatIsKnown' /\ AnnouncedIsOk'
  BY DEF ParsesWhatIsKnown, AnnouncedIsOk
<1> QED BY <1>3, <1>4

LEMMA UserKeepsTypes == ASSUME TInv, UserStep PROVE TInv'
<1>1. ASSUME NEW f \in Source, NEW t \in Text, Edit(f, t) \/ Create(f, t) \/ Replace(f, t)
      PROVE  TInv'
  BY <1>1, ChangeKeepsTypes DEF Edit, Create, Replace
<1>2. ASSUME NEW f \in Source, Delete(f) PROVE TInv'
  BY <1>2, ChangeKeepsTypes DEF Delete
<1>3. CASE RemoveLockfile
  <2>1. <<"remove lockfile">> \in Event
    BY DEF Event
  <2>2. inFlight' \in Seq(Event)
    BY <1>3, <2>1, EventSequences DEF RemoveLockfile, TInv, WatchTypeOK
  <2>3. changes' \in 0..MaxChanges
    <3>1. changes < MaxChanges /\ changes' = changes + 1
      BY <1>3 DEF RemoveLockfile
    <3>2. changes \in 0..MaxChanges
      BY DEF TInv, WatchTypeOK
    <3> QED BY <3>1, <3>2, WatchAssumption
  <2> QED BY <1>3, <2>2, <2>3
          DEF RemoveLockfile, TInv, WatchTypeOK, ParsesWhatIsKnown, AnnouncedIsOk, diskVars,
              stateVars, buildVars, resultVars, loopVars
<1>4. CASE PressCtrlC
  BY <1>4 DEF PressCtrlC, TInv, WatchTypeOK, ParsesWhatIsKnown, AnnouncedIsOk, diskVars,
              eventVars, stateVars, buildVars, resultVars, loopVars
<1> QED BY <1>1, <1>2, <1>3, <1>4 DEF UserStep

LEMMA InitializeKeepsTypes ==
  ASSUME TInv, initialize_build
  PROVE  /\ text' \in [Source -> Text \cup {None}]
         /\ ast' \in [Source -> Text \cup {None}] /\ cmt' \in [Source -> Text \cup {None}]
         /\ astNewer' \subseteq copied' /\ copied' \subseteq {f \in Source : ast'[f] # None}
         /\ cmtNewer' \subseteq {f \in Source : cmt'[f] # None}
         /\ known' = Present /\ known' \subseteq Source
         /\ parseDirty' \subseteq known' /\ compileDirty' \subseteq known'
         /\ misdated' \subseteq Source
BY DEF TInv, WatchTypeOK, initialize_build, ParseDirty, Present

LEMMA EventsKeepTypes ==
  ASSUME TInv, Notify \/ CheckCtrlC \/ Drain \/ EndDrain \/ HandleEvent \/ LockfileRemoved
               \/ Sleep
  PROVE  TInv'
<1> USE DEF TInv, diskVars, eventVars, stateVars, buildVars, resultVars, loopVars
<1>1. CASE Notify
  <2>1. inFlight' \in Seq(Event) /\ queue' \in Seq(Event)
    BY <1>1 DEF Notify, WatchTypeOK
  <2> QED BY <1>1, <2>1 DEF Notify, WatchTypeOK, ParsesWhatIsKnown, AnnouncedIsOk
<1>2. CASE Drain
  <2>1. events' \in Seq(Event) /\ queue' \in Seq(Event)
    BY <1>2 DEF Drain, WatchTypeOK
  <2> QED BY <1>2, <2>1 DEF Drain, WatchTypeOK, ParsesWhatIsKnown, AnnouncedIsOk
<1>3. CASE HandleEvent
  <2>1. events' \in Seq(Event)
    <3>1. events # <<>> /\ events' = Tail(events)
      BY <1>3 DEF HandleEvent
    <3> QED BY <3>1, EventSequences DEF WatchTypeOK
  <2>2. needs' \in {"incremental", "full", "none"} /\ parseDirty' \subseteq known
          /\ parseDirty \subseteq parseDirty'
    BY <1>3 DEF HandleEvent, MarkParseDirty, WatchTypeOK
  <2> QED BY <1>3, <2>1, <2>2 DEF HandleEvent, WatchTypeOK, ParsesWhatIsKnown, AnnouncedIsOk
<1>4. CASE CheckCtrlC \/ EndDrain \/ LockfileRemoved \/ Sleep
  BY <1>4, EventSequences
     DEF CheckCtrlC, EndDrain, LockfileRemoved, Sleep, WatchTypeOK, ParsesWhatIsKnown, AnnouncedIsOk
<1> QED BY <1>1, <1>2, <1>3, <1>4

LEMMA BuildKeepsTypes ==
  ASSUME TInv,
         \/ Start \/ IncrementalBuild \/ FullBuild \/ StopAtParseError \/ Compile
         \/ \E f \in Source : ReadSource(f) \/ WriteAst(f) \/ FailSilently(f)
         \/ SourceIsGone \/ AstIsMissing
  PROVE  TInv'
<1> USE DEF TInv, diskVars, eventVars, stateVars, buildVars, resultVars, loopVars
<1>1. CASE Start
  BY <1>1, InitializeKeepsTypes DEF Start, WatchTypeOK, ParsesWhatIsKnown, AnnouncedIsOk
<1>2. CASE IncrementalBuild
  BY <1>2 DEF IncrementalBuild, BeginBuild, WatchTypeOK, ParsesWhatIsKnown, AnnouncedIsOk
<1>3. CASE FullBuild
  BY <1>3, InitializeKeepsTypes
     DEF FullBuild, BeginBuild, WatchTypeOK, ParsesWhatIsKnown, AnnouncedIsOk
<1>4. CASE StopAtParseError
  BY <1>4 DEF StopAtParseError, ParsingDone, EndBuild, Announcement, WatchTypeOK,
              ParsesWhatIsKnown, AnnouncedIsOk
<1>5. CASE Compile
  <2>1. \A f \in compileDirty : ast[f] # None
    BY <1>5 DEF Compile, NoAst, WatchTypeOK
  <2>2. /\ cmt' \in [Source -> Text \cup {None}]
        /\ cmtNewer' \subseteq {f \in Source : cmt'[f] # None}
        /\ compileDirty' \subseteq known
    BY <1>5, <2>1 DEF Compile, WatchTypeOK, CompileFails
  <2>3. /\ outcome' \in {"ok", "failed"}
        /\ announced' \in {"nothing", "incremental", "full"}
        /\ announced' = "incremental" => outcome' = "ok"
    BY <1>5 DEF Compile, EndBuild, Verdict, Announcement
  <2> QED BY <1>5, <2>2, <2>3
          DEF Compile, ParsingDone, EndBuild, WatchTypeOK, ParsesWhatIsKnown, AnnouncedIsOk
<1>6. ASSUME NEW f \in Source, ReadSource(f) PROVE TInv'
  BY <1>6 DEF ReadSource, Present, WatchTypeOK, ParsesWhatIsKnown, AnnouncedIsOk
<1>7. CASE SourceIsGone \/ AstIsMissing
  BY <1>7, EventSequences
     DEF SourceIsGone, AstIsMissing, Panic, WatchTypeOK, ParsesWhatIsKnown, AnnouncedIsOk
<1>8. ASSUME NEW f \in Source, WriteAst(f) PROVE TInv'
  <2> USE <1>8 DEF WriteAst
  <2>1. f \in known /\ step = "parse"
    BY DEF ParsesWhatIsKnown
  <2>2. CASE reading[f] \in Unparsable
    BY <2>1, <2>2 DEF StaysDirty, WatchTypeOK, ParsesWhatIsKnown, AnnouncedIsOk
  <2>3. CASE reading[f] \notin Unparsable
    <3>1. ast' \in [Source -> Text \cup {None}] /\ \A x \in Source : ast[x] # None \/ x = f => ast'[x] # None
      BY <2>3 DEF WatchTypeOK
    <3>2. WatchTypeOK'
      BY <2>1, <2>3, <3>1 DEF WatchTypeOK
    <3> QED BY <2>1, <2>3, <3>1, <3>2 DEF WatchTypeOK, ParsesWhatIsKnown, AnnouncedIsOk
  <2> QED BY <2>2, <2>3
<1>9. ASSUME NEW f \in Source, FailSilently(f) PROVE TInv'
  <2>1. f \in known /\ step = "parse"
    BY <1>9 DEF FailSilently, ParsesWhatIsKnown
  <2> QED BY <1>9, <2>1 DEF FailSilently, WatchTypeOK, ParsesWhatIsKnown, AnnouncedIsOk
<1> QED BY <1>1, <1>2, <1>3, <1>4, <1>5, <1>6, <1>7, <1>8, <1>9

LEMMA NextKeepsTypes == ASSUME TInv, [WatchNext]_vars PROVE TInv'
<1>1. CASE WatchNext
  <2>1. CASE UserStep \/ Notify
    BY <2>1, UserKeepsTypes, EventsKeepTypes
  <2>2. CASE CheckCtrlC \/ Drain \/ EndDrain \/ HandleEvent \/ LockfileRemoved \/ Sleep
    BY <2>2, EventsKeepTypes
  <2>3. CASE \/ Start \/ IncrementalBuild \/ FullBuild \/ StopAtParseError \/ Compile
             \/ \E f \in Source : ReadSource(f) \/ WriteAst(f) \/ FailSilently(f)
             \/ SourceIsGone \/ AstIsMissing
    BY <2>3, BuildKeepsTypes
  <2> QED BY <1>1, <2>1, <2>2, <2>3 DEF WatchNext, LoopStep
<1>2. CASE UNCHANGED vars
  BY <1>2 DEF vars, diskVars, eventVars, stateVars, buildVars, resultVars, loopVars, TInv, WatchTypeOK,
              ParsesWhatIsKnown, AnnouncedIsOk
<1> QED BY <1>1, <1>2

(* The state of the watcher has the types it should have, whatever the switches are: it
   parses and compiles only modules that it knows and does not compile a source without
   AST. *)
THEOREM WatcherTypeCorrect == WatchSpec => []WatchTypeOK
<1>1. WatchInit => TInv
  BY InitEstablishes DEF IInv
<1>2. TInv /\ [WatchNext]_vars => TInv'
  BY NextKeepsTypes
<1>3. TInv => WatchTypeOK
  BY DEF TInv
<1> QED BY <1>1, <1>2, <1>3, PTL DEF WatchSpec
-----------------------------------------------------------------------------
(* What was read, parsed and compiled is current. *)

LEMMA ChangeKeepsFiles ==
  ASSUME TInv, FInv, NEW f \in Source, NEW t \in Text \cup {None}, NEW kind,
         NEW older, Change(f, t, kind, older)
  PROVE  FInv'
BY DEF TInv, WatchTypeOK, FInv, ReadIsCurrent, AstIsText, CmtIsAst, DirtyOrCompiled, Present,
       Change, stateVars, buildVars, resultVars

LEMMA InitializeKeepsFiles ==
  ASSUME TInv, FInv, initialize_build, reading' = reading
  PROVE  FInv'
BY DEF TInv, WatchTypeOK, FInv, ReadIsCurrent, AstIsText, CmtIsAst, DirtyOrCompiled, Present,
       initialize_build

LEMMA NextKeepsFiles == ASSUME TInv, FInv, [WatchNext]_vars PROVE FInv'
<1>1. ASSUME NEW f \in Source, NEW t \in Text, Edit(f, t) \/ Create(f, t) \/ Replace(f, t)
      PROVE  FInv'
  BY <1>1, ChangeKeepsFiles DEF Edit, Create, Replace
<1>2. ASSUME NEW f \in Source, Delete(f) PROVE FInv'
  BY <1>2, ChangeKeepsFiles DEF Delete
<1>3. CASE Start \/ FullBuild
  BY <1>3, InitializeKeepsFiles DEF Start, FullBuild, BeginBuild, buildVars
<1>4. CASE Compile
  BY <1>4 DEF Compile, EndBuild, CompileFails, TInv, WatchTypeOK, FInv, ReadIsCurrent, AstIsText,
              CmtIsAst, DirtyOrCompiled, Present
<1>5. ASSUME NEW f \in Source, ReadSource(f) PROVE FInv'
  BY <1>5 DEF ReadSource, diskVars, stateVars, TInv, WatchTypeOK, FInv, ReadIsCurrent, AstIsText,
              CmtIsAst, DirtyOrCompiled, Present
<1>6. CASE SourceIsGone \/ AstIsMissing
  BY <1>6 DEF SourceIsGone, AstIsMissing, Panic, diskVars, stateVars, FInv, ReadIsCurrent,
              AstIsText, CmtIsAst, DirtyOrCompiled, Present
<1>7. ASSUME NEW f \in Source, WriteAst(f) PROVE FInv'
  <2>1. CASE reading[f] \in Unparsable
    BY <1>7, <2>1 DEF WriteAst, TInv, WatchTypeOK, FInv, ReadIsCurrent, AstIsText, CmtIsAst,
                      DirtyOrCompiled, Present
  <2>2. CASE reading[f] \notin Unparsable
    BY <1>7, <2>2 DEF WriteAst, TInv, WatchTypeOK, FInv, ReadIsCurrent, AstIsText, CmtIsAst,
                      DirtyOrCompiled, Present
  <2> QED BY <2>1, <2>2
<1>8. ASSUME NEW f \in Source, FailSilently(f) PROVE FInv'
  <2>1. /\ UNCHANGED <<text, ast, cmt, known>> /\ misdated' = misdated \cup {f}
        /\ \A x \in Source : x # f =>
             /\ reading'[x] = reading[x]
             /\ x \in astNewer' <=> x \in astNewer
             /\ x \in cmtNewer' <=> x \in cmtNewer
        /\ cmtNewer' \subseteq cmtNewer /\ compileDirty \subseteq compileDirty'
    BY <1>8 DEF FailSilently, TInv, WatchTypeOK
  <2>2. Present' = Present /\ Present \subseteq Source /\ known \subseteq Source
    BY <2>1 DEF Present, TInv, WatchTypeOK
  <2> QED BY <2>1, <2>2 DEF FInv, ReadIsCurrent, AstIsText, CmtIsAst, DirtyOrCompiled
<1>9. CASE \/ RemoveLockfile \/ PressCtrlC \/ Notify \/ CheckCtrlC \/ Drain \/ EndDrain
           \/ HandleEvent \/ LockfileRemoved \/ Sleep \/ IncrementalBuild \/ StopAtParseError
           \/ UNCHANGED vars
  <2>1. UNCHANGED <<text, ast, cmt, astNewer, cmtNewer, misdated, reading, known, compileDirty>>
    BY <1>9 DEF RemoveLockfile, PressCtrlC, Notify, CheckCtrlC, Drain, EndDrain, HandleEvent,
                LockfileRemoved, Sleep, IncrementalBuild, BeginBuild, StopAtParseError, EndBuild,
                vars, diskVars, stateVars, buildVars, resultVars
  <2> QED BY <2>1 DEF FInv, ReadIsCurrent, AstIsText, CmtIsAst, DirtyOrCompiled, Present
<1> QED BY <1>1, <1>2, <1>3, <1>4, <1>5, <1>6, <1>7, <1>8, <1>9 DEF WatchNext, UserStep, LoopStep

-----------------------------------------------------------------------------
(* No event is lost. *)

LEMMA ElemsOfSequence ==
  /\ Elems(<<>>) = {}
  /\ \A s \in Seq(Event), e \in Event : Elems(Append(s, e)) = Elems(s) \cup {e}
  /\ \A s \in Seq(Event) : s # <<>> => Elems(s) = Elems(Tail(s)) \cup {Head(s)}
<1>1. Elems(<<>>) = {}
  BY DEF Elems
<1>2. ASSUME NEW s \in Seq(Event), NEW e \in Event
      PROVE  Elems(Append(s, e)) = Elems(s) \cup {e}
  <2>1. ASSUME NEW i \in 1..Len(Append(s, e)) PROVE Append(s, e)[i] \in Elems(s) \cup {e}
    BY DEF Elems
  <2>2. ASSUME NEW i \in 1..Len(s)
        PROVE  i \in 1..Len(Append(s, e)) /\ s[i] = Append(s, e)[i]
    OBVIOUS
  <2>3. Len(s) + 1 \in 1..Len(Append(s, e)) /\ e = Append(s, e)[Len(s) + 1]
    OBVIOUS
  <2> QED BY <2>1, <2>2, <2>3 DEF Elems
<1>3. ASSUME NEW s \in Seq(Event), s # <<>> PROVE Elems(s) = Elems(Tail(s)) \cup {Head(s)}
  <2>1. ASSUME NEW i \in 1..Len(Tail(s)) PROVE Tail(s)[i] \in Elems(s)
    BY <1>3 DEF Elems
  <2>2. ASSUME NEW i \in 1..Len(s), i # 1 PROVE s[i] \in Elems(Tail(s))
    <3>1. i - 1 \in 1..Len(Tail(s))
      BY <1>3, <2>2
    <3>2. Tail(s)[i - 1] = s[(i - 1) + 1] /\ (i - 1) + 1 = i
      BY <1>3, <3>1
    <3> QED BY <3>1, <3>2 DEF Elems
  <2>3. Head(s) = s[1] /\ 1 \in 1..Len(s)
    BY <1>3
  <2>4. Elems(s) \subseteq Elems(Tail(s)) \cup {Head(s)}
    BY <2>2, <2>3 DEF Elems
  <2>5. Elems(Tail(s)) \subseteq Elems(s) /\ Head(s) \in Elems(s)
    BY <2>1, <2>3 DEF Elems
  <2> QED BY <2>4, <2>5
<1> QED BY <1>1, <1>2, <1>3

LEMMA EventsArePassedOn ==
  ASSUME TInv, Notify \/ Drain
  PROVE  Pending' = Pending
<1> USE DEF TInv, WatchTypeOK, Pending
<1>1. CASE Notify
  <2>1. /\ inFlight # <<>> /\ queue' = Append(queue, Head(inFlight)) /\ inFlight' = Tail(inFlight)
        /\ events' = events
    BY <1>1 DEF Notify, loopVars
  <2> QED BY <2>1, EventSequences, ElemsOfSequence
<1>2. CASE Drain
  <2>1. /\ queue # <<>> /\ events' = Append(events, Head(queue)) /\ queue' = Tail(queue)
        /\ inFlight' = inFlight
    BY <1>2 DEF Drain
  <2> QED BY <2>1, EventSequences, ElemsOfSequence
<1> QED BY <1>1, <1>2

LEMMA EventIsHandled ==
  ASSUME TInv, HandleEvent
  PROVE  Pending = Pending' \cup {Head(events)}
<1>1. events # <<>> /\ events' = Tail(events) /\ UNCHANGED <<inFlight, queue>>
  BY DEF HandleEvent, eventVars
<1> QED BY <1>1, ElemsOfSequence DEF TInv, WatchTypeOK, Pending

LEMMA EventIsReported ==
  ASSUME TInv, NEW e \in Event, inFlight' = Append(inFlight, e), UNCHANGED <<queue, events>>
  PROVE  Pending' = Pending \cup {e}
BY ElemsOfSequence DEF TInv, WatchTypeOK, Pending

LEMMA ChangeIsNoticed ==
  ASSUME TInv, EInv, OInv, NEW f \in Source, NEW t \in Text \cup {None},
         NEW kind \in {"data", "create", "remove", "name"}, NEW older,
         Change(f, t, kind, older), kind = "data" => f \in Present /\ t # None
  PROVE  EInv' /\ OInv'
<1>1. <<kind, f>> \in Event
  BY DEF Event
<1>2. Pending' = Pending \cup {<<kind, f>>}
  BY <1>1, EventIsReported DEF Change, loopVars
<1>3. UNCHANGED <<known, parseDirty, compileDirty, toParse, reading, hasFailure, outcome, needs, step>>
  BY DEF Change, stateVars, buildVars, resultVars, loopVars
<1>4. /\ text' = [text EXCEPT ![f] = t]
      /\ \A x \in Source : x # f => (x \in astNewer <=> x \in astNewer')
      /\ \A x \in Source : x # f => (x \in misdated <=> x \in misdated')
  BY DEF Change
<1>5. kind # "data" => ~Quiet'
  <2>1. <<kind, f>> \in Pending'
    BY <1>2
  <2>2. kind # "data" => <<kind, f>> \in Structural
    BY DEF Structural
  <2> QED BY <2>1, <2>2 DEF Quiet, Structural
<1>6. kind = "data" => Present' = Present /\ ~Unreported(f)'
  BY <1>2, <1>4 DEF Present, TInv, WatchTypeOK, Unreported
<1>7. \A x \in Source : Unreported(x)' => Unreported(x) /\ Quiet'
  BY <1>2 DEF Quiet, Unreported
<1>8. Quiet' => Quiet /\ Present' = Present
  BY <1>2, <1>5, <1>6 DEF Quiet
<1>9. \A x \in Source : Unreported(x)' => (x \in astNewer <=> x \in astNewer')
  BY <1>4, <1>5, <1>6, <1>7
<1>10. \A x \in Source : Unreported(x)' => (x \in misdated <=> x \in misdated')
  BY <1>4, <1>5, <1>6, <1>7
<1>11. Present \subseteq Source /\ Present' \subseteq Source /\ known \subseteq Source
  BY DEF Present, TInv, WatchTypeOK
<1>12. EInv'
  <2>1. KnownIsPresent'
    BY <1>3, <1>8 DEF EInv, KnownIsPresent, Settled, Over
  <2>2. DirtyOrParsed'
    BY <1>3, <1>7, <1>8, <1>9, <1>10, <1>11 DEF EInv, DirtyOrParsed, Settled, Over
  <2> QED BY <2>1, <2>2 DEF EInv
<1>13. OInv'
  <2>1. ParsedUnlessFailed'
    BY <1>3, <1>7, <1>8, <1>9, <1>10, <1>11 DEF OInv, ParsedUnlessFailed
  <2>2. OkIsTrue'
    BY <1>3, <1>7, <1>8, <1>9, <1>10, <1>11 DEF OInv, OkIsTrue, Over
  <2> QED BY <1>3, <2>1, <2>2 DEF OInv, NeededWhenBuilding
<1> QED BY <1>12, <1>13

(* Steps that disturb nothing but where the events are. *)
LEMMA PassingOnKeepsEvents ==
  ASSUME EInv, OInv, Pending \subseteq Pending', step' = step \/ {step, step'} \subseteq {"top", "drain", "handle"},
         UNCHANGED <<text, astNewer, misdated, known, parseDirty, compileDirty, toParse, reading,
                     hasFailure, outcome, needs>>
  PROVE  EInv' /\ OInv'
<1>1. Quiet' => Quiet
  BY DEF Quiet
<1>2. \A x \in Source : Unreported(x)' => Unreported(x)
  BY <1>1 DEF Unreported
<1>3. Present' = Present /\ Present \subseteq Source
  BY DEF Present
<1>4. EInv'
  BY <1>1, <1>2, <1>3 DEF EInv, KnownIsPresent, DirtyOrParsed, Settled, Over
<1>5. OInv'
  BY <1>2, <1>3 DEF OInv, ParsedUnlessFailed, OkIsTrue, NeededWhenBuilding, Over
<1> QED BY <1>4, <1>5

LEMMA UserIsNoticed == ASSUME TInv, EInv, OInv, UserStep PROVE EInv' /\ OInv'
<1>1. ASSUME NEW f \in Source, NEW t \in Text, Edit(f, t) \/ Create(f, t) \/ Replace(f, t)
      PROVE  EInv' /\ OInv'
  BY <1>1, ChangeIsNoticed, TextAssumption DEF Edit, Create, Replace
<1>2. ASSUME NEW f \in Source, Delete(f) PROVE EInv' /\ OInv'
  BY <1>2, ChangeIsNoticed DEF Delete
<1>3. CASE RemoveLockfile
  <2>1. <<"remove lockfile">> \in Event
    BY DEF Event
  <2>2. inFlight' = Append(inFlight, <<"remove lockfile">>) /\ UNCHANGED <<queue, events>>
    BY <1>3 DEF RemoveLockfile, loopVars
  <2>3. Pending \subseteq Pending'
    BY <2>1, <2>2, EventIsReported
  <2> QED BY <1>3, <2>3, PassingOnKeepsEvents
          DEF RemoveLockfile, diskVars, stateVars, buildVars, resultVars, loopVars
<1>4. CASE PressCtrlC
  <2>1. Pending' = Pending
    BY <1>4 DEF PressCtrlC, Pending, eventVars, loopVars
  <2> QED BY <1>4, <2>1, PassingOnKeepsEvents
          DEF PressCtrlC, diskVars, stateVars, buildVars, resultVars, loopVars
<1> QED BY <1>1, <1>2, <1>3, <1>4 DEF UserStep

LEMMA HandledIsMarked == ASSUME TInv, EInv, OInv, HandleEvent PROVE EInv' /\ OInv'
<1> DEFINE kind == Head(events)[1]
           f == Head(events)[2]
<1>1. events # <<>> /\ Head(events) \in Event /\ Head(events) # <<"remove lockfile">>
  BY EventSequences DEF HandleEvent, TInv, WatchTypeOK
<1>2. Head(events) = <<kind, f>> /\ kind \in {"data", "create", "remove", "name"} /\ f \in Source
  <2>1. Head(events) \in {"data", "create", "remove", "name"} \X Source
    BY <1>1 DEF Event
  <2> QED BY <2>1
<1>3. step = "handle" /\ UNCHANGED <<text, astNewer, misdated, known, compileDirty, toParse,
                                     reading, hasFailure, outcome, step>>
  BY DEF HandleEvent, diskVars, buildVars, resultVars
<1>4. Pending = Pending' \cup {<<kind, f>>}
  BY <1>2, EventIsHandled
<1>5. \/ needs' = "full"
      \/ /\ kind = "data"
         /\ \/ f \notin Present /\ UNCHANGED <<needs, parseDirty>>
            \/ /\ f \in Present /\ needs' = "incremental"
               /\ parseDirty' = parseDirty \cup ({f} \cap known)
         /\ needs # "full"
  <2>1. \/ needs = "full" /\ UNCHANGED needs
        \/ kind # "data" /\ needs' = "full"
        \/ needs # "full" /\ kind = "data" /\ f \notin Present /\ UNCHANGED <<needs, parseDirty>>
        \/ needs # "full" /\ kind = "data" /\ f \in Present /\ needs' = "incremental"
             /\ parseDirty' = MarkParseDirty(f)
    BY DEF HandleEvent
  <2> HIDE DEF kind, f
  <2> QED BY <2>1 DEF MarkParseDirty
<1> HIDE DEF kind, f
<1>6. CASE needs' = "full"
  BY <1>3, <1>6 DEF EInv, KnownIsPresent, DirtyOrParsed, Settled, OInv, ParsedUnlessFailed,
                    OkIsTrue, NeededWhenBuilding
<1>7. CASE needs' # "full"
  <2>1. kind = "data" /\ <<kind, f>> \notin Structural
    BY <1>5, <1>7 DEF Structural
  <2>2. Quiet' => Quiet
    BY <1>4, <2>1 DEF Quiet
  <2>3. \A x \in Source : x # f /\ Unreported(x)' => Unreported(x)
    BY <1>4, <2>1, <2>2 DEF Unreported
  <2>4. Present' = Present /\ Present \subseteq Source
    BY <1>3 DEF Present
  <2>5. f \in known \cap Present => f \in parseDirty' /\ needs' = "incremental"
    BY <1>5, <1>7
  <2>6. parseDirty \subseteq parseDirty' /\ (needs' = "full" <=> needs = "full")
          /\ (needs' = "none" => needs = "none" /\ f \notin Present)
    BY <1>5, <1>7
  <2>7. EInv'
    BY <1>3, <1>7, <2>2, <2>3, <2>4, <2>5, <2>6
       DEF EInv, KnownIsPresent, DirtyOrParsed, Settled, Over
  <2>8. OInv'
    BY <1>3, <2>3, <2>4, <2>6
       DEF OInv, ParsedUnlessFailed, OkIsTrue, NeededWhenBuilding, Over
  <2> QED BY <2>7, <2>8
<1> QED BY <1>5, <1>6, <1>7

LEMMA InitializeKnowsAll ==
  ASSUME TInv, initialize_build, needs' # "none"
  PROVE  /\ EInv'
         /\ (step' = "parse" => toParse' = parseDirty') => OInv'
<1>1. /\ known' = Present /\ Present' = Present
      /\ parseDirty' = Present \ astNewer /\ astNewer' = astNewer \cap Present
  BY DEF initialize_build, ParseDirty, Present
<1> QED BY <1>1 DEF EInv, KnownIsPresent, DirtyOrParsed, OInv, ParsedUnlessFailed, OkIsTrue,
                    NeededWhenBuilding

LEMMA NextKeepsEvents ==
  ASSUME TInv, EInv, OInv, [WatchNext]_vars
  PROVE  EInv' /\ OInv'
<1>1. CASE UserStep
  BY <1>1, UserIsNoticed
<1>2. CASE Notify \/ Drain
  BY <1>2, EventsArePassedOn, PassingOnKeepsEvents
     DEF Notify, Drain, diskVars, stateVars, buildVars, resultVars, loopVars
<1>3. CASE HandleEvent
  BY <1>3, HandledIsMarked
<1>4. CASE Start
  BY <1>4, InitializeKnowsAll DEF Start, OInv, NeededWhenBuilding
<1>5. CASE FullBuild
  BY <1>5, InitializeKnowsAll DEF FullBuild, BeginBuild
<1>6. CASE EndDrain \/ Sleep \/ UNCHANGED vars
  <2>1. Pending' = Pending
    BY <1>6 DEF EndDrain, Sleep, vars, eventVars, loopVars, Pending
  <2> QED BY <1>6, <2>1, PassingOnKeepsEvents
          DEF EndDrain, Sleep, vars, diskVars, stateVars, buildVars, resultVars, loopVars
<1>7. CASE CheckCtrlC \/ LockfileRemoved \/ SourceIsGone \/ AstIsMissing
  <2>1. CASE CheckCtrlC /\ ~pressed
    <3>1. Pending' = Pending
      BY <2>1 DEF CheckCtrlC, eventVars, Pending
    <3> QED BY <2>1, <3>1, PassingOnKeepsEvents
            DEF CheckCtrlC, diskVars, stateVars, buildVars, resultVars
  <2>2. CASE Over'
    BY <2>2 DEF Over, EInv, KnownIsPresent, DirtyOrParsed, Settled, OInv, ParsedUnlessFailed,
                OkIsTrue, NeededWhenBuilding
  <2> QED BY <1>7, <2>1, <2>2 DEF CheckCtrlC, LockfileRemoved, SourceIsGone, AstIsMissing, Panic, Over
<1>8. CASE IncrementalBuild
  <2>1. /\ UNCHANGED <<Pending, text, astNewer, misdated, known, parseDirty>>
        /\ toParse' = parseDirty /\ step = "handle" /\ step' = "parse"
        /\ needs = "incremental" /\ needs' = needs
    BY <1>8 DEF IncrementalBuild, BeginBuild, diskVars, stateVars, eventVars, Pending
  <2>2. UNCHANGED Quiet /\ \A x \in Source : UNCHANGED Unreported(x)
    BY <2>1 DEF Quiet, Unreported
  <2>3. Present' = Present /\ Present \subseteq Source
    BY <2>1 DEF Present
  <2>4. EInv'
    BY <2>1, <2>2, <2>3 DEF EInv, KnownIsPresent, DirtyOrParsed, Settled, Over
  <2>5. Settled
    BY <2>1 DEF Settled, Over
  <2>6. OInv'
    BY <2>1, <2>2, <2>3, <2>5
       DEF EInv, DirtyOrParsed, OInv, ParsedUnlessFailed, OkIsTrue, NeededWhenBuilding
  <2> QED BY <2>4, <2>6
<1>9. CASE StopAtParseError \/ Compile
  <2>1. /\ UNCHANGED <<Pending, text, astNewer, misdated, known, parseDirty>>
        /\ toParse = {} /\ \A x \in Source : reading[x] = None
        /\ step = "parse" /\ step' = "top" /\ needs' = "none"
    BY <1>9 DEF StopAtParseError, Compile, ParsingDone, EndBuild, eventVars, Pending
  <2>2. UNCHANGED Quiet /\ \A x \in Source : UNCHANGED Unreported(x)
    BY <2>1 DEF Quiet, Unreported
  <2>3. Present' = Present /\ Present \subseteq Source
    BY <2>1 DEF Present
  <2>4. EInv'
    BY <2>1, <2>2, <2>3 DEF EInv, KnownIsPresent, DirtyOrParsed, Settled, Over
  <2>5. outcome' = "ok" => ~hasFailure /\ compileDirty' = {}
    <3>1. CASE StopAtParseError
      BY <3>1 DEF StopAtParseError, EndBuild
    <3>2. CASE Compile
      <4>1. /\ ~hasFailure /\ compileDirty' = CompileFails
            /\ outcome' = Verdict({x \in compileDirty : ast[x] \notin Untypable})
        BY <3>2 DEF Compile, EndBuild
      <4> QED BY <4>1 DEF Verdict, CompileFails
    <3> QED BY <1>9, <3>1, <3>2
  <2>6. OInv'
    BY <2>1, <2>2, <2>3, <2>5
       DEF OInv, ParsedUnlessFailed, OkIsTrue, NeededWhenBuilding
  <2> QED BY <2>4, <2>6
<1>10. ASSUME NEW f \in Source, ReadSource(f) PROVE EInv' /\ OInv'
  <2>1. /\ UNCHANGED <<Pending, text, astNewer, misdated, known, parseDirty, compileDirty, hasFailure,
                       outcome, step, needs>>
        /\ step = "parse" /\ toParse' = toParse \ {f} /\ f \in Present
        /\ reading' = [reading EXCEPT ![f] = text[f]]
    BY <1>10 DEF ReadSource, diskVars, stateVars, eventVars, resultVars, loopVars, Pending
  <2>2. UNCHANGED Quiet /\ \A x \in Source : UNCHANGED Unreported(x)
    BY <2>1 DEF Quiet, Unreported
  <2>3. Present' = Present /\ Present \subseteq Source
    BY <2>1 DEF Present
  <2>4. EInv'
    BY <2>1, <2>2, <2>3 DEF EInv, KnownIsPresent, DirtyOrParsed, Settled, Over
  <2>5. reading'[f] # None /\ \A x \in Source : x # f => reading'[x] = reading[x]
    BY <2>1 DEF Present, TInv, WatchTypeOK
  <2>6. OInv'
    BY <2>1, <2>2, <2>3, <2>5
       DEF OInv, ParsedUnlessFailed, OkIsTrue, NeededWhenBuilding, Over
  <2> QED BY <2>4, <2>6
<1>11. ASSUME NEW f \in Source, WriteAst(f) PROVE EInv' /\ OInv'
  <2>1. /\ UNCHANGED <<Pending, text, known, outcome, step, needs, toParse>>
        /\ step = "parse"
        /\ \A x \in Source : x # f => reading'[x] = reading[x]
    <3>1. step = "parse"
      BY <1>11 DEF WriteAst, TInv, ParsesWhatIsKnown
    <3> QED BY <1>11, <3>1
            DEF WriteAst, eventVars, resultVars, loopVars, Pending, TInv, WatchTypeOK
  <2>2. UNCHANGED Quiet /\ \A x \in Source : UNCHANGED Unreported(x)
    BY <2>1 DEF Quiet, Unreported
  <2>3. Present' = Present /\ Present \subseteq Source
    BY <2>1 DEF Present
  <2>4. /\ astNewer \subseteq astNewer' /\ parseDirty \ {f} \subseteq parseDirty'
        /\ ~hasFailure' => ~hasFailure /\ f \in astNewer'
        /\ misdated' \cup {f} = misdated \cup {f}
        /\ misdated' = misdated \/ f \in astNewer'
        /\ f \in astNewer' \cup parseDirty'
    BY <1>11 DEF WriteAst, StaysDirty
  <2>5. EInv'
    BY <2>1, <2>2, <2>3, <2>4 DEF EInv, KnownIsPresent, DirtyOrParsed, Settled, Over
  <2>6. OInv'
    BY <2>1, <2>2, <2>3, <2>4
       DEF OInv, ParsedUnlessFailed, OkIsTrue, NeededWhenBuilding, Over
  <2> QED BY <2>5, <2>6
<1>12. ASSUME NEW f \in Source, FailSilently(f) PROVE EInv' /\ OInv'
  <2>1. /\ UNCHANGED <<Pending, text, known, hasFailure, outcome, step, needs, toParse>>
        /\ step = "parse"
        /\ \A x \in Source : x # f => reading'[x] = reading[x]
    <3>1. step = "parse"
      BY <1>12 DEF FailSilently, TInv, ParsesWhatIsKnown
    <3> QED BY <1>12, <3>1
            DEF FailSilently, eventVars, resultVars, loopVars, Pending, TInv, WatchTypeOK
  <2>2. UNCHANGED Quiet /\ \A x \in Source : UNCHANGED Unreported(x)
    BY <2>1 DEF Quiet, Unreported
  <2>3. Present' = Present /\ Present \subseteq Source
    BY <2>1 DEF Present
  <2>4. /\ astNewer \subseteq astNewer' /\ parseDirty \ {f} \subseteq parseDirty'
        /\ misdated' = misdated \cup {f}
    BY <1>12 DEF FailSilently
  <2>5. EInv'
    BY <2>1, <2>2, <2>3, <2>4 DEF EInv, KnownIsPresent, DirtyOrParsed, Settled, Over
  <2>6. needs # "none"
    BY <2>1 DEF OInv, NeededWhenBuilding
  <2>7. OInv'
    BY <2>1, <2>2, <2>3, <2>4, <2>6
       DEF OInv, ParsedUnlessFailed, OkIsTrue, NeededWhenBuilding, Over
  <2> QED BY <2>5, <2>7
<1> QED BY <1>1, <1>2, <1>3, <1>4, <1>5, <1>6, <1>7, <1>8, <1>9, <1>10, <1>11, <1>12
        DEF WatchNext, LoopStep

-----------------------------------------------------------------------------
LEMMA AtRestIsTrue == IInv => NothingForgotten /\ LastOutcomeIsTrue
<1> SUFFICES ASSUME IInv, AtRest
             PROVE  /\ known = Present
                    /\ \A f \in Present \ misdated :
                         cmt[f] = text[f] \/ f \in parseDirty \cup compileDirty
                    /\ outcome = "ok" \/ announced = "incremental" =>
                         \A f \in Present \ misdated : cmt[f] = text[f]
  BY DEF NothingForgotten, LastOutcomeIsTrue
<1>1. Settled /\ ~Over /\ needs = "none"
  BY DEF AtRest, Settled, Over
<1>2. Pending = {}
  BY ElemsOfSequence DEF AtRest, Pending
<1>3. Quiet /\ \A f \in Source : Unreported(f)
  BY <1>2 DEF Quiet, Unreported
<1>4. known = Present /\ Present \subseteq Source
  BY <1>1, <1>3 DEF IInv, EInv, KnownIsPresent, Present
<1>5. \A f \in Present \ misdated : f \in astNewer \cup parseDirty
  BY <1>1, <1>3, <1>4 DEF IInv, EInv, DirtyOrParsed
<1>6. \A f \in (Present \cap astNewer) \ misdated : f \in compileDirty \/ cmt[f] = text[f]
  BY <1>4 DEF IInv, FInv, DirtyOrCompiled, CmtIsAst, AstIsText
<1>7. outcome = "ok" => compileDirty = {} /\ \A f \in Present \ misdated : f \in astNewer
  BY <1>1, <1>3, <1>4 DEF IInv, OInv, OkIsTrue
<1>8. announced = "incremental" => outcome = "ok"
  BY DEF IInv, TInv, AnnouncedIsOk
<1> QED BY <1>4, <1>5, <1>6, <1>7, <1>8

LEMMA Inductive == WatchSpec => []IInv
<1>1. WatchInit => IInv
  BY InitEstablishes
<1>2. IInv /\ [WatchNext]_vars => IInv'
  BY NextKeepsTypes, NextKeepsFiles, NextKeepsEvents DEF IInv
<1> QED BY <1>1, <1>2, PTL DEF WatchSpec

(* Whatever is edited, moved or deleted when and however bsc fails, a watcher at rest has
   forgotten no change: every source on disk is known, parsed and compiled as it is now, or
   marked for the next build, unless its own times mislead. *)
THEOREM NoChangeIsForgotten == WatchSpec => []NothingForgotten
<1>1. IInv => NothingForgotten
  BY AtRestIsTrue
<1> QED BY <1>1, Inductive, PTL

(* If the last build of a watcher at rest reported no error, or was announced as an
   incremental compilation that finished, then the compiler has accepted every source as it is
   now, unless its own times mislead.  "Finished compilation", which follows every full build
   whatever came of it, is no part of this. *)
THEOREM OutcomeIsTrue == WatchSpec => []LastOutcomeIsTrue
<1>1. IInv => LastOutcomeIsTrue
  BY AtRestIsTrue
<1> QED BY <1>1, Inductive, PTL

(* A time misleads only if a source changes while bsc parses it, if a file that is moved to a
   source is older than the AST, or if a bsc fails in silence. *)
LEMMA NothingMisleads ==
  ASSUME ~EditsWhileParsed, ~OldFilesMoved, ~SilentFailures
  PROVE  WatchSpec => [](misdated = {})
<1>1. WatchInit => misdated = {}
  BY DEF WatchInit
<1>2. misdated = {} /\ [WatchNext]_vars => (misdated = {})'
  <2> SUFFICES ASSUME misdated = {}, [WatchNext]_vars PROVE misdated' = {}
    OBVIOUS
  <2>1. ASSUME NEW f \in Source, NEW t \in Text, Edit(f, t) \/ Create(f, t) \/ Replace(f, t)
        PROVE  misdated' = {}
    <3>1. reading[f] = None
      BY <2>1 DEF Edit, Create, Replace
    <3>2. PICK kind : Change(f, t, kind, FALSE)
      BY <2>1, WatchAssumption DEF Edit, Create, Replace
    <3> QED BY <3>1, <3>2 DEF Change
  <2>2. ASSUME NEW f \in Source, Delete(f) PROVE misdated' = {}
    BY <2>2 DEF Delete, Change
  <2>3. ASSUME NEW f \in Source, WriteAst(f) PROVE misdated' = {}
    BY <2>3 DEF WriteAst
  <2> QED BY <2>1, <2>2, <2>3
          DEF WatchNext, UserStep, LoopStep, FailSilently, RemoveLockfile, PressCtrlC, Notify, Start,
              CheckCtrlC, Drain, EndDrain, HandleEvent, LockfileRemoved, Sleep, IncrementalBuild,
              FullBuild, BeginBuild, initialize_build, ReadSource, SourceIsGone, AstIsMissing, Panic,
              StopAtParseError, Compile, EndBuild, vars, diskVars
<1> QED BY <1>1, <1>2, PTL DEF WatchSpec

(* If none of the three happens then the full scan does find every change, as the comment at
   the events that mark nothing says. *)
THEOREM FullScanIsEnough ==
  ASSUME ~EditsWhileParsed, ~OldFilesMoved, ~SilentFailures
  PROVE  WatchSpec => []FullScanFindsChanges
<1>1. NothingForgotten /\ misdated = {} => FullScanFindsChanges
  BY DEF NothingForgotten, FullScanFindsChanges
<1> QED BY <1>1, NoChangeIsForgotten, NothingMisleads, PTL
-----------------------------------------------------------------------------
(* A step changes the set of woken threads by one at most. *)
LEMMA WokenIsFinite == ASSUME QueueTypeOK PROVE IsFiniteSet(woken) /\ IsFiniteSet(waiting)
BY QueueAssumption, FS_Subset DEF QueueTypeOK

LEMMA TypeOKInit == QueueInit => QueueTypeOK
BY DEF QueueInit, QueueTypeOK

LEMMA TypeOKStep == ASSUME QueueTypeOK, [QueueNext]_queueVars PROVE QueueTypeOK'
<1> USE DEF QueueTypeOK
<1>1. ASSUME NEW v \in Value, push(v) PROVE QueueTypeOK'
  BY <1>1 DEF push, notify_one
<1>2. ASSUME NEW c \in Consumer, pop(c) PROVE QueueTypeOK'
  <2>1. CASE data = <<>>
    BY <1>2, <2>1 DEF pop
  <2>2. CASE data # <<>>
    <3>1. Head(data) \in Value /\ Tail(data) \in Seq(Value)
      BY <2>2
    <3> QED BY <1>2, <2>2, <3>1 DEF pop, pop_front
  <2> QED BY <2>1, <2>2
<1>3. ASSUME NEW c \in Consumer, SpuriousWakeup(c) PROVE QueueTypeOK'
  BY <1>3 DEF SpuriousWakeup
<1>4. CASE UNCHANGED queueVars
  BY <1>4 DEF queueVars
<1> QED BY <1>1, <1>2, <1>3, <1>4 DEF QueueNext

(* The queue, what threads wait and what they were given keep their types. *)
THEOREM QueueTypeCorrect == QueueSpec => []QueueTypeOK
<1>1. QueueInit => QueueTypeOK
  BY TypeOKInit
<1>2. QueueTypeOK /\ [QueueNext]_queueVars => QueueTypeOK'
  BY TypeOKStep
<1> QED BY <1>1, <1>2, PTL DEF QueueSpec

-----------------------------------------------------------------------------
LEMMA NoLostWakeupStep ==
  ASSUME QueueTypeOK, NoLostWakeup, [QueueNext]_queueVars PROVE NoLostWakeup'
<1> USE DEF QueueTypeOK, NoLostWakeup
<1>0. IsFiniteSet(woken) /\ Cardinality(woken) \in Nat /\ Len(data) \in Nat
  BY WokenIsFinite, FS_CardinalityType
<1>1. ASSUME NEW v \in Value, push(v) PROVE NoLostWakeup'
  <2>1. Len(data') = Len(data) + 1
    BY <1>1 DEF push
  <2>2. CASE waiting = {}
    BY <1>1, <2>2 DEF push, notify_one
  <2>3. CASE waiting # {}
    <3>1. PICK c \in waiting : waiting' = waiting \ {c} /\ woken' = woken \cup {c}
      BY <1>1, <2>3 DEF push, notify_one
    <3>2. c \notin woken
      BY DEF QueueTypeOK
    <3>3. Cardinality(woken') = Cardinality(woken) + 1
      BY <1>0, <3>1, <3>2, FS_AddElement
    <3> QED BY <1>0, <2>1, <2>3, <3>3
  <2> QED BY <2>2, <2>3
<1>2. ASSUME NEW c \in Consumer, pop(c) PROVE NoLostWakeup'
  <2>1. IsFiniteSet(woken') /\ Cardinality(woken') \in Nat
    BY <1>0, <1>2, FS_RemoveElement, FS_CardinalityType DEF pop
  <2>2. CASE data = <<>>
    <3>1. Len(data') = 0
      BY <1>2, <2>2 DEF pop
    <3> QED BY <2>1, <3>1
  <2>3. CASE data # <<>>
    <3>1. Len(data') = Len(data) - 1 /\ waiting' = waiting /\ woken' = woken \ {c}
      BY <1>2, <2>3 DEF pop, pop_front
    <3>2. Cardinality(woken') >= Cardinality(woken) - 1
      <4>1. CASE c \in woken
        <5>1. Cardinality(woken \ {c}) = Cardinality(woken) - 1
          BY <1>0, <4>1, FS_RemoveElement
        <5> QED BY <1>0, <3>1, <5>1
      <4>2. CASE c \notin woken
        <5>1. woken' = woken
          BY <3>1, <4>2
        <5> QED BY <1>0, <5>1
      <4> QED BY <4>1, <4>2
    <3> QED BY <1>0, <2>1, <3>1, <3>2
  <2> QED BY <2>2, <2>3
<1>3. ASSUME NEW c \in Consumer, SpuriousWakeup(c) PROVE NoLostWakeup'
  <2>1. c \notin woken
    BY <1>3 DEF SpuriousWakeup
  <2>2. Cardinality(woken') = Cardinality(woken) + 1 /\ data' = data /\ waiting # {}
    BY <1>0, <1>3, <2>1, FS_AddElement DEF SpuriousWakeup
  <2> QED BY <1>0, <2>2
<1>4. CASE UNCHANGED queueVars
  BY <1>4 DEF queueVars
<1> QED BY <1>1, <1>2, <1>3, <1>4 DEF QueueNext

(* However many threads push and pop and whenever a wait returns by itself, a thread that
   sleeps leaves no value behind for which no other thread was woken. *)
THEOREM NoWakeupIsLost == QueueSpec => []NoLostWakeup
<1>1. QueueInit => NoLostWakeup
  BY DEF QueueInit, NoLostWakeup
<1>2. QueueTypeOK /\ NoLostWakeup /\ [QueueNext]_queueVars => NoLostWakeup'
  BY NoLostWakeupStep
<1> QED BY <1>1, <1>2, QueueTypeCorrect, PTL DEF QueueSpec

-----------------------------------------------------------------------------
LEMMA AtomicStep == [QueueNext]_queueVars => [Atomic!AtomicNext]_Atomic!atomicVars
<1> USE DEF Atomic!AtomicNext, Atomic!atomicVars
<1>1. ASSUME NEW v \in Value, push(v) PROVE Atomic!AtomicPush(v)
  BY <1>1 DEF push, Atomic!AtomicPush
<1>2. ASSUME NEW c \in Consumer, pop(c), data # <<>> PROVE Atomic!AtomicPop(c)
  BY <1>2 DEF pop, pop_front, Atomic!AtomicPop
<1>3. ASSUME NEW c \in Consumer, pop(c), data = <<>> PROVE UNCHANGED Atomic!atomicVars
  BY <1>3 DEF pop
<1>4. ASSUME NEW c \in Consumer, SpuriousWakeup(c) PROVE UNCHANGED Atomic!atomicVars
  BY <1>4 DEF SpuriousWakeup
<1>5. CASE UNCHANGED queueVars
  BY <1>5 DEF queueVars
<1> QED BY <1>1, <1>2, <1>3, <1>4, <1>5 DEF QueueNext

(* The mutex, the waits and the wake-ups implement a queue whose pushes and pops are
   atomic. *)
THEOREM QueueIsAtomic == QueueSpec => ImplementsAtomicQueue
<1>1. QueueInit => Atomic!AtomicInit
  BY DEF QueueInit, Atomic!AtomicInit
<1> QED BY <1>1, AtomicStep, PTL DEF QueueSpec, ImplementsAtomicQueue, Atomic!AtomicSpec
=============================================================================
