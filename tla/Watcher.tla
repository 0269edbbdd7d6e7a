------------------------------ MODULE Watcher ------------------------------
(***************************************************************************)
(* `rescript watch` (rewatch/src/watcher.rs).  The notifier, a thread of   *)
(* its own, pushes file-system events to a queue (module FifoQueue, taken  *)
(* here as the sequence it implements).  The event loop drains the queue,  *)
(* decides between an incremental build of the BuildState it has and a     *)
(* full one that reads the project again, builds, and starts over.  The    *)
(* user changes sources at any time, also while a build runs.              *)
(*                                                                         *)
(* Times are those that are compared: whether the copy of an AST in        *)
(* lib/ocaml is newer than the source and a .cmt newer than that copy.     *)
(* The compile loop is that of module Compile and is one step here;        *)
(* sources do not depend on others.                                        *)
(***************************************************************************)
EXTENDS Naturals, Sequences

CONSTANTS
  Source,       \* source files, in the project or not
  Text,         \* what may be in one
  Unparsable,   \* texts with a syntax error
  Warned,       \* texts with a warning of the parser
  Untypable,    \* texts with a type error
  None,         \* no file, or no AST
  EditsWhileParsed,  \* may a source be edited between bsc reading it and the AST?
  OldFilesMoved,     \* may a file that is moved to a source be older than the AST?
  SilentFailures,    \* may a bsc that parses fail without a word on stderr?
  MaxChanges    \* a bound on the changes to sources

ASSUME TextAssumption ==
  /\ Unparsable \subseteq Text /\ Warned \subseteq Text /\ Untypable \subseteq Text
  /\ None \notin Text
ASSUME WatchAssumption ==
  /\ EditsWhileParsed \in BOOLEAN /\ OldFilesMoved \in BOOLEAN /\ SilentFailures \in BOOLEAN
  /\ MaxChanges \in Nat

VARIABLES
  text,         \* the source files
  ast, cmt,     \* the text from which the .ast in lib/bs and the .cmt were made
  copied,       \* sources with a copy of the .ast in lib/ocaml
  astNewer,     \* sources that are older than that copy
  cmtNewer,     \* sources with a .cmt that is newer than it
  misdated,     \* sources of which the copy may be newer and not made from their text
  inFlight,     \* events on their way to the notifier
  queue,        \* q, the FifoQueue
  changes,
  needs,        \* needs_compile_type
  step,         \* where the event loop is
  events,       \* the events that were drained
  pressed,      \* ctrlc_pressed
  known,        \* the modules of build_state
  parseDirty, compileDirty,
  toParse,      \* sources for which generate_asts has still to run bsc
  reading,      \* what a bsc that parses has read
  hasFailure,   \* a parse of this build failed
  outcome,      \* what the last incremental_build returned; it prints its errors
  announced     \* the kind of compilation that the loop called finished after it

diskVars  == <<text, ast, cmt, copied, astNewer, cmtNewer, misdated>>
eventVars == <<inFlight, queue>>
stateVars == <<known, parseDirty, compileDirty>>
resultVars == <<outcome, announced>>
buildVars == <<toParse, reading, hasFailure, resultVars>>
loopVars  == <<needs, step, events>>
vars == <<diskVars, eventVars, changes, pressed, stateVars, buildVars, loopVars>>

Present == {f \in Source : text[f] # None}
Event == {"data", "create", "remove", "name"} \X Source \cup {<<"remove lockfile">>}
Over == step \in {"ended", "panicked"}

WatchTypeOK ==
  /\ text \in [Source -> Text \cup {None}]
  /\ ast \in [Source -> Text \cup {None}] /\ cmt \in [Source -> Text \cup {None}]
  /\ astNewer \subseteq copied /\ copied \subseteq {f \in Source : ast[f] # None}
  /\ cmtNewer \subseteq {f \in Source : cmt[f] # None}
  /\ misdated \subseteq Source
  /\ inFlight \in Seq(Event) /\ queue \in Seq(Event) /\ events \in Seq(Event)
  /\ changes \in 0..MaxChanges
  /\ needs \in {"incremental", "full", "none"}
  /\ step \in {"starting", "top", "drain", "handle", "parse", "ended", "panicked"}
  /\ pressed \in BOOLEAN
  /\ known \subseteq Source /\ parseDirty \subseteq known /\ compileDirty \subseteq known
  /\ toParse \subseteq known
  /\ reading \in [Source -> Text \cup {None}]
  /\ hasFailure \in BOOLEAN
  /\ outcome \in {"none", "ok", "failed"}
  /\ announced \in {"nothing", "incremental", "full"}

(* A project that was never built; start() watches the folder before async_watch calls
   initialize_build. *)
WatchInit ==
  /\ text \in [Source -> Text \cup {None}]
  /\ ast = [f \in Source |-> None] /\ cmt = ast
  /\ copied = {} /\ astNewer = {} /\ cmtNewer = {} /\ misdated = {}
  /\ inFlight = <<>> /\ queue = <<>> /\ changes = 0
  /\ needs = "incremental" /\ step = "starting" /\ events = <<>> /\ pressed = FALSE
  /\ known = {} /\ parseDirty = {} /\ compileDirty = {}
  /\ toParse = {} /\ reading = [f \in Source |-> None]
  /\ hasFailure = FALSE /\ outcome = "none" /\ announced = "nothing"

-----------------------------------------------------------------------------
(* The user and the file system. *)

(* What is written gets the time of now, a file that is moved keeps the one it has.  The
   times mislead if they are not those of an AST that is older than the change: the file that
   was moved is older, or bsc has still to write the AST of the text before. *)
Change(f, t, kind, older) ==
  /\ changes < MaxChanges /\ changes' = changes + 1
  /\ text' = [text EXCEPT ![f] = t]
  /\ astNewer' = IF older THEN astNewer \cup ({f} \cap copied) ELSE astNewer \ {f}
  /\ misdated' = IF f \in astNewer' \/ (t # None /\ reading[f] # None)
                 THEN misdated \cup {f} ELSE misdated \ {f}
  /\ inFlight' = Append(inFlight, <<kind, f>>)
  /\ UNCHANGED <<ast, cmt, copied, cmtNewer, queue, pressed, stateVars, buildVars, loopVars>>

Edit(f, t) ==
  /\ f \in Present /\ t # text[f]
  /\ EditsWhileParsed \/ reading[f] = None
  /\ Change(f, t, "data", FALSE)

(* A source that is new, written or moved there. *)
Create(f, t) ==
  /\ f \notin Present
  /\ EditsWhileParsed \/ reading[f] = None
  /\ \E older \in {FALSE, OldFilesMoved} : Change(f, t, "create", older)

Delete(f) == f \in Present /\ Change(f, None, "remove", FALSE)

(* A file is moved over the source: one that an editor has just written, or an old one. *)
Replace(f, t) ==
  /\ f \in Present /\ t # text[f]
  /\ EditsWhileParsed \/ reading[f] = None
  /\ \E older \in {FALSE, OldFilesMoved} : Change(f, t, "name", older)

RemoveLockfile ==
  /\ \A i \in 1..Len(inFlight) : inFlight[i] # <<"remove lockfile">>
  /\ changes < MaxChanges /\ changes' = changes + 1
  /\ inFlight' = Append(inFlight, <<"remove lockfile">>)
  /\ UNCHANGED <<diskVars, queue, pressed, stateVars, buildVars, loopVars>>

PressCtrlC ==
  /\ ~pressed /\ pressed' = TRUE
  /\ UNCHANGED <<diskVars, eventVars, changes, stateVars, buildVars, loopVars>>

(* The thread of the notifier: producer.push. *)
Notify ==
  /\ inFlight # <<>>
  /\ queue' = Append(queue, Head(inFlight)) /\ inFlight' = Tail(inFlight)
  /\ UNCHANGED <<diskVars, changes, pressed, stateVars, buildVars, loopVars>>

-----------------------------------------------------------------------------
(* The event loop. *)

(* The build state is read from disk: what is newer than what it was made from is not
   dirty.  Artifacts of sources that are gone are removed (cleanup_previous_build), but
   the AST in lib/bs stays. *)
ParseDirty == Present \ astNewer

initialize_build ==
  /\ known' = Present
  /\ parseDirty' = ParseDirty
  /\ compileDirty' = Present \ cmtNewer
  /\ copied' = copied \cap Present
  /\ cmt' = [f \in Source |-> IF f \in Present THEN cmt[f] ELSE None]
  /\ astNewer' = astNewer \cap Present
  /\ cmtNewer' = cmtNewer \cap Present
  /\ UNCHANGED <<text, ast, misdated>>

Start ==
  /\ step = "starting" /\ step' = "top"
  /\ initialize_build
  /\ UNCHANGED <<eventVars, changes, pressed, buildVars, needs, events>>

(* Each round of the loop begins with a look at ctrlc_pressed. *)
CheckCtrlC_Never ==
  /\ step = "top" /\ step' = "drain"
  /\ UNCHANGED <<diskVars, eventVars, changes, pressed, stateVars, buildVars, needs, events>>
CheckCtrlC ==
  /\ step = "top"
  /\ step' = IF pressed THEN "ended" ELSE "drain"
  /\ UNCHANGED <<diskVars, eventVars, changes, pressed, stateVars, buildVars, needs, events>>

(* `while !q.is_empty() { q.pop() }`. *)
Drain ==
  /\ step = "drain" /\ queue # <<>>
  /\ events' = Append(events, Head(queue)) /\ queue' = Tail(queue)
  /\ UNCHANGED <<diskVars, inFlight, changes, pressed, stateVars, buildVars, needs, step>>

EndDrain ==
  /\ step = "drain" /\ queue = <<>>
  /\ step' = "handle"
  /\ UNCHANGED <<diskVars, eventVars, changes, pressed, stateVars, buildVars, needs, events>>

(* build_state.modules.get_mut: a source without a module is passed over. *)
MarkParseDirty(f) == parseDirty \cup ({f} \cap known)

(* While a full build is due, events are passed over.  Otherwise a change of contents
   marks its source dirty, if the file and a module for it exist, and any other change
   asks for a full build. *)
HandleEvent ==
  /\ step = "handle" /\ events # <<>> /\ Head(events) # <<"remove lockfile">>
  /\ events' = Tail(events)
  /\ LET kind == Head(events)[1]
         f == Head(events)[2]
     IN \/ needs = "full" /\ UNCHANGED <<needs, parseDirty>>
        \/ needs # "full" /\ kind # "data" /\ needs' = "full" /\ UNCHANGED parseDirty
        \/ needs # "full" /\ kind = "data" /\ f \notin Present /\ UNCHANGED <<needs, parseDirty>>
        \/ /\ needs # "full" /\ kind = "data" /\ f \in Present
           /\ needs' = "incremental"
           /\ parseDirty' = MarkParseDirty(f)
  /\ UNCHANGED <<diskVars, eventVars, changes, pressed, known, compileDirty, buildVars, step>>

(* Exiting... (lockfile removed) *)
LockfileRemoved ==
  /\ step = "handle" /\ events # <<>> /\ Head(events) = <<"remove lockfile">>
  /\ step' = "ended" /\ events' = <<>>
  /\ UNCHANGED <<diskVars, eventVars, changes, pressed, stateVars, buildVars, needs>>

Sleep ==
  /\ step = "handle" /\ events = <<>> /\ needs = "none"
  /\ step' = "top"
  /\ UNCHANGED <<diskVars, eventVars, changes, pressed, stateVars, buildVars, needs, events>>

BeginBuild ==
  /\ toParse' = parseDirty'
  /\ step' = "parse" /\ hasFailure' = FALSE
  /\ UNCHANGED <<eventVars, changes, pressed, reading, resultVars, needs, events>>

IncrementalBuild ==
  /\ step = "handle" /\ events = <<>> /\ needs = "incremental"
  /\ UNCHANGED <<diskVars, stateVars>>
  /\ BeginBuild

FullBuild ==
  /\ step = "handle" /\ events = <<>> /\ needs = "full"
  /\ initialize_build
  /\ BeginBuild

(* generate_asts: the sources are parsed in parallel.  A source that is gone when
   generate_ast reads it ends the watcher: `.expect("Error reading file")`. *)
ReadSource(f) ==
  /\ step = "parse" /\ f \in toParse \cap Present
  /\ toParse' = toParse \ {f}
  /\ reading' = [reading EXCEPT ![f] = text[f]]
  /\ UNCHANGED <<diskVars, eventVars, changes, pressed, stateVars, hasFailure, resultVars,
                 loopVars>>

Panic ==
  /\ step' = "panicked" /\ events' = <<>>
  /\ reading' = [f \in Source |-> None] /\ toParse' = {}
  /\ UNCHANGED <<diskVars, eventVars, changes, pressed, stateVars, hasFailure, resultVars, needs>>

SourceIsGone == step = "parse" /\ toParse \ Present # {} /\ Panic

(* bsc ends.  A source with an error or a warning stays parse_dirty. *)
StaysDirty(t) == t \in Unparsable \cup Warned

WriteAst(f) ==
  /\ reading[f] # None
  /\ reading' = [reading EXCEPT ![f] = None]
  /\ parseDirty' = IF StaysDirty(reading[f]) THEN parseDirty \cup {f} ELSE parseDirty \ {f}
  /\ compileDirty' = compileDirty \cup {f}
  /\ IF reading[f] \in Unparsable
     THEN hasFailure' = TRUE /\ UNCHANGED <<ast, copied, astNewer, cmtNewer, misdated>>
     ELSE /\ ast' = [ast EXCEPT ![f] = reading[f]]
          /\ copied' = copied \cup {f}
          /\ astNewer' = astNewer \cup {f}
          /\ cmtNewer' = cmtNewer \ {f}
          /\ misdated' = IF reading[f] = text[f] THEN misdated \ {f} ELSE misdated
          /\ UNCHANGED hasFailure
  /\ UNCHANGED <<text, cmt, eventVars, changes, pressed, known, toParse, resultVars, loopVars>>

(* A bsc that fails and prints nothing, because it was killed, counts as one that
   succeeded; the AST that there is, if any, is copied again. *)
FailSilently(f) ==
  /\ SilentFailures
  /\ reading[f] # None
  /\ reading' = [reading EXCEPT ![f] = None]
  /\ parseDirty' = parseDirty \ {f}
  /\ compileDirty' = compileDirty \cup {f}
  /\ LET copy == IF ast[f] # None THEN {f} ELSE {}
     IN /\ copied' = copied \cup copy
        /\ astNewer' = astNewer \cup copy
        /\ cmtNewer' = cmtNewer \ copy
  /\ misdated' = misdated \cup {f}
  /\ UNCHANGED <<text, ast, cmt, eventVars, changes, pressed, known, toParse, hasFailure,
                 resultVars, loopVars>>

ParsingDone == step = "parse" /\ toParse = {} /\ \A f \in Source : reading[f] = None

(* "Finished incremental compilation" follows a success; "Finished compilation" follows any
   full build, the result of which is dropped. *)
Announcement(verdict) ==
  CASE needs = "full" -> "full"
    [] needs # "full" /\ verdict = "ok" -> "incremental"
    [] OTHER -> "nothing"

EndBuild_StillNeeded(verdict) ==
  /\ outcome' = verdict /\ announced' = Announcement(verdict)
  /\ step' = "top"
  /\ UNCHANGED <<text, ast, copied, astNewer, misdated, eventVars, changes, pressed, known,
                 parseDirty, toParse, reading, hasFailure, needs, events>>
EndBuild(verdict) ==
  /\ outcome' = verdict /\ announced' = Announcement(verdict)
  /\ needs' = "none" /\ step' = "top"
  /\ UNCHANGED <<text, ast, copied, astNewer, misdated, eventVars, changes, pressed, known,
                 parseDirty, toParse, reading, hasFailure, events>>

(* Err(SourceFileParseError). *)
StopAtParseError ==
  /\ ParsingDone /\ hasFailure
  /\ EndBuild("failed")
  /\ UNCHANGED <<cmt, cmtNewer, compileDirty>>

(* get_deps reads the AST of every module: `panic!("Could not read file ...")`. *)
NoAst_Skipped == {}
NoAst == {f \in known : ast[f] = None}

AstIsMissing == ParsingDone /\ ~hasFailure /\ NoAst # {} /\ Panic

(* compile::compile, of all that is compile_dirty; what fails stays so. *)
CompileFails_Forgotten == {}
CompileFails == {f \in compileDirty : ast[f] \in Untypable}

Verdict_AlwaysOk(built) == "ok"
Verdict(built) == IF compileDirty = built THEN "ok" ELSE "failed"

Compile ==
  /\ ParsingDone /\ ~hasFailure /\ NoAst = {}
  /\ LET built == {f \in compileDirty : ast[f] \notin Untypable}
     IN /\ cmt' = [f \in Source |-> IF f \in built THEN ast[f] ELSE cmt[f]]
        /\ cmtNewer' = cmtNewer \cup built
        /\ EndBuild(Verdict(built))
  /\ compileDirty' = CompileFails

UserStep ==
  /\ ~Over
  /\ \/ \E f \in Source :
          \/ \E t \in Text : Edit(f, t) \/ Create(f, t) \/ Replace(f, t)
          \/ Delete(f)
     \/ RemoveLockfile \/ PressCtrlC

LoopStep ==
  \/ Start \/ CheckCtrlC \/ Drain \/ EndDrain \/ HandleEvent \/ LockfileRemoved \/ Sleep
  \/ IncrementalBuild \/ FullBuild \/ StopAtParseError \/ Compile
  \/ \E f \in Source : ReadSource(f) \/ WriteAst(f) \/ FailSilently(f)
  \/ SourceIsGone \/ AstIsMissing

WatchNext == UserStep \/ Notify \/ LoopStep

(* The notifier and the event loop are threads that run on; bsc ends. *)
WatchSpec ==
  WatchInit /\ [][WatchNext]_vars /\ WF_vars(Notify) /\ WF_vars(LoopStep)

-----------------------------------------------------------------------------
AtRest ==
  /\ step = "handle" /\ needs = "none"
  /\ inFlight = <<>> /\ queue = <<>> /\ events = <<>>

(* A watcher that has nothing left to do has forgotten no change: it knows the sources
   that there are, and each was compiled as it is now or is still marked dirty, to be
   tried again by the next build.  Only a source whose last change, or last parse, left a
   time that misleads may be forgotten, and no other because of it. *)
NothingForgotten ==
  AtRest =>
    /\ known = Present
    /\ \A f \in Present \ misdated : cmt[f] = text[f] \/ f \in parseDirty \cup compileDirty

(* A watcher at rest whose last build reported no error, or which has announced the end of
   an incremental compilation after it, has compiled all sources as they are, but again for
   those of which the times mislead.  Nothing of the kind is true of "Finished compilation", which is printed after
   every full build. *)
LastOutcomeIsTrue ==
  AtRest /\ (outcome = "ok" \/ announced = "incremental") =>
    \A f \in Present \ misdated : cmt[f] = text[f]

(* A change that comes as another event than one of contents needs no mark "because we do a
   full scan anyway" (the comment in watcher.rs): no source at all is forgotten. *)
FullScanFindsChanges ==
  AtRest => \A f \in Present : cmt[f] = text[f] \/ f \in parseDirty \cup compileDirty

(* The watcher comes to rest, or ends, after the last change. *)
ComesToRest == []<>(AtRest \/ Over)

(* Deleting the lockfile ends the watcher, and so does Ctrl-C, also during a build and in
   the midst of other events. *)
StopsWhenTold ==
  (pressed \/ \E i \in 1..Len(inFlight) : inFlight[i] = <<"remove lockfile">>) ~> Over
=============================================================================
