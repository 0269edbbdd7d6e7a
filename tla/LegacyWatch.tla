----------------------------- MODULE LegacyWatch -----------------------------
(***************************************************************************)
(* The legacy build, `rescript-legacy build [-w]` (cli/common/bsb.js).     *)
(* Each command is a node process that runs the build program as its child *)
(* and creates .bsb.lock; with -w it then watches the source directories   *)
(* and runs the child again when they change.  A command is one thread:    *)
(* its callbacks (a child ends, a file changes, setImmediate, setTimeout,  *)
(* a signal) are each one step, and interleave with the children, with     *)
(* other commands and with the user.                                       *)
(*                                                                         *)
(* A child is "started", has then "scanned" the project, that is, read     *)
(* every source and written .sourcedirs.json, and "exited"; the command    *)
(* notices when the callback for it runs.  Only the order of times counts: *)
(* `recent` is what happened in the 5 ms that onChange looks back on.      *)
(***************************************************************************)
EXTENDS Naturals

CONSTANTS
  Command,        \* commands; one that ended may be run again
  Watchers,       \* those with -w
  Dir,            \* source directories
  Absent, Stale,  \* no lockfile; one that no running command has created
  Unwatched,      \* may a directory be edited while it is not watched?
  QuickScans,     \* may a child read the sources within 5 ms of its start?
  MaxChanges      \* a bound on the user's changes

ASSUME CommandAssumption ==
  Watchers \subseteq Command /\ Absent \notin Command /\ Stale \notin Command /\ Absent # Stale
ASSUME LegacyAssumption ==
  Unwatched \in BOOLEAN /\ QuickScans \in BOOLEAN /\ MaxChanges \in Nat

VARIABLES
  lock,        \* the command whose child is named in .bsb.lock
  orphans,     \* how many children run on whose command was killed
  project,     \* directories that exist and are listed in rescript.json
  unread,      \* directories with changes that no build has read
  listed,      \* .sourcedirs.json
  changes,
  pc,          \* "off", "initial" (the first build), "watching"
  child,       \* ownerProcess
  code,        \* whether the last child succeeded
  reasons,     \* needRebuild()
  inbox,       \* change events that fs.watch has yet to report
  immediates,  \* callbacks of setImmediate in onChange
  timers,      \* callbacks of setTimeout in build
  recent,      \* what happened less than 5 ms ago: a build's start, an event or nothing
  watched      \* directories with an FSWatcher

projectVars == <<project, unread, listed, changes>>
processVars == <<lock, orphans, pc, child, code>>
watchVars   == <<reasons, inbox, immediates, timers, recent, watched>>
vars == <<projectVars, processVars, watchVars>>

Running(p) == child[p] \in {"started", "scanned"}

LegacyTypeOK ==
  /\ lock \in Command \cup {Absent, Stale}
  /\ orphans \in Nat
  /\ project \subseteq Dir /\ unread \subseteq Dir /\ listed \subseteq Dir
  /\ changes \in 0..MaxChanges
  /\ pc \in [Command -> {"off", "initial", "watching"}]
  /\ child \in [Command -> {"none", "started", "scanned", "exited"}]
  /\ code \in [Command -> {"ok", "failed"}]
  /\ reasons \in [Command -> BOOLEAN]
  /\ inbox \in [Command -> Nat] /\ immediates \in [Command -> Nat] /\ timers \in [Command -> Nat]
  /\ recent \in [Command -> {"start", "event", "nothing"}]
  /\ watched \in [Command -> SUBSET Dir]
  /\ \A p \in Command : pc[p] = "off" =>
       child[p] = "none" /\ ~reasons[p] /\ inbox[p] + immediates[p] + timers[p] = 0

(* A project that was never built. *)
LegacyInit ==
  /\ lock = Absent /\ orphans = 0
  /\ project \in SUBSET Dir /\ unread = project /\ listed = {} /\ changes = 0
  /\ pc = [p \in Command |-> "off"] /\ child = [p \in Command |-> "none"]
  /\ code = [p \in Command |-> "ok"]
  /\ reasons = [p \in Command |-> FALSE]
  /\ inbox = [p \in Command |-> 0] /\ immediates = inbox /\ timers = inbox
  /\ recent = [p \in Command |-> "nothing"]
  /\ watched = [p \in Command |-> {}]

-----------------------------------------------------------------------------
(* The user. *)

(* A change in d, or in rescript.json, reaches the commands that watch it. *)
Report(watching) ==
  inbox' = [p \in Command |-> IF p \in watching THEN inbox[p] + 1 ELSE inbox[p]]

Change ==
  /\ changes < MaxChanges /\ changes' = changes + 1
  /\ UNCHANGED <<listed, processVars, reasons, immediates, timers, recent, watched>>

Seen(d) == \A p \in Watchers : pc[p] # "off" => d \in watched[p]

Edit(d) ==
  /\ d \in project
  /\ Unwatched \/ Seen(d) \/ d \in unread
  /\ unread' = unread \cup {d}
  /\ Report({p \in Command : d \in watched[p]})
  /\ Change
  /\ UNCHANGED project

Configure(dirs) ==
  /\ dirs # project
  /\ project' = dirs
  /\ unread' = (unread \cap dirs) \cup (dirs \ project)
  /\ Report({p \in Command : pc[p] = "watching"})
  /\ Unwatched \/ \A p \in Watchers : pc[p] # "initial"
  /\ Change

-----------------------------------------------------------------------------
(* The child. *)

Scan(p) ==
  /\ child[p] = "started"
  /\ QuickScans \/ recent[p] # "start"
  /\ child' = [child EXCEPT ![p] = "scanned"]
  /\ unread' = {} /\ listed' = project
  /\ UNCHANGED <<project, changes, lock, orphans, pc, code, watchVars>>

(* It may fail before it has read anything. *)
ExitChild(p, verdict) ==
  /\ child[p] = "scanned" \/ (child[p] = "started" /\ verdict = "failed")
  /\ child' = [child EXCEPT ![p] = "exited"]
  /\ code' = [code EXCEPT ![p] = verdict]
  /\ UNCHANGED <<projectVars, lock, orphans, pc, watchVars>>

-----------------------------------------------------------------------------
(* bsb.js. *)

(* acquireBuild: the child runs before the lockfile is created, and goes on if that
   fails because there is one. *)
acquireBuild(p) ==
  /\ child' = [child EXCEPT ![p] = "started"]
  /\ lock' = IF lock = Absent THEN p ELSE lock

(* releaseBuild: rmSync of the lockfile, whoever has created it.  Nothing is done when
   there is no child. *)
LockAfterRelease_Kept(p) == lock
LockAfterRelease(p) == IF child[p] = "none" THEN lock ELSE Absent

Start(p) ==
  /\ pc[p] = "off"
  /\ pc' = [pc EXCEPT ![p] = "initial"]
  /\ acquireBuild(p)
  /\ code' = [code EXCEPT ![p] = "failed"]
  /\ UNCHANGED <<projectVars, orphans, watchVars>>

(* The process is gone, with its callbacks and its FSWatchers. *)
Gone_CallbacksStay(p) ==
  /\ pc' = [pc EXCEPT ![p] = "off"]
  /\ child' = [child EXCEPT ![p] = "none"]
  /\ UNCHANGED <<code, watchVars>>
Gone(p) ==
  /\ pc' = [pc EXCEPT ![p] = "off"]
  /\ child' = [child EXCEPT ![p] = "none"]
  /\ reasons' = [reasons EXCEPT ![p] = FALSE]
  /\ inbox' = [inbox EXCEPT ![p] = 0]
  /\ immediates' = [immediates EXCEPT ![p] = 0]
  /\ timers' = [timers EXCEPT ![p] = 0]
  /\ recent' = [recent EXCEPT ![p] = "nothing"]
  /\ watched' = [watched EXCEPT ![p] = {}]
  /\ UNCHANGED code

(* exitProcess, of a signal or of the end of stdin. *)
exitProcess(p) ==
  /\ pc[p] # "off"
  /\ lock' = LockAfterRelease(p)
  /\ Gone(p)
  /\ UNCHANGED <<projectVars, orphans>>

(* SIGKILL: nobody stops the child or removes the lockfile. *)
Kill(p) ==
  /\ changes < MaxChanges /\ changes' = changes + 1
  /\ pc[p] # "off"
  /\ orphans' = IF Running(p) THEN orphans + 1 ELSE orphans
  /\ lock' = IF lock = p THEN Stale ELSE lock
  /\ Gone(p)
  /\ UNCHANGED <<project, unread, listed>>

OrphanEnds ==
  /\ orphans > 0 /\ orphans' = orphans - 1
  /\ UNCHANGED <<projectVars, lock, pc, child, code, watchVars>>

(* delegate without a callback: the command ends with its child. *)
CloseCommand(p) ==
  /\ p \notin Watchers /\ child[p] = "exited"
  /\ lock' = LockAfterRelease(p)
  /\ Gone(p)
  /\ UNCHANGED <<projectVars, orphans>>

(* acquireBuild, by a watcher that has a reason: the reasons are taken up by the build
   that starts, so that the events until then need no other. *)
Rebuild_KeepsReasons(p) ==
  /\ child' = [child EXCEPT ![p] = "started"]
  /\ recent' = [recent EXCEPT ![p] = "start"]
  /\ UNCHANGED reasons
Rebuild(p) ==
  /\ child' = [child EXCEPT ![p] = "started"]
  /\ reasons' = [reasons EXCEPT ![p] = FALSE]
  /\ recent' = [recent EXCEPT ![p] = "start"]

(* watchBuild: the directories of .sourcedirs.json and no others are watched.  fs.watch
   throws for one that does not exist. *)
WatchBuild(p) == listed

(* buildFinishedCallback, after the first build whatever its exit code was; the watcher
   of rescript.json is there since startWatchMode. *)
BuildFinished(p) ==
  /\ p \in Watchers /\ child[p] = "exited"
  /\ pc' = [pc EXCEPT ![p] = "watching"]
  /\ \/ /\ reasons[p]
        /\ lock' = p
        /\ Rebuild(p)
        /\ UNCHANGED watched
     \/ /\ ~reasons[p] /\ (listed \ watched[p]) \subseteq project
        /\ lock' = LockAfterRelease(p)
        /\ child' = [child EXCEPT ![p] = "none"]
        /\ watched' = [watched EXCEPT ![p] = WatchBuild(p)]
        /\ UNCHANGED <<reasons, recent>>
  /\ UNCHANGED <<projectVars, orphans, code, inbox, immediates, timers>>

(* onUncaughtException. *)
WatchMissingDir(p) ==
  /\ p \in Watchers /\ child[p] = "exited"
  /\ ~reasons[p] /\ ~((listed \ watched[p]) \subseteq project)
  /\ lock' = LockAfterRelease(p)
  /\ Gone(p)
  /\ UNCHANGED <<projectVars, orphans>>

(* onChange: an event within 5 ms of the start of a build or of the last event that
   counted is dropped. *)
Drops_WhileBuilding(p) == recent[p] # "nothing" \/ child[p] # "none"
Drops(p) == recent[p] # "nothing"

onChange(p) ==
  /\ inbox[p] > 0 /\ inbox' = [inbox EXCEPT ![p] = @ - 1]
  /\ \/ Drops(p) /\ UNCHANGED <<reasons, recent, immediates>>
     \/ /\ ~Drops(p)
        /\ reasons' = [reasons EXCEPT ![p] = TRUE]
        /\ recent' = [recent EXCEPT ![p] = "event"]
        /\ immediates' = [immediates EXCEPT ![p] = @ + 1]
  /\ UNCHANGED <<projectVars, processVars, timers, watched>>

FiveMilliseconds(p) ==
  /\ recent[p] # "nothing" /\ recent' = [recent EXCEPT ![p] = "nothing"]
  /\ UNCHANGED <<projectVars, processVars, reasons, inbox, immediates, timers, watched>>

(* build(depth): tried again after a while, in 40 ms at first and then less and less
   often, if there is a child already.  `others` are the timers but the one that has
   fired. *)
build(p, others) ==
  \/ /\ ~reasons[p]
     /\ timers' = [timers EXCEPT ![p] = others]
     /\ UNCHANGED <<reasons, recent, child, lock>>
  \/ /\ reasons[p] /\ child[p] # "none"
     /\ timers' = [timers EXCEPT ![p] = others + 1]
     /\ UNCHANGED <<reasons, recent, child, lock>>
  \/ /\ reasons[p] /\ child[p] = "none"
     /\ lock' = IF lock = Absent THEN p ELSE lock
     /\ Rebuild(p)
     /\ timers' = [timers EXCEPT ![p] = others]

Immediate(p) ==
  /\ immediates[p] > 0 /\ immediates' = [immediates EXCEPT ![p] = @ - 1]
  /\ build(p, timers[p])
  /\ UNCHANGED <<projectVars, orphans, pc, code, inbox, watched>>

Timeout(p) ==
  /\ timers[p] > 0
  /\ build(p, timers[p] - 1)
  /\ UNCHANGED <<projectVars, orphans, pc, code, inbox, immediates, watched>>

Callback(p) ==
  \/ CloseCommand(p) \/ BuildFinished(p) \/ WatchMissingDir(p)
  \/ onChange(p) \/ Immediate(p) \/ Timeout(p)

ChildStep(p) ==
  Scan(p) \/ \E verdict \in {"ok", "failed"} : ExitChild(p, verdict)

UserStep ==
  \/ \E d \in Dir : Edit(d)
  \/ \E dirs \in SUBSET Dir : Configure(dirs)
  \/ \E p \in Command : Start(p) \/ exitProcess(p) \/ Kill(p)

LegacyNext ==
  \/ UserStep \/ OrphanEnds
  \/ \E p \in Command : Callback(p) \/ ChildStep(p) \/ FiveMilliseconds(p)

(* Node runs every callback that is due, in some order; children end; time passes. *)
LegacySpec ==
  /\ LegacyInit /\ [][LegacyNext]_vars
  /\ \A p \in Command :
       /\ WF_vars(FiveMilliseconds(p)) /\ WF_vars(ChildStep(p))
       /\ WF_vars(CloseCommand(p) \/ BuildFinished(p) \/ WatchMissingDir(p))
       /\ WF_vars(onChange(p)) /\ WF_vars(Immediate(p)) /\ WF_vars(Timeout(p))

-----------------------------------------------------------------------------
AtRest(p) ==
  /\ pc[p] = "watching" /\ child[p] = "none" /\ ~reasons[p]
  /\ inbox[p] + immediates[p] + timers[p] = 0

(* The events that onChange drops are none that a build would miss: when a watcher has
   nothing more to do, every change was read by a build and it watches the directories
   that the project has now, or the last build failed. *)
EveryChangeIsRead ==
  \A p \in Watchers :
    AtRest(p) => (unread = {} /\ watched[p] = project) \/ code[p] = "failed"

(* The lockfile names a build that runs, or one whose command was killed: it is never
   left behind by a command that ended in any other way. *)
LockIsNotLeftBehind == lock \in Command => child[lock] # "none"

(* A change that was noticed is taken up by a build; the retries by timer do not starve
   it and do not go on for ever after it. *)
Settles ==
  \A p \in Watchers : []<>(pc[p] = "off" \/ AtRest(p))
=============================================================================
