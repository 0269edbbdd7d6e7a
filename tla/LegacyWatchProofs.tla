------------------------- MODULE LegacyWatchProofs -------------------------
(***************************************************************************)
(* The lockfile of the legacy build never names a build that ended,        *)
(* although a command removes and creates the file whoever it belongs to;  *)
(* and a watcher that drops events misses no change by it.  Both for any   *)
(* number of commands, directories and changes.                            *)
(***************************************************************************)
EXTENDS LegacyWatch, TLAPS

(* A command that does not run has no FSWatcher, so that no event reaches it. *)
OffWatchesNothing == \A p \in Command : pc[p] = "off" => watched[p] = {}

IInv == LegacyTypeOK /\ OffWatchesNothing

LEMMA InitEstablishes == LegacyInit => IInv /\ LockIsNotLeftBehind
BY CommandAssumption, LegacyAssumption
   DEF LegacyInit, IInv, LegacyTypeOK, OffWatchesNothing, LockIsNotLeftBehind

LEMMA GoneKeepsInv ==
  ASSUME IInv, NEW p \in Command, Gone(p), lock' \in Command \cup {Absent, Stale},
         orphans' \in Nat, changes' \in 0..MaxChanges, UNCHANGED <<project, unread, listed>>
  PROVE  IInv'
BY DEF IInv, LegacyTypeOK, OffWatchesNothing, Gone

LEMMA UserKeepsInv == ASSUME IInv, UserStep PROVE IInv'
<1> USE CommandAssumption, LegacyAssumption DEF IInv, LegacyTypeOK, OffWatchesNothing
<1>1. ASSUME NEW d \in Dir, Edit(d) PROVE IInv'
  BY <1>1 DEF Edit, Change, Report, projectVars, processVars, watchVars
<1>2. ASSUME NEW dirs \in SUBSET Dir, Configure(dirs) PROVE IInv'
  BY <1>2 DEF Configure, Change, Report, projectVars, processVars, watchVars
<1>3. ASSUME NEW p \in Command, Start(p) PROVE IInv'
  BY <1>3 DEF Start, acquireBuild, projectVars, watchVars
<1>4. ASSUME NEW p \in Command, exitProcess(p) PROVE IInv'
  BY <1>4, GoneKeepsInv DEF exitProcess, LockAfterRelease, projectVars
<1>5. ASSUME NEW p \in Command, Kill(p) PROVE IInv'
  BY <1>5, GoneKeepsInv DEF Kill
<1> QED BY <1>1, <1>2, <1>3, <1>4, <1>5 DEF UserStep

LEMMA BuildKeepsInv ==
  ASSUME IInv, NEW p \in Command, NEW others \in Nat, pc[p] # "off", build(p, others),
         UNCHANGED <<projectVars, orphans, pc, code, inbox, watched>>,
         immediates' \in [Command -> Nat],
         \A q \in Command : q # p => immediates'[q] = immediates[q]
  PROVE  IInv'
<1> USE CommandAssumption, LegacyAssumption DEF IInv, LegacyTypeOK, OffWatchesNothing, projectVars
<1>1. CASE ~reasons[p]
  BY <1>1 DEF build
<1>2. CASE reasons[p] /\ child[p] # "none"
  BY <1>2 DEF build
<1>3. CASE reasons[p] /\ child[p] = "none"
  <2>1. Rebuild(p) /\ timers' = [timers EXCEPT ![p] = others] /\ lock' \in Command \cup {Absent, Stale}
    BY <1>3 DEF build
  <2>2. reasons' \in [Command -> BOOLEAN]
    BY <2>1 DEF Rebuild
  <2>3. \A q \in Command : q # p => reasons'[q] = reasons[q] /\ child'[q] = child[q] /\ timers'[q] = timers[q]
    BY <2>1 DEF Rebuild
  <2>4. child' \in [Command -> {"none", "started", "scanned", "exited"}]
          /\ recent' \in [Command -> {"start", "event", "nothing"}] /\ timers' \in [Command -> Nat]
    BY <2>1 DEF Rebuild
  <2>5. \A q \in Command : pc'[q] = "off" =>
          /\ child'[q] = "none" /\ ~reasons'[q]
          /\ inbox'[q] + immediates'[q] + timers'[q] = 0 /\ watched'[q] = {}
    BY <2>3
  <2> QED BY <2>1, <2>2, <2>4, <2>5
<1> QED BY <1>1, <1>2, <1>3

LEMMA CallbackKeepsInv == ASSUME IInv, NEW p \in Command, Callback(p) PROVE IInv'
<1> USE CommandAssumption, LegacyAssumption DEF IInv, LegacyTypeOK, OffWatchesNothing
<1>1. CASE CloseCommand(p)
  BY <1>1, GoneKeepsInv DEF CloseCommand, LockAfterRelease, projectVars
<1>2. CASE BuildFinished(p)
  <2>1. pc[p] # "off" /\ pc' = [pc EXCEPT ![p] = "watching"]
    BY <1>2 DEF BuildFinished
  <2>2. reasons' \in [Command -> BOOLEAN]
    BY <1>2 DEF BuildFinished, Rebuild
  <2>3. /\ lock' \in Command \cup {Absent, Stale}
        /\ child' \in [Command -> {"none", "started", "scanned", "exited"}]
        /\ recent' \in [Command -> {"start", "event", "nothing"}]
        /\ watched' \in [Command -> SUBSET Dir]
    BY <1>2 DEF BuildFinished, Rebuild, LockAfterRelease, WatchBuild
  <2>4. \A q \in Command : q # p =>
          reasons'[q] = reasons[q] /\ child'[q] = child[q] /\ watched'[q] = watched[q]
    BY <1>2 DEF BuildFinished, Rebuild
  <2>5. UNCHANGED <<projectVars, orphans, code, inbox, immediates, timers>>
    BY <1>2 DEF BuildFinished
  <2>6. \A q \in Command : pc'[q] = "off" =>
          /\ child'[q] = "none" /\ ~reasons'[q]
          /\ inbox'[q] + immediates'[q] + timers'[q] = 0 /\ watched'[q] = {}
    BY <2>1, <2>4, <2>5
  <2> QED BY <2>1, <2>2, <2>3, <2>5, <2>6 DEF projectVars
<1>3. CASE WatchMissingDir(p)
  BY <1>3, GoneKeepsInv DEF WatchMissingDir, LockAfterRelease, projectVars
<1>4. CASE onChange(p)
  <2>1. pc[p] # "off" /\ inbox' \in [Command -> Nat]
    BY <1>4 DEF onChange
  <2>2. reasons' \in [Command -> BOOLEAN]
    BY <1>4 DEF onChange
  <2>3. immediates' \in [Command -> Nat] /\ recent' \in [Command -> {"start", "event", "nothing"}]
    <3>1. CASE Drops(p)
      BY <1>4, <3>1 DEF onChange
    <3>2. CASE ~Drops(p)
      <4>1. immediates' = [immediates EXCEPT ![p] = @ + 1] /\ recent' = [recent EXCEPT ![p] = "event"]
        BY <1>4, <3>2 DEF onChange
      <4> QED BY <4>1
    <3> QED BY <3>1, <3>2
  <2>4. \A q \in Command : q # p =>
          reasons'[q] = reasons[q] /\ inbox'[q] = inbox[q] /\ immediates'[q] = immediates[q]
    BY <1>4 DEF onChange
  <2>5. UNCHANGED <<projectVars, processVars, timers, watched>>
    BY <1>4 DEF onChange
  <2>6. \A q \in Command : pc'[q] = "off" =>
          /\ child'[q] = "none" /\ ~reasons'[q]
          /\ inbox'[q] + immediates'[q] + timers'[q] = 0 /\ watched'[q] = {}
    BY <2>1, <2>4, <2>5 DEF processVars
  <2> QED BY <2>1, <2>2, <2>3, <2>5, <2>6 DEF projectVars, processVars
<1>5. CASE Immediate(p)
  <2>1. pc[p] # "off"
    BY <1>5 DEF Immediate
  <2>2. timers[p] \in Nat /\ immediates' \in [Command -> Nat]
    BY <1>5 DEF Immediate
  <2>3. \A q \in Command : q # p => immediates'[q] = immediates[q]
    BY <1>5 DEF Immediate
  <2> QED BY <1>5, <2>1, <2>2, <2>3, BuildKeepsInv DEF Immediate
<1>6. CASE Timeout(p)
  <2>1. pc[p] # "off" /\ timers[p] - 1 \in Nat
    BY <1>6 DEF Timeout
  <2> QED BY <1>6, <2>1, BuildKeepsInv DEF Timeout
<1> QED BY <1>1, <1>2, <1>3, <1>4, <1>5, <1>6 DEF Callback

LEMMA Invariance == ASSUME IInv, [LegacyNext]_vars PROVE IInv'
<1> USE DEF IInv, LegacyTypeOK, OffWatchesNothing
<1>1. CASE OrphanEnds
  BY <1>1 DEF OrphanEnds, projectVars, watchVars
<1>2. ASSUME NEW p \in Command, Scan(p) PROVE IInv'
  BY <1>2 DEF Scan, watchVars
<1>3. ASSUME NEW p \in Command, NEW verdict \in {"ok", "failed"}, ExitChild(p, verdict)
      PROVE IInv'
  BY <1>3 DEF ExitChild, projectVars, watchVars
<1>4. ASSUME NEW p \in Command, FiveMilliseconds(p) PROVE IInv'
  BY <1>4 DEF FiveMilliseconds, projectVars, processVars
<1>5. CASE UNCHANGED vars
  BY <1>5 DEF vars, projectVars, processVars, watchVars
<1> QED BY <1>1, <1>2, <1>3, <1>4, <1>5, UserKeepsInv, CallbackKeepsInv
        DEF LegacyNext, ChildStep

(* All the state keeps its type, and a command that has ended has no child, no timer and
   no callback that could still run. *)
THEOREM LegacyTypeCorrect == LegacySpec => []LegacyTypeOK
<1>1. LegacyInit => IInv
  BY InitEstablishes
<1>2. IInv /\ [LegacyNext]_vars => IInv'
  BY Invariance
<1>3. IInv => LegacyTypeOK
  BY DEF IInv
<1> QED BY <1>1, <1>2, <1>3, PTL DEF LegacySpec

-----------------------------------------------------------------------------
LEMMA CallbackKeepsLock ==
  ASSUME IInv, LockIsNotLeftBehind, NEW p \in Command, Callback(p)
  PROVE  LockIsNotLeftBehind'
<1> USE CommandAssumption DEF IInv, LegacyTypeOK, LockIsNotLeftBehind
<1>1. CASE CloseCommand(p) \/ WatchMissingDir(p)
  BY <1>1 DEF CloseCommand, WatchMissingDir, Gone, LockAfterRelease
<1>2. CASE BuildFinished(p)
  BY <1>2 DEF BuildFinished, Rebuild, LockAfterRelease
<1>3. CASE onChange(p)
  BY <1>3 DEF onChange, processVars
<1>4. CASE Immediate(p)
  BY <1>4 DEF Immediate, build, Rebuild
<1>5. CASE Timeout(p)
  BY <1>5 DEF Timeout, build, Rebuild
<1> QED BY <1>1, <1>2, <1>3, <1>4, <1>5 DEF Callback

LEMMA StepKeepsLock ==
  ASSUME IInv, LockIsNotLeftBehind, [LegacyNext]_vars PROVE LockIsNotLeftBehind'
<1> USE CommandAssumption DEF IInv, LegacyTypeOK, LockIsNotLeftBehind
<1>1. ASSUME NEW p \in Command, Start(p) \/ exitProcess(p) \/ Kill(p)
      PROVE LockIsNotLeftBehind'
  BY <1>1 DEF Start, acquireBuild, exitProcess, Kill, Gone, LockAfterRelease
<1>2. ASSUME NEW d \in Dir, Edit(d) PROVE LockIsNotLeftBehind'
  BY <1>2 DEF Edit, Change, processVars
<1>3. ASSUME NEW dirs \in SUBSET Dir, Configure(dirs) PROVE LockIsNotLeftBehind'
  BY <1>3 DEF Configure, Change, processVars
<1>4. CASE OrphanEnds
  BY <1>4 DEF OrphanEnds
<1>5. ASSUME NEW p \in Command, ChildStep(p) PROVE LockIsNotLeftBehind'
  BY <1>5 DEF ChildStep, Scan, ExitChild
<1>6. ASSUME NEW p \in Command, FiveMilliseconds(p) PROVE LockIsNotLeftBehind'
  BY <1>6 DEF FiveMilliseconds, processVars
<1>7. CASE UNCHANGED vars
  BY <1>7 DEF vars, processVars
<1> QED BY <1>1, <1>2, <1>3, <1>4, <1>5, <1>6, <1>7, CallbackKeepsLock
        DEF LegacyNext, UserStep

(* A command that ends, is stopped by a signal or by an exception, or goes over from one
   build to the next leaves no lockfile that names its build, whatever other commands do
   to the file meanwhile; only one that is killed may. *)
THEOREM NoStaleLock == LegacySpec => []LockIsNotLeftBehind
<1>1. LegacyInit => IInv /\ LockIsNotLeftBehind
  BY InitEstablishes
<1>2. IInv /\ [LegacyNext]_vars => IInv'
  BY Invariance
<1>3. IInv /\ LockIsNotLeftBehind /\ [LegacyNext]_vars => LockIsNotLeftBehind'
  BY StepKeepsLock
<1> QED BY <1>1, <1>2, <1>3, PTL DEF LegacySpec

-----------------------------------------------------------------------------
(* No change is missed.  While a watcher runs there is a reason for another build, an
   event that will be one, a child that has yet to read the sources, or all were read. *)

Failed(p) == code[p] = "failed" /\ child[p] \in {"exited", "none"}

Due(p) == reasons[p] \/ inbox[p] > 0 \/ child[p] = "started" \/ Failed(p)

(* An event is dropped only while there is a reason that no build has taken up, or while
   the child that has taken it up has read nothing. *)
DropsAreSafe ==
  \A p \in Watchers :
    /\ recent[p] = "event" => reasons[p]
    /\ recent[p] = "start" => child[p] = "started" \/ Failed(p)

ReadUnlessDue ==
  \A p \in Watchers : pc[p] # "off" => Due(p) \/ (unread = {} /\ listed = project)

WatchedUnlessDue ==
  \A p \in Watchers : pc[p] # "off" => Due(p) \/ child[p] # "none" \/ watched[p] = project

RInv == DropsAreSafe /\ ReadUnlessDue /\ WatchedUnlessDue

LEMMA InitUnlessDue == LegacyInit => RInv
BY CommandAssumption
   DEF LegacyInit, RInv, DropsAreSafe, ReadUnlessDue, WatchedUnlessDue

(* A step that changes nothing of the project and of one command only what that command
   has is good if the command is as RInv says after it. *)
LEMMA OthersStay ==
  ASSUME IInv, RInv, NEW p \in Command, UNCHANGED <<project, unread, listed>>,
         \A q \in Command : q # p =>
           /\ pc'[q] = pc[q] /\ child'[q] = child[q] /\ code'[q] = code[q]
           /\ reasons'[q] = reasons[q] /\ inbox'[q] = inbox[q]
           /\ recent'[q] = recent[q] /\ watched'[q] = watched[q],
         p \in Watchers =>
           /\ recent'[p] = "event" => reasons'[p]
           /\ recent'[p] = "start" => child'[p] = "started" \/ Failed(p)'
           /\ pc'[p] # "off" => Due(p)' \/ (unread = {} /\ listed = project)
           /\ pc'[p] # "off" => Due(p)' \/ child'[p] # "none" \/ watched'[p] = project
  PROVE  RInv'
BY CommandAssumption
   DEF RInv, DropsAreSafe, ReadUnlessDue, WatchedUnlessDue, Due, Failed

LEMMA GoneIsNotDue ==
  ASSUME IInv, RInv, NEW p \in Command, Gone(p), UNCHANGED <<project, unread, listed>>
  PROVE  RInv'
<1>1. pc'[p] = "off" /\ recent'[p] = "nothing"
  BY DEF IInv, LegacyTypeOK, Gone
<1>2. \A q \in Command : q # p =>
        /\ pc'[q] = pc[q] /\ child'[q] = child[q] /\ code'[q] = code[q]
        /\ reasons'[q] = reasons[q] /\ inbox'[q] = inbox[q]
        /\ recent'[q] = recent[q] /\ watched'[q] = watched[q]
  BY DEF IInv, LegacyTypeOK, Gone
<1> QED BY <1>1, <1>2, OthersStay

(* Every running watcher gets an event of an edit of what was read, and every watcher that
   could miss a new list of directories gets one of that. *)
LEMMA EditIsDue ==
  ASSUME ~Unwatched, IInv, RInv, NEW d \in Dir, Edit(d) PROVE RInv'
<1> USE CommandAssumption DEF IInv, LegacyTypeOK
<1>1. UNCHANGED <<project, listed, processVars, reasons, recent, watched>>
  BY DEF Edit, Change
<1>2. \A p \in Command : inbox'[p] = inbox[p] \/ inbox'[p] > 0
  BY DEF Edit, Report
<1>3. unread' = unread \/ \A p \in Watchers : pc[p] # "off" => inbox'[p] > 0
  <2>1. CASE d \in unread
    BY <2>1 DEF Edit
  <2>2. CASE Seen(d)
    BY <2>2 DEF Edit, Seen, Report
  <2> QED BY <2>1, <2>2 DEF Edit
<1>4. \A p \in Watchers : Due(p) => Due(p)'
  BY <1>1, <1>2 DEF Due, Failed, processVars
<1>5. \A p \in Watchers : Failed(p) => Failed(p)'
  BY <1>1 DEF Failed, processVars
<1>6. ReadUnlessDue'
  BY <1>1, <1>3, <1>4 DEF RInv, ReadUnlessDue, Due, processVars
<1>7. DropsAreSafe' /\ WatchedUnlessDue'
  BY <1>1, <1>4, <1>5 DEF RInv, DropsAreSafe, WatchedUnlessDue, processVars
<1> QED BY <1>6, <1>7 DEF RInv

LEMMA ConfigureIsDue ==
  ASSUME ~Unwatched, IInv, RInv, NEW dirs \in SUBSET Dir, Configure(dirs) PROVE RInv'
<1> USE CommandAssumption DEF IInv, LegacyTypeOK
<1>1. UNCHANGED <<listed, processVars, reasons, recent, watched>>
  BY DEF Configure, Change
<1>2. \A p \in Watchers : pc[p] # "off" => inbox'[p] > 0
  BY DEF Configure, Report
<1>3. \A p \in Watchers : pc'[p] # "off" => Due(p)'
  BY <1>1, <1>2 DEF Due, processVars
<1>4. DropsAreSafe'
  BY <1>1 DEF RInv, DropsAreSafe, Failed, processVars
<1> QED BY <1>3, <1>4 DEF RInv, ReadUnlessDue, WatchedUnlessDue

LEMMA UserKeepsDue ==
  ASSUME ~Unwatched, IInv, RInv, UserStep PROVE RInv'
<1>1. ASSUME NEW p \in Command, Start(p) PROVE RInv'
  <2> USE CommandAssumption DEF IInv, LegacyTypeOK
  <2>1. UNCHANGED <<projectVars, watchVars>> /\ child'[p] = "started"
    BY <1>1 DEF Start, acquireBuild
  <2>2. Due(p)' /\ (p \in Watchers => (recent'[p] = "event" => reasons'[p]))
    BY <2>1, <1>1 DEF Due, RInv, DropsAreSafe, watchVars, Start
  <2>3. \A q \in Command : q # p =>
          pc'[q] = pc[q] /\ child'[q] = child[q] /\ code'[q] = code[q]
    BY <1>1 DEF Start, acquireBuild
  <2> QED BY <2>1, <2>2, <2>3, OthersStay DEF projectVars, watchVars
<1>2. ASSUME NEW p \in Command, exitProcess(p) \/ Kill(p) PROVE RInv'
  BY <1>2, GoneIsNotDue DEF exitProcess, Kill, projectVars
<1> QED BY <1>1, <1>2, EditIsDue, ConfigureIsDue DEF UserStep

LEMMA RebuildIsDue ==
  ASSUME IInv, RInv, NEW p \in Command, Rebuild(p),
         UNCHANGED <<projectVars, code, inbox, watched>>,
         \A q \in Command : q # p => pc'[q] = pc[q]
  PROVE  RInv'
<1> USE DEF IInv, LegacyTypeOK
<1>1. child'[p] = "started" /\ recent'[p] = "start"
  BY DEF Rebuild
<1>2. \A q \in Command : q # p =>
        child'[q] = child[q] /\ reasons'[q] = reasons[q] /\ recent'[q] = recent[q]
  BY DEF Rebuild
<1> QED BY <1>1, <1>2, OthersStay DEF Due, projectVars

LEMMA BuildIsDue ==
  ASSUME IInv, RInv, NEW p \in Command, NEW others, build(p, others),
         UNCHANGED <<projectVars, pc, code, inbox, watched>>
  PROVE  RInv'
<1>1. CASE UNCHANGED <<reasons, recent, child>>
  BY <1>1
     DEF projectVars, RInv, DropsAreSafe, ReadUnlessDue, WatchedUnlessDue, Due, Failed
<1>2. CASE Rebuild(p)
  BY <1>2, RebuildIsDue
<1> QED BY <1>1, <1>2 DEF build

(* What is watched after a build is what the build has listed. *)
LEMMA FinishedIsDue ==
  ASSUME IInv, RInv, NEW p \in Command, BuildFinished(p) PROVE RInv'
<1> USE CommandAssumption DEF IInv, LegacyTypeOK
<1>1. /\ p \in Watchers /\ child[p] = "exited" /\ pc[p] # "off"
      /\ UNCHANGED <<projectVars, code, inbox>>
      /\ \A q \in Command : q # p => pc'[q] = pc[q]
  BY DEF BuildFinished
<1>2. CASE reasons[p]
  BY <1>1, <1>2, RebuildIsDue DEF BuildFinished
<1>3. CASE ~reasons[p]
  <2>1. /\ child' = [child EXCEPT ![p] = "none"] /\ watched' = [watched EXCEPT ![p] = listed]
        /\ UNCHANGED <<reasons, recent>>
    BY <1>3 DEF BuildFinished, WatchBuild
  <2>2. recent[p] # "event" /\ (recent[p] = "start" => Failed(p))
    BY <1>1, <1>3 DEF RInv, DropsAreSafe
  <2>3. Due(p) \/ (unread = {} /\ listed = project)
    BY <1>1 DEF RInv, ReadUnlessDue
  <2>4. child'[p] = "none" /\ watched'[p] = listed
    BY <2>1
  <2>5. Failed(p) => Failed(p)'
    BY <1>1, <2>4 DEF Failed
  <2>6. Due(p) => Due(p)'
    BY <1>1, <2>1, <2>5 DEF Due
  <2>7. \A q \in Command : q # p => child'[q] = child[q] /\ watched'[q] = watched[q]
    BY <2>1
  <2> QED BY <1>1, <2>1, <2>2, <2>3, <2>4, <2>5, <2>6, <2>7, OthersStay DEF projectVars
<1> QED BY <1>2, <1>3

(* The event that counts becomes a reason; one that is dropped needs none. *)
LEMMA onChangeIsDue ==
  ASSUME IInv, RInv, NEW p \in Command, onChange(p) PROVE RInv'
<1> USE CommandAssumption DEF IInv, LegacyTypeOK
<1>1. UNCHANGED <<projectVars, processVars, watched>>
  BY DEF onChange
<1>2. \A q \in Command : q # p =>
        inbox'[q] = inbox[q] /\ reasons'[q] = reasons[q] /\ recent'[q] = recent[q]
  BY DEF onChange
<1>3. CASE Drops(p)
  <2>1. UNCHANGED <<reasons, recent>>
    BY <1>3 DEF onChange
  <2>2. p \in Watchers => reasons[p] \/ child[p] = "started" \/ Failed(p)
    BY <1>3 DEF RInv, DropsAreSafe, Drops
  <2>3. p \in Watchers => Due(p)'
    BY <1>1, <2>1, <2>2 DEF Due, Failed, processVars
  <2>4. p \in Watchers =>
          /\ recent'[p] = "event" => reasons'[p]
          /\ recent'[p] = "start" => child'[p] = "started" \/ Failed(p)'
    BY <1>1, <2>1 DEF RInv, DropsAreSafe, Failed, processVars
  <2> QED BY <1>1, <1>2, <2>3, <2>4, OthersStay DEF projectVars, processVars
<1>4. CASE ~Drops(p)
  <2>1. reasons'[p] /\ recent'[p] = "event"
    BY <1>4 DEF onChange
  <2>2. Due(p)'
    BY <2>1 DEF Due
  <2> QED BY <1>1, <1>2, <2>1, <2>2, OthersStay DEF projectVars, processVars
<1> QED BY <1>3, <1>4

LEMMA CallbackKeepsDue ==
  ASSUME IInv, RInv, NEW p \in Command, Callback(p) PROVE RInv'
<1>1. CASE CloseCommand(p) \/ WatchMissingDir(p)
  BY <1>1, GoneIsNotDue DEF CloseCommand, WatchMissingDir, projectVars
<1>2. CASE Immediate(p) \/ Timeout(p)
  BY <1>2, BuildIsDue DEF Immediate, Timeout
<1> QED BY <1>1, <1>2, FinishedIsDue, onChangeIsDue DEF Callback

(* A child that scans has the sources read for all; it starts long enough before that no
   event of a change that it misses is dropped. *)
LEMMA ScanIsRead ==
  ASSUME ~QuickScans, IInv, RInv, NEW p \in Command, Scan(p) PROVE RInv'
<1> USE CommandAssumption DEF IInv, LegacyTypeOK
<1>1. unread' = {} /\ listed' = project' /\ UNCHANGED <<project, pc, code, watchVars>>
  BY DEF Scan
<1>2. child[p] = "started" /\ child' = [child EXCEPT ![p] = "scanned"] /\ recent[p] # "start"
  BY DEF Scan
<1>3. \A q \in Command : (child[q] # "none" => child'[q] # "none") /\ (Failed(q) => Failed(q)')
  BY <1>1, <1>2 DEF Failed
<1>4. \A q \in Command : q # p => (Due(q) => Due(q)')
  BY <1>1, <1>2, <1>3 DEF Due, watchVars
<1>5. ReadUnlessDue'
  BY <1>1 DEF ReadUnlessDue
<1>6. WatchedUnlessDue'
  BY <1>1, <1>2, <1>3, <1>4 DEF RInv, WatchedUnlessDue, watchVars
<1>7. DropsAreSafe'
  BY <1>1, <1>2, <1>3 DEF RInv, DropsAreSafe, watchVars
<1> QED BY <1>5, <1>6, <1>7 DEF RInv

LEMMA ExitIsDue ==
  ASSUME IInv, RInv, NEW p \in Command, NEW verdict \in {"ok", "failed"}, ExitChild(p, verdict)
  PROVE  RInv'
<1> USE CommandAssumption DEF IInv, LegacyTypeOK
<1>1. UNCHANGED <<projectVars, pc, watchVars>> /\ child'[p] = "exited"
  BY DEF ExitChild
<1>2. \A q \in Command : q # p => child'[q] = child[q] /\ code'[q] = code[q]
  BY DEF ExitChild
<1>3. child[p] = "started" => Failed(p)'
  BY <1>1 DEF ExitChild, Failed
<1>4. child[p] = "started" \/ child[p] = "scanned"
  BY DEF ExitChild
<1>5. Due(p) => Due(p)'
  BY <1>1, <1>3, <1>4 DEF Due, Failed, watchVars
<1>6. p \in Watchers =>
        /\ recent'[p] = "event" => reasons'[p]
        /\ recent'[p] = "start" => Failed(p)'
  BY <1>1, <1>3, <1>4 DEF RInv, DropsAreSafe, Failed, watchVars
<1>7. p \in Watchers /\ pc[p] # "off" => Due(p)' \/ (unread = {} /\ listed = project)
  BY <1>5 DEF RInv, ReadUnlessDue
<1> QED BY <1>1, <1>2, <1>6, <1>7, OthersStay DEF projectVars, watchVars

LEMMA StepKeepsDue ==
  ASSUME ~Unwatched, ~QuickScans, IInv, RInv, [LegacyNext]_vars PROVE RInv'
<1>1. CASE OrphanEnds \/ UNCHANGED vars
  BY <1>1 DEF OrphanEnds, vars, projectVars, processVars, watchVars,
              RInv, DropsAreSafe, ReadUnlessDue, WatchedUnlessDue, Due, Failed
<1>2. ASSUME NEW p \in Command, FiveMilliseconds(p) PROVE RInv'
  <2>1. UNCHANGED <<projectVars, processVars, reasons, inbox, watched>>
    BY <1>2 DEF FiveMilliseconds
  <2>2. recent'[p] = "nothing" /\ \A q \in Command : q # p => recent'[q] = recent[q]
    BY <1>2 DEF FiveMilliseconds, IInv, LegacyTypeOK
  <2>3. p \in Watchers /\ pc[p] # "off" =>
          /\ Due(p) \/ (unread = {} /\ listed = project)
          /\ Due(p) \/ child[p] # "none" \/ watched[p] = project
    BY DEF RInv, ReadUnlessDue, WatchedUnlessDue
  <2>4. Due(p)' <=> Due(p)
    BY <2>1 DEF Due, Failed, processVars
  <2> QED BY <2>1, <2>2, <2>3, <2>4, OthersStay DEF projectVars, processVars
<1> QED BY <1>1, <1>2, UserKeepsDue, CallbackKeepsDue, ScanIsRead, ExitIsDue
        DEF LegacyNext, ChildStep

(* A watcher with nothing more to do watches the directories that the project has now, and
   a build has read every change, or the last build failed: the events that onChange drops,
   and those that come while it builds, are none it needed.  It is so when no directory is
   edited before it is watched and no child reads the sources within 5 ms of its start. *)
THEOREM NoChangeIsMissed ==
  ASSUME ~Unwatched, ~QuickScans
  PROVE  LegacySpec => []EveryChangeIsRead
<1>1. LegacyInit => IInv /\ RInv
  BY InitEstablishes, InitUnlessDue
<1>2. IInv /\ RInv /\ [LegacyNext]_vars => IInv' /\ RInv'
  BY Invariance, StepKeepsDue
<1>3. IInv /\ RInv => EveryChangeIsRead
  <2> SUFFICES ASSUME IInv, RInv, NEW p \in Watchers, AtRest(p)
               PROVE  (unread = {} /\ watched[p] = project) \/ code[p] = "failed"
    BY DEF EveryChangeIsRead
  <2>1. inbox[p] = 0 /\ child[p] = "none" /\ ~reasons[p] /\ pc[p] # "off"
    <3>1. inbox[p] \in Nat /\ immediates[p] \in Nat /\ timers[p] \in Nat
      BY CommandAssumption DEF IInv, LegacyTypeOK
    <3> QED BY <3>1 DEF AtRest
  <2>2. Due(p) => code[p] = "failed"
    BY <2>1 DEF Due, Failed
  <2> QED BY <2>1, <2>2 DEF RInv, ReadUnlessDue, WatchedUnlessDue
<1> QED BY <1>1, <1>2, <1>3, PTL DEF LegacySpec
=============================================================================
