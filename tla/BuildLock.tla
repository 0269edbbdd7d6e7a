----------------------------- MODULE BuildLock -----------------------------
(***************************************************************************)
(* The lock that keeps two rescript commands from building one project at  *)
(* a time: rewatch/src/lock.rs, taken by `build`, `watch` and `clean` in   *)
(* main.rs.                                                                *)
(*                                                                         *)
(* The lock is a file with the PID of its holder, lib/rescript.lock.  It   *)
(* is never deleted by the program: a command that finds the PID of a      *)
(* process that is no longer running writes its own over it.  Reading the  *)
(* file, looking for the process, creating (and so truncating) the file    *)
(* and writing the PID are four separate steps, and the process may be     *)
(* killed before any of them.  The user may delete the file, which is how  *)
(* the tests stop a watcher.                                               *)
(*                                                                         *)
(* PIDs are the sequences of their digits, which is what the file holds:   *)
(* a file is truncated when it is created and not when it is written, so   *)
(* one PID may be written over a longer one.                               *)
(***************************************************************************)
EXTENDS Integers, Sequences

CONSTANTS
  Process,            \* rescript commands; one that ended may be run again
  Pid,                \* what the operating system calls them, with fewer digits
                      \* than the largest u32
  NoPid,              \* no process, or none read yet
  Absent,             \* the lockfile does not exist
  PidReuse            \* may a new process get a PID that is still in the file, or
                      \* that a starting command has read there?

Digits == Seq(0..9)
Empty == <<>>

ASSUME PidAssumption ==
  Pid \subseteq Digits \ {Empty} /\ NoPid \notin Digits /\ Absent \notin Digits
ASSUME SwitchAssumption == PidReuse \in BOOLEAN

VARIABLES
  file,      \* what lib/rescript.lock holds
  pc,        \* where a command is
  pid,       \* the PID of a command that runs
  found,     \* the PID it has parsed from the file
  foreign,   \* PIDs of running processes that have nothing to do with rescript
  orphaned,  \* commands whose lockfile was deleted under them
  (* What has gone wrong, which the properties speak of. *)
  overlapped,  \* since there last was no command at all, one has started while
               \* another was taking the lock
  abandoned,   \* who emptied the file has ended without writing it
  misleading   \* numbers in the file, or read from it, that a process has got since, or
               \* that are what two PIDs written over one another make

vars == <<file, pc, pid, found, foreign, orphaned, overlapped, abandoned, misleading>>

Starting == {p \in Process : pc[p] \in {"read", "check", "create", "write"}}
Holding  == {p \in Process : pc[p] = "holding"}
Live     == {p \in Process : pc[p] # "off"}
PidsInUse == foreign \cup {pid[p] : p \in Live}
Remembered == {file} \cup {found[p] : p \in {q \in Process : pc[q] = "check"}}

TypeOK ==
  /\ file \in Digits \cup {Absent}
  /\ pc \in [Process -> {"off", "read", "check", "create", "write", "holding",
                         "locked", "unparsable"}]
  /\ pid \in [Process -> Pid \cup {NoPid}]
  /\ \A p \in Live : pid[p] \in Pid
  /\ found \in [Process -> (Digits \ {Empty}) \cup {NoPid}]
  /\ foreign \subseteq Pid
  /\ orphaned \subseteq Process
  /\ overlapped \in BOOLEAN /\ abandoned \in BOOLEAN
  /\ misleading \subseteq Digits \ {Empty}

(* Nothing runs; the file is absent or left by an earlier command. *)
Init ==
  /\ file \in Pid \cup {Absent}
  /\ pc = [p \in Process |-> "off"]
  /\ pid = [p \in Process |-> NoPid]
  /\ found = [p \in Process |-> NoPid]
  /\ foreign = {}
  /\ orphaned = {}
  /\ overlapped = FALSE /\ abandoned = FALSE /\ misleading = {}

Goto(p, label) == pc' = [pc EXCEPT ![p] = label]

(* Numbers that mislead are forgotten with the file, and by who has read them. *)
Mislead(numbers) == misleading' = (misleading \cup numbers) \cap Remembered'

(* The system gives a new process a PID that is not in use. *)
FreePid(x) == x \in Pid \ PidsInUse /\ (PidReuse \/ x \notin Remembered)

Start(p) ==
  /\ pc[p] = "off"
  /\ Goto(p, "read")
  /\ UNCHANGED <<file, found, foreign, orphaned, abandoned>>
  /\ overlapped' = (overlapped \/ Starting # {})
  /\ \E x \in Pid :
       FreePid(x) /\ pid' = [pid EXCEPT ![p] = x] /\ Mislead({x} \cap Remembered)

(* fs::read_to_string and parse::<u32>.  (An operator with a suffix, here and below, is
   the operator of that name with a fault; see PROJECT.json.) *)
Read_Unparsed(p) ==
  /\ pc[p] = "read"
  /\ \/ file = Absent /\ Goto(p, "create") /\ UNCHANGED found
     \/ file # Absent /\ Goto(p, "check") /\ found' = [found EXCEPT ![p] = file]
  /\ UNCHANGED <<file, pid, foreign, orphaned, overlapped, abandoned, misleading>>

Read(p) ==
  /\ pc[p] = "read"
  /\ \/ file = Absent /\ Goto(p, "create") /\ UNCHANGED found
     \/ file = Empty /\ Goto(p, "unparsable") /\ UNCHANGED found
     \/ file \notin {Absent, Empty} /\ Goto(p, "check") /\ found' = [found EXCEPT ![p] = file]
  /\ UNCHANGED <<file, pid, foreign, orphaned, overlapped, abandoned, misleading>>

(* The system's list of processes, in which the command itself is listed too. *)
exists_Never(x) == FALSE
exists_Always(x) == TRUE
exists(x) == x \in PidsInUse

Check(p) ==
  /\ pc[p] = "check"
  /\ Goto(p, IF exists(found[p]) THEN "locked" ELSE "create")
  /\ UNCHANGED <<file, pid, found, foreign, orphaned, overlapped, abandoned>>
  /\ Mislead({})

(* File::create makes the file or empties the one that is there. *)
Create(p) ==
  /\ pc[p] = "create"
  /\ file' = Empty /\ abandoned' = FALSE
  /\ Goto(p, "write")
  /\ UNCHANGED <<pid, found, foreign, orphaned, overlapped>>
  /\ Mislead({})

(* The PID goes to the file that was created, deleted in between or not. *)
Write_Forgotten(p) ==
  /\ pc[p] = "write"
  /\ Goto(p, "holding")
  /\ UNCHANGED <<file, pid, found, foreign, orphaned, overlapped, abandoned, misleading>>

(* What another command has written since the file was created is not truncated. *)
Overwritten(content, text) == text \o SubSeq(content, Len(text) + 1, Len(content))

Write(p) ==
  /\ pc[p] = "write"
  /\ file' = IF p \in orphaned THEN file ELSE Overwritten(file, pid[p])
  /\ abandoned' = (abandoned /\ p \in orphaned)
  /\ Goto(p, "holding")
  /\ UNCHANGED <<pid, found, foreign, orphaned, overlapped>>
  /\ Mislead({file'} \ {file, pid[p]})

(* A command that was refused prints why and exits with 1; one that has the lock
   ends when its work is done; any may be killed.  None of them touches the file. *)
Exit(p) ==
  /\ pc[p] # "off"
  /\ Goto(p, "off")
  /\ pid' = [pid EXCEPT ![p] = NoPid]
  /\ found' = [found EXCEPT ![p] = NoPid]
  /\ orphaned' = orphaned \ {p}
  /\ overlapped' = (overlapped /\ Live # {p})
  /\ abandoned' = (file = Empty /\ (abandoned \/ (pc[p] = "write" /\ p \notin orphaned)))
  /\ UNCHANGED <<file, foreign>>
  /\ Mislead({})

(* The user deletes the lockfile. *)
RemoveLockfile ==
  /\ file # Absent
  /\ file' = Absent /\ abandoned' = FALSE
  /\ orphaned' = orphaned \cup Holding \cup {p \in Process : pc[p] = "write"}
  /\ UNCHANGED <<pc, pid, found, foreign, overlapped>>
  /\ Mislead({})

(* Other programs come and go. *)
ForeignStart(x) ==
  /\ FreePid(x)
  /\ foreign' = foreign \cup {x}
  /\ UNCHANGED <<file, pc, pid, found, orphaned, overlapped, abandoned>>
  /\ Mislead({x} \cap Remembered)

ForeignStop(x) ==
  /\ x \in foreign
  /\ foreign' = foreign \ {x}
  /\ UNCHANGED <<file, pc, pid, found, orphaned, overlapped, abandoned, misleading>>

get(p) == Read(p) \/ Check(p) \/ Create(p) \/ Write(p)

Next ==
  \/ \E p \in Process : Start(p) \/ get(p) \/ Exit(p)
  \/ RemoveLockfile
  \/ \E x \in Pid : ForeignStart(x) \/ ForeignStop(x)

Spec == Init /\ [][Next]_vars

-----------------------------------------------------------------------------
(* At most one command works on the project, not counting those whose lockfile the
   user has deleted, unless one has started while another was taking the lock: "A
   ReScript build is already running" is what any other must be told. *)
AtMostOneHolder ==
  ~overlapped => \A p, q \in Holding \ orphaned : p = q

(* Error::Locked is true: the process it names is another rescript command, unless the
   number was given to a process since it was written, or is no PID that was written. *)
LockedByAnother ==
  [][\A p \in Process : pc[p] = "check" /\ pc'[p] = "locked" =>
       found[p] \in misleading \/ \E q \in Live \ {p} : pid[q] = found[p]]_vars

(* A lockfile without a PID is only ever met while another command is on its way to
   write it, or after that command was killed there: in all other cases a command that
   is run again later is not refused for it. *)
UnparsableOnlyWhileWritten ==
  [][\A p \in Process : pc[p] = "read" /\ pc'[p] = "unparsable" =>
       abandoned \/ \E q \in Process : pc[q] = "write"]_vars

(* What lock.rs promises at its head: whoever tries to get the lock finds out whether the
   process that has it is still running.  It says nothing of overlapping starts. *)
OneBuildAtATime ==
  \A p, q \in Holding \ orphaned : p = q

(* What lock.rs tells a refused command: that a ReScript build is running, and its PID. *)
RefusalNamesACommand ==
  [][\A p \in Process : pc[p] = "check" /\ pc'[p] = "locked" =>
       \E q \in Live \ {p} : pid[q] = found[p]]_vars
=============================================================================
