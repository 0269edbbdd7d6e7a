-------------------------- MODULE BuildLockProofs --------------------------
(***************************************************************************)
(* The build lock excludes, for any number of commands, of processes of    *)
(* other programs and of PIDs, whatever is killed and whenever the user    *)
(* deletes the file, unless a command starts while another is taking the   *)
(* lock; that PIDs are reused does not matter for this.  What a refused    *)
(* command is told is true unless the number it read was given to a new    *)
(* process or is a mixture of two PIDs.  An empty file is one that         *)
(* somebody is writing, or that its writer has abandoned.                  *)
(***************************************************************************)
EXTENDS BuildLock, SequenceTheorems, TLAPS

-----------------------------------------------------------------------------
(* What a file holds after a PID was written at its beginning. *)

LEMMA OverwrittenIsText ==
  ASSUME NEW content \in Digits, NEW text \in Digits \ {Empty}
  PROVE  Overwritten(content, text) \in Digits \ {Empty}
<1>1. SubSeq(content, Len(text) + 1, Len(content)) \in Digits
  BY DEF Digits
<1>2. /\ Overwritten(content, text) \in Digits
      /\ Len(Overwritten(content, text)) =
           Len(text) + Len(SubSeq(content, Len(text) + 1, Len(content)))
  BY <1>1 DEF Overwritten, Digits
<1>3. Len(text) > 0
  BY DEF Digits, Empty
<1> QED BY <1>1, <1>2, <1>3 DEF Digits, Empty

LEMMA NothingIsLeft ==
  ASSUME NEW content \in Digits, NEW text \in Digits, Len(content) <= Len(text)
  PROVE  Overwritten(content, text) = text
<1>1. SubSeq(content, Len(text) + 1, Len(content)) = <<>>
  BY DEF Digits
<1> QED BY <1>1 DEF Overwritten, Digits

LEMMA EmptyIsDigits == Empty \in Digits /\ Empty # Absent
<1>1. Empty \in Digits
  BY EmptySeq DEF Digits, Empty
<1> QED BY <1>1, PidAssumption

LEMMA PidsAreDigits == \A x \in Pid : x \in Digits \ {Empty} /\ x # Absent /\ x # NoPid
  BY PidAssumption

(* A command that writes has the file that it created, if it was not deleted. *)
WritersHaveFile == \A p \in Process : pc[p] = "write" => p \in orphaned \/ file # Absent

Typed == TypeOK /\ WritersHaveFile

LEMMA WriteWrites ==
  ASSUME Typed, NEW p \in Process, Write(p)
  PROVE  /\ pid[p] \in Pid
         /\ p \in orphaned => file' = file
         /\ p \notin orphaned => file \in Digits /\ file' = Overwritten(file, pid[p])
         /\ p \notin orphaned => file' \in Digits \ {Empty}
<1>1. pid[p] \in Pid
  BY DEF Typed, TypeOK, Write, Live
<1>2. p \notin orphaned => file \in Digits
  BY DEF Typed, TypeOK, WritersHaveFile, Write
<1>3. p \notin orphaned => file' = Overwritten(file, pid[p])
  BY DEF Write
<1> QED BY <1>1, <1>2, <1>3, OverwrittenIsText, PidsAreDigits DEF Write

OneStarter == \A p, q \in Starting : p = q

(* A holder whose lockfile was not deleted is the one that the file names. *)
HolderIsNamed == \A p \in Holding \ orphaned : file = pid[p] /\ file \in Pid

(* What a command has parsed is in the file until the file is deleted. *)
FoundIsCurrent == \A p \in Process : pc[p] = "check" => file \in {Absent, found[p]}

(* A command that writes the file has made sure that there is no holder. *)
NoHolderWhenCreating ==
  \A p \in Process : pc[p] \in {"create", "write"} => Holding \ orphaned = {}

(* Nobody has written the file since. *)
EmptyWhenWriting == \A p \in Process : pc[p] = "write" => p \in orphaned \/ file = Empty

Exclusive ==
  /\ OneStarter
  /\ HolderIsNamed
  /\ FoundIsCurrent
  /\ NoHolderWhenCreating
  /\ EmptyWhenWriting

IInv == Typed /\ (~overlapped => Exclusive)

LEMMA InitEstablishes == Init => IInv
<1> SUFFICES ASSUME Init PROVE IInv
  OBVIOUS
<1>1. Live = {} /\ Starting = {} /\ Holding = {}
  BY DEF Init, Live, Starting, Holding
<1>2. Typed
  BY <1>1, PidsAreDigits DEF Init, Typed, TypeOK, WritersHaveFile
<1>3. OneStarter /\ HolderIsNamed /\ FoundIsCurrent /\ NoHolderWhenCreating /\ EmptyWhenWriting
  BY <1>1 DEF Init, OneStarter, HolderIsNamed, FoundIsCurrent, NoHolderWhenCreating,
              EmptyWhenWriting
<1> QED BY <1>2, <1>3 DEF IInv, Exclusive

LEMMA MisleadTyped ==
  ASSUME Typed, NEW numbers \in SUBSET (Digits \ {Empty}), Mislead(numbers)
  PROVE  misleading' \subseteq Digits \ {Empty}
BY DEF Typed, TypeOK, Mislead

LEMMA TypedStep == ASSUME Typed, Next PROVE Typed'
<1>0. /\ \A x \in Pid : {x} \cap Remembered \in SUBSET (Digits \ {Empty})
      /\ {} \in SUBSET (Digits \ {Empty})
  BY PidsAreDigits
<1> USE DEF Typed, TypeOK, WritersHaveFile, Goto, Live
<1>1. ASSUME NEW p \in Process, Start(p) PROVE Typed'
  <2>1. overlapped' \in BOOLEAN
    BY <1>1 DEF Start
  <2>2. PICK x \in Pid : FreePid(x) /\ pid' = [pid EXCEPT ![p] = x] /\ Mislead({x} \cap Remembered)
    BY <1>1 DEF Start
  <2>3. misleading' \subseteq Digits \ {Empty}
    BY <1>0, <2>2, MisleadTyped
  <2> QED BY <1>1, <2>1, <2>2, <2>3 DEF Start
<1>2. ASSUME NEW p \in Process, get(p) PROVE Typed'
  <2>1. CASE Read(p)
    BY <2>1 DEF Read
  <2>2. CASE Check(p)
    BY <2>2, <1>0, MisleadTyped DEF Check
  <2>3. CASE Create(p)
    BY <2>3, <1>0, EmptyIsDigits, MisleadTyped DEF Create
  <2>4. CASE Write(p)
    <3>1. /\ file' \in Digits \cup {Absent}
          /\ file # Absent => file' # Absent
      BY <2>4, WriteWrites, PidAssumption
    <3>2. {file'} \ {file, pid[p]} \in SUBSET (Digits \ {Empty})
      BY <2>4, WriteWrites
    <3>3. misleading' \subseteq Digits \ {Empty}
      BY <2>4, <3>2, MisleadTyped DEF Write
    <3>4. abandoned' \in BOOLEAN
      BY <2>4 DEF Write
    <3> QED BY <2>4, <3>1, <3>3, <3>4 DEF Write
  <2> QED BY <1>2, <2>1, <2>2, <2>3, <2>4 DEF get
<1>3. ASSUME NEW p \in Process, Exit(p) PROVE Typed'
  <2>1. overlapped' \in BOOLEAN /\ abandoned' \in BOOLEAN
    BY <1>3 DEF Exit
  <2>2. misleading' \subseteq Digits \ {Empty}
    BY <1>0, <1>3, MisleadTyped DEF Exit
  <2> QED BY <1>3, <2>1, <2>2 DEF Exit
<1>4. CASE RemoveLockfile
  BY <1>4, <1>0, MisleadTyped DEF RemoveLockfile, Holding
<1>5. ASSUME NEW x \in Pid, ForeignStart(x) \/ ForeignStop(x) PROVE Typed'
  <2>1. misleading' \subseteq Digits \ {Empty}
    BY <1>0, <1>5, MisleadTyped DEF ForeignStart, ForeignStop
  <2> QED BY <1>5, <2>1 DEF ForeignStart, ForeignStop
<1> QED BY <1>1, <1>2, <1>3, <1>4, <1>5 DEF Next

-----------------------------------------------------------------------------
(* The steps of a command that takes the lock while no other does. *)

LEMMA StartPreserves ==
  ASSUME Typed, Exclusive, Typed', Starting = {}, NEW p \in Process, Start(p)
  PROVE  Exclusive'
<1> USE DEF Start, Goto
<1>1. OneStarter'
  BY DEF Typed, TypeOK, OneStarter, Starting
<1>2. /\ pc[p] = "off" /\ pc' = [pc EXCEPT ![p] = "read"]
      /\ \A q \in Process \ {p} : pid'[q] = pid[q]
      /\ UNCHANGED <<file, found, orphaned>>
  BY DEF Typed, TypeOK
<1>3. Holding' = Holding
  BY <1>2 DEF Typed, TypeOK, Holding
<1>4. HolderIsNamed' /\ FoundIsCurrent' /\ NoHolderWhenCreating'
  BY <1>2, <1>3 DEF Exclusive, Typed, TypeOK, HolderIsNamed, Holding, FoundIsCurrent,
                    NoHolderWhenCreating
<1>5. EmptyWhenWriting'
  BY <1>2 DEF Exclusive, Typed, TypeOK, EmptyWhenWriting
<1> QED BY <1>1, <1>4, <1>5 DEF Exclusive

LEMMA ReadPreserves ==
  ASSUME Typed, Exclusive, NEW p \in Process, Read(p)
  PROVE  Exclusive'
<1> USE DEF Read, Goto
<1>1. OneStarter'
  BY DEF Exclusive, Typed, TypeOK, OneStarter, Starting
<1>2. Holding' = Holding
  BY DEF Typed, TypeOK, Holding
<1>3. HolderIsNamed' /\ FoundIsCurrent' /\ EmptyWhenWriting'
  BY <1>2 DEF Exclusive, Typed, TypeOK, HolderIsNamed, FoundIsCurrent, EmptyWhenWriting
<1>4. file = Absent => Holding \ orphaned = {}
  BY PidsAreDigits DEF Exclusive, HolderIsNamed
<1>5. NoHolderWhenCreating'
  BY <1>2, <1>4 DEF Exclusive, Typed, TypeOK, NoHolderWhenCreating
<1> QED BY <1>1, <1>3, <1>5 DEF Exclusive

(* The holder that the file names is running, so exists says so. *)
LEMMA CheckPreserves ==
  ASSUME Typed, Exclusive, NEW p \in Process, Check(p)
  PROVE  Exclusive'
<1> USE DEF Check, Goto
<1>1. OneStarter'
  BY DEF Exclusive, Typed, TypeOK, OneStarter, Starting
<1>2. Holding' = Holding
  BY DEF Typed, TypeOK, Holding
<1>3. HolderIsNamed' /\ FoundIsCurrent' /\ EmptyWhenWriting'
  BY <1>2 DEF Exclusive, Typed, TypeOK, HolderIsNamed, FoundIsCurrent, EmptyWhenWriting
<1>4. ASSUME NEW q \in Holding \ orphaned PROVE exists(found[p])
  <2>1. file = pid[q] /\ file \in Pid /\ file \in {Absent, found[p]}
    BY DEF Exclusive, HolderIsNamed, FoundIsCurrent
  <2>2. found[p] = pid[q] /\ q \in Live
    BY <2>1, PidsAreDigits DEF Holding, Live
  <2> QED BY <2>2 DEF exists, PidsInUse
<1>5. NoHolderWhenCreating'
  BY <1>2, <1>4 DEF Exclusive, Typed, TypeOK, NoHolderWhenCreating
<1> QED BY <1>1, <1>3, <1>5 DEF Exclusive

LEMMA CreatePreserves ==
  ASSUME Typed, Exclusive, NEW p \in Process, Create(p)
  PROVE  Exclusive'
<1> USE DEF Create, Goto
<1>1. OneStarter'
  BY DEF Exclusive, Typed, TypeOK, OneStarter, Starting
<1>2. Holding' = Holding /\ Holding \ orphaned = {}
  BY DEF Exclusive, Typed, TypeOK, Holding, NoHolderWhenCreating
<1>3. HolderIsNamed' /\ NoHolderWhenCreating' /\ EmptyWhenWriting'
  BY <1>2 DEF HolderIsNamed, NoHolderWhenCreating, EmptyWhenWriting
<1>4. FoundIsCurrent'
  BY DEF Exclusive, Typed, TypeOK, OneStarter, Starting, FoundIsCurrent
<1> QED BY <1>1, <1>3, <1>4 DEF Exclusive

(* The file is empty when the PID is written, so it holds that PID and nothing else. *)
LEMMA WritePreserves ==
  ASSUME Typed, Exclusive, NEW p \in Process, Write(p)
  PROVE  Exclusive'
<1> USE DEF Write, Goto
<1>1. OneStarter'
  BY DEF Exclusive, Typed, TypeOK, OneStarter, Starting
<1>2. Holding' = Holding \cup {p} /\ Holding \ orphaned = {}
  BY DEF Exclusive, Typed, TypeOK, Holding, NoHolderWhenCreating
<1>3. pid[p] \in Pid
  BY DEF Typed, TypeOK, Live
<1>4. p \notin orphaned => file' = pid[p]
  <2>1. Empty \in Digits /\ Len(Empty) = 0 /\ Len(pid[p]) \in Nat /\ pid[p] \in Digits
    BY <1>3, PidsAreDigits DEF Empty, Digits
  <2>2. p \notin orphaned => file = Empty
    BY DEF Exclusive, EmptyWhenWriting
  <2>3. Overwritten(Empty, pid[p]) = pid[p]
    BY <2>1, NothingIsLeft
  <2> QED BY <2>2, <2>3
<1>5. HolderIsNamed'
  BY <1>2, <1>3, <1>4 DEF HolderIsNamed
<1>6. \A q \in Process : pc'[q] \notin {"check", "create", "write"}
  BY DEF Exclusive, Typed, TypeOK, OneStarter, Starting
<1>7. FoundIsCurrent' /\ NoHolderWhenCreating' /\ EmptyWhenWriting'
  BY <1>6 DEF FoundIsCurrent, NoHolderWhenCreating, EmptyWhenWriting
<1> QED BY <1>1, <1>5, <1>7 DEF Exclusive

(* When the last command ends, nothing is left that the file could be wrong about;
   before that, the holders only become fewer. *)
LEMMA ExitPreserves ==
  ASSUME Typed, NEW p \in Process, Exit(p), Exclusive \/ Live = {p}
  PROVE  Exclusive'
<1>1. /\ pc' = [pc EXCEPT ![p] = "off"] /\ orphaned' = orphaned \ {p} /\ file' = file
      /\ \A q \in Process \ {p} : pid'[q] = pid[q] /\ found'[q] = found[q]
  BY DEF Typed, TypeOK, Exit, Goto
<1>2. CASE Live = {p}
  <2>1. \A q \in Process : pc'[q] = "off"
    BY <1>1, <1>2 DEF Typed, TypeOK, Live
  <2> QED BY <2>1 DEF Exclusive, OneStarter, HolderIsNamed, FoundIsCurrent,
                      NoHolderWhenCreating, EmptyWhenWriting, Starting, Holding
<1>3. CASE Exclusive
  <2>1. Holding' = Holding \ {p} /\ Starting' \subseteq Starting
    BY <1>1 DEF Typed, TypeOK, Holding, Starting
  <2>2. OneStarter' /\ HolderIsNamed' /\ FoundIsCurrent' /\ NoHolderWhenCreating'
    BY <1>1, <1>3, <2>1 DEF Exclusive, Typed, TypeOK, OneStarter, HolderIsNamed, Holding,
                            FoundIsCurrent, NoHolderWhenCreating
  <2>3. EmptyWhenWriting'
    BY <1>1, <1>3 DEF Exclusive, Typed, TypeOK, EmptyWhenWriting
  <2> QED BY <2>2, <2>3 DEF Exclusive
<1> QED BY <1>2, <1>3

LEMMA OtherStepsPreserve ==
  ASSUME Typed, Exclusive,
         RemoveLockfile \/ \E x \in Pid : ForeignStart(x) \/ ForeignStop(x)
  PROVE  Exclusive'
<1>1. CASE RemoveLockfile
  <2>1. Holding' = Holding /\ Starting' = Starting /\ Holding \ orphaned' = {}
    BY <1>1 DEF RemoveLockfile, Holding, Starting
  <2>2. OneStarter' /\ HolderIsNamed' /\ FoundIsCurrent' /\ NoHolderWhenCreating'
    BY <1>1, <2>1 DEF Exclusive, RemoveLockfile, OneStarter, HolderIsNamed,
                      FoundIsCurrent, NoHolderWhenCreating
  <2>3. EmptyWhenWriting'
    BY <1>1 DEF RemoveLockfile, EmptyWhenWriting
  <2> QED BY <2>2, <2>3 DEF Exclusive
<1>2. ASSUME NEW x \in Pid, ForeignStart(x) \/ ForeignStop(x) PROVE Exclusive'
  BY <1>2 DEF Exclusive, ForeignStart, ForeignStop, OneStarter, HolderIsNamed,
              FoundIsCurrent, NoHolderWhenCreating, EmptyWhenWriting, Holding, Starting
<1> QED BY <1>1, <1>2

LEMMA NextPreserves == IInv /\ [Next]_vars => IInv'
<1>1. CASE UNCHANGED vars
  BY <1>1 DEF vars, IInv, Exclusive, Typed, TypeOK, WritersHaveFile, OneStarter,
              HolderIsNamed, FoundIsCurrent, NoHolderWhenCreating, EmptyWhenWriting, Holding,
              Starting, Live
<1>2. ASSUME IInv, Next, ~overlapped' PROVE Typed /\ Typed' /\ Exclusive'
  <2>1. Typed /\ Typed'
    BY <1>2, TypedStep DEF IInv
  <2>2. ASSUME NEW p \in Process, Start(p) PROVE Exclusive'
    <3>1. ~overlapped /\ Starting = {}
      BY <1>2, <2>2 DEF Start
    <3> QED BY <1>2, <2>1, <2>2, <3>1, StartPreserves DEF IInv
  <2>3. ASSUME NEW p \in Process, get(p) PROVE Exclusive'
    <3>1. ~overlapped
      BY <1>2, <2>3 DEF get, Read, Check, Create, Write
    <3> QED BY <1>2, <2>1, <2>3, <3>1, ReadPreserves, CheckPreserves, CreatePreserves,
               WritePreserves DEF IInv, get
  <2>4. ASSUME NEW p \in Process, Exit(p) PROVE Exclusive'
    <3>1. ~overlapped \/ Live = {p}
      BY <1>2, <2>4 DEF Exit
    <3> QED BY <1>2, <2>1, <2>4, <3>1, ExitPreserves DEF IInv
  <2>5. CASE RemoveLockfile \/ \E x \in Pid : ForeignStart(x) \/ ForeignStop(x)
    <3>1. ~overlapped
      BY <1>2, <2>5 DEF RemoveLockfile, ForeignStart, ForeignStop
    <3> QED BY <1>2, <2>1, <2>5, <3>1, OtherStepsPreserve DEF IInv
  <2> QED BY <1>2, <2>1, <2>2, <2>3, <2>4, <2>5 DEF Next
<1>3. IInv /\ Next => Typed'
  BY TypedStep DEF IInv
<1> QED BY <1>1, <1>2, <1>3 DEF IInv

-----------------------------------------------------------------------------
(* A PID names one process. *)
PidsDistinct ==
  /\ \A p, q \in Live : pid[p] = pid[q] => p = q
  /\ \A p \in Live : pid[p] \notin foreign

LEMMA PidsStep == ASSUME TypeOK, PidsDistinct, Next PROVE PidsDistinct'
<1> USE DEF TypeOK, Live, Goto, PidsDistinct
<1>1. ASSUME NEW p \in Process, Start(p) PROVE PidsDistinct'
  <2>1. PICK x \in Pid : FreePid(x) /\ pid' = [pid EXCEPT ![p] = x]
    BY <1>1 DEF Start
  <2>2. x \notin foreign /\ \A q \in Live : pid[q] # x
    BY <2>1 DEF FreePid, PidsInUse
  <2> QED BY <1>1, <2>1, <2>2 DEF Start
<1>2. ASSUME NEW p \in Process, get(p) PROVE PidsDistinct'
  <2>1. /\ UNCHANGED <<pid, foreign>> /\ pc[p] # "off"
        /\ \A q \in Process \ {p} : pc'[q] = pc[q]
    BY <1>2 DEF get, Read, Check, Create, Write
  <2> QED BY <2>1
<1>3. ASSUME NEW p \in Process, Exit(p) PROVE PidsDistinct'
  BY <1>3 DEF Exit
<1>4. CASE RemoveLockfile
  BY <1>4 DEF RemoveLockfile
<1>5. ASSUME NEW x \in Pid, ForeignStart(x) \/ ForeignStop(x) PROVE PidsDistinct'
  BY <1>5 DEF ForeignStart, ForeignStop, FreePid, PidsInUse
<1> QED BY <1>1, <1>2, <1>3, <1>4, <1>5 DEF Next

LEMMA PidsStayDistinct == TypeOK /\ PidsDistinct /\ [Next]_vars => PidsDistinct'
<1>1. CASE UNCHANGED vars
  BY <1>1 DEF vars, PidsDistinct, Live
<1> QED BY <1>1, PidsStep

(* At most one command holds the lock, apart from those whose lockfile was deleted, if
   none has started while another was taking it, since there last was none at all. *)
THEOREM MutualExclusion == Spec => []AtMostOneHolder
<1>1. IInv /\ PidsDistinct => AtMostOneHolder
  <2> SUFFICES ASSUME IInv, PidsDistinct, ~overlapped, NEW p \in Holding \ orphaned,
                      NEW q \in Holding \ orphaned
               PROVE  p = q
    BY DEF AtMostOneHolder
  <2>1. file = pid[p] /\ file = pid[q]
    BY DEF IInv, Exclusive, HolderIsNamed
  <2>2. p \in Live /\ q \in Live
    BY DEF Holding, Live
  <2> QED BY <2>1, <2>2 DEF PidsDistinct
<1>2. Init => PidsDistinct
  BY DEF Init, PidsDistinct, Live
<1>3. IInv /\ PidsDistinct /\ [Next]_vars => PidsDistinct'
  BY PidsStayDistinct DEF IInv, Typed
<1> QED BY <1>1, <1>2, <1>3, InitEstablishes, NextPreserves, PTL DEF Spec

LEMMA TypedInductive == Typed /\ [Next]_vars => Typed'
<1>1. CASE UNCHANGED vars
  BY <1>1 DEF vars, Typed, TypeOK, WritersHaveFile, Live
<1> QED BY <1>1, TypedStep

(* Every variable keeps its type: the file is absent or holds digits, also where one PID
   was written over another. *)
THEOREM TypeCorrect == Spec => []TypeOK
<1>1. Init => Typed
  BY InitEstablishes DEF IInv
<1>2. Typed => TypeOK
  BY DEF Typed
<1> QED BY <1>1, <1>2, TypedInductive, PTL DEF Spec

-----------------------------------------------------------------------------
(* A number in the file, or parsed from it, that names a program of someone else or the
   command that is about to look misleads. *)
OutsidersMislead ==
  /\ file \in foreign => file \in misleading
  /\ \A p \in Process : pc[p] = "read" /\ file = pid[p] => file \in misleading
  /\ \A p \in Process :
       pc[p] = "check" /\ (found[p] = pid[p] \/ found[p] \in foreign) => found[p] \in misleading

NameInv == Typed /\ PidsDistinct /\ OutsidersMislead

LEMMA ReadKeepsNames ==
  ASSUME NameInv, NEW p \in Process, Read(p) PROVE OutsidersMislead'
BY DEF NameInv, Typed, TypeOK, Goto, Read, OutsidersMislead

LEMMA CheckKeepsNames ==
  ASSUME NameInv, NEW p \in Process, Check(p) PROVE OutsidersMislead'
BY DEF NameInv, Typed, TypeOK, Goto, Check, OutsidersMislead, Mislead, Remembered

LEMMA CreateKeepsNames ==
  ASSUME NameInv, NEW p \in Process, Create(p) PROVE OutsidersMislead'
<1>1. Empty \notin foreign /\ \A q \in Live : pid[q] # Empty
  BY PidAssumption DEF NameInv, Typed, TypeOK
<1> QED BY <1>1 DEF NameInv, Typed, TypeOK, Live, Goto, Create, OutsidersMislead, Mislead,
                    Remembered

(* What is written is the PID of a command that runs, or it was in the file before, or it
   misleads. *)
LEMMA WriteKeepsNames ==
  ASSUME NameInv, NEW p \in Process, Write(p) PROVE OutsidersMislead'
<1>1. /\ pc[p] = "write" /\ UNCHANGED <<pid, found, foreign>> /\ p \in Live
      /\ pc' = [pc EXCEPT ![p] = "holding"]
      /\ misleading' = (misleading \cup ({file'} \ {file, pid[p]})) \cap Remembered'
  BY DEF Write, Goto, Mislead, Live
<1>2. file' \in Remembered'
  BY DEF Remembered
<1>3. file' = file => OutsidersMislead'
  BY <1>1 DEF NameInv, Typed, TypeOK, OutsidersMislead, Remembered
<1>4. pid[p] \notin foreign /\ \A q \in Process : pc[q] = "read" => pid[q] # pid[p]
  BY <1>1 DEF NameInv, PidsDistinct, Live
<1>5. file' \notin {file, pid[p]} => file' \in misleading'
  BY <1>1, <1>2
<1>6. \A q \in Process : pc'[q] = "check" => pc[q] = "check" /\ found[q] \in Remembered'
  BY <1>1 DEF NameInv, Typed, TypeOK, Remembered
<1>7. \A q \in Process :
        pc'[q] = "check" /\ (found'[q] = pid'[q] \/ found'[q] \in foreign') =>
          found'[q] \in misleading'
  BY <1>1, <1>6 DEF NameInv, OutsidersMislead
<1>8. \A q \in Process : pc'[q] = "read" => pc[q] = "read"
  BY <1>1 DEF NameInv, Typed, TypeOK
<1> QED BY <1>1, <1>3, <1>4, <1>5, <1>7, <1>8 DEF OutsidersMislead

(* A process that gets a number that is remembered makes it mislead. *)
LEMMA NewProcessMisleads ==
  ASSUME NameInv, NEW x \in Pid, UNCHANGED <<file, found>>,
         \A p \in Process : pc'[p] = "check" <=> pc[p] = "check",
         \A p \in Process : pc'[p] = "read" => (pc[p] = "read" /\ pid'[p] = pid[p]) \/ pid'[p] = x,
         \A p \in Process : pc[p] = "check" => pid'[p] = pid[p],
         foreign' \subseteq foreign \cup {x},
         Mislead({x} \cap Remembered)
  PROVE  OutsidersMislead'
<1>1. Remembered' = Remembered
  BY DEF Remembered
<1>2. file \in Remembered /\ \A p \in Process : pc[p] = "check" => found[p] \in Remembered
  BY DEF Remembered
<1>3. misleading' = (misleading \cup ({x} \cap Remembered)) \cap Remembered
  BY <1>1 DEF Mislead
<1> QED BY <1>2, <1>3 DEF NameInv, OutsidersMislead

LEMMA NamesStep == ASSUME NameInv, Next PROVE OutsidersMislead'
<1>1. ASSUME NEW p \in Process, Start(p) PROVE OutsidersMislead'
  <2>1. PICK x \in Pid : pid' = [pid EXCEPT ![p] = x] /\ Mislead({x} \cap Remembered)
    BY <1>1 DEF Start
  <2>2. /\ pc[p] = "off" /\ pc' = [pc EXCEPT ![p] = "read"] /\ UNCHANGED <<file, found, foreign>>
    BY <1>1 DEF Start, Goto
  <2>3. /\ \A q \in Process : pc'[q] = "check" <=> pc[q] = "check"
        /\ \A q \in Process : pc'[q] = "read" =>
             (pc[q] = "read" /\ pid'[q] = pid[q]) \/ pid'[q] = x
        /\ \A q \in Process : pc[q] = "check" => pid'[q] = pid[q]
    BY <2>1, <2>2 DEF NameInv, Typed, TypeOK
  <2> QED BY <2>1, <2>2, <2>3, NewProcessMisleads
<1>2. ASSUME NEW p \in Process, get(p) PROVE OutsidersMislead'
  BY <1>2, ReadKeepsNames, CheckKeepsNames, CreateKeepsNames, WriteKeepsNames DEF get
<1>3. ASSUME NEW p \in Process, Exit(p) PROVE OutsidersMislead'
  BY <1>3 DEF NameInv, Typed, TypeOK, Goto, Exit, OutsidersMislead, Mislead, Remembered
<1>4. CASE RemoveLockfile
  <2>1. Absent \notin foreign /\ \A q \in Live : pid[q] # Absent
    BY PidsAreDigits DEF NameInv, Typed, TypeOK
  <2> QED BY <1>4, <2>1 DEF RemoveLockfile, NameInv, OutsidersMislead, Mislead, Remembered,
                           Live
<1>5. ASSUME NEW x \in Pid, ForeignStart(x) PROVE OutsidersMislead'
  BY <1>5, NewProcessMisleads DEF ForeignStart
<1>6. ASSUME NEW x \in Pid, ForeignStop(x) PROVE OutsidersMislead'
  BY <1>6 DEF ForeignStop, NameInv, OutsidersMislead
<1> QED BY <1>1, <1>2, <1>3, <1>4, <1>5, <1>6 DEF Next

LEMMA NameInvStep == NameInv /\ [Next]_vars => NameInv'
<1>1. NameInv /\ [Next]_vars => Typed' /\ PidsDistinct'
  BY TypedInductive, PidsStayDistinct DEF NameInv, Typed
<1>2. NameInv /\ UNCHANGED vars => OutsidersMislead'
  BY DEF vars, NameInv, OutsidersMislead
<1> QED BY <1>1, <1>2, NamesStep DEF NameInv

(* Whoever is told that a build is already running is told the truth, with PIDs of any
   lengths, overlapping starts, kills and reused PIDs, unless the very number it has read
   was given to a new process or is what two PIDs written over one another make.  The run
   lock_mixture shows that this last case is not empty. *)
THEOREM RefusalIsTrue == Spec => LockedByAnother
<1> DEFINE Refused(p) == pc[p] = "check" /\ pc'[p] = "locked"
           Step == \A p \in Process : Refused(p) =>
                     found[p] \in misleading \/ \E q \in Live \ {p} : pid[q] = found[p]
<1>1. Init => NameInv
  BY InitEstablishes DEF IInv, Init, NameInv, PidsDistinct, OutsidersMislead, Live
<1>2. ASSUME NameInv, Next PROVE Step
  <2> SUFFICES ASSUME NEW p \in Process, Refused(p), found[p] \notin misleading
               PROVE  \E q \in Live \ {p} : pid[q] = found[p]
    OBVIOUS
  <2>1. Check(p)
    BY <1>2 DEF Next, Start, get, Read, Check, Create, Write, Exit, Goto, RemoveLockfile,
                ForeignStart, ForeignStop, NameInv, Typed, TypeOK
  <2>2. found[p] \in PidsInUse
    BY <1>2, <2>1 DEF Check, Goto, exists, NameInv, Typed, TypeOK
  <2>3. found[p] \notin foreign /\ found[p] # pid[p]
    BY <1>2 DEF NameInv, OutsidersMislead
  <2> QED BY <2>2, <2>3 DEF PidsInUse
<1>3. ASSUME NameInv, UNCHANGED vars PROVE Step
  BY <1>3 DEF vars
<1>4. NameInv /\ [Next]_vars => [Step]_vars
  BY <1>2, <1>3
<1> QED BY <1>1, NameInvStep, <1>4, PTL DEF Spec, LockedByAnother

-----------------------------------------------------------------------------
(* An empty lockfile has a command that will put its PID into it, or had one. *)
EmptyIsBeingWritten ==
  /\ file = Empty => abandoned \/ \E q \in Process \ orphaned : pc[q] = "write"
  /\ \A p \in orphaned : pc[p] \in {"write", "holding"}

LEMMA EmptyStep ==
  ASSUME Typed, EmptyIsBeingWritten, Next PROVE EmptyIsBeingWritten'
<1> USE DEF Typed, TypeOK, EmptyIsBeingWritten, Goto
<1>1. ASSUME NEW p \in Process, Start(p) PROVE EmptyIsBeingWritten'
  BY <1>1 DEF Start
<1>2. ASSUME NEW p \in Process, Read(p) \/ Check(p) PROVE EmptyIsBeingWritten'
  BY <1>2 DEF Read, Check
<1>3. ASSUME NEW p \in Process, Create(p) PROVE EmptyIsBeingWritten'
  BY <1>3 DEF Create
<1>4. ASSUME NEW p \in Process, Write(p) PROVE EmptyIsBeingWritten'
  <2>1. /\ p \in orphaned => file' = file /\ abandoned' = abandoned
        /\ p \notin orphaned => file' # Empty
    BY <1>4, WriteWrites DEF Write
  <2>2. /\ orphaned' = orphaned /\ pc'[p] = "holding"
        /\ \A q \in Process \ {p} : pc'[q] = pc[q]
    BY <1>4 DEF Write
  <2> QED BY <2>1, <2>2
<1>5. ASSUME NEW p \in Process, Exit(p) PROVE EmptyIsBeingWritten'
  BY <1>5 DEF Exit
<1>6. CASE RemoveLockfile
  BY <1>6, EmptyIsDigits DEF RemoveLockfile, Holding
<1>7. ASSUME NEW x \in Pid, ForeignStart(x) \/ ForeignStop(x) PROVE EmptyIsBeingWritten'
  BY <1>7 DEF ForeignStart, ForeignStop
<1> QED BY <1>1, <1>2, <1>3, <1>4, <1>5, <1>6, <1>7 DEF Next, get

(* No command is ever refused because of a lockfile without a PID that nobody is going to
   complete, unless the command that emptied it has ended before it wrote. *)
THEOREM UnparsableIsTransient == Spec => UnparsableOnlyWhileWritten
<1> DEFINE Step == \A p \in Process : pc[p] = "read" /\ pc'[p] = "unparsable" =>
                      abandoned \/ \E q \in Process : pc[q] = "write"
           Inv == Typed /\ EmptyIsBeingWritten
<1>1. Init => Inv
  BY InitEstablishes, PidsAreDigits, EmptyIsDigits DEF IInv, Init, EmptyIsBeingWritten
<1>2. Inv /\ UNCHANGED vars => Inv'
  BY TypedInductive DEF vars, EmptyIsBeingWritten
<1>3. Inv /\ Next => Inv'
  BY TypedStep, EmptyStep
<1>4. ASSUME Inv, Next PROVE Step
  <2> SUFFICES ASSUME NEW p \in Process, pc[p] = "read", pc'[p] = "unparsable"
               PROVE  abandoned \/ \E q \in Process : pc[q] = "write"
    OBVIOUS
  <2>1. Read(p)
    BY <1>4 DEF Next, Start, get, Read, Check, Create, Write, Exit, Goto, RemoveLockfile,
                ForeignStart, ForeignStop, Typed, TypeOK
  <2>2. file = Empty
    BY <1>4, <2>1 DEF Read, Goto, Typed, TypeOK
  <2> QED BY <1>4, <2>2 DEF EmptyIsBeingWritten
<1>5. ASSUME UNCHANGED vars PROVE Step
  BY <1>5 DEF vars
<1>6. Inv /\ [Next]_vars => [Step]_vars
  BY <1>4, <1>5
<1> QED BY <1>1, <1>2, <1>3, <1>6, PTL DEF Spec, UnparsableOnlyWhileWritten
=============================================================================
