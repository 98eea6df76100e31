-------------------------- MODULE LedDeviceProofs --------------------------
(***************************************************************************)
(* Proofs about LedDevice, for any finite number of processes and any      *)
(* files.  That at most one file is open is not inductive: the invariant   *)
(* adds what the loaded driver knows about the device, and FileInv, by     *)
(* which a file that is being released has no descriptor left and is       *)
(* released once.                                                          *)
(***************************************************************************)
EXTENDS LedDevice, TLAPS, FiniteSetTheorems, SequenceTheorems

(***************************************************************************)
(* What holds of the files whatever guards led_open.                       *)
(***************************************************************************)
(* A file counts as open through a descriptor or through a system call.    *)
LEMMA OpenedMember ==
  ASSUME NEW f
  PROVE  f \in Opened <=>
           \E p \in Procs : f \in fds[p] \/ (pc[p] \in Holding /\ cur[p] = f)
<1> DEFINE D == UNION {fds[p] : p \in Procs}
           C == {cur[p] : p \in {q \in Procs : pc[q] \in Holding}}
<1>1. f \in D <=> \E p \in Procs : f \in fds[p]
  OBVIOUS
<1>2. f \in C <=> \E p \in Procs : pc[p] \in Holding /\ cur[p] = f
  OBVIOUS
<1>3. f \in Opened <=> f \in D \/ f \in C
  BY DEF Opened
<1> HIDE DEF D, C
<1>4. QED
  BY <1>1, <1>2, <1>3

(* The same after a step. *)
LEMMA OpenedMemberNext ==
  ASSUME NEW f
  PROVE  f \in Opened' <=>
           \E p \in Procs : f \in fds'[p] \/ (pc'[p] \in Holding /\ cur'[p] = f)
<1> DEFINE D == UNION {fds'[p] : p \in Procs}
           C == {cur'[p] : p \in {q \in Procs : pc'[q] \in Holding}}
<1>1. f \in D <=> \E p \in Procs : f \in fds'[p]
  OBVIOUS
<1>2. f \in C <=> \E p \in Procs : pc'[p] \in Holding /\ cur'[p] = f
  OBVIOUS
<1>3. f \in Opened' <=> f \in D \/ f \in C
  BY DEF Opened
<1> HIDE DEF D, C
<1>4. QED
  BY <1>1, <1>2, <1>3

-----------------------------------------------------------------------------
(* What the reference count of a file gives the drivers, whatever guards   *)
(* led_open: a file in led_open or led_release has no descriptor and is in *)
(* no other system call, so led_release runs once per file.                *)
OwnFile ==
  \A p \in Procs :
    /\ pc[p] = "user" => cur[p] = NoFile
    /\ pc[p] # "user" => cur[p] \in Files
    /\ pc[p] = "write" => cur[p] \in fds[p]
    /\ pc[p] \notin {"user", "write"} =>
         \A q \in Procs : cur[p] \notin fds[q] /\ (q # p => cur[q] # cur[p])

FileInv ==
  /\ FileTypeOK
  /\ OwnFile

LEMMA SyscallInv ==
  ASSUME FileInv, NEW p \in Procs, NEW busy, Syscall(p, busy)
  PROVE  FileInv'
<1> USE LedFileAssumption DEF FileInv, FileTypeOK, OwnFile, PC
<1>1. CASE OpenCall(p, busy)
  BY <1>1 DEF OpenCall, InUse
<1>2. CASE WriteCall(p)
  BY <1>2 DEF WriteCall
<1>3. CASE Write(p)
  BY <1>3 DEF Write
<1>4. CASE CloseCall(p)
  BY <1>4 DEF CloseCall
<1>5. CASE Signal(p)
  BY <1>5 DEF Signal
<1>6. ASSUME NEW q \in Procs, Share(p, q)
      PROVE  FileInv'
  BY <1>6 DEF Share
<1>7. QED
  BY <1>1, <1>2, <1>3, <1>4, <1>5, <1>6 DEF Syscall

(* The ends of led_open and led_release, and a step inside them. *)
LEMMA EndsInv ==
  ASSUME FileInv, NEW p \in Procs, pc[p] \notin {"user", "write"},
         waited' \subseteq Procs,
         OpenReturn(p) \/ OpenFail(p) \/ (ReleaseReturn(p) /\ waited' = waited)
  PROVE  FileInv'
<1> USE LedFileAssumption DEF FileInv, FileTypeOK, OwnFile, PC
<1>1. CASE OpenReturn(p)
  BY <1>1 DEF OpenReturn
<1>2. CASE OpenFail(p)
  BY <1>2 DEF OpenFail
<1>3. CASE ReleaseReturn(p)
  BY <1>3 DEF ReleaseReturn
<1>4. QED
  BY <1>1, <1>2, <1>3

LEMMA InsideInv ==
  ASSUME FileInv, NEW p \in Procs, NEW l \in PC,
         pc[p] \notin {"user", "write"}, l \notin {"user", "write"},
         pc' = [pc EXCEPT ![p] = l], waited' \subseteq Procs, UNCHANGED <<cur, fds, sig, gpio>>
  PROVE  FileInv'
  BY DEF FileInv, FileTypeOK, OwnFile

-----------------------------------------------------------------------------
(* What the steps do to the set of open files.                             *)
LEMMA SyscallOpen ==
  ASSUME FileInv, NEW p \in Procs, NEW busy, Syscall(p, busy)
  PROVE  Opened' = Opened
<1> SUFFICES ASSUME NEW f
             PROVE  f \in Opened' <=> f \in Opened
  OBVIOUS
<1> USE OpenedMember, OpenedMemberNext DEF Holding, FileInv, FileTypeOK
<1>1. CASE OpenCall(p, busy)
  BY <1>1 DEF OpenCall
<1>2. CASE WriteCall(p)
  BY <1>2 DEF WriteCall
<1>3. CASE Write(p)
  BY <1>3 DEF Write
<1>4. CASE CloseCall(p)
  BY <1>4 DEF CloseCall
<1>5. CASE Signal(p)
  BY <1>5 DEF Signal
<1>6. ASSUME NEW q \in Procs, Share(p, q)
      PROVE  f \in Opened' <=> f \in Opened
  BY <1>6 DEF Share
<1>7. QED
  BY <1>1, <1>2, <1>3, <1>4, <1>5, <1>6 DEF Syscall

LEMMA OpenReturnOpen ==
  ASSUME FileInv, NEW p \in Procs, OpenReturn(p)
  PROVE  Opened' = Opened \cup {cur[p]}
<1> SUFFICES ASSUME NEW f
             PROVE  f \in Opened' <=> f \in Opened \/ f = cur[p]
  OBVIOUS
<1> QED
  BY OpenedMember, OpenedMemberNext DEF Holding, FileInv, FileTypeOK, OpenReturn

LEMMA OpenFailOpen ==
  ASSUME FileInv, NEW p \in Procs, pc[p] \notin Holding, OpenFail(p) \/ ReleaseReturn(p)
  PROVE  Opened' = Opened
<1> SUFFICES ASSUME NEW f
             PROVE  f \in Opened' <=> f \in Opened
  OBVIOUS
<1> QED
  BY OpenedMember, OpenedMemberNext DEF Holding, FileInv, FileTypeOK, OpenFail, ReleaseReturn

LEMMA ReleaseReturnOpen ==
  ASSUME FileInv, NEW p \in Procs, pc[p] \in Holding, pc[p] \notin {"user", "write"}, ReleaseReturn(p)
  PROVE  Opened' = Opened \ {cur[p]} /\ cur[p] \in Opened
<1> SUFFICES ASSUME NEW f
             PROVE  /\ f \in Opened' <=> f \in Opened /\ f # cur[p]
                    /\ cur[p] \in Opened
  OBVIOUS
<1>1. cur[p] \in Opened
  BY OpenedMember
<1>2. f \in Opened' <=> f \in Opened /\ f # cur[p]
  BY OpenedMember, OpenedMemberNext DEF Holding, FileInv, FileTypeOK, OwnFile, ReleaseReturn
<1>3. QED
  BY <1>1, <1>2

(* A step inside led_open or led_release, to a label that counts as open   *)
(* and to one that does not.                                               *)
LEMMA InsideOpen ==
  ASSUME FileInv, NEW p \in Procs, NEW l, l \in Holding,
         pc[p] \notin {"user", "write"},
         pc' = [pc EXCEPT ![p] = l], UNCHANGED <<cur, fds>>
  PROVE  Opened' = Opened \cup {cur[p]}
<1> SUFFICES ASSUME NEW f
             PROVE  f \in Opened' <=> f \in Opened \/ f = cur[p]
  OBVIOUS
<1> QED
  BY OpenedMember, OpenedMemberNext DEF Holding, FileInv, FileTypeOK, OwnFile

LEMMA InsideShut ==
  ASSUME FileInv, NEW p \in Procs, NEW l, l \notin Holding,
         pc[p] \notin {"user", "write"},
         pc' = [pc EXCEPT ![p] = l], UNCHANGED <<cur, fds>>
  PROVE  Opened' = Opened \ {cur[p]}
<1> SUFFICES ASSUME NEW f
             PROVE  f \in Opened' <=> f \in Opened /\ f # cur[p]
  OBVIOUS
<1> QED
  BY OpenedMember, OpenedMemberNext DEF Holding, FileInv, FileTypeOK, OwnFile

(* Whether the file of a system call counts as open is told by its label.  *)
LEMMA CurOpen ==
  ASSUME FileInv, NEW p \in Procs,
         pc[p] \notin {"user", "write"}
  PROVE  cur[p] \in Opened <=> pc[p] \in Holding
  BY OpenedMember DEF Holding, FileInv, FileTypeOK, OwnFile

-----------------------------------------------------------------------------
(***************************************************************************)
(* What each driver knows about the device.                                *)
(***************************************************************************)

(* atomic.c: the refused openers that have yet to increment the counter.   *)
Undoing == {p \in Procs : pc[p] = "undo"}

(* spinlock.c: who is inside a critical section holds the spinlock,        *)
(* dev_stats is 1 exactly while a file is open, and the device is still    *)
(* free for the opener that has found it free.                             *)
Holder == \A p \in Procs : pc[p] \in Inside <=> spinlock = p
Counted == dev_stats \in {0, 1} /\ (dev_stats = 0 <=> Opened = {})
FoundFree == \A p \in Procs : pc[p] = "free" => dev_stats = 0

(* semaphore.c: the count is 1 exactly while no file is open, and whoever  *)
(* is in the list, once, waits for its file to be granted (and nobody else *)
(* does: Queued).                                                          *)
SemCounted ==
  /\ count \in {0, 1}
  /\ count = 1 <=> Opened = {}
  /\ count = 1 => wait_list = <<>>
Listed ==
  \A i \in 1 .. Len(wait_list) :
    /\ pc[wait_list[i]] = "wait"
    /\ \A j \in 1 .. Len(wait_list) : wait_list[i] = wait_list[j] => i = j

DriverInv ==
  /\ guard = "atomic" => LockAccounts
  /\ guard = "spinlock" => Holder /\ Counted /\ FoundFree
  /\ guard = "semaphore" => SemCounted /\ Listed /\ Queued
  /\ guard = "mutex" => LockedWhileOpen

GuardTypeOK ==
  /\ guard \in Guards
  /\ AtomicTypeOK
  /\ SpinTypeOK
  /\ SemTypeOK
  /\ MutexTypeOK

IInv ==
  /\ FileInv
  /\ GuardTypeOK
  /\ AtMostOneOpen
  /\ DriverInv

(* A step grants the free device to one file, gives it up, passes it on,   *)
(* switches the LED of the open device, or leaves both as they are.        *)
ExclusiveStep == [Exclusive!Next]_Exclusive!exclVars

LEMMA StayClosed ==
  ASSUME UNCHANGED <<Opened, gpio>>
  PROVE  ExclusiveStep
  BY DEF ExclusiveStep, Exclusive!exclVars

LEMMA GrantStep ==
  ASSUME NEW f \in Files, Opened = {}, Opened' = {f}, UNCHANGED gpio
  PROVE  ExclusiveStep
  BY DEF ExclusiveStep, Exclusive!Next, Exclusive!Grant

LEMMA GiveupStep ==
  ASSUME NEW f \in Files, f \in Opened, Opened' = Opened \ {f}, UNCHANGED gpio
  PROVE  ExclusiveStep
  BY DEF ExclusiveStep, Exclusive!Next, Exclusive!Giveup

LEMMA PassStep ==
  ASSUME NEW f \in Files, NEW g \in Files, Opened = {f}, Opened' = {g}, UNCHANGED gpio
  PROVE  ExclusiveStep
  BY DEF ExclusiveStep, Exclusive!Next, Exclusive!Pass

(* Such a step leaves at most one file open.                               *)
LEMMA StaysExclusive ==
  ASSUME AtMostOneOpen, ExclusiveStep
  PROVE  AtMostOneOpen'
  BY DEF AtMostOneOpen, ExclusiveStep, Exclusive!exclVars, Exclusive!Next,
     Exclusive!Grant, Exclusive!Giveup, Exclusive!Pass, Exclusive!Switch

(* Opened and Undoing are finite, Opened has at most one element.          *)
LEMMA OpenedSize ==
  ASSUME AtMostOneOpen
  PROVE  /\ IsFiniteSet(Opened)
         /\ Opened = {} => Cardinality(Opened) = 0
         /\ Opened # {} => Cardinality(Opened) = 1
<1>1. CASE Opened = {}
  BY <1>1, FS_EmptySet
<1>2. ASSUME NEW f \in Opened
      PROVE  IsFiniteSet(Opened) /\ Cardinality(Opened) = 1 /\ Opened # {}
  <2>1. Opened = {f}
    BY DEF AtMostOneOpen
  <2>2. QED
    BY <2>1, FS_Singleton
<1>3. QED
  BY <1>1, <1>2

LEMMA UndoingSize == IsFiniteSet(Undoing) /\ Cardinality(Undoing) \in Nat
<1>1. IsFiniteSet(Undoing)
  BY LedFileAssumption, FS_Subset DEF Undoing
<1>2. QED
  BY <1>1, FS_CardinalityType

-----------------------------------------------------------------------------
(* System calls outside led_open and led_release. *)
LEMMA SyscallLabels ==
  ASSUME FileInv, NEW p \in Procs, NEW busy, Syscall(p, busy), NEW q \in Procs,
         NEW l, l \notin {"user", "open", "write", "release"}
  PROVE  pc'[q] = l <=> pc[q] = l
  BY DEF Syscall, OpenCall, WriteCall, Write, CloseCall, Signal, Share, FileInv, FileTypeOK

LEMMA SyscallStep ==
  ASSUME IInv, NEW p \in Procs, NEW busy, Syscall(p, busy), UNCHANGED guardVars
  PROVE  IInv' /\ ExclusiveStep
<1>a. FileInv
  BY DEF IInv
<1>b. UNCHANGED <<guard, lock, spinlock, dev_stats, count, wait_list, owner>>
  BY DEF guardVars, spinVars, semVars
<1>1. FileInv'
  BY <1>a, SyscallInv
<1>2. UNCHANGED Opened
  BY <1>a, SyscallOpen
<1>3. ExclusiveStep
  <2>1. CASE Write(p)
    <3>1. Opened # {} /\ gpio' \in {0, 1}
      BY <2>1, <1>a, OpenedMember DEF Write, FileInv, FileTypeOK, OwnFile
    <3>2. QED
      BY <3>1, <1>2 DEF ExclusiveStep, Exclusive!Next, Exclusive!Switch
  <2>2. CASE ~Write(p)
    <3>1. UNCHANGED gpio
      BY <2>2 DEF Syscall, OpenCall, WriteCall, CloseCall, Signal, Share
    <3>2. QED
      BY <3>1, <1>2, StayClosed
  <2>3. QED
    BY <2>1, <2>2
<1>4. GuardTypeOK'
  BY <1>b DEF IInv, GuardTypeOK, AtomicTypeOK, SpinTypeOK, SemTypeOK, MutexTypeOK
<1>5. DriverInv'
  <2>1. Undoing' = Undoing
    BY <1>a, SyscallLabels DEF Undoing
  <2>2. LockAccounts => LockAccounts'
    BY <2>1, <1>2, <1>b DEF LockAccounts, Undoing
  <2>3. Holder => Holder'
    <3>1. \A q \in Procs : pc'[q] \in Inside <=> pc[q] \in Inside
      BY <1>a, SyscallLabels DEF Inside
    <3>2. QED
      BY <3>1, <1>b DEF Holder
  <2>4. /\ guard = "semaphore" /\ Listed => Listed'
        /\ Queued => Queued'
    <3>1. \A i \in 1 .. Len(wait_list) : wait_list[i] \in Procs
      BY DEF IInv, GuardTypeOK, SemTypeOK
    <3>2. \A q \in Procs : pc[q] = "wait" <=> pc'[q] = "wait"
      BY <1>a, SyscallLabels
    <3>3. QED
      BY <3>1, <3>2, <1>b DEF Listed, Queued
  <2>5. FoundFree => FoundFree'
    <3>1. \A q \in Procs : pc'[q] = "free" <=> pc[q] = "free"
      BY <1>a, SyscallLabels
    <3>2. QED
      BY <3>1, <1>b DEF FoundFree
  <2>6. QED
    BY <2>2, <2>3, <2>4, <2>5, <1>2, <1>b
       DEF IInv, DriverInv, Counted, SemCounted, LockedWhileOpen
<1>6. QED
  BY <1>1, <1>3, <1>4, <1>5, StaysExclusive DEF IInv

-----------------------------------------------------------------------------
(* 07_atomic: the counter is 1 minus the open file minus the refused       *)
(* openers that have not given their decrement back; it is 1 only if there *)
(* is neither, so an open that brings it to 0 is the only one.             *)
LEMMA AtomicKeeps ==
  ASSUME IInv, NEW p \in Procs, Atomic(p)
  PROVE  IInv' /\ ExclusiveStep
<1>a. /\ FileInv
      /\ pc \in [Procs -> PC]
      /\ waited \subseteq Procs
      /\ lock \in Int
      /\ guard = "atomic"
      /\ UNCHANGED <<guard, spinlock, dev_stats, count, wait_list, owner>>
  BY DEF IInv, FileInv, FileTypeOK, Atomic, spinVars, semVars, GuardTypeOK, AtomicTypeOK
<1>b. /\ IsFiniteSet(Undoing) /\ Cardinality(Undoing) \in Nat
      /\ IsFiniteSet(Opened) /\ Cardinality(Opened) \in {0, 1}
      /\ Opened = {} <=> Cardinality(Opened) = 0
      /\ lock = 1 - Cardinality(Opened) - Cardinality(Undoing)
  BY <1>a, OpenedSize, UndoingSize DEF IInv, DriverInv, LockAccounts, Undoing
<1>c. LockAccounts' <=> lock' = 1 - Cardinality(Opened') - Cardinality(Undoing')
  BY DEF LockAccounts, Undoing
<1>1. ASSUME FileInv', ExclusiveStep, LockAccounts', lock' \in Int
      PROVE  IInv' /\ ExclusiveStep
  <2>1. GuardTypeOK'
    BY <1>1, <1>a
       DEF IInv, GuardTypeOK, AtomicTypeOK, SpinTypeOK, SemTypeOK, MutexTypeOK
  <2>2. QED
    BY <1>1, <1>a, <2>1, StaysExclusive DEF IInv, DriverInv
<1>2. CASE OpenDec(p)
  <2>1. CASE lock' = 0
    <3>1. lock = 1
      BY <1>2, <2>1, <1>b DEF OpenDec
    <3>2. Cardinality(Opened) = 0 /\ Cardinality(Undoing) = 0
      BY <3>1, <1>b
    <3>3. Opened = {} /\ Undoing = {}
      BY <3>2, <1>b, FS_EmptySet
    <3>4. FileInv'
      BY <1>2, <2>1, <1>a, EndsInv DEF OpenDec, MarkWaiting
    <3>5. Opened' = {cur[p]}
      BY <1>2, <2>1, <1>a, <3>3, OpenReturnOpen DEF OpenDec
    <3>6. cur[p] \in Files /\ UNCHANGED gpio /\ Undoing' = {}
      BY <1>2, <2>1, <1>a, <3>3 DEF OpenDec, OpenReturn, FileInv, OwnFile, Undoing
    <3>7. LockAccounts'
      <4>1. Cardinality(Opened') = 1
        BY <3>5, FS_Singleton
      <4>2. Cardinality(Undoing') = 0
        BY <3>6, FS_EmptySet
      <4>3. QED
        BY <2>1, <4>1, <4>2, <1>c
    <3>8. QED
      BY <2>1, <3>3, <3>4, <3>5, <3>6, <3>7, <1>1, GrantStep
  <2>2. CASE lock' # 0
    <3>1. /\ pc[p] = "open" /\ pc' = [pc EXCEPT ![p] = "undo"] /\ lock' = lock - 1
          /\ UNCHANGED <<cur, fds, sig, waited, gpio>>
      BY <1>2, <2>2 DEF OpenDec, Goto
    <3>2. FileInv'
      <4>1. "undo" \in PC /\ waited' \subseteq Procs
        BY <3>1, <1>a DEF PC
      <4>2. QED
        BY <3>1, <4>1, <1>a, InsideInv
    <3>3. Opened' = Opened
      <4>1. cur[p] \notin Opened
        BY <3>1, <1>a, CurOpen DEF Holding
      <4>2. Opened' = Opened \ {cur[p]}
        BY <3>1, <1>a, InsideShut DEF Holding
      <4>3. QED
        BY <4>1, <4>2
    <3>4. Cardinality(Undoing') = Cardinality(Undoing) + 1
      <4>1. Undoing' = Undoing \cup {p} /\ p \notin Undoing
        BY <3>1, <1>a DEF Undoing
      <4>2. QED
        BY <4>1, <1>b, FS_AddElement
    <3>5. LockAccounts' /\ lock' \in Int
      BY <3>1, <3>3, <3>4, <1>a, <1>b, <1>c
    <3>6. QED
      BY <3>1, <3>2, <3>3, <3>5, <1>1, StayClosed
  <2>3. QED
    BY <2>1, <2>2
<1>3. CASE OpenUndo(p)
  <2>1. FileInv'
    BY <1>3, <1>a, EndsInv DEF OpenUndo
  <2>2. UNCHANGED <<Opened, gpio>>
    BY <1>3, <1>a, OpenFailOpen DEF OpenUndo, OpenFail, Holding
  <2>3. Cardinality(Undoing') = Cardinality(Undoing) - 1
    <3>1. Undoing' = Undoing \ {p} /\ p \in Undoing
      BY <1>3, <1>a DEF OpenUndo, OpenFail, Undoing
    <3>2. QED
      BY <3>1, <1>b, FS_RemoveElement
  <2>4. lock' = lock + 1
    BY <1>3 DEF OpenUndo
  <2>5. LockAccounts' /\ lock' \in Int
    BY <2>2, <2>3, <2>4, <1>a, <1>b, <1>c
  <2>6. QED
    BY <2>1, <2>2, <2>5, <1>1, StayClosed
<1>4. CASE ReleaseInc(p)
  <2>1. FileInv'
    BY <1>4, <1>a, EndsInv DEF ReleaseInc, ReleaseReturn
  <2>2. cur[p] \in Opened /\ Opened' = Opened \ {cur[p]}
    BY <1>4, <1>a, ReleaseReturnOpen DEF ReleaseInc, Holding
  <2>3. Cardinality(Opened') = Cardinality(Opened) - 1
    BY <2>2, <1>b, FS_RemoveElement
  <2>4. cur[p] \in Files /\ UNCHANGED gpio /\ lock' = lock + 1 /\ Undoing' = Undoing
    BY <1>4, <1>a DEF ReleaseInc, ReleaseReturn, FileInv, OwnFile, Undoing
  <2>5. LockAccounts' /\ lock' \in Int
    BY <2>3, <2>4, <1>a, <1>b, <1>c
  <2>6. QED
    BY <2>1, <2>2, <2>4, <2>5, <1>1, GiveupStep
<1>5. QED
  BY <1>2, <1>3, <1>4 DEF Atomic, AtomicStep

-----------------------------------------------------------------------------
(* 08_spinlock: a critical section of led_open or led_release.             *)
LEMMA SpinKeeps ==
  ASSUME IInv, NEW p \in Procs, SpinContend(p) \/ Spin(p)
  PROVE  IInv' /\ ExclusiveStep
<1> USE LedFileAssumption DEF Goto, Inside
<1>a. /\ FileInv
      /\ pc \in [Procs -> PC]
      /\ waited \subseteq Procs
      /\ guard = "spinlock"
      /\ UNCHANGED <<guard, lock, count, wait_list, owner>>
  BY DEF IInv, FileInv, FileTypeOK, SpinContend, Spin, semVars
<1>b. AtMostOneOpen /\ Holder /\ Counted /\ FoundFree
  BY <1>a DEF IInv, DriverInv
<1>c. FoundFree'
  <2>1. CASE OpenTest(p)
    BY <2>1, <1>a, <1>b DEF OpenTest, FoundFree
  <2>2. CASE OpenCount(p) \/ ReleaseCount(p)
    <3>1. \A q \in Procs \ {p} : pc[q] \notin Inside
      BY <2>2, <1>b DEF OpenCount, ReleaseCount, Holder
    <3>2. \A q \in Procs : pc'[q] # "free"
      BY <2>2, <3>1, <1>a DEF OpenCount, ReleaseCount
    <3>3. QED
      BY <3>2 DEF FoundFree
  <2>3. CASE SpinWait(p)
    BY <2>3, <1>a, <1>b DEF SpinWait, Acquire, FoundFree
  <2>4. CASE OpenRefused(p) \/ OpenGranted(p) \/ ReleaseLeave(p)
    BY <2>4, <1>a, <1>b DEF OpenRefused, OpenFail, OpenGranted, OpenReturn, ReleaseLeave,
       ReleaseReturn, FoundFree
  <2>5. QED
    BY <2>1, <2>2, <2>3, <2>4 DEF SpinContend, Spin, SpinStep
<1>1. ASSUME FileInv', ExclusiveStep, Holder', Counted', spinlock' \in Procs \cup {Nobody}
      PROVE  IInv' /\ ExclusiveStep
  <2>1. GuardTypeOK'
    BY <1>1, <1>a DEF IInv, GuardTypeOK, AtomicTypeOK, SpinTypeOK, SemTypeOK, MutexTypeOK,
       Counted
  <2>2. QED
    BY <1>1, <1>a, <1>c, <2>1, StaysExclusive, <1>b DEF IInv, DriverInv
<1>2. CASE Acquire(p, "open", "test")
  <2>1. FileInv'
    BY <1>2, <1>a, InsideInv DEF Acquire, PC
  <2>2. UNCHANGED <<Opened, gpio, dev_stats>>
    <3>1. /\ pc[p] = "open" /\ pc' = [pc EXCEPT ![p] = "test"]
          /\ UNCHANGED <<cur, fds, gpio, dev_stats>>
      BY <1>2 DEF Acquire
    <3>2. cur[p] \notin Opened
      BY <3>1, <1>a, CurOpen DEF Holding
    <3>3. Opened' = Opened \ {cur[p]}
      BY <3>1, <1>a, InsideShut DEF Holding
    <3>4. QED
      BY <3>1, <3>2, <3>3
  <2>3. Holder' /\ spinlock' \in Procs
    BY <1>2, <1>a, <1>b DEF Acquire, Holder
  <2>4. QED
    BY <2>1, <2>2, <2>3, <1>b, <1>1, StayClosed DEF Counted
<1>3. CASE Acquire(p, "release", "count")
  <2>1. FileInv'
    BY <1>3, <1>a, InsideInv DEF Acquire, PC
  <2>2. UNCHANGED <<Opened, gpio, dev_stats>>
    <3>1. /\ pc[p] = "release" /\ pc' = [pc EXCEPT ![p] = "count"]
          /\ UNCHANGED <<cur, fds, gpio, dev_stats>>
      BY <1>3 DEF Acquire
    <3>2. cur[p] \in Opened
      BY <3>1, <1>a, CurOpen DEF Holding
    <3>3. Opened' = Opened \cup {cur[p]}
      BY <3>1, <1>a, InsideOpen DEF Holding
    <3>4. QED
      BY <3>1, <3>2, <3>3
  <2>3. Holder' /\ spinlock' \in Procs
    BY <1>3, <1>a, <1>b DEF Acquire, Holder
  <2>4. QED
    BY <2>1, <2>2, <2>3, <1>b, <1>1, StayClosed DEF Counted
<1>4. CASE OpenTest(p)
  <2>1. PICK l \in {"refused", "free"} :
          /\ pc[p] = "test" /\ pc' = [pc EXCEPT ![p] = l]
          /\ UNCHANGED <<cur, fds, sig, waited, gpio, spinlock, dev_stats>>
    BY <1>4 DEF OpenTest
  <2>2. FileInv'
    BY <2>1, <1>a, InsideInv DEF PC
  <2>3. UNCHANGED Opened
    <3>1. cur[p] \notin Opened
      BY <2>1, <1>a, CurOpen DEF Holding
    <3>2. Opened' = Opened \ {cur[p]}
      BY <2>1, <1>a, InsideShut DEF Holding
    <3>3. QED
      BY <3>1, <3>2
  <2>4. Holder' /\ spinlock \in Procs \cup {Nobody}
    BY <2>1, <1>a, <1>b DEF Holder, IInv, GuardTypeOK, SpinTypeOK
  <2>5. QED
    BY <2>1, <2>2, <2>3, <2>4, <1>b, <1>1, StayClosed DEF Counted
<1>5. CASE OpenCount(p)
  <2>1. /\ pc[p] = "free" /\ pc' = [pc EXCEPT ![p] = "granted"]
        /\ dev_stats' = dev_stats + 1 /\ waited' \subseteq Procs
        /\ UNCHANGED <<cur, fds, sig, gpio, spinlock>>
    BY <1>5, <1>a DEF OpenCount, MarkWaiting
  <2>2. FileInv'
    BY <2>1, <1>a, InsideInv DEF PC
  <2>3. dev_stats = 0 /\ dev_stats' = 1 /\ Opened = {}
    BY <2>1, <1>b DEF FoundFree, Counted
  <2>4. Opened' = {cur[p]} /\ cur[p] \in Files
    BY <2>1, <2>3, <1>a, InsideOpen DEF Holding, FileInv, OwnFile
  <2>5. Holder' /\ spinlock \in Procs \cup {Nobody}
    BY <2>1, <1>a, <1>b DEF Holder, IInv, GuardTypeOK, SpinTypeOK
  <2>6. QED
    BY <2>1, <2>2, <2>3, <2>4, <2>5, <1>1, GrantStep DEF Counted
<1>6. CASE OpenRefused(p)
  <2>1. FileInv'
    BY <1>6, <1>a, EndsInv DEF OpenRefused
  <2>2. UNCHANGED <<Opened, gpio, dev_stats>>
    BY <1>6, <1>a, OpenFailOpen DEF OpenRefused, OpenFail, Holding
  <2>3. Holder' /\ spinlock' = Nobody
    BY <1>6, <1>a, <1>b DEF OpenRefused, OpenFail, Holder
  <2>4. QED
    BY <2>1, <2>2, <2>3, <1>b, <1>1, StayClosed DEF Counted
<1>7. CASE OpenGranted(p)
  <2>1. FileInv'
    BY <1>7, <1>a, EndsInv DEF OpenGranted
  <2>2. UNCHANGED <<Opened, gpio, dev_stats>>
    <3>1. Opened' = Opened \cup {cur[p]}
      BY <1>7, <1>a, OpenReturnOpen DEF OpenGranted
    <3>2. cur[p] \in Opened
      BY <1>7, <1>a, CurOpen DEF OpenGranted, Holding
    <3>3. QED
      BY <1>7, <3>1, <3>2 DEF OpenGranted, OpenReturn
  <2>3. Holder' /\ spinlock' = Nobody
    BY <1>7, <1>a, <1>b DEF OpenGranted, OpenReturn, Holder
  <2>4. QED
    BY <2>1, <2>2, <2>3, <1>b, <1>1, StayClosed DEF Counted
<1>8. CASE ReleaseCount(p)
  <2>1. FileInv'
    BY <1>8, <1>a, InsideInv DEF ReleaseCount, PC
  <2>2. cur[p] \in Opened /\ Opened' = Opened \ {cur[p]}
    <3>1. /\ pc[p] = "count" /\ pc' = [pc EXCEPT ![p] = "leave"]
          /\ UNCHANGED <<cur, fds>>
      BY <1>8 DEF ReleaseCount
    <3>2. cur[p] \in Opened
      BY <3>1, <1>a, CurOpen DEF Holding
    <3>3. QED
      BY <3>1, <3>2, <1>a, InsideShut DEF Holding
  <2>3. Opened' = {} /\ dev_stats = 1
    BY <2>2, <1>b DEF AtMostOneOpen, Counted
  <2>4. dev_stats' = 0
    BY <1>8, <2>3 DEF ReleaseCount
  <2>5. Holder' /\ UNCHANGED <<spinlock, gpio>> /\ cur[p] \in Files
    BY <1>8, <1>a, <1>b DEF ReleaseCount, Holder, FileInv, OwnFile
  <2>6. spinlock \in Procs \cup {Nobody}
    BY DEF IInv, GuardTypeOK, SpinTypeOK
  <2>7. QED
    BY <2>1, <2>2, <2>3, <2>4, <2>5, <2>6, <1>1, GiveupStep DEF Counted
<1>9. CASE ReleaseLeave(p)
  <2>1. FileInv'
    BY <1>9, <1>a, EndsInv DEF ReleaseLeave, ReleaseReturn
  <2>2. UNCHANGED <<Opened, gpio, dev_stats>>
    BY <1>9, <1>a, OpenFailOpen DEF ReleaseLeave, ReleaseReturn, Holding
  <2>3. Holder' /\ spinlock' = Nobody
    BY <1>9, <1>a, <1>b DEF ReleaseLeave, ReleaseReturn, Holder
  <2>4. QED
    BY <2>1, <2>2, <2>3, <1>b, <1>1, StayClosed DEF Counted
<1>10. QED
  BY <1>2, <1>3, <1>4, <1>5, <1>6, <1>7, <1>8, <1>9 DEF SpinContend, SpinWait, Spin, SpinStep

-----------------------------------------------------------------------------
(* 10_mutex: mutex_lock finds the device closed, and mutex_unlock leaves   *)
(* it closed, whoever calls it.                                            *)
LEMMA MutexKeeps ==
  ASSUME IInv, NEW p \in Procs, MutexContend(p) \/ Mutex(p)
  PROVE  IInv' /\ ExclusiveStep
<1> USE LedFileAssumption
<1>a. /\ FileInv
      /\ waited \subseteq Procs
      /\ guard = "mutex"
      /\ UNCHANGED <<guard, lock, spinlock, dev_stats, count, wait_list>>
  BY DEF IInv, FileInv, FileTypeOK, MutexContend, Mutex, spinVars, semVars
<1>b. AtMostOneOpen /\ LockedWhileOpen /\ owner \in Procs \cup {Nobody}
  BY <1>a DEF IInv, DriverInv, GuardTypeOK, MutexTypeOK
<1>1. ASSUME FileInv', ExclusiveStep, LockedWhileOpen', owner' \in Procs \cup {Nobody}
      PROVE  IInv' /\ ExclusiveStep
  <2>1. GuardTypeOK'
    BY <1>1, <1>a DEF IInv, GuardTypeOK, AtomicTypeOK, SpinTypeOK, SemTypeOK, MutexTypeOK
  <2>2. QED
    BY <1>1, <1>a, <2>1, StaysExclusive, <1>b DEF IInv, DriverInv
<1>2. CASE OpenLock(p)
  <2>1. FileInv'
    BY <1>2, <1>a, EndsInv DEF OpenLock
  <2>2. Opened = {}
    BY <1>2, <1>b DEF OpenLock, LockedWhileOpen
  <2>3. Opened' = {cur[p]}
    BY <1>2, <1>a, <2>2, OpenReturnOpen DEF OpenLock
  <2>4. cur[p] \in Files /\ UNCHANGED gpio /\ owner' = p
    BY <1>2, <1>a DEF OpenLock, OpenReturn, FileInv, OwnFile
  <2>5. QED
    BY <2>1, <2>2, <2>3, <2>4, <1>1, GrantStep DEF LockedWhileOpen
<1>3. CASE OpenSignalled(p)
  <2>1. FileInv'
    BY <1>3, <1>a, EndsInv DEF OpenSignalled
  <2>2. UNCHANGED <<Opened, gpio, owner>>
    BY <1>3, <1>a, OpenFailOpen DEF OpenSignalled, OpenFail, Holding
  <2>3. QED
    BY <2>1, <2>2, <1>b, <1>1, StayClosed DEF LockedWhileOpen
<1>4. CASE ReleaseUnlock(p)
  <2>1. FileInv'
    BY <1>4, <1>a, EndsInv DEF ReleaseUnlock, ReleaseReturn
  <2>2. cur[p] \in Opened /\ Opened' = Opened \ {cur[p]}
    BY <1>4, <1>a, ReleaseReturnOpen DEF ReleaseUnlock, Holding
  <2>3. Opened' = {}
    BY <2>2, <1>b DEF AtMostOneOpen
  <2>4. cur[p] \in Files /\ UNCHANGED gpio /\ owner' = Nobody
    BY <1>4, <1>a DEF ReleaseUnlock, ReleaseReturn, FileInv, OwnFile
  <2>5. QED
    BY <2>1, <2>2, <2>3, <2>4, <1>1, GiveupStep DEF LockedWhileOpen
<1>5. QED
  BY <1>2, <1>3, <1>4 DEF MutexContend, Mutex, MutexStep

-----------------------------------------------------------------------------
(* 09_semaphore: the list without its i-th entry. *)
LEMMA ListDelEntries ==
  ASSUME wait_list \in Seq(Procs), NEW i \in 1 .. Len(wait_list), ListDel(i)
  PROVE  /\ wait_list' \in Seq(Procs)
         /\ Len(wait_list') = Len(wait_list) - 1
         /\ \A k \in 1 .. Len(wait_list') :
              wait_list'[k] = IF k < i THEN wait_list[k] ELSE wait_list[k + 1]
<1> DEFINE a == SubSeq(wait_list, 1, i - 1)
           b == SubSeq(wait_list, i + 1, Len(wait_list))
<1>1. /\ a \in Seq(Procs) /\ Len(a) = i - 1
      /\ \A k \in 1 .. i - 1 : a[k] = wait_list[k]
  OBVIOUS
<1>2. /\ b \in Seq(Procs) /\ Len(b) = Len(wait_list) - i
      /\ \A k \in 1 .. Len(wait_list) - i : b[k] = wait_list[k + i]
  OBVIOUS
<1>3. wait_list' = a \o b
  BY DEF ListDel
<1> HIDE DEF a, b
<1>4. /\ wait_list' \in Seq(Procs) /\ Len(wait_list') = Len(a) + Len(b)
      /\ \A k \in 1 .. Len(a) + Len(b) :
           wait_list'[k] = IF k <= Len(a) THEN a[k] ELSE b[k - Len(a)]
  <2>1. a \in Seq(Procs) /\ b \in Seq(Procs)
    BY <1>1, <1>2
  <2>2. QED
    BY <2>1, <1>3, ConcatProperties, Zenon
<1>5. Len(wait_list) \in Nat /\ Len(wait_list') = Len(wait_list) - 1
  BY <1>1, <1>2, <1>4
<1>6. ASSUME NEW k \in 1 .. Len(wait_list')
      PROVE  wait_list'[k] = IF k < i THEN wait_list[k] ELSE wait_list[k + 1]
  <2>1. CASE k < i
    <3>1. k \in 1 .. i - 1 /\ k <= Len(a) /\ k \in 1 .. Len(a) + Len(b)
      BY <2>1, <1>1, <1>2, <1>5
    <3>2. QED
      BY <2>1, <3>1, <1>1, <1>4
  <2>2. CASE ~(k < i)
    <3>1. /\ ~(k <= Len(a)) /\ k \in 1 .. Len(a) + Len(b)
          /\ k - Len(a) \in 1 .. Len(wait_list) - i /\ k - Len(a) + i = k + 1
      BY <2>2, <1>1, <1>2, <1>5
    <3>2. QED
      BY <2>2, <3>1, <1>2, <1>4
  <2>3. QED
    BY <2>1, <2>2
<1>7. QED
  BY <1>4, <1>5, <1>6

(* Of the others in the list none is lost. *)
LEMMA ListDelQueued ==
  ASSUME wait_list \in Seq(Procs), Queued, NEW i \in 1 .. Len(wait_list), ListDel(i),
         \A q \in Procs : pc'[q] = "wait" => pc[q] = "wait" /\ q # wait_list[i]
  PROVE  Queued'
<1>1. /\ Len(wait_list) \in Nat
      /\ Len(wait_list') = Len(wait_list) - 1
      /\ \A k \in 1 .. Len(wait_list') :
           wait_list'[k] = IF k < i THEN wait_list[k] ELSE wait_list[k + 1]
  BY ListDelEntries
<1>2. SUFFICES ASSUME NEW q \in Procs, pc'[q] = "wait"
               PROVE  \E k \in 1 .. Len(wait_list') : wait_list'[k] = q
  BY DEF Queued
<1>3. PICK m \in 1 .. Len(wait_list) : wait_list[m] = q /\ m # i
  BY <1>2 DEF Queued
<1>4. CASE m < i
  <2>1. m \in 1 .. Len(wait_list') /\ wait_list'[m] = q
    BY <1>1, <1>3, <1>4
  <2>2. QED
    BY <2>1
<1>5. CASE ~(m < i)
  <2>1. m - 1 \in 1 .. Len(wait_list') /\ ~(m - 1 < i) /\ (m - 1) + 1 = m
    BY <1>1, <1>3, <1>5
  <2>2. wait_list'[m - 1] = q
    BY <2>1, <1>1, <1>3
  <2>3. QED
    BY <2>1, <2>2
<1>6. QED
  BY <1>4, <1>5

(* Whoever leaves the list was waiting, the others stay as they are.       *)
LEMMA ListDelListed ==
  ASSUME wait_list \in Seq(Procs), pc \in [Procs -> PC], Listed,
         NEW i \in 1 .. Len(wait_list), ListDel(i),
         \A q \in Procs \ {wait_list[i]} : pc[q] = "wait" => pc'[q] = "wait"
  PROVE  Listed'
<1>1. /\ wait_list' \in Seq(Procs)
      /\ Len(wait_list') = Len(wait_list) - 1
      /\ \A k \in 1 .. Len(wait_list') :
           wait_list'[k] = IF k < i THEN wait_list[k] ELSE wait_list[k + 1]
  BY ListDelEntries
<1>2. \A k \in 1 .. Len(wait_list') : pc'[wait_list'[k]] = "wait"
  <2> SUFFICES ASSUME NEW k \in 1 .. Len(wait_list')
               PROVE  pc'[wait_list'[k]] = "wait"
    OBVIOUS
  <2>1. PICK m \in 1 .. Len(wait_list) : m # i /\ wait_list'[k] = wait_list[m]
    <3>1. CASE k < i
      BY <3>1, <1>1
    <3>2. CASE ~(k < i)
      <4>1. k + 1 \in 1 .. Len(wait_list) /\ k + 1 # i /\ wait_list'[k] = wait_list[k + 1]
        BY <3>2, <1>1
      <4>2. QED
        BY <4>1
    <3>3. QED
      BY <3>1, <3>2
  <2>2. wait_list[m] \in Procs \ {wait_list[i]} /\ pc[wait_list[m]] = "wait"
    BY <2>1 DEF Listed
  <2>3. QED
    BY <2>1, <2>2
<1>3. \A j, k \in 1 .. Len(wait_list') : wait_list'[j] = wait_list'[k] => j = k
  BY <1>1 DEF Listed
<1>4. QED
  BY <1>2, <1>3 DEF Listed

LEMMA SemKeeps ==
  ASSUME IInv, NEW p \in Procs, Sem(p)
  PROVE  IInv' /\ ExclusiveStep
<1> USE LedFileAssumption
<1>a. /\ FileInv
      /\ pc \in [Procs -> PC] /\ cur \in [Procs -> Files \cup {NoFile}]
      /\ waited \subseteq Procs
      /\ guard = "semaphore"
      /\ UNCHANGED <<guard, lock, spinlock, dev_stats, owner>>
  BY DEF IInv, FileInv, FileTypeOK, Sem, spinVars
<1>b. AtMostOneOpen /\ SemCounted /\ Listed /\ Queued /\ wait_list \in Seq(Procs)
  BY <1>a DEF IInv, DriverInv, GuardTypeOK, SemTypeOK
<1>1. ASSUME FileInv', ExclusiveStep, SemCounted', Listed', Queued', wait_list' \in Seq(Procs)
      PROVE  IInv' /\ ExclusiveStep
  <2>1. GuardTypeOK'
    BY <1>1, <1>a DEF IInv, GuardTypeOK, AtomicTypeOK, SpinTypeOK, SemTypeOK, MutexTypeOK,
       SemCounted
  <2>2. QED
    BY <1>1, <1>a, <2>1, StaysExclusive, <1>b DEF IInv, DriverInv
<1>2. CASE OpenDown(p) /\ count > 0
  <2>1. /\ pc[p] = "open" /\ OpenReturn(p) /\ count' = count - 1
        /\ UNCHANGED <<waited, wait_list>>
    BY <1>2 DEF OpenDown
  <2>2. FileInv'
    BY <2>1, <1>a, EndsInv
  <2>3. Opened = {} /\ wait_list = <<>> /\ count' = 0
    BY <1>2, <2>1, <1>b DEF SemCounted
  <2>4. Opened' = {cur[p]}
    BY <2>1, <2>3, <1>a, OpenReturnOpen
  <2>5. cur[p] \in Files /\ UNCHANGED gpio
    BY <2>1, <1>a DEF OpenReturn, FileInv, OwnFile
  <2>6. SemCounted' /\ Listed' /\ Queued'
    <3>1. wait_list' = <<>>
      BY <2>1, <2>3
    <3>2. Listed'
      BY <3>1 DEF Listed
    <3>3. \A q \in Procs : pc'[q] = "wait" => pc[q] = "wait"
      BY <2>1, <1>a DEF OpenReturn
    <3>4. Queued'
      BY <3>3, <2>1, <1>b DEF Queued
    <3>5. QED
      BY <3>1, <3>2, <3>4, <2>3, <2>4 DEF SemCounted
  <2>7. QED
    BY <2>1, <2>2, <2>3, <2>4, <2>5, <2>6, <1>1, <1>b, GrantStep
<1>3. CASE OpenDown(p) /\ ~(count > 0)
  <2>1. /\ pc[p] = "open" /\ pc' = [pc EXCEPT ![p] = "wait"]
        /\ wait_list' = Append(wait_list, p)
        /\ UNCHANGED <<count, cur, fds, sig, waited, gpio>>
    BY <1>3 DEF OpenDown, Goto
  <2>2. FileInv'
    BY <2>1, <1>a, InsideInv DEF PC
  <2>3. UNCHANGED Opened
    <3>1. cur[p] \notin Opened
      BY <2>1, <1>a, CurOpen DEF Holding
    <3>2. Opened' = Opened \ {cur[p]}
      BY <2>1, <1>a, InsideShut DEF Holding
    <3>3. QED
      BY <3>1, <3>2
  <2>4. SemCounted'
    BY <1>3, <2>1, <2>3, <1>b DEF SemCounted
  <2>5. Listed' /\ Queued'
    <3>1. /\ wait_list' \in Seq(Procs) /\ Len(wait_list') = Len(wait_list) + 1
          /\ wait_list'[Len(wait_list) + 1] = p
          /\ \A k \in 1 .. Len(wait_list) : wait_list'[k] = wait_list[k]
      BY <2>1, <1>b
    <3>2. \A k \in 1 .. Len(wait_list) : wait_list[k] \in Procs \ {p}
      BY <2>1, <1>b DEF Listed
    <3>3. Listed'
      BY <2>1, <3>1, <3>2, <1>a, <1>b DEF Listed
    <3>4. ASSUME NEW q \in Procs, pc'[q] = "wait"
          PROVE  \E k \in 1 .. Len(wait_list') : wait_list'[k] = q
      <4>1. CASE q = p
        BY <4>1, <3>1, <1>b
      <4>2. CASE q # p
        <5>1. PICK k \in 1 .. Len(wait_list) : wait_list[k] = q
          BY <4>2, <3>4, <2>1, <1>a, <1>b DEF Queued
        <5>2. k \in 1 .. Len(wait_list') /\ wait_list'[k] = q
          BY <5>1, <3>1, <1>b
        <5>3. QED
          BY <5>2
      <4>3. QED
        BY <4>1, <4>2
    <3>5. QED
      BY <3>3, <3>4 DEF Queued
  <2>6. wait_list' \in Seq(Procs)
    BY <2>1, <1>b
  <2>7. QED
    BY <2>1, <2>2, <2>3, <2>4, <2>5, <2>6, <1>1, StayClosed
<1>4. CASE OpenInterrupted(p)
  <2>1. PICK i \in 1 .. Len(wait_list) : wait_list[i] = p /\ ListDel(i)
    BY <1>4 DEF OpenInterrupted
  <2>2. FileInv'
    BY <1>4, <1>a, EndsInv DEF OpenInterrupted
  <2>3. UNCHANGED <<Opened, gpio, count>>
    BY <1>4, <1>a, OpenFailOpen DEF OpenInterrupted, OpenFail, Holding
  <2>4. wait_list' \in Seq(Procs) /\ (wait_list = <<>> => wait_list' = <<>>)
    BY <2>1, <1>b, ListDelEntries
  <2>5. Listed' /\ Queued'
    <3>1. \A q \in Procs \ {wait_list[i]} : pc[q] = "wait" => pc'[q] = "wait"
      BY <1>4, <2>1, <1>a DEF OpenInterrupted, OpenFail
    <3>2. \A q \in Procs : pc'[q] = "wait" => pc[q] = "wait" /\ q # wait_list[i]
      BY <1>4, <2>1, <1>a DEF OpenInterrupted, OpenFail
    <3>3. QED
      BY <2>1, <3>1, <3>2, <1>a, <1>b, ListDelListed, ListDelQueued
  <2>6. SemCounted'
    BY <2>3, <2>4, <1>b DEF SemCounted
  <2>7. QED
    BY <2>2, <2>3, <2>4, <2>5, <2>6, <1>1, StayClosed
<1>5. CASE OpenGiven(p)
  <2>1. FileInv'
    BY <1>5, <1>a, EndsInv DEF OpenGiven
  <2>2. UNCHANGED <<Opened, gpio, count, wait_list>>
    <3>1. Opened' = Opened \cup {cur[p]}
      BY <1>5, <1>a, OpenReturnOpen DEF OpenGiven
    <3>2. cur[p] \in Opened
      BY <1>5, <1>a, CurOpen DEF OpenGiven, Holding
    <3>3. QED
      BY <1>5, <3>1, <3>2 DEF OpenGiven, OpenReturn
  <2>3. Listed' /\ Queued'
    <3>1. \A q \in Procs : pc[q] = "wait" <=> pc'[q] = "wait"
      BY <1>5, <1>a DEF OpenGiven, OpenReturn
    <3>2. QED
      BY <2>2, <3>1, <1>b DEF Listed, Queued
  <2>4. SemCounted'
    BY <2>2, <1>b DEF SemCounted
  <2>5. QED
    BY <2>1, <2>2, <2>3, <2>4, <1>b, <1>1, StayClosed
<1>6. CASE ReleaseUp(p) /\ wait_list = <<>>
  <2>1. pc[p] = "release" /\ ReleaseReturn(p) /\ count' = count + 1 /\ UNCHANGED wait_list
    BY <1>6 DEF ReleaseUp
  <2>2. FileInv'
    BY <2>1, <1>a, EndsInv DEF ReleaseReturn
  <2>3. cur[p] \in Opened /\ Opened' = Opened \ {cur[p]}
    BY <2>1, <1>a, ReleaseReturnOpen DEF Holding
  <2>4. Opened' = {} /\ count' = 1
    BY <2>1, <2>3, <1>b DEF AtMostOneOpen, SemCounted
  <2>5. cur[p] \in Files /\ UNCHANGED gpio
    BY <2>1, <1>a DEF ReleaseReturn, FileInv, OwnFile
  <2>6. SemCounted' /\ Listed' /\ Queued'
    <3>1. \A q \in Procs : pc'[q] = "wait" => pc[q] = "wait"
      BY <2>1, <1>a DEF ReleaseReturn
    <3>2. Queued'
      BY <3>1, <2>1, <1>b DEF Queued
    <3>3. QED
      BY <3>2, <1>6, <2>1, <2>4 DEF SemCounted, Listed
  <2>7. QED
    BY <2>1, <2>2, <2>3, <2>5, <2>6, <1>b, <1>1, GiveupStep
<1>7. CASE ReleaseUp(p) /\ wait_list # <<>>
  <2> DEFINE q == wait_list[1]
  <2>1. /\ 1 \in 1 .. Len(wait_list) /\ q \in Procs /\ pc[q] = "wait"
        /\ Head(wait_list) = q
    BY <1>7, <1>b DEF Listed
  <2> HIDE DEF q
  <2>2. /\ pc[p] = "release" /\ HandOver(p, q) /\ wait_list' = Tail(wait_list)
        /\ UNCHANGED count
    BY <1>7, <2>1 DEF ReleaseUp
  <2>3. p # q /\ cur[p] \in Files /\ cur[q] \in Files /\ cur[p] # cur[q]
    BY <2>1, <2>2, <1>a DEF FileInv, OwnFile
  <2>4. FileInv'
    BY <2>1, <2>2, <2>3, <1>a DEF HandOver, FileInv, FileTypeOK, OwnFile, PC
  <2>5. Opened = {cur[p]}
    <3>1. cur[p] \in Opened
      BY <2>2, <1>a, CurOpen DEF Holding
    <3>2. QED
      BY <3>1, <1>b DEF AtMostOneOpen
  <2>6. Opened' = {cur[q]}
    <3>1. ASSUME NEW f
          PROVE  f \in Opened' <=> f = cur[q]
      <4>1. f \in Opened <=> f = cur[p]
        BY <2>5
      <4>2. \A r \in Procs : cur[p] \notin fds[r] /\ (pc[r] \in Holding => cur[r] = cur[p])
        <5>1. \A r \in Procs : cur[p] \notin fds[r]
          BY <2>2, <1>a DEF FileInv, OwnFile
        <5>2. \A r \in Procs : pc[r] \in Holding => cur[r] \in Opened
          BY OpenedMember
        <5>3. QED
          BY <5>1, <5>2, <2>5
      <4>3. \A r \in Procs : f \notin fds[r]
        BY <4>1, <4>2, OpenedMember
      <4>4. \A r \in Procs \ {p} : pc[r] \notin Holding
        BY <4>2, <2>2, <1>a DEF FileInv, OwnFile
      <4>5. /\ \A r \in Procs : fds'[r] = fds[r]
            /\ pc'[p] = "user" /\ pc'[q] = "given" /\ cur'[q] = cur[q]
            /\ \A r \in Procs \ {p, q} : pc'[r] = pc[r]
        BY <2>1, <2>2, <2>3, <1>a DEF HandOver
      <4>6. \A r \in Procs : pc'[r] \in Holding <=> r = q
        BY <4>4, <4>5, <2>1 DEF Holding
      <4>7. QED
        BY <4>3, <4>5, <4>6, <2>1, OpenedMemberNext
    <3>2. QED
      BY <3>1
  <2>7. SemCounted'
    BY <2>2, <2>5, <2>6, <1>b DEF SemCounted
  <2>8. wait_list' \in Seq(Procs) /\ Listed' /\ Queued'
    <3>1. /\ wait_list' \in Seq(Procs) /\ Len(wait_list') = Len(wait_list) - 1
          /\ \A k \in 1 .. Len(wait_list') : wait_list'[k] = wait_list[k + 1]
      BY <1>7, <2>2, <1>b
    <3>2. \A r \in Procs \ {p, q} : pc'[r] = pc[r]
      BY <2>1, <2>2, <1>a DEF HandOver
    <3>3. \A k \in 1 .. Len(wait_list') :
            wait_list[k + 1] \in Procs \ {p, q} /\ pc[wait_list[k + 1]] = "wait"
      <4> SUFFICES ASSUME NEW k \in 1 .. Len(wait_list')
                   PROVE  wait_list[k + 1] \in Procs \ {p, q} /\ pc[wait_list[k + 1]] = "wait"
        OBVIOUS
      <4>1. k + 1 \in 1 .. Len(wait_list) /\ k + 1 # 1
        BY <3>1, <1>b
      <4>2. wait_list[k + 1] \in Procs /\ pc[wait_list[k + 1]] = "wait"
            /\ wait_list[k + 1] # wait_list[1]
        BY <4>1, <2>1, <1>b DEF Listed
      <4>3. QED
        BY <4>2, <2>2 DEF q
    <3>4. \A k \in 1 .. Len(wait_list') : pc'[wait_list'[k]] = "wait"
      BY <3>1, <3>2, <3>3
    <3>5. \A j, k \in 1 .. Len(wait_list') : wait_list'[j] = wait_list'[k] => j = k
      BY <3>1, <1>b DEF Listed
    <3>6. ASSUME NEW r \in Procs, pc'[r] = "wait"
          PROVE  \E k \in 1 .. Len(wait_list') : wait_list'[k] = r
      <4>1. pc[r] = "wait" /\ r # q
        BY <3>6, <2>1, <2>2, <1>a DEF HandOver
      <4>2. PICK m \in 1 .. Len(wait_list) : wait_list[m] = r /\ m # 1
        BY <4>1, <1>b DEF Queued, q
      <4>3. m - 1 \in 1 .. Len(wait_list') /\ (m - 1) + 1 = m
        BY <4>2, <3>1, <1>b
      <4>4. wait_list'[m - 1] = r
        BY <4>2, <4>3, <3>1
      <4>5. QED
        BY <4>3, <4>4
    <3>7. QED
      BY <3>1, <3>4, <3>5, <3>6 DEF Listed, Queued
  <2>9. UNCHANGED gpio
    BY <2>2 DEF HandOver
  <2>10. QED
    BY <2>3, <2>4, <2>5, <2>6, <2>7, <2>8, <2>9, <1>1, PassStep
<1>8. QED
  BY <1>2, <1>3, <1>4, <1>5, <1>6, <1>7 DEF Sem, SemStep

-----------------------------------------------------------------------------
LEMMA InitInv ==
  ASSUME Init
  PROVE  IInv /\ Exclusive!Init
<1> USE DEF Init, FileInit, AtomicInit, SpinInit, SemInit, MutexInit
<1>1. FileInv
  BY DEF FileInv, FileTypeOK, OwnFile, PC
<1>2. Opened = {} /\ Undoing = {}
  BY OpenedMember DEF Holding, Undoing
<1>3. LockAccounts
  BY <1>2, FS_EmptySet DEF LockAccounts, Undoing
<1>4. Holder /\ Counted /\ FoundFree
  BY <1>2, LedFileAssumption DEF Holder, Inside, Counted, FoundFree
<1>5. SemCounted /\ Listed /\ Queued
  BY <1>2 DEF SemCounted, Listed, Queued
<1>6. GuardTypeOK
  BY DEF GuardTypeOK, AtomicTypeOK, SpinTypeOK, SemTypeOK, MutexTypeOK
<1>7. QED
  BY <1>1, <1>2, <1>3, <1>4, <1>5, <1>6
     DEF IInv, DriverInv, AtMostOneOpen, LockedWhileOpen, Exclusive!Init

LEMMA NextKeeps ==
  ASSUME IInv, [Next]_vars
  PROVE  IInv' /\ ExclusiveStep
<1>1. ASSUME NEW p \in Procs, Syscall(p, Opened # {}), UNCHANGED guardVars
      PROVE  IInv' /\ ExclusiveStep
  BY <1>1, SyscallStep
<1>2. ASSUME NEW p \in Procs, InKernel(p)
      PROVE  IInv' /\ ExclusiveStep
  <2>1. CASE Write(p) /\ UNCHANGED guardVars
    BY <2>1, SyscallStep DEF Syscall
  <2>2. CASE Atomic(p) \/ Spin(p) \/ Sem(p) \/ Mutex(p)
    BY <2>2, AtomicKeeps, SpinKeeps, SemKeeps, MutexKeeps
  <2>3. QED
    BY <1>2, <2>1, <2>2 DEF InKernel
<1>3. ASSUME NEW p \in Procs, Contend(p)
      PROVE  IInv' /\ ExclusiveStep
  BY <1>3, SpinKeeps, MutexKeeps DEF Contend
<1>4. CASE UNCHANGED vars
  <2>1. UNCHANGED <<pc, cur, fds, sig, waited, gpio, guard, lock, spinlock, dev_stats, count,
                    wait_list, owner>>
    BY <1>4 DEF vars, fileVars, guardVars, spinVars, semVars
  <2>2. UNCHANGED <<Opened, Undoing>>
    BY <2>1 DEF Opened, Undoing
  <2>3. FileInv' /\ GuardTypeOK'
    BY <2>1 DEF IInv, FileInv, FileTypeOK, OwnFile, GuardTypeOK, AtomicTypeOK, SpinTypeOK,
       SemTypeOK, MutexTypeOK
  <2>4. DriverInv'
    BY <2>1, <2>2 DEF IInv, DriverInv, LockAccounts, Undoing, Holder, Counted, FoundFree,
       SemCounted, Listed, Queued, LockedWhileOpen
  <2>5. QED
    BY <2>1, <2>2, <2>3, <2>4, StayClosed, StaysExclusive DEF IInv
<1>5. QED
  BY <1>1, <1>2, <1>3, <1>4 DEF Next

(* The inductive invariant holds in every behaviour of the four drivers. *)
THEOREM Invariant == Spec => []IInv
<1>1. Init => IInv
  BY InitInv
<1>2. IInv /\ [Next]_vars => IInv'
  BY NextKeeps
<1>3. QED
  BY <1>1, <1>2, PTL DEF Spec

(* Every variable of the four drivers keeps its type. *)
THEOREM Typing == Spec => []TypeOK
<1>1. IInv => TypeOK
  BY DEF IInv, FileInv, GuardTypeOK, TypeOK
<1>2. QED
  BY <1>1, Invariant, PTL

(* At most one file is open on the device, whichever driver is loaded and  *)
(* however processes open, share, close and are interrupted.               *)
THEOREM Exclusiveness == Spec => []AtMostOneOpen
<1>1. IInv => AtMostOneOpen
  BY DEF IInv
<1>2. QED
  BY <1>1, Invariant, PTL

(* What the driver keeps about the device never drifts from the open files.*)
THEOREM Accounting == Spec => []GuardAccounts
<1>1. ASSUME IInv
      PROVE  GuardAccounts
  <2>1. /\ Opened = {} => Cardinality(Opened) = 0
        /\ Opened # {} => Cardinality(Opened) = 1
    BY <1>1, OpenedSize DEF IInv
  <2>2. guard = "spinlock" => StatsCountOpens
    BY <1>1, <2>1 DEF IInv, DriverInv, Counted, StatsCountOpens
  <2>3. guard = "semaphore" => SemAccounts
    BY <1>1, <2>1 DEF IInv, DriverInv, SemCounted, SemAccounts
  <2>4. QED
    BY <1>1, <2>2, <2>3 DEF IInv, DriverInv, GuardAccounts
<1>2. QED
  BY <1>1, Invariant, PTL

(* 07_atomic refuses an open only while a file is open, or while another   *)
(* opener is between its refusal and its atomic_inc (atomic.c:45): then    *)
(* the device may be free and the open is refused all the same.            *)
THEOREM AtomicRefusals ==
  Spec => [][\A p \in Procs : Atomic(p) /\ OpenDec(p) /\ pc'[p] = "undo" =>
               Opened # {} \/ \E q \in Procs \ {p} : pc[q] = "undo"]_vars
<1>1. ASSUME IInv, NEW p \in Procs, Atomic(p), OpenDec(p), pc'[p] = "undo"
      PROVE  Opened # {} \/ \E q \in Procs \ {p} : pc[q] = "undo"
  <2>1. guard = "atomic" /\ pc[p] = "open" /\ lock' = lock - 1 /\ lock \in Int
        /\ pc \in [Procs -> PC]
    BY <1>1 DEF Atomic, OpenDec, IInv, FileInv, FileTypeOK, GuardTypeOK, AtomicTypeOK
  <2>2. lock' # 0
    BY <1>1, <2>1 DEF OpenDec, OpenReturn
  <2>3. Cardinality(Opened) # 0 \/ Cardinality(Undoing) # 0
    BY <1>1, <2>1, <2>2 DEF IInv, DriverInv, LockAccounts, Undoing
  <2>4. Opened # {} \/ Undoing # {}
    BY <2>3, FS_EmptySet
  <2>5. QED
    BY <2>1, <2>4 DEF Undoing
<1>2. IInv /\ [Next]_vars =>
        [\A p \in Procs : Atomic(p) /\ OpenDec(p) /\ pc'[p] = "undo" =>
           Opened # {} \/ \E q \in Procs \ {p} : pc[q] = "undo"]_vars
  BY <1>1
<1>3. QED
  BY <1>2, Invariant, PTL DEF Spec

(* Each of the four drivers implements the exclusive device. *)
THEOREM Refinement == Spec => ImplementsExclusive
<1>1. Init => Exclusive!Init
  BY InitInv
<1>2. IInv /\ [Next]_vars => [Exclusive!Next]_Exclusive!exclVars
  BY NextKeeps DEF ExclusiveStep
<1>3. QED
  BY <1>1, <1>2, Invariant, PTL DEF Spec, ImplementsExclusive, Exclusive!Spec

-----------------------------------------------------------------------------
(* Whoever is in led_open while dev_stats is not 0 has met the device      *)
(* occupied, and so has whoever is being refused.                          *)
MetBusy ==
  /\ guard = "spinlock" /\ dev_stats # 0 =>
       \A q \in Procs : pc[q] \in {"open", "test"} => q \in waited
  /\ \A q \in Procs : pc[q] = "refused" => q \in waited

LEMMA NextMetBusy ==
  ASSUME IInv, MetBusy, Next
  PROVE  MetBusy'
<1> USE DEF Goto
<1>a. /\ pc \in [Procs -> PC] /\ waited \subseteq Procs /\ OwnFile
      /\ guard = "spinlock" => Counted
  BY DEF IInv, DriverInv, FileInv, FileTypeOK
<1>1. ASSUME NEW p \in Procs, Syscall(p, Opened # {}), UNCHANGED guardVars
      PROVE  MetBusy'
  <2>a. UNCHANGED <<guard, dev_stats>>
    BY <1>1 DEF guardVars, spinVars
  <2>1. CASE OpenCall(p, Opened # {})
    <3>1. \A q \in Procs \ {p} : pc'[q] = pc[q] /\ (q \in waited' <=> q \in waited)
      BY <2>1, <1>a DEF OpenCall
    <3>2. pc'[p] = "open" /\ (Opened # {} => p \in waited')
      BY <2>1, <1>a DEF OpenCall
    <3>3. QED
      BY <3>1, <3>2, <2>a, <1>a DEF MetBusy, Counted
  <2>2. CASE ~OpenCall(p, Opened # {})
    <3>1. UNCHANGED waited
      BY <2>2, <1>1 DEF Syscall, WriteCall, Write, CloseCall, Signal, Share
    <3>2. \A q \in Procs : pc'[q] = pc[q] \/ pc'[q] \in {"user", "write", "release"}
      BY <2>2, <1>1, <1>a DEF Syscall, WriteCall, Write, CloseCall, Signal, Share
    <3>3. QED
      BY <3>1, <3>2, <2>a DEF MetBusy
  <2>3. QED
    BY <2>1, <2>2
<1>2. ASSUME NEW p \in Procs, Write(p), UNCHANGED guardVars
      PROVE  MetBusy'
  BY <1>2, <1>a DEF Write, guardVars, spinVars, MetBusy
<1>3. ASSUME NEW p \in Procs, Spin(p) \/ SpinContend(p)
      PROVE  MetBusy'
  <2>a. guard = "spinlock" /\ guard' = guard /\ Counted
    BY <1>3, <1>a DEF Spin, SpinContend
  <2>1. CASE OpenTest(p)
    BY <2>1, <2>a, <1>a DEF OpenTest, MetBusy
  <2>2. CASE OpenCount(p)
    <3>1. \A q \in Procs : pc[q] \in {"open", "test"} => q \in waited'
      BY <2>2, <1>a, LedFileAssumption DEF OpenCount, MarkWaiting, OwnFile
    <3>2. QED
      BY <3>1, <2>2, <1>a DEF OpenCount, MarkWaiting, MetBusy
  <2>3. CASE OpenRefused(p) \/ OpenGranted(p) \/ ReleaseLeave(p)
    BY <2>3, <2>a, <1>a DEF OpenRefused, OpenFail, OpenGranted, OpenReturn, ReleaseLeave,
       ReleaseReturn, MetBusy
  <2>4. CASE ReleaseCount(p)
    BY <2>4, <2>a, <1>a DEF ReleaseCount, Counted, MetBusy
  <2>5. CASE SpinWait(p)
    BY <2>5, <2>a, <1>a DEF SpinWait, Acquire, MetBusy
  <2>6. QED
    BY <1>3, <2>1, <2>2, <2>3, <2>4, <2>5 DEF Spin, SpinContend, SpinStep
<1>4. ASSUME NEW p \in Procs, Atomic(p) \/ Sem(p) \/ Mutex(p) \/ MutexContend(p)
      PROVE  MetBusy'
  <2>1. guard # "spinlock" /\ guard' = guard
    BY <1>4 DEF Atomic, Sem, Mutex, MutexContend
  <2>2. waited \subseteq waited'
    BY <1>4 DEF Atomic, Sem, Mutex, MutexContend, AtomicStep, OpenDec, MarkWaiting, OpenUndo,
       ReleaseInc, ReleaseReturn, SemStep, OpenDown, OpenInterrupted, OpenGiven, ReleaseUp,
       HandOver, MutexStep, OpenSignalled, ReleaseUnlock, OpenLock
  <2>3. \A q \in Procs : pc'[q] = "refused" => pc[q] = "refused"
    <3>1. CASE Atomic(p) \/ Mutex(p) \/ MutexContend(p)
      BY <3>1, <1>a DEF Atomic, Mutex, MutexContend, AtomicStep, OpenDec, OpenUndo, OpenReturn,
         OpenFail, ReleaseInc, ReleaseReturn, MutexStep, OpenSignalled, ReleaseUnlock, OpenLock
    <3>2. CASE Sem(p)
      BY <3>2, <1>a DEF Sem, SemStep, OpenDown, OpenInterrupted, OpenGiven, ReleaseUp,
         HandOver, OpenReturn, OpenFail, ReleaseReturn
    <3>3. QED
      BY <1>4, <3>1, <3>2
  <2>4. QED
    BY <2>1, <2>2, <2>3 DEF MetBusy
<1>5. QED
  BY <1>1, <1>2, <1>3, <1>4 DEF Next, InKernel, Contend

(* 08_spinlock refuses an open only if the device was open at some moment  *)
(* of the call (spinlock.c:45), for any number of processes.               *)
THEOREM Refusals == Spec => SpinRefusesOnlyBusy
<1>1. Init => MetBusy
  BY DEF Init, FileInit, SpinInit, MetBusy
<1>2. MetBusy /\ UNCHANGED vars => MetBusy'
  BY DEF vars, fileVars, guardVars, spinVars, MetBusy
<1>3. IInv /\ MetBusy /\ [Next]_vars => MetBusy'
  BY <1>2, NextMetBusy
<1>4. MetBusy /\ [Next]_vars => [\A p \in Procs : OpenRefused(p) => p \in waited]_vars
  BY DEF MetBusy, OpenRefused
<1>5. QED
  BY <1>1, <1>3, <1>4, Invariant, PTL DEF Spec, SpinRefusesOnlyBusy
=============================================================================
