----------------------------- MODULE LedDevice -----------------------------
(***************************************************************************)
(* /dev/gpioled, served by one of the drivers 07_atomic, 08_spinlock,      *)
(* 09_semaphore and 10_mutex, and the processes that open, share, write    *)
(* and close it.  guard says which driver was loaded; the variables of the *)
(* other three keep their initial values.                                  *)
(***************************************************************************)
EXTENDS AtomicLed, SpinLed, SemLed, MutexLed

VARIABLE guard      \* the driver that is loaded

Guards == {"atomic", "spinlock", "semaphore", "mutex"}

guardVars == <<guard, lock, spinVars, semVars, owner>>
vars == <<fileVars, guardVars>>

Init ==
  /\ guard \in Guards
  /\ FileInit
  /\ AtomicInit
  /\ SpinInit
  /\ SemInit
  /\ MutexInit

TypeOK ==
  /\ guard \in Guards
  /\ FileTypeOK
  /\ AtomicTypeOK
  /\ SpinTypeOK
  /\ SemTypeOK
  /\ MutexTypeOK

Atomic(p) ==
  guard = "atomic" /\ AtomicStep(p) /\ UNCHANGED <<guard, spinVars, semVars, owner>>
SpinContend(p) ==
  guard = "spinlock" /\ SpinWait(p) /\ UNCHANGED <<guard, lock, semVars, owner>>
Spin(p) ==
  guard = "spinlock" /\ SpinStep(p) /\ UNCHANGED <<guard, lock, semVars, owner>>
Sem(p) ==
  guard = "semaphore" /\ SemStep(p) /\ UNCHANGED <<guard, lock, spinVars, owner>>
MutexContend(p) ==
  guard = "mutex" /\ OpenLock(p) /\ UNCHANGED <<guard, lock, spinVars, semVars>>
Mutex(p) ==
  guard = "mutex" /\ MutexStep(p) /\ UNCHANGED <<guard, lock, spinVars, semVars>>

InKernel(p) ==
  (Write(p) /\ UNCHANGED guardVars) \/ Atomic(p) \/ Spin(p) \/ Sem(p) \/ Mutex(p)
Contend(p) == SpinContend(p) \/ MutexContend(p)

Next ==
  \E p \in Procs :
    \/ Syscall(p, Opened # {}) /\ UNCHANGED guardVars
    \/ InKernel(p)
    \/ Contend(p)

Spec == Init /\ [][Next]_vars

(***************************************************************************)
(* A system call runs on where it can.  A process that spins gets the      *)
(* spinlock in the end (first come first served on Arm), and one that      *)
(* loses the mutex again and again is handed it (MUTEX_FLAG_HANDOFF).  The *)
(* applications (semaApp.c:40-57) write, hold the device for 25 seconds    *)
(* and close it: writes come in between, so that the close is strongly     *)
(* fair.  Nobody has to open, to share or to be signalled.                 *)
(***************************************************************************)
FairSpec ==
  /\ Spec
  /\ \A p \in Procs :
       /\ WF_vars(InKernel(p))
       /\ SF_vars(Contend(p))
       /\ SF_vars(CloseCall(p) /\ UNCHANGED guardVars)

-----------------------------------------------------------------------------
(* At most one file is open on the device (atomic.c:45, spinlock.c:45,     *)
(* semaphore.c:44, mutex.c:44), however openers, refused and interrupted   *)
(* openers, hand-overs and releases interleave and whoever closes.         *)
AtMostOneOpen == \A f, g \in Opened : f = g

(* What the driver keeps about the device never drifts from the files that *)
(* are open: else the device would lock up for good or open twice.         *)
GuardAccounts ==
  /\ guard = "atomic" => LockAccounts
  /\ guard = "spinlock" => StatsCountOpens
  /\ guard = "semaphore" => SemAccounts
  /\ guard = "mutex" => LockedWhileOpen

(* Each of the drivers implements the exclusive device. *)
Exclusive == INSTANCE ExclusiveOpen WITH opened <- Opened
ImplementsExclusive == Exclusive!Spec

(* spinlock.c:45: an open is refused only if the device was open at some   *)
(* moment of the call, which 07_atomic does not guarantee.                 *)
SpinRefusesOnlyBusy == [][\A p \in Procs : OpenRefused(p) => p \in waited]_vars

(* Every open returns in the end, with the device, refused or interrupted, *)
(* although others keep opening it (atomic.c:45, spinlock.c:44,            *)
(* semaphore.c:44, mutex.c:44).                                            *)
OpenReturns == \A p \in Procs : pc[p] = "open" ~> pc[p] = "user"
=============================================================================
