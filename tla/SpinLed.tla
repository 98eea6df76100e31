------------------------------ MODULE SpinLed ------------------------------
(***************************************************************************)
(* src/Linux_Driver/08_spinlock/spinlock.c: dev_stats counts the opens and *)
(* is read and changed under the spinlock gpioled.lock.                    *)
(***************************************************************************)
EXTENDS LedFile

VARIABLES
  spinlock,     \* gpioled.lock: the process that holds it, or Nobody
  dev_stats     \* gpioled.dev_stats

spinVars == <<spinlock, dev_stats>>

SpinInit == spinlock = Nobody /\ dev_stats = 0
SpinTypeOK == spinlock \in Procs \cup {Nobody} /\ dev_stats \in Nat

Inside == {"test", "free", "granted", "refused", "count", "leave"}

\* Entering the critical section without spin_lock_irqsave.
AcquireNothing(p, from, to) ==
  /\ pc[p] = from
  /\ Goto(p, to)
  /\ UNCHANGED <<cur, fds, sig, waited, gpio, spinlock, dev_stats>>

(* spin_lock_irqsave *)
Acquire(p, from, to) ==
  /\ pc[p] = from
  /\ spinlock = Nobody
  /\ spinlock' = p
  /\ Goto(p, to)
  /\ UNCHANGED <<cur, fds, sig, waited, gpio, dev_stats>>

(* led_open: if (dev_stats) *)
OpenTest(p) ==
  /\ pc[p] = "test"
  /\ Goto(p, IF dev_stats # 0 THEN "refused" ELSE "free")
  /\ UNCHANGED <<cur, fds, sig, waited, gpio, spinlock, dev_stats>>

(* dev_stats++ *)
OpenCount(p) ==
  /\ pc[p] = "free"
  /\ dev_stats' = dev_stats + 1
  /\ Goto(p, "granted")
  /\ MarkWaiting
  /\ UNCHANGED <<cur, fds, sig, gpio, spinlock>>

(* spin_unlock_irqrestore; return -EBUSY *)
OpenRefused(p) ==
  /\ pc[p] = "refused"
  /\ spinlock' = Nobody
  /\ OpenFail(p)
  /\ UNCHANGED <<waited, dev_stats>>

(* spin_unlock_irqrestore; return 0 *)
OpenGranted(p) ==
  /\ pc[p] = "granted"
  /\ spinlock' = Nobody
  /\ OpenReturn(p)
  /\ UNCHANGED <<waited, dev_stats>>

\* A release that leaves the count.
ReleaseForgets(p) ==
  /\ pc[p] = "count"
  /\ Goto(p, "leave")
  /\ UNCHANGED <<cur, fds, sig, waited, gpio, spinlock, dev_stats>>

(* led_release: if (dev_stats) dev_stats-- *)
ReleaseCount(p) ==
  /\ pc[p] = "count"
  /\ dev_stats' = IF dev_stats # 0 THEN dev_stats - 1 ELSE dev_stats
  /\ Goto(p, "leave")
  /\ UNCHANGED <<cur, fds, sig, waited, gpio, spinlock>>

ReleaseLeave(p) ==
  /\ pc[p] = "leave"
  /\ spinlock' = Nobody
  /\ ReleaseReturn(p)
  /\ UNCHANGED dev_stats

SpinWait(p) == Acquire(p, "open", "test") \/ Acquire(p, "release", "count")
SpinStep(p) ==
  \/ OpenTest(p) \/ OpenCount(p) \/ OpenRefused(p) \/ OpenGranted(p)
  \/ ReleaseCount(p) \/ ReleaseLeave(p)

(* dev_stats is the number of open files, so that the test in led_release  *)
(* (spinlock.c:92) never hides an unbalanced release.                      *)
StatsCountOpens == dev_stats = Cardinality(Opened)
=============================================================================
