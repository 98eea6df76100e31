------------------------------ MODULE MutexLed ------------------------------
(***************************************************************************)
(* src/Linux_Driver/10_mutex/mutex.c: led_open takes gpioled.lock with     *)
(* mutex_lock_interruptible and returns to user mode holding it;           *)
(* led_release unlocks it, in whichever process drops the last reference.  *)
(* The mutex is the kernel's, without its debugging checks: an unlock      *)
(* frees it whoever calls.                                                 *)
(***************************************************************************)
EXTENDS LedFile

VARIABLE owner      \* gpioled.lock.owner, or Nobody

MutexInit == owner = Nobody
MutexTypeOK == owner \in Procs \cup {Nobody}

(* mutex_lock_interruptible returns 0. *)
OpenLock(p) ==
  /\ pc[p] = "open"
  /\ owner = Nobody
  /\ owner' = p
  /\ OpenReturn(p)
  /\ UNCHANGED waited

(* It returns -EINTR while the mutex is taken: -ERESTARTSYS. *)
OpenSignalled(p) ==
  /\ pc[p] = "open"
  /\ owner # Nobody
  /\ p \in sig
  /\ OpenFail(p)
  /\ UNCHANGED <<owner, waited>>

\* A release without mutex_unlock.
UnlockForgotten(p) ==
  /\ pc[p] = "release"
  /\ UNCHANGED owner
  /\ ReleaseReturn(p)

(* led_release: mutex_unlock *)
ReleaseUnlock(p) ==
  /\ pc[p] = "release"
  /\ owner' = Nobody
  /\ ReleaseReturn(p)

MutexStep(p) == OpenSignalled(p) \/ ReleaseUnlock(p)

(* The mutex is taken exactly while a file is open, also after the process *)
(* that locked it has passed the file on and exited: the release that      *)
(* another process runs (mutex.c:88) frees it.                             *)
LockedWhileOpen == owner # Nobody <=> Opened # {}
=============================================================================
