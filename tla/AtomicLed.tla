----------------------------- MODULE AtomicLed -----------------------------
(***************************************************************************)
(* src/Linux_Driver/07_atomic/atomic.c: the device is guarded by the       *)
(* atomic counter gpioled.lock, 1 when free.  Each atomic operation is one *)
(* step; a refused open takes two, and the counter is below its value in   *)
(* between.                                                                *)
(***************************************************************************)
EXTENDS LedFile

VARIABLE lock       \* atomic_t gpioled.lock

AtomicInit == lock = 1
AtomicTypeOK == lock \in Int

(* atomic_dec_and_test: the open succeeds if the counter has become 0.     *)
OpenDec(p) ==
  /\ pc[p] = "open"
  /\ lock' = lock - 1
  /\ IF lock' = 0
       THEN OpenReturn(p) /\ MarkWaiting
       ELSE Goto(p, "undo") /\ UNCHANGED <<cur, fds, sig, waited, gpio>>

(* atomic_inc and return -EBUSY *)
OpenUndo(p) ==
  /\ pc[p] = "undo"
  /\ lock' = lock + 1
  /\ OpenFail(p)
  /\ UNCHANGED waited

\* A release that sets the counter instead of incrementing it.
ReleaseSets(p) ==
  /\ pc[p] = "release"
  /\ lock' = 1
  /\ ReleaseReturn(p)

(* led_release *)
ReleaseInc(p) ==
  /\ pc[p] = "release"
  /\ lock' = lock + 1
  /\ ReleaseReturn(p)

AtomicStep(p) == OpenDec(p) \/ OpenUndo(p) \/ ReleaseInc(p)

(* The counter accounts for the open file and for every opener between its *)
(* decrement (atomic.c:45) and its increment (:46).                        *)
LockAccounts ==
  lock = 1 - Cardinality(Opened) - Cardinality({p \in Procs : pc[p] = "undo"})
=============================================================================
