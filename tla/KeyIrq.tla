------------------------------- MODULE KeyIrq -------------------------------
(***************************************************************************)
(* src/Linux_Driver/13_irq/keyirq.c: the timer function and key_read both  *)
(* work on the global status under key.spinlock.  Any number of processes  *)
(* read concurrently; a read never blocks.                                 *)
(***************************************************************************)
EXTENDS KeyLine

CONSTANT Readers        \* the processes that read /dev/key

VARIABLES
  status,   \* the driver's global status
  serial,   \* ghost: number of the latest press or release stored in status
  lock,     \* key.spinlock: "free", "timer" or the reader that holds it
  rpc,      \* where each reader stands in key_read
  buf,      \* ghost: number of the event copy_to_user copied, 0 for KEY_KEEP
            \* and for a copy that failed
  got       \* ghost: buf of the read that completed last

readVars == <<rpc, buf, got>>
vars == <<lineVars, debounceVars, status, serial, lock, readVars>>

ASSUME ReadersAssumption == {"free", "timer"} \cap Readers = {}

Mailbox == INSTANCE KeyMailbox WITH cell <- status

Init ==
  /\ LineInit
  /\ status = Keep
  /\ serial = 0
  /\ lock = "free"
  /\ rpc = [r \in Readers |-> "user"]
  /\ buf = [r \in Readers |-> 0]
  /\ got = [r \in Readers |-> 0]

TypeOK ==
  /\ LineTypeOK
  /\ tpc \in {"idle", "lock", "sample", "store", "unlock"}
  /\ status \in Status
  /\ serial \in Nat
  /\ lock \in {"free", "timer"} \cup Readers
  /\ rpc \in [Readers -> {"user", "lock", "copy", "reset", "unlock"}]
  /\ buf \in [Readers -> Nat]
  /\ got \in [Readers -> Nat]

(***************************************************************************)
(* key_timer_function                                                      *)
(***************************************************************************)
TimerLock ==
  /\ tpc = "lock"
  /\ lock = "free"
  /\ lock' = "timer"
  /\ tpc' = "sample"
  /\ UNCHANGED <<lineVars, current_val, last_val, status, serial, readVars>>

TimerSample ==
  /\ Sample("sample", "store")
  /\ UNCHANGED <<status, serial, lock, readVars>>

\* A function that forgets last_val = current_val.
StoreForgetsLast ==
  /\ tpc = "store"
  /\ status' = Classify(current_val, last_val)
  /\ serial' = IF status' \in Event THEN serial + 1 ELSE serial
  /\ tpc' = "unlock"
  /\ UNCHANGED <<lineVars, current_val, last_val, lock, readVars>>

TimerStore ==
  /\ tpc = "store"
  /\ status' = Classify(current_val, last_val)
  /\ serial' = IF status' \in Event THEN serial + 1 ELSE serial
  /\ last_val' = current_val
  /\ tpc' = "unlock"
  /\ UNCHANGED <<lineVars, current_val, lock, readVars>>

TimerUnlock ==
  /\ tpc = "unlock"
  /\ lock' = "free"
  /\ tpc' = "idle"
  /\ UNCHANGED <<lineVars, current_val, last_val, status, serial, readVars>>

(***************************************************************************)
(* key_read                                                                *)
(***************************************************************************)
ReadCall(r) ==
  /\ rpc[r] = "user"
  /\ rpc' = [rpc EXCEPT ![r] = "lock"]
  /\ UNCHANGED <<lineVars, debounceVars, status, serial, lock, buf, got>>

\* A read that skips spin_lock_irqsave.
ReadUnlocked(r) ==
  /\ rpc[r] = "lock"
  /\ rpc' = [rpc EXCEPT ![r] = "copy"]
  /\ UNCHANGED <<lineVars, debounceVars, status, serial, lock, buf, got>>

ReadLock(r) ==
  /\ rpc[r] = "lock"
  /\ lock = "free"
  /\ lock' = r
  /\ rpc' = [rpc EXCEPT ![r] = "copy"]
  /\ UNCHANGED <<lineVars, debounceVars, status, serial, buf, got>>

(* copy_to_user; when it fails the caller has nothing. *)
ReadCopy(r) ==
  /\ rpc[r] = "copy"
  /\ \E n \in {0, IF status = Keep THEN 0 ELSE serial} :
       buf' = [buf EXCEPT ![r] = n]
  /\ rpc' = [rpc EXCEPT ![r] = "reset"]
  /\ UNCHANGED <<lineVars, debounceVars, status, serial, lock, got>>

\* A read that leaves the status it has returned in place.
ReadNoReset(r) ==
  /\ rpc[r] = "reset"
  /\ got' = [got EXCEPT ![r] = buf[r]]
  /\ rpc' = [rpc EXCEPT ![r] = "unlock"]
  /\ UNCHANGED <<lineVars, debounceVars, status, serial, lock, buf>>

ReadReset(r) ==
  /\ rpc[r] = "reset"
  /\ status' = Keep
  /\ got' = [got EXCEPT ![r] = buf[r]]
  /\ rpc' = [rpc EXCEPT ![r] = "unlock"]
  /\ UNCHANGED <<lineVars, debounceVars, serial, lock, buf>>

ReadUnlock(r) ==
  /\ rpc[r] = "unlock"
  /\ lock' = "free"
  /\ rpc' = [rpc EXCEPT ![r] = "user"]
  /\ UNCHANGED <<lineVars, debounceVars, status, serial, buf, got>>

-----------------------------------------------------------------------------
others == <<status, serial, lock, readVars>>

Line == (Edge \/ Interrupt \/ Expire("lock")) /\ UNCHANGED others
TimerStep == TimerLock \/ TimerSample \/ TimerStore \/ TimerUnlock
ReadStep(r) == ReadLock(r) \/ ReadCopy(r) \/ ReadReset(r) \/ ReadUnlock(r)

Next ==
  \/ Line
  \/ TimerStep
  \/ \E r \in Readers : ReadCall(r) \/ ReadStep(r)

Spec == Init /\ [][Next]_vars

(***************************************************************************)
(* The interrupt and an expired timer are served, a running timer function *)
(* and a system call that has begun run on.  A contended spinlock is only  *)
(* assumed to be granted in the end to one that keeps asking (Arm ticket   *)
(* locks are first come first served).  Nobody has to press or read.       *)
(***************************************************************************)
Fairness ==
  /\ WF_vars(Interrupt /\ UNCHANGED others)
  /\ WF_vars(Expire("lock") /\ UNCHANGED others)
  /\ SF_vars(TimerLock)
  /\ WF_vars(TimerSample \/ TimerStore \/ TimerUnlock)
  /\ \A r \in Readers :
       SF_vars(ReadLock(r)) /\ WF_vars(ReadCopy(r) \/ ReadReset(r) \/ ReadUnlock(r))

FairSpec == Spec /\ Fairness

(***************************************************************************)
(* Properties                                                              *)
(***************************************************************************)

(* The spinlock of keyirq.c:116 and :144 makes the two critical sections   *)
(* exclusive: the timer function and the readers are never inside at once, *)
(* and whoever is inside holds the lock.                                   *)
LockOwner ==
  /\ tpc \in {"sample", "store", "unlock"} <=> lock = "timer"
  /\ \A r \in Readers : rpc[r] \in {"copy", "reset", "unlock"} <=> lock = r

(* What a read returns is the latest event or nothing: status never holds  *)
(* an event older than the latest one, presses and releases alternate, and *)
(* the parity of their number is the debounced level of keyirq.c:112.      *)
StatusIsLatest ==
  /\ status = Press => serial % 2 = 1
  /\ status = Release => serial % 2 = 0 /\ serial > 0
  /\ last_val = 1 <=> serial % 2 = 0

(* No event is returned by two reads (keyirq.c:146-148 copy and reset in   *)
(* one critical section), whoever reads.                                   *)
TakenOnce ==
  \A r, s \in Readers : r # s /\ got[r] # 0 => got[r] # got[s]

(* An event that a read has taken is not readable any more. *)
TakenIsGone ==
  \A r \in Readers : got[r] # 0 /\ got[r] = serial => status = Keep

(* The driver is the atomic one-cell mailbox: copying and resetting the    *)
(* status, two steps of key_read, act as one.                              *)
ImplementsMailbox == Mailbox!Spec

(* Every edge re-arms the timer, so that the debounced value ends up at    *)
(* the real level however edges, interrupts and the sample interleave.     *)
SettledIsLevel == Settled

(* Once the key rests, the driver catches up with it. *)
Debounced == <>[](edges > 0 => last_val = level)
=============================================================================
