------------------------------ MODULE LedFile ------------------------------
(***************************************************************************)
(* What 07_atomic, 08_spinlock, 09_semaphore and 10_mutex have in common:  *)
(* processes that open /dev/gpioled, share the open file (fork, or a       *)
(* descriptor passed on), write to it and close it.  The kernel calls      *)
(* led_release once per file, in the process that drops the last           *)
(* reference, which need not be the one that opened it.  How led_open and  *)
(* led_release guard the device is in AtomicLed, SpinLed, SemLed and       *)
(* MutexLed; LedDevice puts the parts together.                            *)
(***************************************************************************)
EXTENDS Integers, FiniteSets

CONSTANTS
  Procs,    \* single-threaded processes
  Files,    \* struct file objects
  NoFile,
  Nobody,   \* the owner of a lock that is free
  Sharers,  \* the processes that hand their descriptors on
  MaxFds    \* bound: open files per process

ASSUME LedFileAssumption ==
  /\ IsFiniteSet(Procs)
  /\ NoFile \notin Files
  /\ Nobody \notin Procs
  /\ Sharers \subseteq Procs
  /\ MaxFds \in Nat

VARIABLES
  pc,       \* what each process does: "user" or a label of a system call
  cur,      \* the file its system call works on
  fds,      \* the open files it has descriptors of
  sig,      \* the processes that a signal is pending for
  waited,   \* ghost: opening processes that have met the device occupied
  gpio      \* the level of the LED's line: 0 lit, 1 dark

fileVars == <<pc, cur, fds, sig, waited, gpio>>

FileInit ==
  /\ pc = [p \in Procs |-> "user"]
  /\ cur = [p \in Procs |-> NoFile]
  /\ fds = [p \in Procs |-> {}]
  /\ sig = {}
  /\ waited = {}
  /\ gpio = 1

(* The labels inside led_open and led_release, of any of the drivers, with *)
(* those at which the file counts as open.                                 *)
PC == {"user", "open", "undo", "test", "free", "granted", "refused", "wait", "given",
       "write", "release", "count", "leave"}
Holding == {"granted", "given", "release", "count"}

FileTypeOK ==
  /\ pc \in [Procs -> PC]
  /\ cur \in [Procs -> Files \cup {NoFile}]
  /\ fds \in [Procs -> SUBSET Files]
  /\ sig \subseteq Procs
  /\ waited \subseteq Procs
  /\ gpio \in {0, 1}

InUse(f) == \E p \in Procs : f \in fds[p] \/ cur[p] = f

(* The files that are open on the device: those in descriptors, and those  *)
(* whose open has succeeded but not returned, or whose release is not done.*)
Opened ==
  (UNION {fds[p] : p \in Procs}) \cup {cur[p] : p \in {q \in Procs : pc[q] \in Holding}}

Goto(p, l) == pc' = [pc EXCEPT ![p] = l]

(***************************************************************************)
(* System calls.  open and release begin here and end in the driver.       *)
(***************************************************************************)
OpenCall(p, busy) ==
  /\ pc[p] = "user"
  /\ Cardinality(fds[p]) < MaxFds
  /\ \E f \in Files :
       /\ ~InUse(f)
       /\ cur' = [cur EXCEPT ![p] = f]
  /\ pc' = [pc EXCEPT ![p] = "open"]
  /\ waited' = IF busy THEN waited \cup {p} ELSE waited \ {p}
  /\ UNCHANGED <<fds, sig, gpio>>

(* led_open returns 0: the file has a descriptor now. *)
OpenReturn(p) ==
  /\ pc' = [pc EXCEPT ![p] = "user"]
  /\ fds' = [fds EXCEPT ![p] = @ \cup {cur[p]}]
  /\ cur' = [cur EXCEPT ![p] = NoFile]
  /\ sig' = sig \ {p}
  /\ UNCHANGED gpio

(* led_open fails: the file is gone, led_release is not called. *)
OpenFail(p) ==
  /\ pc' = [pc EXCEPT ![p] = "user"]
  /\ cur' = [cur EXCEPT ![p] = NoFile]
  /\ sig' = sig \ {p}
  /\ UNCHANGED <<fds, gpio>>

(* Everyone who is opening meets the device occupied when it is granted.   *)
MarkWaiting == waited' = waited \cup {q \in Procs : cur[q] # NoFile}

Share(p, q) ==
  /\ p \in Sharers
  /\ pc[p] = "user"
  /\ pc[q] = "user"
  /\ \E f \in fds[p] \ fds[q] : fds' = [fds EXCEPT ![q] = @ \cup {f}]
  /\ UNCHANGED <<pc, cur, sig, waited, gpio>>

WriteCall(p) ==
  /\ pc[p] = "user"
  /\ \E f \in fds[p] : cur' = [cur EXCEPT ![p] = f]
  /\ pc' = [pc EXCEPT ![p] = "write"]
  /\ UNCHANGED <<fds, sig, waited, gpio>>

\* A write that passes the byte on to gpio_set_value as it is.
WriteRawByte(p) ==
  /\ pc[p] = "write"
  /\ \E ledstat \in {0, 1, 2} : gpio' = ledstat
  /\ pc' = [pc EXCEPT ![p] = "user"]
  /\ cur' = [cur EXCEPT ![p] = NoFile]
  /\ UNCHANGED <<fds, sig, waited>>

(* led_write: 1 lights the LED (active low), 0 darkens it, any other byte  *)
(* leaves it; an unreadable buffer reads as 0, an empty one as anything.   *)
Write(p) ==
  /\ pc[p] = "write"
  /\ \E ledstat \in {0, 1, 2} :
       gpio' = CASE ledstat = 1 -> 0 [] ledstat = 0 -> 1 [] OTHER -> gpio
  /\ pc' = [pc EXCEPT ![p] = "user"]
  /\ cur' = [cur EXCEPT ![p] = NoFile]
  /\ UNCHANGED <<fds, sig, waited>>

\* A close that releases the file although another process shares it.
CloseReleasesShared(p) ==
  /\ pc[p] = "user"
  /\ \E f \in fds[p] :
       /\ fds' = [fds EXCEPT ![p] = @ \ {f}]
       /\ pc' = [pc EXCEPT ![p] = "release"]
       /\ cur' = [cur EXCEPT ![p] = f]
  /\ UNCHANGED <<sig, waited, gpio>>

(* close, or exit: the last reference runs led_release. *)
CloseCall(p) ==
  /\ pc[p] = "user"
  /\ \E f \in fds[p] :
       /\ fds' = [fds EXCEPT ![p] = @ \ {f}]
       /\ IF \E q \in Procs \ {p} : f \in fds[q]
            THEN UNCHANGED <<pc, cur>>
            ELSE /\ pc' = [pc EXCEPT ![p] = "release"]
                 /\ cur' = [cur EXCEPT ![p] = f]
  /\ UNCHANGED <<sig, waited, gpio>>

(* led_release has returned. *)
ReleaseReturn(p) ==
  /\ pc' = [pc EXCEPT ![p] = "user"]
  /\ cur' = [cur EXCEPT ![p] = NoFile]
  /\ sig' = sig \ {p}
  /\ UNCHANGED <<fds, waited, gpio>>

Signal(p) ==
  /\ pc[p] # "user"
  /\ p \notin sig
  /\ sig' = sig \cup {p}
  /\ UNCHANGED <<pc, cur, fds, waited, gpio>>

Syscall(p, busy) ==
  \/ OpenCall(p, busy)
  \/ WriteCall(p)
  \/ Write(p)
  \/ CloseCall(p)
  \/ Signal(p)
  \/ \E q \in Procs \ {p} : Share(p, q)
=============================================================================
