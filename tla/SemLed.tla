------------------------------- MODULE SemLed -------------------------------
(***************************************************************************)
(* src/Linux_Driver/09_semaphore/semaphore.c: led_open takes gpioled.sem   *)
(* with down_interruptible, led_release returns it with up.  The semaphore *)
(* is the kernel's: a count and a first-come first-served list of waiters, *)
(* to the first of which up hands over without raising the count.          *)
(***************************************************************************)
EXTENDS LedFile, Sequences

VARIABLES
  count,        \* gpioled.sem.count
  wait_list     \* gpioled.sem.wait_list

semVars == <<count, wait_list>>

SemInit == count = 1 /\ wait_list = <<>>
SemTypeOK == count \in Nat /\ wait_list \in Seq(Procs)

(* down_interruptible: take the semaphore or queue up. *)
OpenDown(p) ==
  /\ pc[p] = "open"
  /\ IF count > 0
       THEN count' = count - 1 /\ OpenReturn(p) /\ UNCHANGED <<waited, wait_list>>
       ELSE /\ wait_list' = Append(wait_list, p)
            /\ Goto(p, "wait")
            /\ UNCHANGED <<count, cur, fds, sig, waited, gpio>>

(* list_del of the i-th waiter *)
ListDel(i) ==
  wait_list' = SubSeq(wait_list, 1, i - 1) \o SubSeq(wait_list, i + 1, Len(wait_list))

\* A wait that does not look whether it was given the semaphore first.
InterruptGiven(p) ==
  /\ pc[p] \in {"wait", "given"}
  /\ p \in sig
  /\ \/ \E i \in 1 .. Len(wait_list) : wait_list[i] = p /\ ListDel(i)
     \/ pc[p] = "given" /\ UNCHANGED wait_list
  /\ OpenFail(p)
  /\ UNCHANGED <<count, waited>>

(* A signal ends the wait of a process still in the list: -ERESTARTSYS.    *)
OpenInterrupted(p) ==
  /\ pc[p] = "wait"
  /\ p \in sig
  /\ \E i \in 1 .. Len(wait_list) : wait_list[i] = p /\ ListDel(i)
  /\ OpenFail(p)
  /\ UNCHANGED <<count, waited>>

(* The semaphore was handed over: led_open returns 0. *)
OpenGiven(p) ==
  /\ pc[p] = "given"
  /\ OpenReturn(p)
  /\ UNCHANGED <<count, wait_list, waited>>

(* led_release returns, having handed the semaphore over to the waiter q.  *)
HandOver(p, q) ==
  /\ pc' = [pc EXCEPT ![p] = "user", ![q] = "given"]
  /\ cur' = [cur EXCEPT ![p] = NoFile]
  /\ sig' = sig \ {p}
  /\ UNCHANGED <<fds, waited, gpio>>

(* led_release: up *)
ReleaseUp(p) ==
  /\ pc[p] = "release"
  /\ IF wait_list = <<>>
       THEN ReleaseReturn(p) /\ count' = count + 1 /\ UNCHANGED wait_list
       ELSE HandOver(p, Head(wait_list)) /\ wait_list' = Tail(wait_list) /\ UNCHANGED count

SemStep(p) == OpenDown(p) \/ OpenInterrupted(p) \/ OpenGiven(p) \/ ReleaseUp(p)

(* Whoever waits is in the list. *)
Queued == \A p \in Procs : pc[p] = "wait" => \E i \in 1 .. Len(wait_list) : wait_list[i] = p

(* The count and the open file add up to the initial 1, no waiter is       *)
(* forgotten, and nobody waits for a semaphore that is free                *)
(* (semaphore.c:44 and :81).                                               *)
SemAccounts ==
  /\ count = 1 - Cardinality(Opened)
  /\ count > 0 => wait_list = <<>>
  /\ Queued
=============================================================================
