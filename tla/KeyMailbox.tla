---------------------------- MODULE KeyMailbox ----------------------------
(***************************************************************************)
(* What a key driver promises the applications that read it: one cell that *)
(* holds the outcome of the latest debounced sample (the variable status   *)
(* of 13_irq/keyirq.c, key.status of the others).  A sample overwrites the *)
(* cell, and a read takes what it holds and leaves Keep, in one step, so   *)
(* that no two reads obtain the same event and a read destroys no event it *)
(* does not return.                                                        *)
(***************************************************************************)
EXTENDS Naturals

CONSTANT Readers

VARIABLES
  cell,     \* the latest sample, or "KEEP" when it was read
  serial,   \* how many presses and releases have been put into the cell
  got       \* per reader: the number of the last event it took, 0 for none

mailVars == <<cell, serial, got>>

Init ==
  /\ cell = "KEEP"
  /\ serial = 0
  /\ got = [r \in Readers |-> 0]

(* The debounced level changed: a press after a release, or the reverse.   *)
Post ==
  /\ cell' = IF serial % 2 = 0 THEN "PRESS" ELSE "RELEASE"
  /\ serial' = serial + 1
  /\ UNCHANGED got

(* The sample found the level of the one before. *)
NoChange ==
  /\ cell' = "KEEP"
  /\ UNCHANGED <<serial, got>>

(* A read returns what the cell holds, an event at most once. *)
Take(r) ==
  /\ cell' = "KEEP"
  /\ got' = [got EXCEPT ![r] = IF cell = "KEEP" THEN 0 ELSE serial]
  /\ UNCHANGED serial

(* A read that cannot store into the caller's buffer empties the cell too. *)
Spill(r) ==
  /\ cell' = "KEEP"
  /\ got' = [got EXCEPT ![r] = 0]
  /\ UNCHANGED serial

Next == Post \/ NoChange \/ \E r \in Readers : Take(r) \/ Spill(r)

Spec == Init /\ [][Next]_mailVars
=============================================================================
