---------------------------- MODULE KeyIrqProofs ----------------------------
(***************************************************************************)
(* Proofs about KeyIrq, for any number of readers and of edges.            *)
(*                                                                         *)
(* The inductive invariant adds to the properties of KeyIrq what is true   *)
(* inside the critical sections: InFlight relates the sample under way to  *)
(* the line, Copied the event a read has copied to the one in status.      *)
(***************************************************************************)
EXTENDS KeyIrq, TLAPS

(* With no interrupt and no timer ahead, what the timer function carries   *)
(* is the present level.                                                   *)
InFlight ==
  edges > 0 /\ ~irq /\ ~timer =>
    /\ tpc = "store" => current_val = level
    /\ tpc \in {"idle", "unlock"} => last_val = level

(* An event copied and not yet reset is still the one in status; none is   *)
(* numbered beyond the latest.                                             *)
Copied ==
  \A r \in Readers :
    /\ got[r] <= serial
    /\ rpc[r] = "reset" /\ buf[r] # 0 => buf[r] = serial /\ status # Keep

(* The inductive invariant that the properties of keyirq.c rest on. *)
IInv ==
  /\ TypeOK
  /\ LockOwner
  /\ StatusIsLatest
  /\ InFlight
  /\ Copied
  /\ TakenIsGone
  /\ TakenOnce

(* Classify for the two levels of the line. *)
LEMMA ClassifyFact ==
  ASSUME NEW cur \in {0, 1}, NEW last \in {0, 1}
  PROVE  /\ Classify(cur, last) = Press <=> cur = 0 /\ last = 1
         /\ Classify(cur, last) = Release <=> cur = 1 /\ last = 0
         /\ Classify(cur, last) = Keep <=> cur = last
<1>1. CASE cur = 0 /\ last = 1
  BY <1>1 DEF Classify, Press, Release, Keep
<1>2. CASE cur = 1 /\ last = 0
  BY <1>2 DEF Classify, Press, Release, Keep
<1>3. CASE cur = last
  <2>1. ~(cur = 0 /\ last = 1) /\ ~(cur = 1 /\ last = 0)
    BY <1>3
  <2>2. Classify(cur, last) = Keep
    BY <2>1 DEF Classify
  <2>3. QED
    BY <1>3, <2>1, <2>2 DEF Press, Release, Keep
<1>4. QED
  BY <1>1, <1>2, <1>3

LEMMA InitInv == Init => IInv
<1> SUFFICES ASSUME Init
             PROVE  IInv
  OBVIOUS
<1> USE DEF Init, LineInit, Keep, Press, Release, Status
<1>1. TypeOK
  <2>1. LineTypeOK
    <3>1. irq \in BOOLEAN /\ timer \in BOOLEAN
      BY Zenon
    <3>2. edges \in 0 .. MaxEdges
      BY MaxEdgesAssumption
    <3>3. QED
      BY <3>1, <3>2 DEF LineTypeOK
  <2>2. tpc = "idle" /\ status \in Status /\ serial \in Nat /\ lock = "free"
    OBVIOUS
  <2>3. /\ rpc \in [Readers -> {"user", "lock", "copy", "reset", "unlock"}]
        /\ buf \in [Readers -> Nat]
        /\ got \in [Readers -> Nat]
    OBVIOUS
  <2>4. QED
    BY <2>1, <2>2, <2>3 DEF TypeOK
<1>2. LockOwner
  BY ReadersAssumption DEF LockOwner
<1>3. StatusIsLatest
  BY DEF StatusIsLatest
<1>4. InFlight /\ Copied /\ TakenIsGone /\ TakenOnce
  BY DEF InFlight, Copied, TakenIsGone, TakenOnce
<1>5. QED
  BY <1>1, <1>2, <1>3, <1>4 DEF IInv

LEMMA NextInv == IInv /\ [Next]_vars => IInv'
<1> SUFFICES ASSUME IInv, [Next]_vars
             PROVE  IInv'
  OBVIOUS
<1> USE MaxEdgesAssumption, ReadersAssumption
<1> USE DEF IInv, TypeOK, LineTypeOK, LockOwner, StatusIsLatest, InFlight, Copied,
            TakenIsGone, TakenOnce, Keep, Press, Release, Status, Event,
            lineVars, debounceVars, readVars, others
<1>1. CASE Edge /\ UNCHANGED others
  BY <1>1 DEF Edge
<1>2. CASE Interrupt /\ UNCHANGED others
  BY <1>2 DEF Interrupt
<1>3. CASE Expire("lock") /\ UNCHANGED others
  BY <1>3 DEF Expire
<1>4. CASE TimerLock
  BY <1>4 DEF TimerLock
<1>5. CASE TimerSample
  BY <1>5 DEF TimerSample, Sample
<1>6. CASE TimerStore
  BY <1>6, ClassifyFact DEF TimerStore
<1>7. CASE TimerUnlock
  BY <1>7 DEF TimerUnlock
<1>8. ASSUME NEW r \in Readers, ReadCall(r)
      PROVE  IInv'
  BY <1>8 DEF ReadCall
<1>9. ASSUME NEW r \in Readers, ReadLock(r)
      PROVE  IInv'
  BY <1>9 DEF ReadLock
<1>10. ASSUME NEW r \in Readers, ReadCopy(r)
       PROVE  IInv'
  BY <1>10 DEF ReadCopy
<1>11. ASSUME NEW r \in Readers, ReadReset(r)
       PROVE  IInv'
  BY <1>11 DEF ReadReset
<1>12. ASSUME NEW r \in Readers, ReadUnlock(r)
       PROVE  IInv'
  BY <1>12 DEF ReadUnlock
<1>13. CASE UNCHANGED vars
  BY <1>13 DEF vars
<1>14. QED
  BY <1>1, <1>2, <1>3, <1>4, <1>5, <1>6, <1>7, <1>8, <1>9, <1>10, <1>11, <1>12, <1>13
     DEF Next, Line, TimerStep, ReadStep

(* The inductive invariant holds in every behaviour of keyirq.c. *)
THEOREM Invariant == Spec => []IInv
  BY InitInv, NextInv, PTL DEF Spec

(* Every variable of keyirq.c keeps its type. *)
THEOREM Typing == Spec => []TypeOK
<1>1. IInv => TypeOK
  BY DEF IInv
<1>2. QED
  BY <1>1, Invariant, PTL

(* The spinlock makes key_timer_function and key_read exclusive, whatever  *)
(* the number of readers.                                                  *)
THEOREM MutualExclusion == Spec => []LockOwner
<1>1. IInv => LockOwner
  BY DEF IInv
<1>2. QED
  BY <1>1, Invariant, PTL

(* status holds the latest event or none; presses and releases alternate.  *)
THEOREM LatestEvent == Spec => []StatusIsLatest
<1>1. IInv => StatusIsLatest
  BY DEF IInv
<1>2. QED
  BY <1>1, Invariant, PTL

(* No two reads return the same event. *)
THEOREM AtMostOnce == Spec => []TakenOnce
<1>1. IInv => TakenOnce
  BY DEF IInv
<1>2. QED
  BY <1>1, Invariant, PTL

(* An event that a read has taken is not left in status. *)
THEOREM Gone == Spec => []TakenIsGone
<1>1. IInv => TakenIsGone
  BY DEF IInv
<1>2. QED
  BY <1>1, Invariant, PTL

(* When nothing is in flight the debounced value is the level of the key,  *)
(* whatever edges, interrupts and samples came before.                     *)
THEOREM Debouncing == Spec => []SettledIsLevel
<1>1. IInv => SettledIsLevel
  BY DEF IInv, InFlight, SettledIsLevel, Settled
<1>2. QED
  BY <1>1, Invariant, PTL

-----------------------------------------------------------------------------
(* keyirq.c implements the one-cell mailbox: every step of the timer       *)
(* function and of key_read is a step of KeyMailbox or leaves it unchanged. *)
LEMMA MailboxStep == IInv /\ [Next]_vars => [Mailbox!Next]_Mailbox!mailVars
<1> SUFFICES ASSUME IInv, [Next]_vars
             PROVE  [Mailbox!Next]_Mailbox!mailVars
  OBVIOUS
<1> USE DEF Mailbox!mailVars
<1>1. CASE Line
  BY <1>1 DEF Line, others, readVars
<1>2. CASE TimerLock \/ TimerSample \/ TimerUnlock
  BY <1>2 DEF TimerLock, TimerSample, Sample, TimerUnlock, readVars
<1>3. CASE TimerStore
  <2>1. current_val \in {0, 1} /\ last_val \in {0, 1}
    BY DEF IInv, TypeOK, LineTypeOK
  <2>2. UNCHANGED got /\ status' = Classify(current_val, last_val)
    BY <1>3 DEF TimerStore, readVars
  <2>3. CASE status' \in Event
    <3>1. serial' = serial + 1
      BY <1>3, <2>3 DEF TimerStore
    <3>2. status' = IF serial % 2 = 0 THEN "PRESS" ELSE "RELEASE"
      BY <2>1, <2>2, <2>3, ClassifyFact DEF IInv, StatusIsLatest, Event, Press, Release
    <3>3. QED
      BY <2>2, <3>1, <3>2 DEF Mailbox!Next, Mailbox!Post
  <2>4. CASE status' \notin Event
    <3>1. status' = "KEEP"
      BY <2>1, <2>2, <2>4, ClassifyFact DEF Event, Keep
    <3>2. serial' = serial
      BY <1>3, <2>4 DEF TimerStore
    <3>3. QED
      BY <2>2, <3>1, <3>2 DEF Mailbox!Next, Mailbox!NoChange
  <2>5. QED
    BY <2>3, <2>4
<1>4. ASSUME NEW r \in Readers, ReadCall(r) \/ ReadLock(r) \/ ReadCopy(r) \/ ReadUnlock(r)
      PROVE  UNCHANGED Mailbox!mailVars
  BY <1>4 DEF ReadCall, ReadLock, ReadCopy, ReadUnlock
<1>5. ASSUME NEW r \in Readers, ReadReset(r)
      PROVE  Mailbox!Next
  <2>1. /\ status' = "KEEP"
        /\ serial' = serial
        /\ got' = [got EXCEPT ![r] = buf[r]]
    BY <1>5 DEF ReadReset, Keep
  <2>2. buf[r] # 0 => buf[r] = serial /\ status # "KEEP"
    BY <1>5 DEF ReadReset, IInv, Copied, Keep
  <2>3. CASE buf[r] = 0
    BY <2>1, <2>3 DEF Mailbox!Next, Mailbox!Spill
  <2>4. CASE buf[r] # 0
    BY <2>1, <2>2, <2>4 DEF Mailbox!Next, Mailbox!Take
  <2>5. QED
    BY <2>3, <2>4
<1>6. CASE UNCHANGED vars
  BY <1>6 DEF vars, readVars
<1>7. QED
  BY <1>1, <1>2, <1>3, <1>4, <1>5, <1>6 DEF Next, TimerStep, ReadStep

(* key_read, a copy and a reset, takes effect in one step: the reset.       *)
THEOREM Refinement == Spec => ImplementsMailbox
<1>1. Init => Mailbox!Init
  BY DEF Init, Mailbox!Init, Keep
<1>2. QED
  BY <1>1, MailboxStep, Invariant, PTL DEF Spec, ImplementsMailbox, Mailbox!Spec
=============================================================================
