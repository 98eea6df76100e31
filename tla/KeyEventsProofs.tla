--------------------------- MODULE KeyEventsProofs ---------------------------
(***************************************************************************)
(* Proofs about 14_blockio, 15_noblockio and 16_asyncnoti, for any number  *)
(* of processes and of edges: types, no lost wake-up, no lost signal, no   *)
(* dangling entry, events in their order and as they happened, and the     *)
(* debounced value of a key at rest.                                       *)
(***************************************************************************)
EXTENDS KeyEvents, TLAPS

\* Whoever is between queueing up and its end is in the queue, or has been woken from it.
Waits ==
  /\ \A p \in Procs : pc[p] \in {"recheck", "sleep"} => p \in queue \cup woken
  /\ \A p \in Procs : pc[p] \in Polling => p \in queue /\ p \in Selectors

\* An unread event is newer than all that was returned; so is an event in a buffer.
Fresher ==
  \A p \in Procs :
    /\ got[p] <= serial
    /\ status # Keep => got[p] < serial
    /\ pc[p] = "reset" /\ buf[p].num # 0 => buf[p].num > got[p] /\ buf[p].num <= serial

\* Only asyncnotiApp is between open and fcntl.
Typed == TypeOK /\ \A p \in Procs : pc[p] = "opened" => p \in Listeners

IInv == Typed /\ NoDanglingEntry /\ Waits /\ NoLostWakeup /\ NoLostSignal /\ Fresher

(* What the timer function stores is one of the three. *)
LEMMA ClassifyIsStatus ==
  ASSUME NEW cur, NEW last
  PROVE  Classify(cur, last) \in Status
  BY DEF Classify, Status, Press, Release, Keep

(* The three are different. *)
LEMMA StatusKinds == Keep \notin Event /\ Status = Event \cup {Keep}
  BY DEF Event, Status, Press, Release, Keep

(* Every variable keeps its type. *)
LEMMA NextTyped == Typed /\ [Next]_vars => Typed'
  <1> SUFFICES ASSUME Typed, [Next]_vars PROVE Typed'
    OBVIOUS
  <1> USE MaxEdgesAssumption, SignalledAssumption, ClassifyIsStatus, StatusKinds DEF
      Typed, TypeOK, LineTypeOK, PC, Reading, Polling, Nothing, Running, Blockers,
      Selectors, Listeners, procVars, lineVars, debounceVars, Goto
  <1>1. CASE Line
    <2>1. CASE Edge
      BY <1>1, <2>1 DEF Line, Edge, others
    <2>2. CASE Interrupt
      BY <1>1, <2>2 DEF Line, Interrupt, others
    <2>3. CASE Expire("sample")
      BY <1>1, <2>3 DEF Line, Expire, others
    <2>4. CASE Sample("sample", "publish")
      BY <1>1, <2>4 DEF Line, Sample, others
    <2> QED
      BY <1>1, <2>1, <2>2, <2>3, <2>4 DEF Line
  <1>2. CASE TimerPublish
    BY <1>2 DEF TimerPublish
  <1>3. CASE TimerWake
    BY <1>3 DEF TimerWake
  <1>4. CASE TimerNotify
    BY <1>4 DEF TimerNotify
  <1>5. ASSUME NEW p \in Procs, Open(p) PROVE Typed'
    BY <1>5 DEF Open
  <1>6. ASSUME NEW p \in Procs, Subscribe(p) PROVE Typed'
    BY <1>6 DEF Subscribe
  <1>7. ASSUME NEW p \in Procs, Close(p) PROVE Typed'
    BY <1>7 DEF Close
  <1>8. ASSUME NEW p \in Procs, Signal(p) PROVE Typed'
    BY <1>8 DEF Signal
  <1>9. ASSUME NEW p \in Procs, ReadCall(p) PROVE Typed'
    BY <1>9 DEF ReadCall
  <1>10. ASSUME NEW p \in Procs, ReadCheck(p) PROVE Typed'
    BY <1>10 DEF ReadCheck, ReadReturn
  <1>11. ASSUME NEW p \in Procs, ReadEnqueue(p) PROVE Typed'
    BY <1>11 DEF ReadEnqueue
  <1>12. ASSUME NEW p \in Procs, ReadRecheck(p) PROVE Typed'
    BY <1>12 DEF ReadRecheck, ReadReturn
  <1>13. ASSUME NEW p \in Procs, ReadWake(p) PROVE Typed'
    BY <1>13 DEF ReadWake
  <1>14. ASSUME NEW p \in Procs, ReadCopy(p) PROVE Typed'
    BY <1>14 DEF ReadCopy
  <1>15. ASSUME NEW p \in Procs, ReadReset(p) PROVE Typed'
    BY <1>15 DEF ReadReset, ReadReturn
  <1>16. ASSUME NEW p \in Procs, PollWait(p) PROVE Typed'
    BY <1>16 DEF PollWait
  <1>17. ASSUME NEW p \in Procs, PollCheck(p) PROVE Typed'
    BY <1>17 DEF PollCheck
  <1>18. ASSUME NEW p \in Procs, PollWake(p) PROVE Typed'
    BY <1>18 DEF PollWake
  <1>19. CASE UNCHANGED vars
    BY <1>19 DEF vars
  <1> QED
    BY <1>1, <1>2, <1>3, <1>4, <1>5, <1>6, <1>7, <1>8, <1>9, <1>10, <1>11, <1>12, <1>13,
       <1>14, <1>15, <1>16, <1>17, <1>18, <1>19
    DEF Next, TimerStep, ReadStep, PollStep

\* What the lemmas below need of the types.
Types ==
  /\ pc \in [Procs -> PC]
  /\ queue \subseteq Procs /\ async \subseteq Procs
  /\ status \in Status
  /\ serial \in Nat
  /\ since \in [Procs -> Nat]
  /\ got \in [Procs -> Nat]
  /\ buf \in [Procs -> [val : Status \cup {Fault}, num : Nat]]

(* They are some of the types. *)
LEMMA TypesHold == Typed => Types
  BY DEF Typed, TypeOK, Types, Listeners, Running

(* An entry comes with the wait and goes with it. *)
LEMMA NextEntries == Types /\ NoDanglingEntry /\ [Next]_vars => NoDanglingEntry'
  <1> SUFFICES ASSUME Types, NoDanglingEntry, [Next]_vars PROVE NoDanglingEntry'
    OBVIOUS
  <1> USE  DEF Types, NoDanglingEntry, PC, Reading, Polling, procVars, lineVars,
      debounceVars, Goto
  <1>1. CASE Line
    BY <1>1 DEF Line, Edge, Interrupt, Expire, Sample, others, debounceVars
  <1>2. CASE TimerPublish
    BY <1>2 DEF TimerPublish
  <1>3. CASE TimerWake
    BY <1>3 DEF TimerWake
  <1>4. CASE TimerNotify
    BY <1>4 DEF TimerNotify
  <1>5. ASSUME NEW p \in Procs, Open(p) PROVE NoDanglingEntry'
    BY <1>5 DEF Open
  <1>6. ASSUME NEW p \in Procs, Subscribe(p) PROVE NoDanglingEntry'
    BY <1>6 DEF Subscribe
  <1>7. ASSUME NEW p \in Procs, Close(p) PROVE NoDanglingEntry'
    BY <1>7 DEF Close
  <1>8. ASSUME NEW p \in Procs, Signal(p) PROVE NoDanglingEntry'
    BY <1>8 DEF Signal
  <1>9. ASSUME NEW p \in Procs, ReadCall(p) PROVE NoDanglingEntry'
    BY <1>9 DEF ReadCall
  <1>10. ASSUME NEW p \in Procs, ReadCheck(p) PROVE NoDanglingEntry'
    BY <1>10 DEF ReadCheck, ReadReturn
  <1>11. ASSUME NEW p \in Procs, ReadEnqueue(p) PROVE NoDanglingEntry'
    BY <1>11 DEF ReadEnqueue
  <1>12. ASSUME NEW p \in Procs, ReadRecheck(p) PROVE NoDanglingEntry'
    BY <1>12 DEF ReadRecheck, ReadReturn
  <1>13. ASSUME NEW p \in Procs, ReadWake(p) PROVE NoDanglingEntry'
    BY <1>13 DEF ReadWake
  <1>14. ASSUME NEW p \in Procs, ReadCopy(p) PROVE NoDanglingEntry'
    BY <1>14 DEF ReadCopy
  <1>15. ASSUME NEW p \in Procs, ReadReset(p) PROVE NoDanglingEntry'
    BY <1>15 DEF ReadReset, ReadReturn
  <1>16. ASSUME NEW p \in Procs, PollWait(p) PROVE NoDanglingEntry'
    BY <1>16 DEF PollWait
  <1>17. ASSUME NEW p \in Procs, PollCheck(p) PROVE NoDanglingEntry'
    BY <1>17 DEF PollCheck
  <1>18. ASSUME NEW p \in Procs, PollWake(p) PROVE NoDanglingEntry'
    BY <1>18 DEF PollWake
  <1>19. CASE UNCHANGED vars
    BY <1>19 DEF vars
  <1> QED
    BY <1>1, <1>2, <1>3, <1>4, <1>5, <1>6, <1>7, <1>8, <1>9, <1>10, <1>11, <1>12, <1>13,
       <1>14, <1>15, <1>16, <1>17, <1>18, <1>19
    DEF Next, TimerStep, ReadStep, PollStep

(* Whoever waits stays in the queue until it is woken. *)
LEMMA NextWaits == Types /\ Waits /\ [Next]_vars => Waits'
  <1> SUFFICES ASSUME Types, Waits, [Next]_vars PROVE Waits'
    OBVIOUS
  <1> USE  DEF Types, Waits, PC, Polling, Running, Blockers, Selectors, Listeners,
      procVars, lineVars, debounceVars, Goto
  <1>1. CASE Line
    BY <1>1 DEF Line, Edge, Interrupt, Expire, Sample, others, debounceVars
  <1>2. CASE TimerPublish
    BY <1>2 DEF TimerPublish
  <1>3. CASE TimerWake
    BY <1>3 DEF TimerWake
  <1>4. CASE TimerNotify
    BY <1>4 DEF TimerNotify
  <1>5. ASSUME NEW p \in Procs, Open(p) PROVE Waits'
    BY <1>5 DEF Open
  <1>6. ASSUME NEW p \in Procs, Subscribe(p) PROVE Waits'
    BY <1>6 DEF Subscribe
  <1>7. ASSUME NEW p \in Procs, Close(p) PROVE Waits'
    BY <1>7 DEF Close
  <1>8. ASSUME NEW p \in Procs, Signal(p) PROVE Waits'
    BY <1>8 DEF Signal
  <1>9. ASSUME NEW p \in Procs, ReadCall(p) PROVE Waits'
    BY <1>9 DEF ReadCall
  <1>10. ASSUME NEW p \in Procs, ReadCheck(p) PROVE Waits'
    BY <1>10 DEF ReadCheck, ReadReturn
  <1>11. ASSUME NEW p \in Procs, ReadEnqueue(p) PROVE Waits'
    BY <1>11 DEF ReadEnqueue
  <1>12. ASSUME NEW p \in Procs, ReadRecheck(p) PROVE Waits'
    BY <1>12 DEF ReadRecheck, ReadReturn
  <1>13. ASSUME NEW p \in Procs, ReadWake(p) PROVE Waits'
    BY <1>13 DEF ReadWake
  <1>14. ASSUME NEW p \in Procs, ReadCopy(p) PROVE Waits'
    BY <1>14 DEF ReadCopy
  <1>15. ASSUME NEW p \in Procs, ReadReset(p) PROVE Waits'
    BY <1>15 DEF ReadReset, ReadReturn
  <1>16. ASSUME NEW p \in Procs, PollWait(p) PROVE Waits'
    BY <1>16 DEF PollWait
  <1>17. ASSUME NEW p \in Procs, PollCheck(p) PROVE Waits'
    BY <1>17 DEF PollCheck
  <1>18. ASSUME NEW p \in Procs, PollWake(p) PROVE Waits'
    BY <1>18 DEF PollWake
  <1>19. CASE UNCHANGED vars
    BY <1>19 DEF vars
  <1> QED
    BY <1>1, <1>2, <1>3, <1>4, <1>5, <1>6, <1>7, <1>8, <1>9, <1>10, <1>11, <1>12, <1>13,
       <1>14, <1>15, <1>16, <1>17, <1>18, <1>19
    DEF Next, TimerStep, ReadStep, PollStep

(* Whoever goes to sleep has seen no event since it queued up. *)
LEMMA NextWakeup == Types /\ Waits /\ NoLostWakeup /\ [Next]_vars => NoLostWakeup'
  <1> SUFFICES ASSUME Types, Waits, NoLostWakeup, [Next]_vars PROVE NoLostWakeup'
    OBVIOUS
  <1> USE ClassifyIsStatus, StatusKinds DEF Types, Waits, NoLostWakeup, PC, Polling,
      procVars, lineVars, debounceVars, Goto
  <1>1. CASE Line
    BY <1>1 DEF Line, Edge, Interrupt, Expire, Sample, others, debounceVars
  <1>2. CASE TimerPublish
    BY <1>2 DEF TimerPublish
  <1>3. CASE TimerWake
    BY <1>3 DEF TimerWake
  <1>4. CASE TimerNotify
    BY <1>4 DEF TimerNotify
  <1>5. ASSUME NEW p \in Procs, Open(p) PROVE NoLostWakeup'
    BY <1>5 DEF Open
  <1>6. ASSUME NEW p \in Procs, Subscribe(p) PROVE NoLostWakeup'
    BY <1>6 DEF Subscribe
  <1>7. ASSUME NEW p \in Procs, Close(p) PROVE NoLostWakeup'
    BY <1>7 DEF Close
  <1>8. ASSUME NEW p \in Procs, Signal(p) PROVE NoLostWakeup'
    BY <1>8 DEF Signal
  <1>9. ASSUME NEW p \in Procs, ReadCall(p) PROVE NoLostWakeup'
    BY <1>9 DEF ReadCall
  <1>10. ASSUME NEW p \in Procs, ReadCheck(p) PROVE NoLostWakeup'
    BY <1>10 DEF ReadCheck, ReadReturn
  <1>11. ASSUME NEW p \in Procs, ReadEnqueue(p) PROVE NoLostWakeup'
    BY <1>11 DEF ReadEnqueue
  <1>12. ASSUME NEW p \in Procs, ReadRecheck(p) PROVE NoLostWakeup'
    BY <1>12 DEF ReadRecheck, ReadReturn
  <1>13. ASSUME NEW p \in Procs, ReadWake(p) PROVE NoLostWakeup'
    BY <1>13 DEF ReadWake
  <1>14. ASSUME NEW p \in Procs, ReadCopy(p) PROVE NoLostWakeup'
    BY <1>14 DEF ReadCopy
  <1>15. ASSUME NEW p \in Procs, ReadReset(p) PROVE NoLostWakeup'
    BY <1>15 DEF ReadReset, ReadReturn
  <1>16. ASSUME NEW p \in Procs, PollWait(p) PROVE NoLostWakeup'
    BY <1>16 DEF PollWait
  <1>17. ASSUME NEW p \in Procs, PollCheck(p) PROVE NoLostWakeup'
    BY <1>17 DEF PollCheck
  <1>18. ASSUME NEW p \in Procs, PollWake(p) PROVE NoLostWakeup'
    BY <1>18 DEF PollWake
  <1>19. CASE UNCHANGED vars
    BY <1>19 DEF vars
  <1> QED
    BY <1>1, <1>2, <1>3, <1>4, <1>5, <1>6, <1>7, <1>8, <1>9, <1>10, <1>11, <1>12, <1>13,
       <1>14, <1>15, <1>16, <1>17, <1>18, <1>19
    DEF Next, TimerStep, ReadStep, PollStep

(* Whoever leaves its handler has seen no event, or has reset it. *)
LEMMA NextSignal == Types /\ NoDanglingEntry /\ NoLostSignal /\ [Next]_vars => NoLostSignal'
  <1> SUFFICES ASSUME Types, NoDanglingEntry, NoLostSignal, [Next]_vars PROVE NoLostSignal'
    OBVIOUS
  <1> USE ClassifyIsStatus, StatusKinds DEF Types, NoDanglingEntry, NoLostSignal, PC,
      Reading, Polling, procVars, lineVars, debounceVars, Goto
  <1>1. CASE Line
    BY <1>1 DEF Line, Edge, Interrupt, Expire, Sample, others, debounceVars
  <1>2. CASE TimerPublish
    BY <1>2 DEF TimerPublish
  <1>3. CASE TimerWake
    BY <1>3 DEF TimerWake
  <1>4. CASE TimerNotify
    BY <1>4 DEF TimerNotify
  <1>5. ASSUME NEW p \in Procs, Open(p) PROVE NoLostSignal'
    BY <1>5 DEF Open
  <1>6. ASSUME NEW p \in Procs, Subscribe(p) PROVE NoLostSignal'
    BY <1>6 DEF Subscribe
  <1>7. ASSUME NEW p \in Procs, Close(p) PROVE NoLostSignal'
    BY <1>7 DEF Close
  <1>8. ASSUME NEW p \in Procs, Signal(p) PROVE NoLostSignal'
    BY <1>8 DEF Signal
  <1>9. ASSUME NEW p \in Procs, ReadCall(p) PROVE NoLostSignal'
    BY <1>9 DEF ReadCall
  <1>10. ASSUME NEW p \in Procs, ReadCheck(p) PROVE NoLostSignal'
    BY <1>10 DEF ReadCheck, ReadReturn
  <1>11. ASSUME NEW p \in Procs, ReadEnqueue(p) PROVE NoLostSignal'
    BY <1>11 DEF ReadEnqueue
  <1>12. ASSUME NEW p \in Procs, ReadRecheck(p) PROVE NoLostSignal'
    BY <1>12 DEF ReadRecheck, ReadReturn
  <1>13. ASSUME NEW p \in Procs, ReadWake(p) PROVE NoLostSignal'
    BY <1>13 DEF ReadWake
  <1>14. ASSUME NEW p \in Procs, ReadCopy(p) PROVE NoLostSignal'
    BY <1>14 DEF ReadCopy
  <1>15. ASSUME NEW p \in Procs, ReadReset(p) PROVE NoLostSignal'
    BY <1>15 DEF ReadReset, ReadReturn
  <1>16. ASSUME NEW p \in Procs, PollWait(p) PROVE NoLostSignal'
    BY <1>16 DEF PollWait
  <1>17. ASSUME NEW p \in Procs, PollCheck(p) PROVE NoLostSignal'
    BY <1>17 DEF PollCheck
  <1>18. ASSUME NEW p \in Procs, PollWake(p) PROVE NoLostSignal'
    BY <1>18 DEF PollWake
  <1>19. CASE UNCHANGED vars
    BY <1>19 DEF vars
  <1> QED
    BY <1>1, <1>2, <1>3, <1>4, <1>5, <1>6, <1>7, <1>8, <1>9, <1>10, <1>11, <1>12, <1>13,
       <1>14, <1>15, <1>16, <1>17, <1>18, <1>19
    DEF Next, TimerStep, ReadStep, PollStep

(* An event is numbered once, and its reset removes it. *)
LEMMA NextFresher == Types /\ Fresher /\ [Next]_vars => Fresher'
  <1> SUFFICES ASSUME Types, Fresher, [Next]_vars PROVE Fresher'
    OBVIOUS
  <1> USE ClassifyIsStatus, StatusKinds DEF Types, Fresher, PC, procVars, lineVars,
      debounceVars, Goto
  <1>1. CASE Line
    BY <1>1 DEF Line, Edge, Interrupt, Expire, Sample, others, debounceVars
  <1>2. CASE TimerPublish
    BY <1>2 DEF TimerPublish
  <1>3. CASE TimerWake
    BY <1>3 DEF TimerWake
  <1>4. CASE TimerNotify
    BY <1>4 DEF TimerNotify
  <1>5. ASSUME NEW p \in Procs, Open(p) PROVE Fresher'
    BY <1>5 DEF Open
  <1>6. ASSUME NEW p \in Procs, Subscribe(p) PROVE Fresher'
    BY <1>6 DEF Subscribe
  <1>7. ASSUME NEW p \in Procs, Close(p) PROVE Fresher'
    BY <1>7 DEF Close
  <1>8. ASSUME NEW p \in Procs, Signal(p) PROVE Fresher'
    BY <1>8 DEF Signal
  <1>9. ASSUME NEW p \in Procs, ReadCall(p) PROVE Fresher'
    BY <1>9 DEF ReadCall
  <1>10. ASSUME NEW p \in Procs, ReadCheck(p) PROVE Fresher'
    BY <1>10 DEF ReadCheck, ReadReturn
  <1>11. ASSUME NEW p \in Procs, ReadEnqueue(p) PROVE Fresher'
    BY <1>11 DEF ReadEnqueue
  <1>12. ASSUME NEW p \in Procs, ReadRecheck(p) PROVE Fresher'
    BY <1>12 DEF ReadRecheck, ReadReturn
  <1>13. ASSUME NEW p \in Procs, ReadWake(p) PROVE Fresher'
    BY <1>13 DEF ReadWake
  <1>14. ASSUME NEW p \in Procs, ReadCopy(p) PROVE Fresher'
    BY <1>14 DEF ReadCopy
  <1>15. ASSUME NEW p \in Procs, ReadReset(p) PROVE Fresher'
    BY <1>15 DEF ReadReset, ReadReturn
  <1>16. ASSUME NEW p \in Procs, PollWait(p) PROVE Fresher'
    BY <1>16 DEF PollWait
  <1>17. ASSUME NEW p \in Procs, PollCheck(p) PROVE Fresher'
    BY <1>17 DEF PollCheck
  <1>18. ASSUME NEW p \in Procs, PollWake(p) PROVE Fresher'
    BY <1>18 DEF PollWake
  <1>19. CASE UNCHANGED vars
    BY <1>19 DEF vars
  <1> QED
    BY <1>1, <1>2, <1>3, <1>4, <1>5, <1>6, <1>7, <1>8, <1>9, <1>10, <1>11, <1>12, <1>13,
       <1>14, <1>15, <1>16, <1>17, <1>18, <1>19
    DEF Next, TimerStep, ReadStep, PollStep

(* The invariant holds when the driver has just been loaded. *)
LEMMA InitIInv == Init => IInv
  <1> SUFFICES ASSUME Init PROVE IInv
    OBVIOUS
  <1> USE MaxEdgesAssumption DEF Init, LineInit
  <1>1. LineTypeOK
    <2>1. irq \in BOOLEAN /\ timer \in BOOLEAN
      BY Zenon
    <2>2. edges \in 0 .. MaxEdges /\ level \in {0, 1} /\ current_val = 1 /\ last_val = 1
      OBVIOUS
    <2> QED
      BY <2>1, <2>2 DEF LineTypeOK
  <1>2. Typed
    <2>1. /\ pc \in [Procs -> PC]
          /\ buf \in [Procs -> [val : Status \cup {Fault}, num : Nat]]
      BY DEF PC, Nothing, Status
    <2>2. nonblock \in [Procs -> BOOLEAN]
      BY Zenon
    <2>3. status \in Status /\ serial \in Nat /\ since \in [Procs -> Nat] /\ got \in [Procs -> Nat]
      BY DEF Status
    <2> QED
      BY <1>1, <2>1, <2>2, <2>3 DEF Typed, TypeOK, PC
  <1>3. NoDanglingEntry /\ Waits /\ NoLostWakeup /\ NoLostSignal
    BY DEF NoDanglingEntry, Waits, NoLostWakeup, NoLostSignal, Polling
  <1>4. Fresher
    BY DEF Fresher
  <1> QED
    BY <1>2, <1>3, <1>4 DEF IInv

(* Every step keeps it. *)
LEMMA NextIInv == IInv /\ [Next]_vars => IInv'
  BY TypesHold, NextTyped, NextEntries, NextWaits, NextWakeup, NextSignal, NextFresher DEF IInv

(* It is an invariant of the drivers. *)
THEOREM Invariant == Spec => []IInv
  BY InitIInv, NextIInv, PTL DEF Spec

(* Every variable of the three drivers keeps its type. *)
THEOREM Typing == Spec => []TypeOK
  BY Invariant, PTL DEF IInv, Typed

(* Nobody sleeps through an event (blockio.c:187, noblockio.c:171, :198).  *)
THEOREM Wakeups == Spec => []NoLostWakeup
  BY Invariant, PTL DEF IInv

(* A subscriber's last signal stands (asyncnoti.c:164, :171).              *)
THEOREM Signals == Spec => []NoLostSignal
  BY Invariant, PTL DEF IInv

(* No entry outlasts the wait or the file (asyncnoti.c:258).               *)
THEOREM Entries == Spec => []NoDanglingEntry
  BY Invariant, PTL DEF IInv

(* Each process gets the events in their order, and none twice             *)
(* (blockio.c:192-195).                                                    *)
THEOREM Ordering == Spec => EventsInOrder
  <1>1. IInv /\ [Next]_vars =>
          [\A p \in Procs :
             pc[p] = "reset" /\ pc'[p] = "user" /\ buf[p].num # 0 => buf[p].num > got[p]]_vars
    BY DEF IInv, Fresher
  <1> QED
    BY <1>1, Invariant, PTL DEF Spec, EventsInOrder

-----------------------------------------------------------------------------
\* With no interrupt and no timer ahead, what the timer function carries is the present level.
InFlight ==
  edges > 0 /\ ~irq /\ ~timer =>
    /\ tpc = "publish" => current_val = level
    /\ tpc \in {"idle", "wake", "notify"} => last_val = level

(* The processes do not touch what the key and the timer share. *)
LEMMA LineSteps ==
  [Next]_vars => \/ Line \/ TimerStep
                 \/ UNCHANGED <<lineVars, debounceVars>>
  BY DEF Next, vars, procVars, Open, Subscribe, Close, Signal, ReadCall, ReadStep, ReadCheck,
         ReadEnqueue, ReadRecheck, ReadWake, ReadCopy, ReadReset, PollWait, PollStep, PollCheck,
         PollWake

(* The line, the timer and its function keep them in step. *)
LEMMA NextInFlight == Typed /\ InFlight /\ [Next]_vars => InFlight'
  <1> SUFFICES ASSUME Typed, InFlight, [Next]_vars PROVE InFlight'
    OBVIOUS
  <1> USE DEF InFlight, lineVars, debounceVars
  <1>1. CASE Line
    BY <1>1 DEF Line, Edge, Interrupt, Expire, Sample, Typed, TypeOK
  <1>2. CASE TimerStep
    BY <1>2 DEF TimerStep, TimerPublish, TimerWake, TimerNotify
  <1>3. CASE UNCHANGED <<lineVars, debounceVars>>
    BY <1>3
  <1> QED
    BY <1>1, <1>2, <1>3, LineSteps

(* Once the line has been touched and everything in flight has settled,    *)
(* the debounced value is the real level of the key, also where no lock    *)
(* protects it: every edge after the sample brings another timer           *)
(* (blockio.c:51, :146).                                                   *)
THEOREM Debouncing == Spec => []Settled
<1>1. Init => InFlight
  BY DEF Init, LineInit, InFlight
<1>2. InFlight => Settled
  BY DEF InFlight, Settled
<1>3. IInv => Typed
  BY DEF IInv
<1>4. QED
  BY <1>1, <1>2, <1>3, Invariant, NextInFlight, PTL DEF Spec

-----------------------------------------------------------------------------
\* The first event is a press, and presses and releases alternate.
Kind(n) == IF n % 2 = 1 THEN Press ELSE Release

\* An event in status or in a buffer is what its number says.
Told ==
  /\ last_val = IF serial % 2 = 1 THEN 0 ELSE 1
  /\ status # Keep => status = Kind(serial)
  /\ \A p \in Procs : buf[p].num # 0 => buf[p].val = Kind(buf[p].num)

(* Events alternate. *)
LEMMA Alternates ==
  ASSUME NEW n \in Nat
  PROVE  (n + 1) % 2 = 1 <=> n % 2 # 1
  OBVIOUS

(* The timer function posts a press and a release in turn. *)
LEMMA PublishTold == Typed /\ Told /\ TimerPublish => Told'
  <1> SUFFICES ASSUME Typed, Told, TimerPublish PROVE Told'
    OBVIOUS
  <1>1. /\ serial \in Nat /\ current_val \in {0, 1} /\ last_val \in {0, 1}
        /\ last_val = IF serial % 2 = 1 THEN 0 ELSE 1
    BY DEF Typed, TypeOK, LineTypeOK, Told
  <1>2. /\ status' = Classify(current_val, last_val)
        /\ serial' = IF status' \in Event THEN serial + 1 ELSE serial
        /\ last_val' = current_val /\ buf' = buf
    BY DEF TimerPublish, procVars
  <1>3. CASE current_val = last_val
    <2>1. status' = Keep /\ Keep \notin Event
      BY <1>1, <1>2, <1>3 DEF Classify, Keep, Event, Press, Release
    <2>2. serial' = serial
      BY <1>2, <2>1
    <2>3. QED
      BY <1>1, <1>2, <1>3, <2>1, <2>2 DEF Told
  <1>4. CASE current_val = 0 /\ last_val = 1
    <2>1. status' = Press /\ Press \in Event
      BY <1>2, <1>4 DEF Classify, Event
    <2>2. serial' = serial + 1 /\ serial' % 2 = 1
      BY <1>1, <1>2, <1>4, <2>1, Alternates
    <2>3. QED
      BY <1>2, <1>4, <2>1, <2>2 DEF Told, Kind
  <1>5. CASE current_val = 1 /\ last_val = 0
    <2>1. status' = Release /\ Release \in Event
      BY <1>2, <1>5 DEF Classify, Event
    <2>2. serial' = serial + 1 /\ serial' % 2 # 1
      BY <1>1, <1>2, <1>5, <2>1, Alternates
    <2>3. QED
      BY <1>2, <1>5, <2>1, <2>2 DEF Told, Kind
  <1> QED
    BY <1>1, <1>3, <1>4, <1>5

(* What a read copies is the event in status, and the buffer keeps it. *)
LEMMA NextTold == Typed /\ Told /\ [Next]_vars => Told'
  <1> SUFFICES ASSUME Typed, Told, [Next]_vars PROVE Told'
    OBVIOUS
  <1>0. /\ buf \in [Procs -> [val : Status \cup {Fault}, num : Nat]]
        /\ Nothing.num = 0
    BY DEF Typed, TypeOK, Nothing
  <1>1. CASE UNCHANGED <<last_val, serial, buf>> /\ status' \in {status, Keep}
    BY <1>1 DEF Told
  <1>2. CASE Line
    BY <1>1, <1>2 DEF Line, Edge, Interrupt, Expire, Sample, debounceVars, others, procVars
  <1>3. CASE TimerStep
    BY <1>1, <1>3, PublishTold DEF TimerStep, TimerWake, TimerNotify, procVars
  <1>4. ASSUME NEW p \in Procs, ReadCopy(p) PROVE Told'
    <2>1. /\ UNCHANGED <<last_val, serial, status>>
          /\ \E b : /\ b.num # 0 => b.num = serial /\ b.val = status /\ status # Keep
                    /\ buf' = [buf EXCEPT ![p] = b]
      BY <1>4 DEF ReadCopy, debounceVars
    <2>2. QED
      BY <1>0, <2>1 DEF Told
  <1>5. ASSUME NEW p \in Procs, ReadReset(p) PROVE Told'
    BY <1>0, <1>5 DEF ReadReset, ReadReturn, Told, debounceVars
  <1>6. ASSUME NEW p \in Procs,
               \/ Open(p) \/ Subscribe(p) \/ Close(p) \/ Signal(p) \/ ReadCall(p) \/ ReadCheck(p)
               \/ ReadEnqueue(p) \/ ReadRecheck(p) \/ ReadWake(p)
               \/ PollWait(p) \/ PollStep(p)
        PROVE  Told'
    BY <1>1, <1>6 DEF Open, Subscribe, Close, Signal, ReadCall, ReadCheck, ReadEnqueue,
       ReadRecheck, ReadWake, PollWait, PollStep, PollCheck, PollWake, debounceVars
  <1>7. CASE UNCHANGED vars
    BY <1>1, <1>7 DEF vars, debounceVars, procVars
  <1> QED
    BY <1>2, <1>3, <1>4, <1>5, <1>6, <1>7 DEF Next, ReadStep

(* What a process is given is what happened: the events alternate, a press *)
(* first, and a read returns the n-th event as the press or release it     *)
(* was, although the number is not what the driver keeps, several          *)
(* processes read, and each resets the one status (blockio.c:192-195).     *)
THEOREM Truthful ==
  Spec => [][\A p \in Procs : got'[p] # got[p] =>
               buf[p].val = IF got'[p] % 2 = 1 THEN Press ELSE Release]_vars
<1>1. Init => Told
  <2>1. 0 % 2 = 0
    OBVIOUS
  <2>2. QED
    BY <2>1 DEF Init, LineInit, Told, Nothing, Keep
<1>2. IInv => Typed
  BY DEF IInv
<1>3. Typed /\ Told /\ [Next]_vars =>
        [\A p \in Procs : got'[p] # got[p] =>
           buf[p].val = IF got'[p] % 2 = 1 THEN Press ELSE Release]_vars
  <2> SUFFICES ASSUME Typed, Told, [Next]_vars, NEW p \in Procs, got'[p] # got[p]
               PROVE  buf[p].val = Kind(got'[p])
    BY DEF Kind
  <2>1. \E q \in Procs : ReadReset(q)
    BY DEF Next, vars, procVars, Line, Edge, Interrupt, Expire, Sample, others, TimerStep,
       TimerPublish, TimerWake, TimerNotify, Open, Subscribe, Close, Signal, ReadCall, ReadStep,
       ReadCheck, ReadEnqueue, ReadRecheck, ReadWake, ReadCopy, PollWait, PollStep, PollCheck,
       PollWake
  <2>2. PICK q \in Procs : ReadReset(q)
    BY <2>1
  <2>3. got' = [got EXCEPT ![q] = IF buf[q].num = 0 THEN got[q] ELSE buf[q].num]
        /\ got \in [Procs -> Nat]
    BY <2>2 DEF ReadReset, Typed, TypeOK
  <2>4. p = q /\ buf[p].num # 0 /\ got'[p] = buf[p].num
    BY <2>3
  <2>5. QED
    BY <2>4 DEF Told
<1>4. QED
  BY <1>1, <1>2, <1>3, Invariant, NextTold, PTL DEF Spec
=============================================================================
