----------------------------- MODULE KeyEvents -----------------------------
(***************************************************************************)
(* The key drivers 14_blockio, 15_noblockio and 16_asyncnoti at run time,  *)
(* with the applications that come with them: blockioApp reads in a loop   *)
(* and sleeps in key_read, noblockioApp waits in select and reads without  *)
(* blocking, asyncnotiApp reads in its SIGIO handler.  The drivers differ  *)
(* in the operations they have, not in what these do: 14 is the case with  *)
(* Blockers only, 15 adds Selectors, 16 adds Listeners.  The wait queue,   *)
(* signals and fasync are the kernel's, modelled as the drivers use them.  *)
(* Nothing but the atomicity of status protects the shared state.          *)
(***************************************************************************)
EXTENDS KeyLine, Integers

CONSTANTS
  Procs,        \* processes that use the key
  Signalled     \* bound: those that a signal other than SIGIO may reach

ASSUME SignalledAssumption == Signalled \subseteq Procs

VARIABLES
  app,      \* the application that each process runs
  status,   \* key.status
  serial,   \* ghost: number of the latest press or release stored in status
  pc,       \* where each process stands
  nonblock, \* O_NONBLOCK in the f_flags of each process' file
  queue,    \* key.r_wait: the processes with an entry in it
  woken,    \* the processes whose entry was woken since they prepared to sleep
  async,    \* key.async_queue: the processes with an entry in it
  since,    \* ghost: serial when the process joined async
  sigio,    \* SIGIO is pending
  sig,      \* another signal is pending
  buf,      \* what copy_to_user copied in this read: status and event number
  got       \* ghost: number of the last event returned to the process

procVars == <<pc, nonblock, queue, async, since, sig, buf, got>>
vars == <<app, lineVars, debounceVars, status, serial, woken, sigio, procVars>>

Nothing == [val |-> Keep, num |-> 0]
Fault   == "FAULT"

Apps == {"blockioApp", "noblockioApp", "asyncnotiApp"}
Running(a) == {p \in Procs : app[p] = a}
Blockers  == Running("blockioApp")
Selectors == Running("noblockioApp")
Listeners == Running("asyncnotiApp")

Reading == {"check", "enqueue", "recheck", "interrupted", "sleep", "copy", "reset"}
Polling == {"pollcheck", "pollsleep"}
PC == {"closed", "opened", "user", "ready"} \cup Reading \cup Polling

Init ==
  /\ LineInit
  /\ app \in [Procs -> Apps]
  /\ status = Keep
  /\ serial = 0
  /\ pc = [p \in Procs |-> "closed"]
  /\ nonblock = [p \in Procs |-> FALSE]
  /\ queue = {}
  /\ woken = {}
  /\ async = {}
  /\ since = [p \in Procs |-> 0]
  /\ sigio = {}
  /\ sig = {}
  /\ buf = [p \in Procs |-> Nothing]
  /\ got = [p \in Procs |-> 0]

TypeOK ==
  /\ LineTypeOK
  /\ app \in [Procs -> Apps]
  /\ tpc \in {"idle", "sample", "publish", "wake", "notify"}
  /\ status \in Status
  /\ serial \in Nat
  /\ pc \in [Procs -> PC]
  /\ nonblock \in [Procs -> BOOLEAN]
  /\ queue \subseteq Procs
  /\ woken \subseteq Procs
  /\ async \subseteq Listeners
  /\ since \in [Procs -> Nat]
  /\ sigio \subseteq Listeners
  /\ sig \subseteq Procs
  /\ buf \in [Procs -> [val : Status \cup {Fault}, num : Nat]]
  /\ got \in [Procs -> Nat]

Goto(p, l) == pc' = [pc EXCEPT ![p] = l]

(***************************************************************************)
(* key_timer_function                                                      *)
(***************************************************************************)
\* A function that wakes the queue before it stores the status.
PublishAfterWake ==
  /\ tpc = "publish"
  /\ status' = Classify(current_val, last_val)
  /\ serial' = IF status' \in Event THEN serial + 1 ELSE serial
  /\ last_val' = current_val
  /\ tpc' = IF status' \in Event THEN "notify" ELSE "idle"
  /\ UNCHANGED <<app, lineVars, current_val, woken, sigio, procVars>>

TimerPublish ==
  /\ tpc = "publish"
  /\ status' = Classify(current_val, last_val)
  /\ serial' = IF status' \in Event THEN serial + 1 ELSE serial
  /\ last_val' = current_val
  /\ tpc' = IF status' \in Event THEN "wake" ELSE "idle"
  /\ UNCHANGED <<app, lineVars, current_val, woken, sigio, procVars>>

(* wake_up_interruptible: every waiter becomes runnable; the entries of    *)
(* wait_event remove themselves, those of poll stay.                       *)
TimerWake ==
  /\ tpc = "wake"
  /\ woken' = woken \cup queue
  /\ queue' = queue \cap Selectors
  /\ tpc' = "notify"
  /\ UNCHANGED <<app, lineVars, current_val, last_val, status, serial, sigio,
                 pc, nonblock, async, since, sig, buf, got>>

\* kill_fasync for a press only.
NotifyPressOnly ==
  /\ tpc = "notify"
  /\ sigio' = IF last_val = 0 THEN sigio \cup async ELSE sigio
  /\ tpc' = "idle"
  /\ UNCHANGED <<app, lineVars, current_val, last_val, status, serial, woken,
                 procVars>>

(* kill_fasync; 14 and 15 have no async_queue. *)
TimerNotify ==
  /\ tpc = "notify"
  /\ sigio' = sigio \cup async
  /\ tpc' = "idle"
  /\ UNCHANGED <<app, lineVars, current_val, last_val, status, serial, woken,
                 procVars>>

(***************************************************************************)
(* open, close and the signal setup of the applications                    *)
(***************************************************************************)
Open(p) ==
  /\ pc[p] = "closed"
  /\ Goto(p, IF p \in Listeners THEN "opened" ELSE "user")
  /\ nonblock' = [nonblock EXCEPT ![p] = p \notin Blockers]
  /\ UNCHANGED <<app, lineVars, debounceVars, status, serial, woken, sigio,
                 queue, async, since, sig, buf, got>>

(* asyncnotiApp: fcntl(F_SETFL, flags | FASYNC) with the flags of F_GETFD, *)
(* which never contain O_NONBLOCK; setting FASYNC calls key_fasync(on).    *)
Subscribe(p) ==
  /\ pc[p] = "opened"
  /\ Goto(p, "user")
  /\ nonblock' = [nonblock EXCEPT ![p] = FALSE]
  /\ async' = async \cup {p}
  /\ since' = [since EXCEPT ![p] = serial]
  /\ UNCHANGED <<app, lineVars, debounceVars, status, serial, woken, sigio,
                 queue, sig, buf, got>>

\* A release without key_fasync(-1, filp, 0).
ReleaseKeepsFasync(p) ==
  /\ pc[p] \in {"opened", "user", "ready"}
  /\ Goto(p, "closed")
  /\ sigio' = sigio \ {p}
  /\ sig' = sig \ {p}
  /\ UNCHANGED <<app, lineVars, debounceVars, status, serial, woken,
                 nonblock, queue, async, since, buf, got>>

(* The process exits or is killed, in user mode: close and key_release,    *)
(* which calls key_fasync(-1, filp, 0).                                    *)
Close(p) ==
  /\ pc[p] \in {"opened", "user", "ready"}
  /\ Goto(p, "closed")
  /\ async' = async \ {p}
  /\ sigio' = sigio \ {p}
  /\ sig' = sig \ {p}
  /\ UNCHANGED <<app, lineVars, debounceVars, status, serial, woken,
                 nonblock, queue, since, buf, got>>

(* Some other signal arrives during a system call. *)
Signal(p) ==
  /\ p \in Signalled
  /\ pc[p] \in Reading \cup Polling
  /\ p \notin sig
  /\ sig' = sig \cup {p}
  /\ UNCHANGED <<app, lineVars, debounceVars, status, serial, woken, sigio,
                 pc, nonblock, queue, async, since, buf, got>>

(***************************************************************************)
(* key_read                                                                *)
(***************************************************************************)
(* On the way to user mode pending signals are handled.                    *)
ReadReturn(p) ==
  /\ Goto(p, "user")
  /\ sig' = sig \ {p}

(* blockioApp reads in a loop, noblockioApp after select, asyncnotiApp in  *)
(* its SIGIO handler, during which SIGIO is masked.                        *)
ReadCall(p) ==
  /\ \/ p \in Blockers /\ pc[p] = "user" /\ UNCHANGED sigio
     \/ p \in Selectors /\ pc[p] = "ready" /\ UNCHANGED sigio
     \/ p \in sigio /\ pc[p] = "user" /\ sigio' = sigio \ {p}
  /\ Goto(p, "check")
  /\ UNCHANGED <<app, lineVars, debounceVars, status, serial, woken,
                 nonblock, queue, async, since, sig, buf, got>>

ReadCheck(p) ==
  /\ pc[p] = "check"
  /\ \/ /\ status # Keep
        /\ Goto(p, "copy")
        /\ UNCHANGED sig
     \/ /\ status = Keep
        /\ nonblock[p]
        /\ ReadReturn(p)
     \/ /\ status = Keep
        /\ ~nonblock[p]
        /\ Goto(p, "enqueue")
        /\ UNCHANGED sig
  /\ UNCHANGED <<app, lineVars, debounceVars, status, serial, woken, sigio,
                 nonblock, queue, async, since, buf, got>>

\* A wait that goes to sleep on the condition it tested before it queued.
EnqueueThenSleep(p) ==
  /\ pc[p] = "enqueue"
  /\ woken' = woken \ {p}
  /\ queue' = queue \cup {p}
  /\ Goto(p, "sleep")
  /\ UNCHANGED <<app, lineVars, debounceVars, status, serial, sigio,
                 nonblock, async, since, sig, buf, got>>

(* prepare_to_wait_event: queue up and declare oneself sleeping, unless a  *)
(* signal is pending.                                                      *)
ReadEnqueue(p) ==
  /\ pc[p] = "enqueue"
  /\ woken' = woken \ {p}
  /\ IF p \in sig
       THEN queue' = queue \ {p} /\ Goto(p, "interrupted")
       ELSE queue' = queue \cup {p} /\ Goto(p, "recheck")
  /\ UNCHANGED <<app, lineVars, debounceVars, status, serial, sigio,
                 nonblock, async, since, sig, buf, got>>

(* The condition is tested again; it takes precedence over the signal.     *)
ReadRecheck(p) ==
  /\ pc[p] \in {"recheck", "interrupted"}
  /\ \/ /\ status # Keep
        /\ queue' = queue \ {p}
        /\ Goto(p, "copy")
        /\ UNCHANGED sig
     \/ /\ status = Keep
        /\ pc[p] = "recheck"
        /\ Goto(p, "sleep")
        /\ UNCHANGED <<queue, sig>>
     \/ /\ status = Keep
        /\ pc[p] = "interrupted"
        /\ ReadReturn(p)
        /\ UNCHANGED queue
  /\ UNCHANGED <<app, lineVars, debounceVars, status, serial, woken, sigio,
                 nonblock, async, since, buf, got>>

(* schedule() returns when the entry was woken or a signal is pending.     *)
ReadWake(p) ==
  /\ pc[p] = "sleep"
  /\ p \in woken \cup sig
  /\ Goto(p, "enqueue")
  /\ UNCHANGED <<app, lineVars, debounceVars, status, serial, woken, sigio,
                 nonblock, queue, async, since, sig, buf, got>>

(* copy_to_user of what status holds now; the buffer may be bad. *)
ReadCopy(p) ==
  /\ pc[p] = "copy"
  /\ \E b \in {[val |-> status, num |-> IF status = Keep THEN 0 ELSE serial],
               [val |-> Fault, num |-> 0]} :
       buf' = [buf EXCEPT ![p] = b]
  /\ Goto(p, "reset")
  /\ UNCHANGED <<app, lineVars, debounceVars, status, serial, woken, sigio,
                 nonblock, queue, async, since, sig, got>>

\* A read that leaves the status it returned in place.
ReadNoReset(p) ==
  /\ pc[p] = "reset"
  /\ got' = [got EXCEPT ![p] = IF buf[p].num = 0 THEN @ ELSE buf[p].num]
  /\ buf' = [buf EXCEPT ![p] = Nothing]
  /\ ReadReturn(p)
  /\ UNCHANGED <<app, lineVars, debounceVars, status, serial, woken, sigio,
                 nonblock, queue, async, since>>

(* atomic_set(&key.status, KEY_KEEP); return ret, the bytes not copied.    *)
ReadReset(p) ==
  /\ pc[p] = "reset"
  /\ status' = Keep
  /\ got' = [got EXCEPT ![p] = IF buf[p].num = 0 THEN @ ELSE buf[p].num]
  /\ buf' = [buf EXCEPT ![p] = Nothing]
  /\ ReadReturn(p)
  /\ UNCHANGED <<app, lineVars, debounceVars, serial, woken, sigio,
                 nonblock, queue, async, since>>

(***************************************************************************)
(* select and key_poll                                                     *)
(***************************************************************************)
(* The first call of key_poll: poll_wait puts an entry into the queue.     *)
PollWait(p) ==
  /\ p \in Selectors
  /\ pc[p] = "user"
  /\ queue' = queue \cup {p}
  /\ woken' = woken \ {p}
  /\ Goto(p, "pollcheck")
  /\ UNCHANGED <<app, lineVars, debounceVars, status, serial, sigio,
                 nonblock, async, since, sig, buf, got>>

(* key_poll's mask; select leaves the queue when it returns, with the mask *)
(* or interrupted, and sleeps otherwise.                                   *)
PollCheck(p) ==
  /\ pc[p] = "pollcheck"
  /\ \/ /\ status # Keep
        /\ queue' = queue \ {p}
        /\ Goto(p, "ready")
        /\ sig' = sig \ {p}
     \/ /\ status = Keep
        /\ p \in sig
        /\ queue' = queue \ {p}
        /\ Goto(p, "user")
        /\ sig' = sig \ {p}
     \/ /\ status = Keep
        /\ p \notin sig
        /\ Goto(p, "pollsleep")
        /\ UNCHANGED <<queue, sig>>
  /\ UNCHANGED <<app, lineVars, debounceVars, status, serial, woken, sigio,
                 nonblock, async, since, buf, got>>

PollWake(p) ==
  /\ pc[p] = "pollsleep"
  /\ p \in woken \cup sig
  /\ woken' = woken \ {p}
  /\ Goto(p, "pollcheck")
  /\ UNCHANGED <<app, lineVars, debounceVars, status, serial, sigio,
                 nonblock, queue, async, since, sig, buf, got>>

-----------------------------------------------------------------------------
others == <<app, status, serial, woken, sigio, procVars>>

Line == (Edge \/ Interrupt \/ Expire("sample") \/ Sample("sample", "publish")) /\ UNCHANGED others
TimerStep == TimerPublish \/ TimerWake \/ TimerNotify

ReadStep(p) ==
  ReadCheck(p) \/ ReadEnqueue(p) \/ ReadRecheck(p) \/ ReadWake(p) \/ ReadCopy(p) \/ ReadReset(p)
PollStep(p) == PollCheck(p) \/ PollWake(p)

Next ==
  \/ Line
  \/ TimerStep
  \/ \E p \in Procs :
       \/ Open(p) \/ Subscribe(p) \/ Close(p) \/ Signal(p)
       \/ ReadCall(p) \/ ReadStep(p)
       \/ PollWait(p) \/ PollStep(p)

Spec == Init /\ [][Next]_vars

(***************************************************************************)
(* The timer function and a system call in progress run on; noblockioApp   *)
(* reads when select says so, and a pending SIGIO runs its handler.  Keys, *)
(* signals, opening, closing and calling read or select are free.          *)
(***************************************************************************)
Fairness ==
  /\ WF_vars((Interrupt \/ Expire("sample") \/ Sample("sample", "publish")) /\ UNCHANGED others)
  /\ WF_vars(TimerStep)
  /\ \A p \in Procs :
       /\ WF_vars(ReadStep(p))
       /\ WF_vars(PollStep(p))
       /\ WF_vars(p \notin Blockers /\ ReadCall(p))

FairSpec == Spec /\ Fairness

(***************************************************************************)
(* Properties                                                              *)
(***************************************************************************)

(* No wake-up is lost between the test of the status and the sleep         *)
(* (blockio.c:187, noblockio.c:171 and :198): while an event is unread and *)
(* the timer function is past its wake_up, nobody sleeps without having    *)
(* been woken.                                                             *)
NoLostWakeup ==
  status # Keep /\ tpc # "wake" =>
    \A p \in Procs : pc[p] \in {"sleep", "pollsleep"} => p \in woken

(* Every process that was subscribed when an event was posted has SIGIO    *)
(* pending or is in its handler as long as the event is unread             *)
(* (asyncnoti.c:164 and :171): signals merge, but the last one stands.     *)
NoLostSignal ==
  status # Keep /\ tpc \notin {"wake", "notify"} =>
    \A p \in async : serial > since[p] => p \in sigio \/ pc[p] \in Reading

(* The wait queue and the fasync list never hold an entry of a process     *)
(* that is not in the wait, or of a closed file (asyncnoti.c:258): the     *)
(* timer function would wake or signal through a dangling entry.           *)
NoDanglingEntry ==
  /\ \A p \in queue : pc[p] \in {"enqueue", "recheck", "sleep"} \cup Polling
  /\ \A p \in async : pc[p] # "closed"

(* Each process gets the events in the order in which they happened, and   *)
(* none twice, although several processes read and reset the one status    *)
(* without a lock (blockio.c:192-195).                                     *)
EventsInOrder ==
  [][\A p \in Procs :
       pc[p] = "reset" /\ pc'[p] = "user" /\ buf[p].num # 0 => buf[p].num > got[p]]_vars

\* A reader whose reset will destroy the latest event, which it has not copied.
Overwriting(q) == pc[q] = "reset" /\ buf[q].num # serial

\* The latest event, unread, that no reset of an earlier read is about to destroy.
Unread(n) == serial = n /\ status # Keep /\ \A q \in Procs : ~Overwriting(q)

\* It was returned to a process, or its copy to a buffer failed.
Delivered(n) == \E q \in Procs : got[q] = n \/ buf[q].val = Fault

\* The timer function has a later sample, and stores another event or KEY_KEEP over it.
Resampled == tpc = "publish"

(* While a read is under way, whoever else reads or is interrupted, an     *)
(* unread event is returned by some read, or lost on a bad buffer          *)
(* (blockio.c:192), unless the timer function has a later sample first.    *)
(* Nothing is said of an event that a reader which copied before it is     *)
(* about to reset over (blockio.c:195): that one nobody gets.              *)
EventIsConsumed ==
  \A p \in Procs, n \in 1 .. MaxEdges :
    Unread(n) /\ pc[p] \in Reading ~> Delivered(n) \/ Resampled

(* select returns while an event is unread. *)
SelectReturns ==
  \A p \in Procs :
    status # Keep /\ pc[p] \in Polling ~> status = Keep \/ pc[p] \notin Polling

(* An event posted after a process subscribed (asyncnoti.c:170-173) is     *)
(* returned by some read, with the same exceptions, unless the process     *)
(* closes the file: SIGIO, masked while its handler runs, is delivered     *)
(* again.                                                                  *)
EventIsFetched ==
  \A p \in Procs, n \in 1 .. MaxEdges :
    Unread(n) /\ p \in async /\ n > since[p] ~> Delivered(n) \/ Resampled \/ p \notin async

(***************************************************************************)
(* What the application says, and the code does not keep                   *)
(***************************************************************************)

(* asyncnotiApp.c:46: the file is read in non-blocking mode, so the SIGIO  *)
(* handler never sleeps in read.                                           *)
HandlerNeverBlocks == \A p \in Listeners : pc[p] # "sleep"
=============================================================================
