------------------------------ MODULE OneWire ------------------------------
(***************************************************************************)
(* src/Linux_Driver/34_ds18b20/ds18b20.c and 35_dht11/dht11.c: a timer     *)
(* that starts itself again queues a work item, the work item measures     *)
(* over the one-wire line and stores the sample in data, and applications  *)
(* read data.  Nothing is locked: a sample is stored, and copied to the    *)
(* reader, in two pieces, the two bytes of DS18B20 or the four values and  *)
(* the checksum of DHT11.  The timer takes more than a second, so that it  *)
(* does not expire before probe has set up the work item.                  *)
(***************************************************************************)
EXTENDS Integers, Sequences

CONSTANTS
  Temperatures,   \* what DS18B20 may measure, in sixteenths of a degree
  Garbled,        \* bytes that the line of DS18B20 may give instead of those sent
  Frames          \* what DHT11 may measure: two bytes each of humidity and temperature

ASSUME OneWireAssumption ==
  /\ Temperatures \subseteq -880 .. 2000
  /\ Garbled \subseteq (0 .. 255) \X (0 .. 255)
  /\ Frames \subseteq [1 .. 4 -> 0 .. 255]

VARIABLES
  sensor,       \* the driver: "ds18b20" or "dht11"
  bind,         \* how far probe or remove have come
  sampleTimer,  \* the timer is pending
  tick,         \* where its function stands
  queued,       \* the work item is queued
  work,         \* where the work item stands
  sample,       \* what it has measured
  data,         \* the sample in the driver
  app,          \* where the application stands
  copy,         \* the sample that it has read
  torn,         \* ghost: a sample was being stored while it read
  unclean       \* ghost: misc_register failed, or del_timer met a running timer function

lifeVars == <<sensor, bind, unclean>>
tickVars == <<sampleTimer, tick>>
workVars == <<queued, work, sample>>
readVars == <<app, copy, torn>>
oneWireVars == <<lifeVars, tickVars, workVars, data, readVars>>

\* The two bytes of a temperature in sixteenths of a degree.
Bytes(t) == <<t % 256, (t % 65536) \div 256>>

(* A measurement as the sensor sends it, and the bytes that the driver     *)
(* has then: what DS18B20 sends is not checked, a sensor that falls silent *)
(* reads as 0xFF; DHT11 bytes that time out read as -EINVAL in eight bits. *)
Timeout == 256 - 22
Sum(f) == f[1] + f[2] + f[3] + f[4]
Sent ==
  IF sensor = "ds18b20"
    THEN {Bytes(t) : t \in Temperatures}
    ELSE {<<f, Sum(f) % 256>> : f \in Frames}
Received ==
  IF sensor = "ds18b20" THEN Sent \cup Garbled
  ELSE {<<[i \in 1 .. 4 |-> IF i \in lost THEN Timeout ELSE s[1][i]],
          IF 5 \in lost THEN Timeout ELSE s[2]>> : s \in Sent, lost \in SUBSET (1 .. 5)}

(* dht11.c:126 and dht11App.c:32: the sum is compared as an int.  DS18B20  *)
(* sends a checksum too, which nobody reads.                               *)
Verified(s) == sensor = "dht11" => Sum(s[1]) = s[2]

Zero == IF sensor = "ds18b20" THEN <<0, 0>> ELSE <<<<0, 0, 0, 0>>, 0>>

OneWireInit ==
  /\ sensor \in {"ds18b20", "dht11"}
  /\ bind = "out"
  /\ unclean = FALSE
  /\ sampleTimer = FALSE
  /\ tick = "idle"
  /\ queued = FALSE
  /\ work = "idle"
  /\ sample = Zero
  /\ data = Zero
  /\ app = "user"
  /\ copy = Zero
  /\ torn = FALSE

Samples == {Zero} \cup Received

OneWireTypeOK ==
  /\ sensor \in {"ds18b20", "dht11"}
  /\ bind \in {"out", "armed", "live", "closing", "stopped"}
  /\ tick \in {"idle", "queue", "restart"}
  /\ work \in {"idle", "measure", "first", "second"}
  /\ sample \in Samples
  /\ \A i \in {1, 2} : {data[i], copy[i]} \subseteq {s[i] : s \in Samples}
  /\ app \in {"user", "half", "print"}
  /\ {sampleTimer, queued, torn, unclean} \subseteq BOOLEAN

-----------------------------------------------------------------------------
(* probe and remove.  A probe on top of what an unclean end has left would *)
(* set up a timer that is pending; the model does not follow that.         *)
OneWireProbe ==
  /\ bind = "out"
  /\ ~unclean
  /\ bind' = "armed"
  /\ sampleTimer' = TRUE
  /\ UNCHANGED <<sensor, unclean, tick, workVars, data, readVars>>

(* return misc_register(mdev): nothing is undone when it fails. *)
MiscRegister ==
  /\ bind = "armed"
  /\ \/ bind' = "live" /\ UNCHANGED unclean
     \/ bind' = "out" /\ unclean' = TRUE
  /\ UNCHANGED <<sensor, tickVars, workVars, data, readVars>>

MiscDeregister ==
  /\ bind = "live"
  /\ bind' = "closing"
  /\ UNCHANGED <<sensor, unclean, tickVars, workVars, data, readVars>>

(* del_timer does not wait for a timer function that is running. *)
RemoveTimer ==
  /\ bind = "closing"
  /\ bind' = "stopped"
  /\ sampleTimer' = FALSE
  /\ unclean' = (tick # "idle")
  /\ UNCHANGED <<sensor, tick, workVars, data, readVars>>

\* cancel_work, which does not wait for a work item that is running.
CancelAsync ==
  /\ bind = "stopped"
  /\ bind' = "out"
  /\ queued' = FALSE
  /\ UNCHANGED <<sensor, unclean, tickVars, work, sample, data, readVars>>

(* cancel_work_sync *)
CancelWork ==
  /\ bind = "stopped"
  /\ work = "idle"
  /\ bind' = "out"
  /\ queued' = FALSE
  /\ UNCHANGED <<sensor, unclean, tickVars, work, sample, data, readVars>>

-----------------------------------------------------------------------------
(* The timer function *)

SampleExpire ==
  /\ sampleTimer
  /\ tick = "idle"
  /\ sampleTimer' = FALSE
  /\ tick' = "queue"
  /\ UNCHANGED <<lifeVars, workVars, data, readVars>>

\* A timer function that goes on only if the work item was not queued yet.
TickStopsWhenBusy ==
  /\ tick = "queue"
  /\ queued' = TRUE
  /\ tick' = IF queued THEN "idle" ELSE "restart"
  /\ UNCHANGED <<lifeVars, sampleTimer, work, sample, data, readVars>>

(* schedule_work: a work item that runs may be queued again. *)
TickQueue ==
  /\ tick = "queue"
  /\ queued' = TRUE
  /\ tick' = "restart"
  /\ UNCHANGED <<lifeVars, sampleTimer, work, sample, data, readVars>>

TickRestart ==
  /\ tick = "restart"
  /\ sampleTimer' = TRUE
  /\ tick' = "idle"
  /\ UNCHANGED <<lifeVars, workVars, data, readVars>>

-----------------------------------------------------------------------------
(* The work item *)

WorkStart ==
  /\ queued
  /\ work = "idle"
  /\ queued' = FALSE
  /\ work' = "measure"
  /\ UNCHANGED <<lifeVars, tickVars, sample, data, readVars>>

(* No sensor answers, the checksum is wrong, or there is a new sample. *)
WorkMeasure ==
  /\ work = "measure"
  /\ \/ work' = "idle" /\ UNCHANGED sample
     \/ /\ sample' \in {s \in Received : Verified(s)}
        /\ work' = "first"
  /\ UNCHANGED <<lifeVars, tickVars, queued, data, readVars>>

\* A work item that may give up between the two pieces.
WorkGivesUp ==
  /\ work = "first"
  /\ data' = <<sample[1], data[2]>>
  /\ torn' = (torn \/ app = "half")
  /\ work' \in {"second", "idle"}
  /\ sample' = IF work' = "idle" THEN Zero ELSE sample
  /\ UNCHANGED <<lifeVars, tickVars, queued, app, copy>>

WorkFirst ==
  /\ work = "first"
  /\ data' = <<sample[1], data[2]>>
  /\ torn' = (torn \/ app = "half")
  /\ work' = "second"
  /\ UNCHANGED <<lifeVars, tickVars, queued, sample, app, copy>>

WorkSecond ==
  /\ work = "second"
  /\ data' = <<data[1], sample[2]>>
  /\ torn' = (torn \/ app = "half")
  /\ work' = "idle"
  /\ sample' = Zero
  /\ UNCHANGED <<lifeVars, tickVars, queued, app, copy>>

Work == WorkStart \/ WorkMeasure \/ WorkFirst \/ WorkSecond

-----------------------------------------------------------------------------
(* The application: copy_to_user in two pieces, then the conversion.       *)

AppFirst ==
  /\ app = "user"
  /\ bind \in {"live", "closing", "stopped"}
  /\ copy' = <<data[1], copy[2]>>
  /\ torn' = (work = "second")
  /\ app' = "half"
  /\ UNCHANGED <<lifeVars, tickVars, workVars, data>>

AppSecond ==
  /\ app = "half"
  /\ copy' = <<copy[1], data[2]>>
  /\ app' = "print"
  /\ UNCHANGED <<lifeVars, tickVars, workVars, data, torn>>

AppReturn ==
  /\ app = "print"
  /\ app' = "user"
  /\ copy' = Zero
  /\ torn' = FALSE
  /\ UNCHANGED <<lifeVars, tickVars, workVars, data>>

(* ds18b20App.c:32-55, in sixteenths of a degree: TH and TL are ints, tmp  *)
(* is a short.                                                             *)
Short(n) == ((n + 32768) % 65536) - 32768
Shown(c) ==
  LET negative == c[2] > 7
      TL == IF negative THEN -c[1] - 1 ELSE c[1]
      TH == IF negative THEN -c[2] - 1 ELSE c[2]
      tmp == Short(Short(Short(TH) * 256) + TL)
  IN  IF negative THEN -(tmp + 1) ELSE tmp

(* What the application prints: dht11App.c:32; ds18b20App.c:35 and :54,    *)
(* which skip 0xFFFF and what is not between -55 and 125 degrees.          *)
Used(s) ==
  IF sensor = "dht11" THEN Verified(s)
  ELSE s # <<255, 255>> /\ Shown(s) > -880 /\ Shown(s) < 2000

OneWireNext ==
  \/ OneWireProbe \/ MiscRegister \/ MiscDeregister \/ RemoveTimer \/ CancelWork
  \/ SampleExpire \/ TickQueue \/ TickRestart
  \/ Work
  \/ AppFirst \/ AppSecond \/ AppReturn

OneWireSpec == OneWireInit /\ [][OneWireNext]_oneWireVars

-----------------------------------------------------------------------------
(* The frames that the checksum of DHT11 lets pass although the sensor has *)
(* not sent them: the checksum and one byte time out, and the other three  *)
(* bytes are zero.                                                         *)
Phantoms == {<<[i \in 1 .. 4 |-> IF i = j THEN Timeout ELSE 0], Timeout>> : j \in 1 .. 4}

(* However timer, work items, faults of the line and remove interleave, a  *)
(* sample that the application prints (ds18b20App.c:54, dht11App.c:32) is  *)
(* one measurement as the line gave it, or the zeros of before the first.  *)
(* From DHT11 that is what the sensor sent, or a phantom; from DS18B20 it  *)
(* may be garbled, since its checksum is not read.  Nothing is said of a   *)
(* read that a store overlapped: that one may mix two measurements.        *)
ReportsReal ==
  app = "print" /\ ~torn /\ Used(copy) =>
    copy \in Sent \cup {Zero} \cup (IF sensor = "dht11" THEN Phantoms ELSE Garbled)

(* After remove nothing samples any more: cancelling the work item last    *)
(* catches what the timer has queued (ds18b20.c:233).  But del_timer does  *)
(* not wait for the timer function (:232), and a failed misc_register      *)
(* undoes nothing (:223): after either the timer is not stopped, for good. *)
SamplingEnds ==
  bind = "out" =>
    IF unclean THEN sampleTimer \/ tick # "idle"
    ELSE ~sampleTimer /\ tick = "idle" /\ ~queued /\ work = "idle"

(* As long as the driver is bound, it goes on measuring (ds18b20.c:176),   *)
(* also when a work item takes longer than the timer.                      *)
KeepsSampling == bind = "live" ~> work = "measure" \/ bind # "live"

(* ds18b20App.c:48, "Calculate temperature for negative numbers": what is  *)
(* printed is the temperature that was measured.                           *)
ShowsMeasured ==
  app = "print" /\ ~torn /\ sensor = "ds18b20" /\ Used(copy) =>
    \A t \in Temperatures : copy = Bytes(t) => Shown(copy) = t
=============================================================================
