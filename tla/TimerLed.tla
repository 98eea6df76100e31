------------------------------ MODULE TimerLed ------------------------------
(***************************************************************************)
(* src/Linux_Driver/12_timer/timer.c: a timer that toggles an LED and      *)
(* starts itself again, controlled by ioctl from any process that has the  *)
(* file, and stopped by release.  Time is abstracted: a pending timer may  *)
(* expire at any moment; what is kept is the period it was started with.   *)
(***************************************************************************)
EXTENDS GpioFile

CONSTANTS
  Periods,  \* what SETPERIOD_CMD may be given, and the default
  Default,  \* 1000, the period that open sets
  Off       \* the timer is not pending

ASSUME PeriodsAssumption == Default \in Periods /\ Off \notin Periods

VARIABLES
  timeperiod,   \* dev->timeperiod
  arg,          \* per process: the period of its ioctl, after it is stored or read
  pending,      \* the period the timer was started with, or Off
  fn,           \* where timer_function stands
  fnPeriod,     \* the period that it has read
  sta,          \* its static of that name
  led           \* the level of the LED's line: 0 lit, 1 dark

timerVars == <<timeperiod, arg, pending, fn, fnPeriod, sta, led>>
timerLedVars == <<gpioFileVars, timerVars>>

TimerLedInit ==
  /\ GpioFileInit
  /\ timeperiod = Default
  /\ arg = [u \in Users |-> Default]
  /\ pending = Off
  /\ fn = "idle"
  /\ fnPeriod = Default
  /\ sta = 1
  /\ led = 1

TimerLedTypeOK ==
  /\ GpioFileTypeOK
  /\ \A u \in Users : pc[u] \in {"user", "period", "request", "direction", "dark", "free",
                                 "delete", "load", "start", "stop"}
  /\ timeperiod \in Periods
  /\ arg \in [Users -> Periods]
  /\ pending \in Periods \cup {Off}
  /\ fn \in {"idle", "toggle", "period", "restart"}
  /\ fnPeriod \in Periods
  /\ sta \in {0, 1}
  /\ led \in {0, 1}

TimerFile ==
  /\ \E u \in Users :
       \/ OpenFile(u, "period")
       \/ RequestGpio(u)
       \/ \E v \in Users : ShareFile(u, v)
       \/ CloseFile(u, "dark")
       \/ FreeGpio(u, "delete")
  /\ UNCHANGED timerVars

(* open sets the period before it knows whether it is refused. *)
OpenPeriod(u) ==
  /\ Step(u, "period", "request")
  /\ timeperiod' = Default
  /\ UNCHANGED <<fds, requested, arg, pending, fn, fnPeriod, sta, led>>

(* gpio_direction_output(timerdev.led_gpio, 1) *)
OpenDirection(u) ==
  /\ SetDirection(u)
  /\ led' = IF u \in fds' THEN 1 ELSE led
  /\ UNCHANGED <<timeperiod, arg, pending, fn, fnPeriod, sta>>

IoctlCall(u) ==
  /\ u \in fds
  /\ pc[u] = "user"
  /\ \E l \in {"load", "stop"} : Goto(u, l)
  /\ UNCHANGED <<fds, requested, timerVars>>

(* SETPERIOD_CMD: the period is stored under the spinlock. *)
IoctlStore(u) ==
  /\ u \in fds
  /\ Step(u, "user", "start")
  /\ \E m \in Periods :
       /\ timeperiod' = m
       /\ arg' = [arg EXCEPT ![u] = m]
  /\ UNCHANGED <<fds, requested, pending, fn, fnPeriod, sta, led>>

(* OPEN_CMD: the period is read under the spinlock. *)
IoctlLoad(u) ==
  /\ Step(u, "load", "start")
  /\ arg' = [arg EXCEPT ![u] = timeperiod]
  /\ UNCHANGED <<fds, requested, timeperiod, pending, fn, fnPeriod, sta, led>>

(* Either of them: mod_timer, after the spinlock has been dropped. *)
IoctlStart(u) ==
  /\ Step(u, "start", "user")
  /\ pending' = arg[u]
  /\ arg' = [arg EXCEPT ![u] = Default]
  /\ UNCHANGED <<fds, requested, timeperiod, fn, fnPeriod, sta, led>>

\* del_timer, which does not wait for a running timer function.
DelTimerAsync(u, from) ==
  /\ Step(u, from, "user")
  /\ pending' = Off
  /\ UNCHANGED <<fds, requested, timeperiod, arg, fn, fnPeriod, sta, led>>

(* del_timer_sync, of CLOSE_CMD and of release: it waits for a running     *)
(* timer function, and undoes what that has started again.                 *)
DelTimerSync(u, from) ==
  /\ fn = "idle"
  /\ Step(u, from, "user")
  /\ pending' = Off
  /\ UNCHANGED <<fds, requested, timeperiod, arg, fn, fnPeriod, sta, led>>

(* release: gpio_set_value(dev->led_gpio, 1) *)
ReleaseDark(u) ==
  /\ Step(u, "dark", "free")
  /\ led' = 1
  /\ UNCHANGED <<fds, requested, timeperiod, arg, pending, fn, fnPeriod, sta>>

FnExpire ==
  /\ pending # Off
  /\ fn = "idle"
  /\ pending' = Off
  /\ fn' = "toggle"
  /\ UNCHANGED <<gpioFileVars, timeperiod, arg, fnPeriod, sta, led>>

FnToggle ==
  /\ fn = "toggle"
  /\ sta' = 1 - sta
  /\ led' = 1 - sta
  /\ fn' = "period"
  /\ UNCHANGED <<gpioFileVars, timeperiod, arg, pending, fnPeriod>>

\* A function that goes on with the period it has read first.
FnKeepsPeriod ==
  /\ fn = "period"
  /\ fn' = "restart"
  /\ UNCHANGED <<gpioFileVars, timeperiod, arg, pending, fnPeriod, sta, led>>

(* The period that counts is the one read after the spinlock is dropped.   *)
FnPeriod ==
  /\ fn = "period"
  /\ fnPeriod' = timeperiod
  /\ fn' = "restart"
  /\ UNCHANGED <<gpioFileVars, timeperiod, arg, pending, sta, led>>

FnRestart ==
  /\ fn = "restart"
  /\ pending' = fnPeriod
  /\ fnPeriod' = Default
  /\ fn' = "idle"
  /\ UNCHANGED <<gpioFileVars, timeperiod, arg, sta, led>>

TimerFunction == FnToggle \/ FnPeriod \/ FnRestart

TimerLedNext ==
  \/ TimerFile
  \/ \E u \in Users :
       \/ OpenPeriod(u) \/ OpenDirection(u)
       \/ IoctlCall(u) \/ IoctlStore(u) \/ IoctlLoad(u) \/ IoctlStart(u)
       \/ DelTimerSync(u, "stop") \/ DelTimerSync(u, "delete")
       \/ ReleaseDark(u)
  \/ FnExpire
  \/ TimerFunction

TimerLedSpec == TimerLedInit /\ [][TimerLedNext]_timerLedVars

-----------------------------------------------------------------------------
(* Once the last file is released, the timer, which starts itself again    *)
(* from its own function, is off (timer.c:148): neither that function nor  *)
(* an ioctl of another process that shared the file leaves it pending.     *)
TimerStopsWithFile ==
  fds = {} /\ (\A u \in Users : pc[u] \notin {"dark", "free", "delete"}) =>
    pending = Off /\ fn = "idle"

(* When the system calls have come to rest, a timer that still runs comes  *)
(* to run at the period set last, although every ioctl starts the timer    *)
(* after it has dropped the spinlock (timer.c:129, :136) and the timer     *)
(* function reads the period outside it (timer.c:174).                     *)
PeriodCatchesUp ==
  <>[](\A u \in Users : pc[u] = "user") => <>[](pending \in {Off, timeperiod})
=============================================================================
