----------------------------- MODULE GpioProofs -----------------------------
(***************************************************************************)
(* Proofs about the drivers of one pin.  12_timer and 11_key, which        *)
(* request it in open, for any number of processes and periods: types, the *)
(* ownership of the gpio, that one that leaks is lost, and for 12_timer    *)
(* that the timer stops with the file.  20_input: types, the pairing of    *)
(* disable and enable, and that the input device has reported the level of *)
(* a key at rest.                                                          *)
(***************************************************************************)
EXTENDS KeyPolled, TimerLed, InputKey, TLAPS

-----------------------------------------------------------------------------
(* 12_timer *)

Labels == {"user", "period", "request", "direction", "dark", "free",
           "delete", "load", "start", "stop"}

\* A process inside an ioctl has the file open.
IoctlHasFile ==
  \A u \in Users : pc[u] \in {"load", "start", "stop"} => u \in fds

LedTyped == pc \in [Users -> Labels] /\ TimerLedTypeOK

FileInv == GpioOwned /\ IoctlHasFile

TimerInv == LedTyped /\ FileInv /\ TimerStopsWithFile

USE DEF Labels

(* The invariant holds when the driver has just been loaded. *)
LEMMA InitTimer == TimerLedInit => TimerInv
  BY PeriodsAssumption
  DEF TimerLedInit, GpioFileInit, TimerInv, LedTyped, TimerLedTypeOK, GpioFileTypeOK,
      FileInv, GpioOwned, Between, IoctlHasFile, TimerStopsWithFile

\* The steps of a process, without the quantifiers of TimerLedNext.
FileStep(u) ==
  \/ /\ UNCHANGED timerVars
     /\ \/ OpenFile(u, "period")
        \/ RequestGpio(u)
        \/ \E v \in Users : ShareFile(u, v)
        \/ CloseFile(u, "dark")
        \/ FreeGpio(u, "delete")
  \/ OpenPeriod(u)
  \/ OpenDirection(u)
  \/ IoctlCall(u)
  \/ IoctlStore(u)
  \/ IoctlLoad(u)
  \/ IoctlStart(u)
  \/ DelTimerSync(u, "stop")
  \/ DelTimerSync(u, "delete")
  \/ ReleaseDark(u)

(* Every step is one of a process or one of the timer. *)
LEMMA StepKinds ==
  TimerLedNext => (\E u \in Users : FileStep(u)) \/ FnExpire \/ TimerFunction
  BY DEF TimerLedNext, TimerFile, FileStep

(* A process leaves every variable in its type. *)
LEMMA FileTyped ==
  ASSUME LedTyped, NEW u \in Users, FileStep(u)
  PROVE  LedTyped'
  <1> USE PeriodsAssumption DEF LedTyped, TimerLedTypeOK, GpioFileTypeOK, timerVars
  <1>1. CASE OpenFile(u, "period") /\ UNCHANGED timerVars
    BY <1>1 DEF OpenFile, Step, Goto
  <1>2. CASE RequestGpio(u) /\ UNCHANGED timerVars
    BY <1>2 DEF RequestGpio, Step, Goto
  <1>3. CASE (\E v \in Users : ShareFile(u, v)) /\ UNCHANGED timerVars
    BY <1>3 DEF ShareFile
  <1>4. CASE CloseFile(u, "dark") /\ UNCHANGED timerVars
    BY <1>4 DEF CloseFile, Step, Goto
  <1>5. CASE FreeGpio(u, "delete") /\ UNCHANGED timerVars
    BY <1>5 DEF FreeGpio, Step, Goto
  <1>6. CASE OpenPeriod(u)     BY <1>6 DEF OpenPeriod, Step, Goto
  <1>7. CASE OpenDirection(u)  BY <1>7 DEF OpenDirection, SetDirection, Step, Goto
  <1>8. CASE IoctlCall(u)      BY <1>8 DEF IoctlCall, Goto
  <1>9. CASE IoctlStore(u)     BY <1>9 DEF IoctlStore, Step, Goto
  <1>10. CASE IoctlLoad(u)     BY <1>10 DEF IoctlLoad, Step, Goto
  <1>11. CASE IoctlStart(u)    BY <1>11 DEF IoctlStart, Step, Goto
  <1>12. CASE DelTimerSync(u, "stop") \/ DelTimerSync(u, "delete")
    BY <1>12 DEF DelTimerSync, Step, Goto
  <1>13. CASE ReleaseDark(u)   BY <1>13 DEF ReleaseDark, Step, Goto
  <1> QED
    BY <1>1, <1>2, <1>3, <1>4, <1>5, <1>6, <1>7, <1>8, <1>9, <1>10, <1>11, <1>12, <1>13
    DEF FileStep

(* So does the timer. *)
LEMMA TimerTyped == LedTyped /\ (FnExpire \/ TimerFunction) => LedTyped'
  BY PeriodsAssumption
  DEF LedTyped, TimerLedTypeOK, GpioFileTypeOK, gpioFileVars,
      FnExpire, TimerFunction, FnToggle, FnPeriod, FnRestart

(* A process keeps the gpio to itself and the file while it needs them. *)
LEMMA FileOwned ==
  ASSUME LedTyped, FileInv, NEW u \in Users, FileStep(u)
  PROVE  FileInv'
  <1> USE DEF LedTyped, GpioFileTypeOK, TimerLedTypeOK, FileInv, GpioOwned, Between,
              IoctlHasFile
  <1>1. CASE OpenFile(u, "period")  BY <1>1 DEF OpenFile, Step, Goto
  <1>2. CASE RequestGpio(u)         BY <1>2 DEF RequestGpio, Step, Goto
  <1>3. CASE \E v \in Users : ShareFile(u, v)  BY <1>3 DEF ShareFile
  <1>4. CASE CloseFile(u, "dark")   BY <1>4 DEF CloseFile, Step, Goto
  <1>5. CASE FreeGpio(u, "delete")  BY <1>5 DEF FreeGpio, Step, Goto
  <1>6. CASE OpenPeriod(u)     BY <1>6 DEF OpenPeriod, Step, Goto
  <1>7. CASE OpenDirection(u)  BY <1>7 DEF OpenDirection, SetDirection, Step, Goto
  <1>8. CASE IoctlCall(u)      BY <1>8 DEF IoctlCall, Goto
  <1>9. CASE IoctlStore(u)     BY <1>9 DEF IoctlStore, Step, Goto
  <1>10. CASE IoctlLoad(u)     BY <1>10 DEF IoctlLoad, Step, Goto
  <1>11. CASE IoctlStart(u)    BY <1>11 DEF IoctlStart, Step, Goto
  <1>12. CASE DelTimerSync(u, "stop") \/ DelTimerSync(u, "delete")
    BY <1>12 DEF DelTimerSync, Step, Goto
  <1>13. CASE ReleaseDark(u)   BY <1>13 DEF ReleaseDark, Step, Goto
  <1> QED
    BY <1>1, <1>2, <1>3, <1>4, <1>5, <1>6, <1>7, <1>8, <1>9, <1>10, <1>11, <1>12, <1>13
    DEF FileStep

(* A process that leaves no file open and none in release leaves the timer *)
(* off: an ioctl has the file, and release ends with del_timer_sync.       *)
LEMMA FileStops ==
  ASSUME LedTyped, FileInv, TimerStopsWithFile, NEW u \in Users, FileStep(u)
  PROVE  TimerStopsWithFile'
  <1> USE DEF LedTyped, GpioFileTypeOK, TimerLedTypeOK, FileInv, IoctlHasFile,
              TimerStopsWithFile, timerVars
  <1>1. CASE OpenFile(u, "period") /\ UNCHANGED timerVars
    BY <1>1 DEF OpenFile, Step, Goto
  <1>2. CASE RequestGpio(u) /\ UNCHANGED timerVars
    BY <1>2 DEF RequestGpio, Step, Goto
  <1>3. CASE (\E v \in Users : ShareFile(u, v)) /\ UNCHANGED timerVars
    BY <1>3 DEF ShareFile
  <1>4. CASE CloseFile(u, "dark") /\ UNCHANGED timerVars
    BY <1>4 DEF CloseFile, Step, Goto
  <1>5. CASE FreeGpio(u, "delete") /\ UNCHANGED timerVars
    BY <1>5 DEF FreeGpio, Step, Goto
  <1>6. CASE OpenPeriod(u)     BY <1>6 DEF OpenPeriod, Step, Goto
  <1>7. CASE OpenDirection(u)  BY <1>7 DEF OpenDirection, SetDirection, Step, Goto
  <1>8. CASE IoctlCall(u)      BY <1>8 DEF IoctlCall, Goto
  <1>9. CASE IoctlStore(u)     BY <1>9 DEF IoctlStore, Step, Goto
  <1>10. CASE IoctlLoad(u)     BY <1>10 DEF IoctlLoad, Step, Goto
  <1>11. CASE IoctlStart(u)    BY <1>11 DEF IoctlStart, Step, Goto
  <1>12. CASE DelTimerSync(u, "stop") \/ DelTimerSync(u, "delete")
    BY <1>12 DEF DelTimerSync, Step, Goto
  <1>13. CASE ReleaseDark(u)   BY <1>13 DEF ReleaseDark, Step, Goto
  <1> QED
    BY <1>1, <1>2, <1>3, <1>4, <1>5, <1>6, <1>7, <1>8, <1>9, <1>10, <1>11, <1>12, <1>13
    DEF FileStep

(* The timer does not start unless it was on. *)
LEMMA TimerKeeps ==
  FileInv /\ TimerStopsWithFile /\ (FnExpire \/ TimerFunction) =>
    FileInv' /\ TimerStopsWithFile'
  BY DEF FileInv, GpioOwned, Between, IoctlHasFile, TimerStopsWithFile, gpioFileVars,
         FnExpire, TimerFunction, FnToggle, FnPeriod, FnRestart

(* Every step keeps the invariant. *)
LEMMA NextTimer == TimerInv /\ [TimerLedNext]_timerLedVars => TimerInv'
  <1> SUFFICES ASSUME TimerInv, [TimerLedNext]_timerLedVars PROVE TimerInv'
    OBVIOUS
  <1>1. CASE \E u \in Users : FileStep(u)
    BY <1>1, FileTyped, FileOwned, FileStops DEF TimerInv
  <1>2. CASE FnExpire \/ TimerFunction
    BY <1>2, TimerTyped, TimerKeeps DEF TimerInv
  <1>3. CASE UNCHANGED timerLedVars
    BY <1>3 DEF TimerInv, LedTyped, TimerLedTypeOK, GpioFileTypeOK, FileInv, GpioOwned, Between,
                IoctlHasFile, TimerStopsWithFile, timerLedVars, gpioFileVars, timerVars
  <1> QED
    BY <1>1, <1>2, <1>3, StepKinds

(* It is an invariant of the driver. *)
THEOREM TimerInvariant == TimerLedSpec => []TimerInv
  BY InitTimer, NextTimer, PTL DEF TimerLedSpec

(* Every variable of timer.c keeps its type. *)
THEOREM TimerTyping == TimerLedSpec => []TimerLedTypeOK
  BY TimerInvariant, PTL DEF TimerInv, LedTyped

(* Between its gpio_request and its gpio_free a file has the gpio to       *)
(* itself (timer.c:86 and :147).                                           *)
THEOREM TimerOwnership == TimerLedSpec => []GpioOwned
  BY TimerInvariant, PTL DEF TimerInv, FileInv

(* Once the last file is released, the timer is off (timer.c:148).         *)
THEOREM Stopping == TimerLedSpec => []TimerStopsWithFile
  BY TimerInvariant, PTL DEF TimerInv

\* An open that could not set the direction has kept the gpio.
Leaked == requested /\ fds = {} /\ \A u \in Users : pc[u] \notin Between

(* No process gets or frees the gpio that has leaked. *)
LEMMA FileLeaked ==
  ASSUME LedTyped, FileInv, Leaked, NEW u \in Users, FileStep(u)
  PROVE  Leaked'
  <1> USE DEF LedTyped, GpioFileTypeOK, TimerLedTypeOK, FileInv, IoctlHasFile, Leaked, Between
  <1>1. CASE OpenFile(u, "period")  BY <1>1 DEF OpenFile, Step, Goto
  <1>2. CASE RequestGpio(u)         BY <1>2 DEF RequestGpio, Step, Goto
  <1>3. CASE \E v \in Users : ShareFile(u, v)  BY <1>3 DEF ShareFile
  <1>4. CASE CloseFile(u, "dark") \/ FreeGpio(u, "delete")
    BY <1>4 DEF CloseFile, FreeGpio, Step
  <1>5. CASE OpenPeriod(u)     BY <1>5 DEF OpenPeriod, Step, Goto
  <1>6. CASE OpenDirection(u) \/ ReleaseDark(u)
    BY <1>6 DEF OpenDirection, SetDirection, ReleaseDark, Step
  <1>7. CASE IoctlCall(u) \/ IoctlStore(u)
    BY <1>7 DEF IoctlCall, IoctlStore
  <1>8. CASE IoctlLoad(u)      BY <1>8 DEF IoctlLoad, Step, Goto
  <1>9. CASE IoctlStart(u)     BY <1>9 DEF IoctlStart, Step, Goto
  <1>10. CASE DelTimerSync(u, "stop") \/ DelTimerSync(u, "delete")
    BY <1>10 DEF DelTimerSync, Step, Goto
  <1> QED
    BY <1>1, <1>2, <1>3, <1>4, <1>5, <1>6, <1>7, <1>8, <1>9, <1>10 DEF FileStep

(* When an open of 12_timer has requested the gpio and failed to set its   *)
(* direction (timer.c:94), no open succeeds again: the file stays closed   *)
(* for good.                                                               *)
THEOREM TimerLeakIsFinal == TimerLedSpec => [](Leaked => [](fds = {}))
<1>1. TimerInv /\ Leaked /\ [TimerLedNext]_timerLedVars => Leaked'
  <2> SUFFICES ASSUME TimerInv, Leaked, [TimerLedNext]_timerLedVars PROVE Leaked'
    OBVIOUS
  <2>1. CASE \E u \in Users : FileStep(u)
    BY <2>1, FileLeaked DEF TimerInv
  <2>2. CASE FnExpire \/ TimerFunction
    BY <2>2 DEF Leaked, gpioFileVars, FnExpire, TimerFunction, FnToggle, FnPeriod, FnRestart
  <2>3. CASE UNCHANGED timerLedVars
    BY <2>3 DEF Leaked, timerLedVars, gpioFileVars
  <2>4. QED
    BY <2>1, <2>2, <2>3, StepKinds
<1>2. Leaked => fds = {}
  BY DEF Leaked
<1>3. QED
  BY <1>1, <1>2, TimerInvariant, PTL DEF TimerLedSpec

-----------------------------------------------------------------------------
(* 11_key *)

KeyLabels == {"user", "request", "direction", "free", "sample", "held", "press", "value"}

KeyInv == pc \in [Users -> KeyLabels] /\ KeyPolledTypeOK /\ GpioOwned

(* The invariant holds when the driver has just been loaded. *)
LEMMA InitKey == KeyPolledInit => KeyInv
  <1> SUFFICES ASSUME KeyPolledInit PROVE KeyInv
    OBVIOUS
  <1>1. up \in BOOLEAN
    BY Zenon DEF KeyPolledInit
  <1> QED
    BY <1>1 DEF KeyPolledInit, GpioFileInit, KeyInv, KeyLabels, KeyPolledTypeOK,
                GpioFileTypeOK, GpioOwned, Between

(* Every step keeps it. *)
LEMMA NextKey == KeyInv /\ [KeyPolledNext]_keyPolledVars => KeyInv'
  <1> SUFFICES ASSUME KeyInv, [KeyPolledNext]_keyPolledVars PROVE KeyInv'
    OBVIOUS
  <1> USE DEF KeyInv, KeyLabels, KeyPolledTypeOK, GpioFileTypeOK, GpioOwned, Between
  <1>1. CASE MoveKey
    BY <1>1 DEF MoveKey, gpioFileVars
  <1>2. ASSUME NEW u \in Users, UNCHANGED <<up, keyvalue>>,
               \/ OpenFile(u, "request") \/ RequestGpio(u) \/ SetDirection(u)
               \/ CloseFile(u, "free") \/ FreeGpio(u, "user")
        PROVE  KeyInv'
    <2>1. CASE OpenFile(u, "request")  BY <1>2, <2>1 DEF OpenFile, Step, Goto
    <2>2. CASE RequestGpio(u)          BY <1>2, <2>2 DEF RequestGpio, Step, Goto
    <2>3. CASE SetDirection(u)         BY <1>2, <2>3 DEF SetDirection, Step, Goto
    <2>4. CASE CloseFile(u, "free")    BY <1>2, <2>4 DEF CloseFile, Step, Goto
    <2>5. CASE FreeGpio(u, "user")     BY <1>2, <2>5 DEF FreeGpio, Step, Goto
    <2> QED
      BY <1>2, <2>1, <2>2, <2>3, <2>4, <2>5
  <1>3. ASSUME NEW u \in Users, NEW v \in Users, ShareFile(u, v), UNCHANGED <<up, keyvalue>>
        PROVE  KeyInv'
    BY <1>3 DEF ShareFile
  <1>4. ASSUME NEW u \in Users, KeyReadCall(u) \/ KeySample(u) \/ KeyAwaitUp(u) PROVE KeyInv'
    BY <1>4 DEF KeyReadCall, KeySample, KeyAwaitUp, Step, Goto
  <1>5. ASSUME NEW u \in Users, KeyPress(u) \/ KeyReadReturn(u) PROVE KeyInv'
    BY <1>5 DEF KeyPress, KeyReadReturn, Step, Goto
  <1>6. CASE UNCHANGED keyPolledVars
    BY <1>6 DEF keyPolledVars, gpioFileVars
  <1> QED
    BY <1>1, <1>2, <1>3, <1>4, <1>5, <1>6 DEF KeyPolledNext, KeyFile

(* It is an invariant of the driver. *)
THEOREM KeyInvariant == KeyPolledSpec => []KeyInv
  BY InitKey, NextKey, PTL DEF KeyPolledSpec

(* Every variable of key.c keeps its type. *)
THEOREM KeyTyping == KeyPolledSpec => []KeyPolledTypeOK
  BY KeyInvariant, PTL DEF KeyInv

(* Between its gpio_request and its gpio_free a file has the gpio to       *)
(* itself (key.c:91 and :162).                                             *)
THEOREM KeyOwnership == KeyPolledSpec => []GpioOwned
  BY KeyInvariant, PTL DEF KeyInv

(* When an open of 11_key has requested the gpio and failed to set its     *)
(* direction (key.c:95), no open succeeds again.                           *)
THEOREM KeyLeakIsFinal == KeyPolledSpec => [](Leaked => [](fds = {}))
<1>1. KeyInv /\ Leaked /\ [KeyPolledNext]_keyPolledVars => Leaked'
  <2> SUFFICES ASSUME KeyInv, Leaked, [KeyPolledNext]_keyPolledVars PROVE Leaked'
    OBVIOUS
  <2> USE DEF KeyInv, Leaked, Between
  <2>1. CASE MoveKey
    BY <2>1 DEF MoveKey, gpioFileVars
  <2>2. ASSUME NEW u \in Users,
               \/ OpenFile(u, "request") \/ RequestGpio(u) \/ SetDirection(u)
               \/ CloseFile(u, "free") \/ FreeGpio(u, "user")
        PROVE  Leaked'
    <3>1. CASE OpenFile(u, "request")  BY <3>1 DEF OpenFile, Step, Goto
    <3>2. CASE RequestGpio(u)          BY <3>2 DEF RequestGpio, Step, Goto
    <3>3. CASE SetDirection(u) \/ CloseFile(u, "free") \/ FreeGpio(u, "user")
      BY <3>3 DEF SetDirection, CloseFile, FreeGpio, Step
    <3>4. QED
      BY <2>2, <3>1, <3>2, <3>3
  <2>3. ASSUME NEW u \in Users, NEW v \in Users, ShareFile(u, v) PROVE Leaked'
    BY <2>3 DEF ShareFile
  <2>4. ASSUME NEW u \in Users, KeyReadCall(u) \/ KeySample(u) \/ KeyAwaitUp(u) PROVE Leaked'
    BY <2>4 DEF KeyReadCall, KeySample, KeyAwaitUp, Step, Goto
  <2>5. ASSUME NEW u \in Users, KeyPress(u) \/ KeyReadReturn(u) PROVE Leaked'
    BY <2>5 DEF KeyPress, KeyReadReturn, Step, Goto
  <2>6. CASE UNCHANGED keyPolledVars
    BY <2>6 DEF keyPolledVars, gpioFileVars
  <2>7. QED
    BY <2>1, <2>2, <2>3, <2>4, <2>5, <2>6 DEF KeyPolledNext, KeyFile
<1>2. Leaked => fds = {}
  BY DEF Leaked
<1>3. QED
  BY <1>1, <1>2, KeyInvariant, PTL DEF KeyPolledSpec

-----------------------------------------------------------------------------
(* 20_input *)

\* Nothing of the debounce is under way outside probe and remove, and never twice.
OneDebounce ==
  /\ stage \in {"out", "deleted"} => ~debounce /\ report = "idle"
  /\ stage # "crashed" => ~debounce \/ report = "idle"

\* What the timer function carries or has reported is the level, or an edge is on its way.
Current ==
  /\ stage \in {"irq", "timer", "allocated"} => ~touched
  /\ stage = "live" /\ touched /\ ~latched /\ ~debounce =>
       IF report = "report" THEN val = level ELSE reported = level

InputInv == InputTypeOK /\ OneDebounce /\ DepthPairs /\ Current

(* The invariant holds when the board boots. *)
LEMMA InitInput == InputInit => InputInv
  BY DEF InputInit, InputInv, InputTypeOK, HasIrq, OneDebounce, DepthPairs, Current

(* Every step of key_interrupt and key_timer_function keeps it. *)
LEMMA ServeInput == InputInv /\ InputServe => InputInv'
  <1> SUFFICES ASSUME InputInv, InputServe PROVE InputInv'
    OBVIOUS
  <1> USE DEF InputInv, InputTypeOK, HasIrq, OneDebounce, DepthPairs, Current,
              inputLine, inputTimer, Raised
  <1>1. CASE InputInterrupt
    <2> USE <1>1 DEF InputInterrupt
    <2>1. InputTypeOK'
      OBVIOUS
    <2>2. report = "idle"
      OBVIOUS
    <2>3. OneDebounce'
      BY <2>2
    <2>4. DepthPairs'
      OBVIOUS
    <2>5. Current'
      OBVIOUS
    <2> QED  BY <2>1, <2>3, <2>4, <2>5
  <1>2. CASE InputExpire     BY <1>2 DEF InputExpire
  <1>3. CASE InputReport     BY <1>3 DEF InputReport
  <1>4. CASE InputEnable     BY <1>4 DEF InputEnable
  <1> QED
    BY <1>1, <1>2, <1>3, <1>4 DEF InputServe

(* So do the key, the board, probe and remove. *)
LEMMA NextInput == InputInv /\ [InputNext]_inputVars => InputInv'
  <1> SUFFICES ASSUME InputInv, [InputNext]_inputVars PROVE InputInv'
    OBVIOUS
  <1>1. CASE InputServe  BY <1>1, ServeInput
  <1> USE DEF InputInv, InputTypeOK, HasIrq, OneDebounce, DepthPairs, Current,
              inputLine, inputTimer
  <1>2. CASE InputEdge      BY <1>2 DEF InputEdge
  <1>3. CASE InputReboot    BY <1>3 DEF InputReboot
  <1>4. CASE ProbeIrq
    <2> USE <1>4 DEF ProbeIrq
    <2>1. InputTypeOK'
      OBVIOUS
    <2>2. ~debounce' /\ report' = "idle"
      OBVIOUS
    <2>3. OneDebounce'
      BY <2>2
    <2>4. DepthPairs'
      BY <2>2
    <2>5. Current'
      OBVIOUS
    <2> QED  BY <2>1, <2>3, <2>4, <2>5
  <1>5. CASE ProbeTimer     BY <1>5 DEF ProbeTimer
  <1>6. CASE ProbeAllocate  BY <1>6 DEF ProbeAllocate
  <1>7. CASE ProbeRegister  BY <1>7 DEF ProbeRegister
  <1>8. CASE FreeIrq        BY <1>8 DEF FreeIrq
  <1>9. CASE DeleteTimer    BY <1>9 DEF DeleteTimer
  <1>10. CASE ForgetInput   BY <1>10 DEF ForgetInput
  <1>11. CASE UNCHANGED inputVars  BY <1>11 DEF inputVars
  <1> QED
    BY <1>1, <1>2, <1>3, <1>4, <1>5, <1>6, <1>7, <1>8, <1>9, <1>10, <1>11 DEF InputNext

(* It is an invariant of the driver. *)
THEOREM InputInvariant == InputSpec => []InputInv
  BY InitInput, NextInput, PTL DEF InputSpec

(* Every variable of keyinput.c keeps its type. *)
THEOREM InputTyping == InputSpec => []InputTypeOK
  BY InputInvariant, PTL DEF InputInv

(* The disable of the interrupt (keyinput.c:34) and the enable of the      *)
(* timer function (keyinput.c:101) pair up.                                *)
THEOREM Pairing == InputSpec => []DepthPairs
  BY InputInvariant, PTL DEF InputInv

(* At rest the input device has reported the level (keyinput.c:97-99).     *)
THEOREM Currency == InputSpec => []RestIsCurrent
  <1>1. InputInv => RestIsCurrent
    BY DEF InputInv, Current, RestIsCurrent
  <1> QED
    BY <1>1, InputInvariant, PTL
=============================================================================
