---------------------------- MODULE BoardProofs ----------------------------
(***************************************************************************)
(* What is proved of each driver by itself holds of it on the board of     *)
(* MCDrivers, where one of them is at work: the board takes the steps of   *)
(* that driver and leaves the variables of the others alone, which are in  *)
(* one of their initial states.                                            *)
(***************************************************************************)
EXTENDS MCDrivers, DriverModuleProofs, RamdiskProofs, GpioProofs, SensorProofs

(* The drivers that share nothing keep to their specifications.            *)
LEMMA BoardSteps ==
  ASSUME [BoardNext]_allVars
  PROVE  /\ [Next]_vars
         /\ [RamdiskNext]_ramdiskVars
         /\ [InputNext]_inputVars
         /\ [IioNext]_iioVars
         /\ [OneWireNext]_oneWireVars
         /\ device' = device
  BY DEF BoardNext, allVars, moduleVars

(* 11 and 12 share the file and the gpio: the one that is at work does.    *)
LEMMA GpioSteps ==
  ASSUME [BoardNext]_allVars
  PROVE  /\ device = "key" => [KeyPolledNext]_keyPolledVars /\ UNCHANGED timerVars
         /\ device # "key" => [TimerLedNext]_timerLedVars
  BY DEF BoardNext, allVars, keyPolledVars, timerLedVars

(* Each driver on the board behaves as its own specification says.         *)
THEOREM BoardDrivers ==
  BoardSpec => Spec /\ RamdiskSpec /\ InputSpec /\ IioSpec /\ OneWireSpec
<1>1. BoardInit => Init /\ RamdiskInit /\ InputInit /\ IioInit /\ OneWireInit
  BY DEF BoardInit
<1>2. QED
  BY <1>1, BoardSteps, PTL DEF BoardSpec, Spec, RamdiskSpec, InputSpec, IioSpec, OneWireSpec

(* The timer of 12 is off while 11 is at work.                             *)
Unused == pending = Off /\ fn = "idle"

(* So do 11 and 12, each when it is at work.                               *)
THEOREM BoardGpio ==
  /\ BoardSpec /\ device = "key" => KeyPolledSpec /\ [](device = "key" /\ Unused)
  /\ BoardSpec /\ device # "key" => TimerLedSpec /\ [](device # "key")
<1>1. BoardInit => KeyPolledInit /\ TimerLedInit
  BY DEF BoardInit
<1>2. BoardInit => Unused
  BY DEF BoardInit, TimerLedInit, Unused
<1>3. device = "key" /\ Unused /\ [BoardNext]_allVars => (device = "key" /\ Unused)'
  BY BoardSteps, GpioSteps DEF Unused, timerVars
<1>4. device # "key" /\ [BoardNext]_allVars => (device # "key")'
  BY BoardSteps
<1>5. device = "key" /\ [BoardNext]_allVars => [KeyPolledNext]_keyPolledVars
  BY GpioSteps
<1>6. device # "key" /\ [BoardNext]_allVars => [TimerLedNext]_timerLedVars
  BY GpioSteps
<1>7. QED
  BY <1>1, <1>2, <1>3, <1>4, <1>5, <1>6, PTL DEF BoardSpec, KeyPolledSpec, TimerLedSpec

(* Every variable of every driver on the board keeps its type.             *)
THEOREM BoardTyping == BoardSpec => []BoardTypeOK
<1>1. IInv => TypeOK
  BY DEF IInv, Typed
<1>2. /\ TypeOK /\ RamdiskTypeOK /\ InputTypeOK /\ IioTypeOK /\ OneWireTypeOK
      /\ (device = "key" /\ KeyPolledTypeOK) \/ (device # "key" /\ TimerLedTypeOK)
      => BoardTypeOK
  BY DEF BoardTypeOK
<1>3. device = "key" \/ device # "key"
  OBVIOUS
<1>4. QED
  BY <1>1, <1>2, <1>3, BoardDrivers, BoardGpio, Invariant, RamdiskTyping, InputTyping, IioTyping,
     OneWireTyping, TimerTyping, KeyTyping, PTL

(* The other invariants of its run, and the abstract disk, hold of it too. *)
THEOREM BoardSafety ==
  BoardSpec =>
    /\ []LeftBehind /\ []InUseIsHeld /\ []LiveIsComplete /\ []TimerStops
    /\ []GpioOwned /\ []TimerStopsWithFile
    /\ []DepthPairs /\ []RestIsCurrent
    /\ []ReportsReal /\ []SamplingEnds
    /\ []BufferGetsData
    /\ ImplementsDisk
<1>1. Unused => TimerStopsWithFile
  BY DEF Unused, TimerStopsWithFile
<1>2. device = "key" \/ device # "key"
  OBVIOUS
<1>3. BoardSpec => []GpioOwned /\ []TimerStopsWithFile
  BY <1>1, <1>2, BoardGpio, KeyOwnership, TimerOwnership, Stopping, PTL
<1>4. BoardSpec => []LeftBehind /\ []InUseIsHeld /\ []LiveIsComplete /\ []TimerStops
  BY BoardDrivers, Tidiness, InUse, Completeness, NoTimerLeft, PTL
<1>5. BoardSpec => []DepthPairs /\ []RestIsCurrent /\ []BufferGetsData
  BY BoardDrivers, Pairing, Currency, BufferFlows, PTL
<1>6. BoardSpec => []ReportsReal /\ []SamplingEnds
  BY BoardDrivers, Reporting, SamplingStops, PTL
<1>7. BoardSpec => ImplementsDisk
  BY BoardDrivers, Refinement, PTL
<1>8. QED
  BY <1>3, <1>4, <1>5, <1>6, <1>7
=============================================================================
