------------------------------ MODULE MCDrivers ------------------------------
(***************************************************************************)
(* Small instances of the drivers that share no state: a board on which    *)
(* one of them is at work.  "module" stands for the life of any driver,    *)
(* the others for the running drivers: "ramdisk" 26 and 27, "key" 11,      *)
(* "timer" 12, "input" 20, "iio" 31, "onewire" 34 and 35.  The variables   *)
(* of those that are not at work keep one of their initial values.         *)
(***************************************************************************)
EXTENDS DriverModule, Ramdisk, KeyPolled, TimerLed, InputKey, IioSensor, OneWire

CONSTANT Devices  \* what may be at work

VARIABLE device

moduleVars == vars
allVars == <<device, moduleVars, ramdiskVars, gpioFileVars, up, keyvalue, timerVars,
             inputVars, iioVars, oneWireVars>>

BoardInit ==
  /\ device \in Devices
  /\ Init
  /\ RamdiskInit /\ KeyPolledInit /\ TimerLedInit /\ InputInit /\ IioInit /\ OneWireInit
  /\ device = "module" \/ drv = Led
  /\ device = "ramdisk" \/ queue = "bio"
  /\ device = "key" \/ up
  /\ device = "input" \/ level = 1
  /\ device = "onewire" \/ sensor = "dht11"

BoardNext ==
  \/ /\ device = "module" /\ Next
     /\ UNCHANGED <<device, ramdiskVars, gpioFileVars, up, keyvalue, timerVars,
                    inputVars, iioVars, oneWireVars>>
  \/ /\ device = "ramdisk" /\ RamdiskNext
     /\ UNCHANGED <<device, moduleVars, gpioFileVars, up, keyvalue, timerVars,
                    inputVars, iioVars, oneWireVars>>
  \/ /\ device = "key" /\ KeyPolledNext
     /\ UNCHANGED <<device, moduleVars, ramdiskVars, timerVars, inputVars, iioVars, oneWireVars>>
  \/ /\ device = "timer" /\ TimerLedNext
     /\ UNCHANGED <<device, moduleVars, ramdiskVars, up, keyvalue, inputVars, iioVars, oneWireVars>>
  \/ /\ device = "input" /\ InputNext
     /\ UNCHANGED <<device, moduleVars, ramdiskVars, gpioFileVars, up, keyvalue, timerVars,
                    iioVars, oneWireVars>>
  \/ /\ device = "iio" /\ IioNext
     /\ UNCHANGED <<device, moduleVars, ramdiskVars, gpioFileVars, up, keyvalue, timerVars,
                    inputVars, oneWireVars>>
  \/ /\ device = "onewire" /\ OneWireNext
     /\ UNCHANGED <<device, moduleVars, ramdiskVars, gpioFileVars, up, keyvalue, timerVars,
                    inputVars, iioVars>>

BoardSpec == BoardInit /\ [][BoardNext]_allVars

(* Timers expire, and what an expiry, an interrupt or a queued work item   *)
(* has begun goes on; nobody has to press, to call or to load.             *)
BoardFairness ==
  /\ WF_timerLedVars(FnExpire) /\ WF_timerLedVars(TimerFunction)
  /\ WF_inputVars(InputServe)
  /\ WF_oneWireVars(Work) /\ WF_oneWireVars(SampleExpire) /\ WF_oneWireVars(TickQueue \/ TickRestart)

FairBoardSpec == BoardSpec /\ BoardFairness

(* Every variable of each driver keeps its type (the struct of its device).  *)
BoardTypeOK ==
  /\ TypeOK
  /\ RamdiskTypeOK
  /\ KeyPolledTypeOK \/ device # "key"
  /\ TimerLedTypeOK \/ device = "key"
  /\ InputTypeOK
  /\ IioTypeOK
  /\ OneWireTypeOK

-----------------------------------------------------------------------------
AllDrivers ==
  Tidy \cup Guarded \cup Diligent
    \cup {Key, KeyInput, Icm20608, RamRequest, RamBio, IioIcm20608}
OnlyBlockIo == {BlockIo}
OneDriver == {Led}

AllDevices == {"module", "ramdisk", "key", "timer", "input", "iio", "onewire"}
OnlyModule == {"module"}
OnlyRamdisk == {"ramdisk"}
OnlyIio == {"iio"}
OnlyOneWire == {"onewire"}

(* Degrees above and below zero, a line that falls silent before or after  *)
(* the first byte, and two frames of DHT11, one of them at zero degrees.   *)
WarmAndCold == {401, -162}
SilentLine == {<<255, 255>>, <<145, 255>>}
TwoFrames == {<<20, 0, 0, 0>>, <<40, 0, 25, 0>>}
=============================================================================
