---------------------------- MODULE DriverModule ----------------------------
(***************************************************************************)
(* The life of one driver of src/Linux_Driver, given by its table in       *)
(* DriverTables: it is loaded (insmod, or a bus binds it), acquires its    *)
(* resources one by one while user processes may already open what is      *)
(* visible and interrupts may already arrive, fails and unwinds or goes    *)
(* live, and is taken down again.  The kernel counts the open files of a   *)
(* module: rmmod waits for none and then refuses new ones; a bus that      *)
(* unbinds a driver does neither.  The kernel may refuse any resource, and *)
(* refuses a pin, an interrupt or a name that an earlier life has left     *)
(* behind.  What a driver does that goes on without a resource is not      *)
(* followed.                                                               *)
(***************************************************************************)
EXTENDS DriverTables

CONSTANTS
  Drivers,      \* the tables that may be loaded; one is chosen initially
  MaxLoads,     \* bound: how often the driver is loaded
  MaxFiles      \* bound: files open at a time

VARIABLES
  drv,      \* the driver's table
  phase,    \* "out", "init", "unwind", "live" or "exit"
  todo,     \* what is left of the init steps or of the releases
  held,     \* the resources acquired and not released
  files,    \* how many files are open on the device
  armed,    \* the driver's timer is pending
  loads     \* how often the driver has been loaded

vars == <<drv, phase, todo, held, files, armed, loads>>

Resources == {"map", "gpio", "reset", "irq", "region", "cdev", "class", "device",
              "timer", "input", "client", "registers", "regmap", "memory", "buffer",
              "queue", "iio", "trigger", "registration"}

Steps == [res : Resources \cup {"nothing"}, try : {"checked", "ignored", "certain"},
          undo : Seq(Resources)]

ASSUME BoundsAssumption == MaxLoads \in Nat /\ MaxFiles \in Nat
ASSUME TablesAssumption == \A d \in Drivers : d.init \in Seq(Steps) /\ d.exit \in Seq(Resources)

\* Nobody gets them twice.
Exclusive == {"gpio", "reset", "irq", "cdev", "class", "device"}

Init ==
  /\ drv \in Drivers
  /\ phase = "out"
  /\ todo = <<>>
  /\ held = {}
  /\ files = 0
  /\ armed = FALSE
  /\ loads = 0

TypeOK ==
  /\ drv \in Drivers
  /\ phase \in {"out", "init", "unwind", "live", "exit"}
  /\ held \subseteq Resources
  /\ files \in 0 .. MaxFiles
  /\ armed \in BOOLEAN
  /\ loads \in 0 .. MaxLoads

Load ==
  /\ phase = "out"
  /\ loads < MaxLoads
  /\ loads' = loads + 1
  /\ phase' = "init"
  /\ todo' = drv.init
  /\ UNCHANGED <<drv, held, files, armed>>

Acquire ==
  /\ phase = "init"
  /\ todo # <<>>
  /\ Head(todo).res \notin held \cap Exclusive
  /\ held' = held \cup ({Head(todo).res} \ {"nothing"})
  /\ armed' = (armed \/ (Head(todo).res = "timer" /\ "probe" \in drv.arms))
  /\ todo' = Tail(todo)
  /\ UNCHANGED <<drv, phase, files, loads>>

(* The next resource is refused: unwind, or go on as if nothing was wrong. *)
Refuse ==
  /\ phase = "init"
  /\ todo # <<>>
  /\ Head(todo).try # "certain"
  /\ IF Head(todo).try = "checked"
       THEN phase' = "unwind" /\ todo' = Head(todo).undo
       ELSE todo' = Tail(todo) /\ UNCHANGED phase
  /\ UNCHANGED <<drv, held, files, armed, loads>>

GoLive ==
  /\ phase = "init"
  /\ todo = <<>>
  /\ phase' = "live"
  /\ UNCHANGED <<drv, todo, held, files, armed, loads>>

\* A module that may be unloaded while its files are open.
UnloadInUse ==
  /\ phase = "live"
  /\ phase' = "exit"
  /\ todo' = drv.exit
  /\ UNCHANGED <<drv, held, files, armed, loads>>

Unload ==
  /\ phase = "live"
  /\ files = 0 \/ drv.bound
  /\ phase' = "exit"
  /\ todo' = drv.exit
  /\ UNCHANGED <<drv, held, files, armed, loads>>

(* One release of the ladder or of exit; del_timer_sync also disarms. *)
ReleaseNext ==
  /\ phase \in {"unwind", "exit"}
  /\ todo # <<>>
  /\ held' = held \ {Head(todo)}
  /\ armed' = (armed /\ Head(todo) # "timer")
  /\ todo' = Tail(todo)
  /\ UNCHANGED <<drv, phase, files, loads>>

Gone ==
  /\ phase \in {"unwind", "exit"}
  /\ todo = <<>>
  /\ phase' = "out"
  /\ UNCHANGED <<drv, todo, held, files, armed, loads>>

(***************************************************************************)
(* Meanwhile                                                               *)
(***************************************************************************)
Open ==
  /\ files < MaxFiles
  /\ drv.nodes \subseteq held
  /\ phase # "exit" \/ drv.bound
  /\ files' = files + 1
  /\ UNCHANGED <<drv, phase, todo, held, armed, loads>>

\* A release that runs again for a file that is closed.
CloseAgain ==
  /\ files' = files - 1
  /\ UNCHANGED <<drv, phase, todo, held, armed, loads>>

Close ==
  /\ files > 0
  /\ files' = files - 1
  /\ armed' = (armed /\ ~drv.stops)
  /\ UNCHANGED <<drv, phase, todo, held, loads>>

(* The interrupt, or an ioctl, starts the timer. *)
Arm ==
  /\ ~armed
  /\ \/ "irq" \in drv.arms /\ "irq" \in held
     \/ "file" \in drv.arms /\ files > 0
  /\ armed' = TRUE
  /\ UNCHANGED <<drv, phase, todo, held, files, loads>>

(* The timer function of 12_timer starts the timer again. *)
Expire ==
  /\ armed
  /\ armed' = ("self" \in drv.arms)
  /\ UNCHANGED <<drv, phase, todo, held, files, loads>>

Next ==
  \/ Load \/ Acquire \/ Refuse \/ GoLive
  \/ Unload \/ ReleaseNext \/ Gone
  \/ Open \/ Close \/ Arm \/ Expire

Spec == Init /\ [][Next]_vars

-----------------------------------------------------------------------------
(* What stays behind when a driver failed to load or was taken down makes  *)
(* the next load fail (blockio.c:291, the label destroy_class).            *)
NoLeak == phase = "out" => held = {}

(* No timer outlives the driver whose function it would call (blockio.c:313).  *)
TimerGone == phase = "out" => ~armed

(* The drivers that release, on every failure path and in exit, what they  *)
(* acquired: 01 to 06, 13, 17 to 19, 22 and 23.                            *)
Tidy == {Chrdevbase, Led, NewchrLed, DtsLed, GpioLed, Beep, KeyIrqDriver,
         PlatformLed, DtsPlatformLed, MiscBeep, Icm20608, Gt9147, Ft5426}

(* The drivers whose label destroy_class destroys the node instead: 07 to  *)
(* 12, 14 to 16, 21 and 30.                                                *)
ClassKept == {Atomic, Spinlock, Semaphore, Mutex, Key, Timer, BlockIo, NoBlockIo, AsyncNoti,
              Ap3216c, RegmapAp3216c, RegmapIcm20608}

(* The tidy drivers leave nothing behind, however far the init came,       *)
(* whatever the kernel refused and whoever has the device open; the others *)
(* what one forgotten release leaves, and no more: the class, the gpio     *)
(* (keyinput.c:70) or the input device (130) of 20, the device structure   *)
(* of 26 and 27 (ramdisk.c:207), the regmap of 31, the timer of 34 and 35. *)
LeftBehind ==
  phase = "out" =>
    /\ drv \in Tidy => held = {}
    /\ drv \in ClassKept => held \subseteq {"class"}
    /\ drv = KeyInput => held \subseteq {"gpio", "input"}
    /\ drv \in {RamRequest, RamBio} => held \subseteq {"memory"}
    /\ drv \in {IioIcm20608, IioAp3216c} => held \subseteq {"regmap"}
    /\ drv \in {Ds18b20, Dht11} => held \subseteq {"timer"}

(* The drivers whose files only a module reference guards: 02 to 10.       *)
Guarded == {Led, NewchrLed, DtsLed, GpioLed, Beep, Atomic, Spinlock, Semaphore, Mutex}

(* What is in use is there, from the moment the device can be opened or    *)
(* the interrupt can come, through failure and removal, to the end: what   *)
(* the operations of open files touch, for the drivers above               *)
(* (gpioled.c:130-184), and what the interrupt handler touches, for 23,    *)
(* which initialises the interrupt last (gt9147.c:334).                    *)
InUseIsHeld ==
  /\ drv \in Guarded /\ files > 0 => drv.uses \subseteq held
  /\ drv = Gt9147 /\ "irq" \in held => drv.serves \subseteq held

(* The drivers that check every result: all but 01, 05, 09 to 11, 20, 22,  *)
(* GT9147, 26, 27 and the ICM20608 of 31.                                  *)
Diligent == {Led, NewchrLed, DtsLed, Beep, Atomic, Spinlock, Timer, KeyIrqDriver, BlockIo,
             NoBlockIo, AsyncNoti, PlatformLed, DtsPlatformLed, MiscBeep, Ap3216c,
             RegmapAp3216c, RegmapIcm20608, Ft5426, IioAp3216c, Ds18b20, Dht11}

(* When they report success they have acquired everything they asked for.  *)
LiveIsComplete ==
  drv \in Diligent /\ phase = "live" =>
    \A i \in 1 .. Len(drv.init) : drv.init[i].res \in held \cup {"nothing"}

(* 12_timer stops its ioctl, and 20_input its interrupt, before they       *)
(* delete the timer, so that none survives them (keyinput.c:152-154).      *)
TimerStops == drv \in {Timer, KeyInput} => TimerGone
=============================================================================
