---------------------------- MODULE DriverTables ----------------------------
(***************************************************************************)
(* How each driver sets itself up and takes itself down, one record per    *)
(* driver, read off its init (or probe) and exit (or remove) function:     *)
(*   init   the resources in the order in which they are acquired; each    *)
(*          step says whether its failure is checked and which releases    *)
(*          run, in which order, when it fails (the goto ladder)           *)
(*   exit   the resources in the order in which they are released          *)
(*   nodes  the resources that together make the device openable           *)
(*   uses   what the file operations touch                                 *)
(*   serves what the interrupt handler touches                             *)
(*   arms   what starts the driver's timer: its interrupt, an ioctl, the   *)
(*          timer function itself, or probe when it sets it up             *)
(*   stops  TRUE if closing a file deletes the timer                       *)
(*   bound  TRUE if a bus may unbind it while its files are open           *)
(* Parsing the device tree comes first and holds nothing; ioremap, which   *)
(* no driver checks, is taken to succeed.  What probe asks for with devm_  *)
(* the driver core releases in the reverse order, after a probe that fails *)
(* and after remove; it is part of the ladders and of exit.                *)
(***************************************************************************)
EXTENDS Naturals, Sequences

Checked(r, ladder) == [res |-> r, try |-> "checked", undo |-> ladder]
Ignored(r)         == [res |-> r, try |-> "ignored", undo |-> <<>>]
Certain(r)         == [res |-> r, try |-> "certain", undo |-> <<>>]
Test(ladder)       == Checked("nothing", ladder)

From(ladder, k) == SubSeq(ladder, k, Len(ladder))

(* Number, cdev, class and node, with the ladder destroy_class, del_cdev,  *)
(* del_unregister and what follows it.                                     *)
CharDev(ladder) ==
  << Checked("region", From(ladder, 4)), Checked("cdev", From(ladder, 3)),
     Checked("class", From(ladder, 2)), Checked("device", ladder) >>

(* The same where the result of cdev_add is thrown away. *)
CharDevUnchecked(ladder) ==
  << Checked("region", From(ladder, 4)), Ignored("cdev"),
     Checked("class", From(ladder, 2)), Checked("device", ladder) >>

Nodes == {"cdev", "device"}
DownCharDev == <<"cdev", "region", "device", "class">>

Plain(init, exit, nodes, uses) ==
  [ init |-> init, exit |-> exit, nodes |-> nodes, uses |-> uses,
    serves |-> {}, arms |-> {}, stops |-> FALSE, bound |-> FALSE ]

(* Drivers bound to a device of a bus: platform, I2C and SPI.              *)
Bound(d) == [d EXCEPT !.bound = TRUE]

-----------------------------------------------------------------------------
(* 02_led: register_chrdev is the number and the cdev in one. *)
Led ==
  Plain(<<Certain("map"), Checked("cdev", <<"map">>)>>, <<"map", "cdev">>, {"cdev"}, {"map"})

\* A ladder that destroys the node again instead of the class.
NewchrLedTwice ==
  Plain(<<Certain("map")>> \o CharDev(<<"device", "cdev", "region", "map">>),
        <<"map">> \o DownCharDev, Nodes, {"map"})

(* 03_newchrled *)
NewchrLed ==
  Plain(<<Certain("map")>> \o CharDev(<<"class", "cdev", "region", "map">>),
        <<"map">> \o DownCharDev, Nodes, {"map"})

\* An init that throws the result of cdev_add away.
DtsLedUnchecked ==
  Plain(<<Certain("map")>> \o CharDevUnchecked(<<"class", "cdev", "region", "map">>),
        <<"map">> \o DownCharDev, Nodes, {"map"})

(* 04_dtsled *)
DtsLed ==
  Plain(<<Certain("map")>> \o CharDev(<<"class", "cdev", "region", "map">>),
        <<"map">> \o DownCharDev, Nodes, {"map"})

(* 05_gpioled *)
GpioLed ==
  Plain(<<Checked("gpio", <<>>)>> \o CharDevUnchecked(<<"class", "cdev", "region", "gpio">>),
        DownCharDev \o <<"gpio">>, Nodes, {"gpio"})

(* 06_beep *)
Beep ==
  Plain(<<Checked("gpio", <<>>)>> \o CharDev(<<"class", "cdev", "region", "gpio">>),
        DownCharDev \o <<"gpio">>, Nodes, {"gpio"})

(* 07_atomic, 08_spinlock: the label destroy_class destroys the node.      *)
Atomic ==
  Plain(<<Checked("gpio", <<>>)>> \o CharDev(<<"device", "cdev", "region", "gpio">>),
        DownCharDev \o <<"gpio">>, Nodes, {"gpio"})
Spinlock == Atomic

(* 09_semaphore, 10_mutex *)
Semaphore ==
  Plain(<<Checked("gpio", <<>>)>> \o CharDevUnchecked(<<"device", "cdev", "region", "gpio">>),
        DownCharDev \o <<"gpio">>, Nodes, {"gpio"})
Mutex == Semaphore

(* 11_key: open requests the gpio. *)
Key ==
  Plain(CharDevUnchecked(<<"device", "cdev", "region">>), DownCharDev, Nodes, {})

(* 12_timer: ioctl starts the timer, the timer function starts it again,   *)
(* and led_release deletes it.                                             *)
Timer ==
  [Plain(CharDev(<<"device", "cdev", "region">>) \o <<Certain("timer")>>,
         <<"timer">> \o DownCharDev, Nodes, {"timer"})
    EXCEPT !.arms = {"file", "self"}, !.stops = TRUE]

KeyExit == <<"cdev", "region", "timer", "device", "class", "irq", "gpio">>

(* The interrupt starts the timer.                                         *)
KeyDriver(ladder) ==
  [Plain(<<Checked("gpio", <<>>), Checked("irq", <<"gpio">>)>>
           \o CharDev(ladder) \o <<Certain("timer")>>,
         KeyExit, Nodes, {})
    EXCEPT !.serves = {"timer"}, !.arms = {"irq"}]

(* 13_irq; 14_blockio, 15_noblockio and 16_asyncnoti *)
KeyIrqDriver == KeyDriver(<<"class", "cdev", "region", "irq", "gpio">>)
BlockIo      == KeyDriver(<<"device", "cdev", "region", "irq", "gpio">>)
NoBlockIo    == KeyDriver(<<"device", "cdev", "region", "irq", "gpio">>)
AsyncNoti    == KeyDriver(<<"device", "cdev", "region", "irq", "gpio">>)

-----------------------------------------------------------------------------
(* 17_platform *)
PlatformLed ==
  Bound(Plain(<<Certain("map")>> \o CharDev(<<"class", "cdev", "region", "map">>),
              <<"map">> \o DownCharDev, Nodes, {"map"}))

(* 18_dtsplatform *)
DtsPlatformLed ==
  Bound(Plain(<<Checked("gpio", <<>>)>> \o CharDev(<<"class", "cdev", "region", "gpio">>),
              <<"gpio">> \o DownCharDev, Nodes, {"gpio"}))

(* 19_miscbeep: misc_register makes the node. *)
MiscBeep ==
  Bound(Plain(<<Checked("gpio", <<>>), Checked("device", <<"gpio">>)>>,
              <<"gpio", "device">>, {"device"}, {"gpio"}))

(* 20_input: a failure to parse the interrupt, after the gpio, releases    *)
(* nothing; input_allocate_device is not checked; a failure to register    *)
(* the input device does not free it.                                      *)
InputProbe ==
  << Checked("gpio", <<>>), Test(<<>>), Checked("irq", <<"gpio">>), Certain("timer"),
     Ignored("input"), Checked("device", <<"irq", "gpio", "timer">>) >>
InputDriver(exit) ==
  Bound([Plain(InputProbe, exit, {"device"}, {})
          EXCEPT !.serves = {"timer"}, !.arms = {"irq"}])

\* A remove that deletes the timer before the interrupt that starts it.
KeyInputTimerFirst == InputDriver(<<"timer", "irq", "gpio", "device", "input">>)

KeyInput == InputDriver(<<"irq", "gpio", "timer", "device", "input">>)

(* 21_iic: open and read use the client, stored last in memory that goes   *)
(* back (devm_kzalloc) when remove has returned.                           *)
Ap3216c ==
  Bound(Plain(CharDev(<<"device", "cdev", "region">>) \o <<Certain("client")>>,
              DownCharDev \o <<"client">>, Nodes, {"client"}))

(* 22_spi: neither the number nor the cdev is checked; the device is set   *)
(* up (reginit) after it can be opened.                                    *)
Icm20608 ==
  LET ladder == <<"device", "class", "cdev", "region">>
  IN  Bound(Plain(<< Ignored("region"), Ignored("cdev"), Checked("class", From(ladder, 2)),
                     Checked("device", ladder), Certain("registers") >>,
                  DownCharDev \o <<"registers">>, Nodes, {"registers"}))

(* 30_regmap, iic and spi *)
RegmapAp3216c ==
  Bound(Plain(<<Checked("regmap", <<>>)>> \o CharDev(<<"device", "cdev", "region", "regmap">>),
              DownCharDev \o <<"regmap">>, Nodes, {"regmap"}))
RegmapIcm20608 ==
  LET ladder == <<"device", "cdev", "region", "regmap">>
  IN  Bound(Plain(<<Checked("regmap", <<>>)>> \o CharDev(ladder) \o <<Certain("registers")>>,
                  DownCharDev \o <<"regmap", "registers">>, Nodes, {"regmap", "registers"}))

-----------------------------------------------------------------------------
(* 01_chrdevbase: as 02, but the init reports success in any case.         *)
Chrdevbase == Plain(<<Ignored("cdev")>>, <<"cdev">>, {"cdev"}, {})

(* 26, 27: without memory for the disk the device structure is forgotten.  *)
RamMemory(ladder) ==
  <<Checked("memory", <<>>), Checked("buffer", <<>>), Checked("region", From(ladder, 3))>>
RamExit == <<"device", "queue", "region", "buffer", "memory">>

(* 26_ramdisk_withrequest: a queue that failed is an error pointer, and    *)
(* only tested for NULL.                                                   *)
RamRequest ==
  LET ladder == <<"queue", "region", "buffer", "memory">>
  IN  Plain(RamMemory(ladder) \o <<Ignored("queue"), Checked("device", ladder)>>,
            RamExit, {"device"}, {"buffer", "queue"})

(* 27_ramdisk_norequest: neither the queue nor the disk is checked.        *)
RamBio ==
  LET ladder == <<"queue", "region", "buffer", "memory">>
  IN  Plain(RamMemory(ladder) \o <<Ignored("queue"), Ignored("device")>>,
            RamExit, {"device"}, {"buffer", "queue"})

(* 23_multitouch: gt9147_probe keeps results in a u8, which is never       *)
(* negative; the interrupt comes last.                                     *)
TouchDriver(init, exit) == Bound([Plain(init, exit, {"device"}, {}) EXCEPT !.serves = {"input"}])

\* A probe that requests the interrupt before the input device it reports to.
Gt9147IrqFirst ==
  LET down == <<"input", "irq", "gpio">>
  IN  TouchDriver(<< Ignored("gpio"), Ignored("irq"), Checked("input", From(down, 2)),
                     Test(down), Checked("device", down) >>,
                  <<"device">> \o down)

Gt9147 ==
  LET down == <<"input", "gpio">>
  IN  TouchDriver(<< Ignored("gpio"), Checked("input", From(down, 2)), Test(down),
                     Checked("device", down), Ignored("irq") >>,
                  <<"device", "irq">> \o down)

(* ft5x06.c requests it before the input device, which then goes first.    *)
Ft5426 ==
  LET down == <<"input", "irq", "gpio", "reset", "memory">>
  IN  TouchDriver(<< Checked("memory", <<>>), Checked("reset", From(down, 5)),
                     Checked("gpio", From(down, 4)), Checked("irq", From(down, 3)),
                     Checked("input", From(down, 2)), Test(down), Checked("device", down) >>,
                  <<"device">> \o down)

(* 31_iio: every error path unregisters the device, which is not there,    *)
(* and does not release the regmap; remove releases that before the        *)
(* device; the chip is set up after the device is there.                   *)
IioIcm20608 ==
  LET down == <<"buffer", "irq", "registration", "trigger", "iio">>
  IN  Bound([Plain(<< Checked("iio", <<>>), Checked("regmap", <<"device", "iio">>),
                      Ignored("buffer"), Checked("trigger", <<"device", "buffer", "iio">>),
                      Ignored("registration"), Ignored("irq"),
                      Checked("device", <<"device">> \o down), Certain("registers") >>,
                   <<"regmap", "device", "registers">> \o down,
                   {"device"}, {"regmap", "registers"})
              EXCEPT !.serves = {"trigger"}])
IioAp3216c ==
  Bound(Plain(<< Checked("iio", <<>>), Checked("regmap", <<"device", "iio">>),
                 Checked("device", <<"device", "iio">>), Certain("registers") >>,
              <<"regmap", "device", "registers", "iio">>,
              {"device"}, {"regmap", "registers"}))

(* 34_ds18b20, 35_dht11: when misc_register fails the timer goes on.       *)
OneWireDriver ==
  Bound([Plain(<<Checked("gpio", <<>>), Certain("timer"), Checked("device", <<"gpio">>)>>,
               <<"device", "timer", "gpio">>, {"device"}, {})
          EXCEPT !.arms = {"probe", "self"}])
Ds18b20 == OneWireDriver
Dht11 == OneWireDriver
=============================================================================
