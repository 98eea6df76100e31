# Models of the STM32MP157 Linux drivers

`src/Linux_Driver` is a course of Linux kernel drivers, one directory per lesson, most
with an application that uses the device. The drivers are short, and nearly all that can
go wrong in them is concurrency and failure: processes, an interrupt, a timer function
and the module loader meet in a handful of shared variables. This directory models them
in TLA+, checks small instances with TLC and proves the central results with TLAPS.

## 1. The system

### Parts, their state, operations and interactions

| Part | State | Operations | Meets |
|---|---|---|---|
| 02-06 LED, beeper | mapped registers or a gpio; char device | open, write, release; init, exit | several writers on one register; module loader |
| 07 atomic, 08 spinlock, 09 semaphore, 10 mutex | gpio level; `lock`, or `dev_stats` under a spinlock, or a semaphore, or a mutex | open (granted, refused, waits, interrupted), write, release; init, exit | processes that share descriptors; signals |
| 11 key (polled) | gpio, atomic `keyval` | open requests the gpio, read, release | several openers |
| 12 timer | `timeperiod` under a spinlock, the timer, the gpio | open, ioctl (open, close, period), release, timer function | ioctl against the timer function against release |
| 13 irq | `status` under a spinlock; timer; `last_val` | interrupt, timer function, read | interrupt, timer and readers |
| 14 blockio, 15 noblockio, 16 asyncnoti | atomic `status`, no lock; `r_wait`; `async_queue`; timer | the same, with wait queue, poll, fasync, release | interrupt, timer, blocked readers, `select`, SIGIO handlers |
| 17, 18 platform; 19 misc; 20 input | as 02, 05, 06; 20: interrupt disabled by its handler, enabled by the timer function | probe, remove | bus unbinds while files are open |
| 21 I2C, 22 SPI, 30 regmap (AP3216C, ICM20608) | registers of the chip, one sample buffer per device | open resets the chip, read transfers, probe, remove | concurrent readers; unbinding |
| 23 touch (GT9147, FT5x06) | touch slots | threaded interrupt, probe, remove | the interrupt against probe |
| 26, 27 RAM disk | memory of the disk, a spinlock, request queue | request of several segments, bio | requests and bios under way at a time |
| 31 IIO | mutex, registers, buffer, interrupt enable | raw read and write, trigger, buffer on and off | direct mode against the buffer, reset of the chip |
| 34 DS18B20, 35 DHT11 | one-wire line, last sample, timer, work item | timer function, work item, read, probe, remove | timer, work, readers and remove, without a lock |
| 01 chrdevbase | two buffers | read, write | |
| 32, 33 applications | none | read and write sysfs files | |
| 24, 25, 28, 29, 36, edt-ft5x06, RPMsg, documents | third-party code and papers kept in the tree | | |

The kernel (spinlock, semaphore, mutex, wait queue, signals, timers, module references) is
not in the tree. It is modelled from how the drivers use it, and marked external in
`PROJECT.json` where a definition stands for kernel code alone.

### What is hard, and what makes each part correct

* **Keys 13-16.** The interrupt may come while the timer function is pending or runs; readers
  race with the timer function for `status`. Correct: no process gets an event twice or out of
  order; an event is read unless a later sample replaces it (13) or, without the lock (14-16), the
  reset of an earlier read destroys it; nobody sleeps through an event; a subscriber's last signal
  stands; entries in the wait queue and the fasync list do not outlive the wait and the file; the
  debounced value catches up with the key.
* **LEDs 07-10.** Correct: at most one open file, whoever opens, is refused, is interrupted
  and whoever drops the last reference; what the driver counts agrees with it; open returns.
* **A gpio per open, 11 and 12.** The gpio is requested in open and freed in release, and the
  failed second open has already written to shared state. Correct: the gpio belongs to the one
  open file; the timer, which starts itself, ends with it; the period set last comes to hold.
* **Input, 20.** The handler disables its own interrupt and the timer function enables it, while
  probe and remove come and go. Correct: disables and enables pair up, the interrupt comes back,
  and at rest the reported level is the real one.
* **RAM disks, 26 and 27.** Several transfers at a time, copied segment by segment. Correct: each
  looks like one step between its submission and its end, and the end means all of it.
* **One-wire, 34 and 35.** Timer, work item and reader share a sample without a lock, bytes time
  out or are garbled. Correct: what an application prints is one measurement; sampling goes on,
  and ends with remove.
* **IIO, 31.** Correct: a buffer that is on is fed; a channel is read in direct mode only.
* **Set-up and tear-down of all drivers.** Each step of an init can fail, an interrupt or an
  open may arrive between any two steps. Correct: a failed or finished driver leaves nothing
  behind, open files never touch what is gone, success means complete, no timer survives.

The hazards are listed with their source lines in `PROJECT.json`; those no property covers
yet say why.

## 2. The modules

```
KeyLine ----- KeyIrq ------ KeyIrqProofs ------ MCKeyIrq                  13
   |             :
   |        KeyMailbox  (abstract: one-cell mailbox)
   +--------- KeyEvents --- KeyEventsProofs                               14, 15, 16
                  +-------- MCKeyEvents

LedFile --+-- AtomicLed --+                                               07
          +-- SpinLed ----+                                               08
          +-- SemLed -----+-- LedDevice -- LedDeviceProofs -- MCLedDevice
          +-- MutexLed ---+       :                                       09, 10
                            ExclusiveOpen  (abstract: device open at most once)

DriverTables -- DriverModule ---------+  DriverModuleProofs      load, unload: all
Ramdisk (: Disk, abstract) -----------+  RamdiskProofs                    26, 27
GpioFile -+- KeyPolled ---------------+  GpioProofs                       11
          +- TimerLed ----------------+     "                             12
InputKey -----------------------------+     "                             20
IioSensor ----------------------------+  SensorProofs                     31
OneWire ------------------------------+     "                             34, 35
                                  MCDrivers -- BoardProofs                all of these
```

* **KeyLine**: the key, the latched interrupt, the debounce timer, and the sample with its
  three-way classification. Time is abstracted: a pending timer may expire at any moment and
  re-arming it leaves it pending, so that every spacing of edges and expiries is covered (the
  15 ms are one of them).
* **KeyIrq** (13): every lock, copy, store and unlock of `key_timer_function` and `key_read`
  is a step of its own. Ghosts number the events, so that "the same event twice" can be said.
  **KeyMailbox** is what it promises: one cell, in which a sample replaces the value and a
  read takes it in one step. `ImplementsMailbox` is the refinement, with `cell <- status`.
* **KeyEvents** (14-16): `status` without a lock; `wait_event_interruptible` as its steps
  (test, queue up, test again, sleep, wake); `key_poll` in `select`; `kill_fasync` and a SIGIO
  handler; `fcntl`, close and other signals. `app` says which application each process runs,
  so that 14 is the case of blockioApp alone, 15 adds noblockioApp, 16 adds asyncnotiApp. A
  bad buffer is a copy that fails; the number `read` returns is left out.
* **LedFile**: open, write, close and sharing (fork, passed descriptors) of files by processes
  around the driver. The kernel calls `led_release` once, in whichever process drops the last
  reference. **AtomicLed, SpinLed, SemLed, MutexLed** are the guards in `led_open` and
  `led_release`, one atomic operation or one locked line per step. **LedDevice** puts them
  together; `guard` is the driver that is loaded. **ExclusiveOpen** is what all four promise.
* **DriverTables**: one record per driver: the order of its acquisitions, which failures are
  checked, the goto ladder of each, the order of exit, what makes the device openable, what
  its files touch and what may start its timer. **DriverModule** runs such a record: load,
  each step succeeding or failing, unwinding, use, unloading (a module with open files cannot
  be unloaded, a bus unbinds regardless), interrupts and timer expiries in between, loading
  again. A resource left behind makes its next acquisition fail, as in the kernel.
* **GpioFile**: open, sharing and release of a file whose gpio is requested in open. On it,
  **KeyPolled** (11) reads a key in a busy loop, and **TimerLed** (12) has the three ioctls, each
  cut where it takes or drops the spinlock, the timer function with its three steps, and
  release: LED dark, gpio freed, timer deleted, in the order of the code. A pending timer keeps
  the period it was started with.
* **InputKey** (20): the interrupt with its disable depth and latch, the debounce timer, and the
  steps of probe and remove between which they may strike. What uses a timer or an input device
  that is not set up crashes; the board then boots again.
* **Ramdisk** (26, 27): submit, take the lock, copy a segment, end. A block is abstracted to the
  transfer that wrote it last, so that a mixture of two transfers can be seen. **Disk** is what
  both promise: a transfer is served in one step. `ImplementsDisk` is the refinement.
* **OneWire** (34, 35): probe and remove, the timer function that queues the work item and starts
  the timer again, the work item that measures and stores the sample in two pieces, and an
  application that copies it in two. The line is abstracted to what a measurement yields: for
  DHT11 any set of the five bytes may time out, and then reads as -EINVAL in eight bits; DS18B20
  may give any bytes of `Garbled` instead of what was measured, 0xFF from a sensor that falls
  silent, since its checksum is not read. `Used` is what the applications test before they
  print; the conversion of ds18b20App.c is modelled with its widths.
* **IioSensor** (31): clients that switch the buffer on and off (the IIO core, external) and read
  or set channels, the mutex, the mode, the reset of the chip after the device is registered.
* **MCDrivers** puts the drivers that share no state side by side: `device` says which of them is
  at work, the others keep their initial values. A behaviour is a behaviour of one of them, so
  that one run and one bound serves them all without multiplying their states.

## 3. The runs

| Run | Shows | Bounds |
|---|---|---|
| MCKeyIrq | types, mutual exclusion, newest event or none, taken once and gone, debounce at rest, the mailbox refinement, `Debounced`, and the inductive invariant of the proofs | 2 readers, 4 edges: two presses with their releases |
| MCKeyEvents | no lost wake-up, no lost signal, no dangling entry, events in order | 2 processes of any application, 3 edges |
| MCKeyEventsLive | an unread event is returned to a read under way, or to a signalled subscriber, unless a later sample or the reset of an earlier read overwrites it or the buffer is bad; select ends while an event is unread | 2 processes, 2 edges, no other signal |
| MCLedDevice | at most one file open, the accounts of each guard, the refinement of ExclusiveOpen, a spinlock refusal only when busy, and the inductive invariant | 3 processes, 3 files, 2 descriptors each, all may share |
| MCLedLive | every open returns | 3 processes, 2 files, no sharing |
| MCDrivers | what each driver leaves behind (thirteen nothing, the others one forgotten resource), which are safe for their files, are complete when live, stop their timer; the gpio has one owner (11, 12), the timer stops with the file and the period catches up (12); disables pair up, the level is current, the interrupt returns (20); the disks are atomic on what a transfer reaches (26, 27); what is printed is one measurement, sampling goes on, and ends unless remove met the timer function (34, 35); a buffer is fed (31) | all drivers, 2 loads, 2 files; 2 users, 2 periods; 2 transfers of up to 2 segments on 3 blocks, requests and bios; 3 clients; 2 temperatures, one below zero; 2 garbled pairs; 2 frames |
| MCKeyHandler, MCModuleLeak, MCModuleLate, MCRamdiskMerged, MCBelowZero, MCIioDirect | disagreements, section 5 | the same, for the one driver each is about |

Why the bounds are enough: two readers and the timer function are all the parties of a race for
one status, and a press, a release and a press suffice for an event to be superseded by one of the
same kind. Three processes let one hold the device, one be inside a refused open and one come in
between. Two loads show what the first one left behind. Two overlapping transfers on three blocks
let each meet the other between two of its segments, and leave a block that is neither's. Three
clients let one switch a buffer, one read, and one release the mutex of the first. The line of
DS18B20 falls silent before the first byte (which the application skips) or after it (which it
does not notice). The two frames of DHT11 contain one whose sum exceeds a byte only after a
timeout, and one with zeros, the case in which a lost byte is hardest to tell. Every mutant in
`PROJECT.json`, a plausible slip in one definition, is caught within these bounds.

`CHECK_DEADLOCK FALSE` stands where the bound stops the system: after the last load of a
driver, and when the edges are used up and every process sleeps (with no other signal).

### Fairness

* KeyIrq: interrupt, expired timer, running timer function and a read under way go on (weak);
  a contended spinlock is granted in the end to one that keeps asking (strong: Arm's spinlocks
  are first come first served). Nobody has to press or to read.
* KeyEvents: timer function and system calls go on; a process that `select` told to read
  reads, and a pending SIGIO runs its handler. Reading in a loop is not assumed.
* MCDrivers: timers expire, the timer functions of 12, 20, 34 and 35 go on once they run, a
  pending interrupt and a queued work item are served (all weak: the kernel runs them without
  waiting for anything). Nobody has to press, to call, to load or to submit.
* LedDevice: system calls go on; spinlock and mutex are granted in the end (strong; the mutex
  hands over after a failed attempt); an application closes the device in the end, as all of
  them do after their 25 seconds. Nobody has to open or to be signalled. A process with two
  descriptors could wait for itself, so MCLedLive gives each one.

## 4. What is proved

All theorems are checked by TLAPS, for every number of edges, readers, processes, files, users,
clients, transfers and blocks (processes of LedDevice finite). They assume the named assumptions
on the constants, which TLC evaluates in the runs, and nothing else; the three results that hold
for a part of the inputs only (`WholeTransfers`, `WholeRefinement`, `ShownAboveZero`) say so in
their statements. Every safety property that a passing run checks is a theorem.

* **KeyIrqProofs**: `Typing`, `MutualExclusion`, `LatestEvent`, `AtMostOnce`, `Gone`,
  `Debouncing` and `Refinement` (keyirq.c implements the mailbox). The properties are not
  inductive: `IInv` adds what is true inside the critical sections. `Copied` says that an event
  which a reader has copied and not yet reset is the one still in `status`, which the lock
  guarantees; `InFlight` relates the sample that the timer function carries to the line. In the
  refinement the reset is the step that takes, every other step of `key_read` stutters.
* **LedDeviceProofs**: `Typing`, `Exclusiveness`, `Accounting`, `Refinement`, `Refusals` and
  `AtomicRefusals`, for the four drivers at once. `FileInv` says what reference counting gives: a
  file in open or release has no descriptor and is in no other call, hence is released once. To it
  `IInv` adds the account of the loaded driver: for 07 the counter is 1 minus the open file minus
  the refused openers that have not given their decrement back (by cardinalities, so a counter of
  0 after the decrement means there was neither); for 08 who is inside holds the spinlock,
  `dev_stats` is 0 or 1, and still 0 for an opener that has found it so; for 09 the count, that
  whoever is in the wait list is there once and waits, and that whoever waits is in it (`Queued`:
  nobody is forgotten), so that the hand-over passes the device from one file to the next; for 10
  the mutex is taken exactly while a file is open. There is one lemma per driver, each of which
  shows that a step keeps `IInv` and is a step, or a stutter, of ExclusiveOpen. `Refusals` adds
  `MetBusy`: while `dev_stats` is not 0, every opener has met the device occupied. 07 promises
  less, and `AtomicRefusals` says what: it refuses an open only while a file is open or another
  opener has been refused and not yet given its decrement back.
* **KeyEventsProofs**: `Typing`, `Wakeups`, `Signals`, `Entries`, `Ordering`, `Debouncing` and
  `Truthful`. `Waits` says that whoever is between queueing up and its end is in the wait queue or
  has been woken from it, so the timer function, which publishes before it wakes, reaches everyone
  who has tested an empty status; `Fresher` numbers what was returned below what is unread, also
  in the buffers of readers that have copied and not reset. `Debouncing` needs what KeyIrqProofs
  calls `InFlight`, here without a lock around it. `Truthful` says that the n-th event is a press
  if n is odd and a release if it is even, and that a read returns the event of that number as
  what it was: the number of events stored and `last_val` go together (`Told`), whatever readers
  and their resets do.
* **GpioProofs**, for 12: `TimerTyping`, `TimerOwnership`, `Stopping`; for 11: `KeyTyping`,
  `KeyOwnership`. The invariant adds that a process inside an ioctl has the file open, which is
  why no ioctl starts the timer behind the delete in release. `TimerLeakIsFinal` and
  `KeyLeakIsFinal` state what follows from an open that fails after its `gpio_request`: no later
  open ever succeeds. For 20: `InputTyping`, `Pairing`, `Currency`. `OneDebounce` excludes a timer
  that is pending while its function runs; `Current` says that the function carries the level, or
  a latched edge will start another round.
* **RamdiskProofs**: `RamdiskTyping`; `Refinement`: for transfers of any size both disks serve in
  one step the blocks that a transfer reaches. `Copying` says which these are: all blocks of a bio
  (27), the first segment of a request and nothing beyond it (26). Where a request has at most one
  segment (`RequestSegments <= 1`) they are all it names: `WholeTransfers` and `WholeRefinement`;
  MCRamdiskMerged shows that this fails otherwise. Taking the lock maps to the step that serves,
  the end to the end, the copies stutter: a write's blocks and a read's page are what they will be
  once the lock is dropped, and `LockOwned` says nobody looks before.
* **SensorProofs**: `OneWireTyping`, `SamplingStops` and `Reporting` for 34 and 35, `Printing` and
  `ShownAboveZero` for the application of 34, `IioTyping` and `BufferFlows` for 31.
  `SamplingStops` says both how sampling ends and when it does not: if `del_timer` met the running
  timer function, or `misc_register` failed, the timer is pending or its function runs, for good;
  in every other case neither timer nor work item is left. `Reporting` excludes a read that a
  store overlapped (`torn`), which may mix two measurements. For DHT11 the rest is arithmetic: a
  byte that times out reads 234, the checksum is a byte and the sum is not cut to one, so that
  with k lost bytes only four frames pass that no sensor has sent, those with one lost byte, a
  lost checksum and zeros elsewhere (`Phantoms`). For DS18B20 nothing tells garbled bytes from a
  measurement; what is shown is that the two bytes belong together. `Printing` says what
  ds18b20App prints then: the temperature measured, the zero of before the first, or, below zero,
  16 degrees too much, except for torn reads and garbled bytes; `ShownAboveZero`: if no
  temperature is below zero, it prints what was measured.
* **DriverModuleProofs**, for any number of loads and open files. The argument has two halves. For
  any table: if `Covers` (each ladder releases what may be held when its step fails, and exit all
  of it), then what is held is always within the releases to come (`NextCovered`); if `Follows`
  (what makes the device openable comes after what its files use, and nothing fails after it),
  then that order is kept (`NextOrdered`, `NextFilesOn`, and `NextDown` on the way out); the same
  for the completeness of a live driver and for the releases that stop an interrupt before its
  timer. For the tables that there are: `TidySafe`, `ClassKeptSafe`, `InputSafe`, `RamSafe`,
  `IioSafe` and `OneWireSafe` (by `SafeCovers`), `GuardedTables`, `Gt9147Order`, `DiligentTables`,
  `TimerTable` and `KeyInputTable` show that they meet those conditions. `TablesAssumption` says
  that a table is a list of steps and a list of releases; TLC evaluates it on all of them.
  * `Tidiness` (`LeftBehind`): what each driver can leave behind, wherever its init fails: thirteen
    nothing, the others the one thing they forget and no more. `LeakIsFinal`: a driver that has
    left its class or its gpio behind never goes live again.
  * `InUse`, `Completeness`, `NoTimerLeft`: what files and interrupts use is there, success means
    complete, no timer of 12 or 20 outlives its driver.
  * `ReleasesHeld`: a driver that checks every result releases, on the error paths and in exit,
    only what it holds, and so nothing twice. The exceptions (`Spare`) are two error paths: the
    label `destroy_class` (blockio.c:291) destroys a node that was not made, and 31_iio
    (iic/ap3216c.c:342) unregisters a device that was never registered. Here the ladders are
    bounded from above (`Exact`: no ladder names what was not asked for before its step, or names
    anything twice), as `Covers` bounds them from below. No run states this one; `DiligentFitting`
    goes through the tables.
* **BoardProofs** carries these results over to the specification that the MCDrivers run checks.
  Each step of the board is a step of the driver at work and stutters for the others
  (`BoardDrivers`, and `BoardGpio` for 11 and 12, which share the variables of GpioFile), hence
  `BoardTyping` and `BoardSafety`.

Only model-checked: liveness, since fairness and ENABLED are outside the prover (`Debounced`,
`EventIsConsumed`, `SelectReturns`, `EventIsFetched`, `OpenReturns`, `PeriodCatchesUp`,
`InterruptReturns`, `KeepsSampling`), and the violations of section 5, which are behaviours that TLC
finds.

## 5. Where code and words disagree

Shown by a run:

* `MCKeyHandler`: asyncnotiApp.c:46 opens in non-blocking mode; `F_SETFL` with the flags of
  `F_GETFD` (lines 56, 57) clears it, and the SIGIO handler can sleep in read.
* `MCModuleLeak`: under the label `destroy_class` (blockio.c:291) the device is destroyed, not
  the class; the next load fails. The same in 07-12, 15, 16, 21 and 30.
* `MCModuleLate`: an interrupt between `del_timer_sync` (blockio.c:313) and `free_irq` starts
  the timer again, and it outlives the module. 20_input frees the interrupt first.
* `MCRamdiskMerged`: 26 copies `blk_rq_cur_bytes` (ramdisk.c:43), the first segment, and then ends
  the request (line 74), although it asks for merging (line 147): the other segments are
  reported as read or written. A request of one segment is served right, as is every bio of 27.
* `MCBelowZero`: ds18b20App.c:38 complements bytes in an `int`; -10.125 degrees are shown as 5.875.
* `MCIioDirect`: the refusal of `iio_device_claim_direct_mode` (31_iio, icm20608.c:337) is not looked
  at: the channel is transferred while the buffer is on, and a mutex is unlocked that was not
  taken.

Met on the way, in the models where a module is named, but without a run:

* 14-16 (KeyEvents): the reset can destroy an event posted after the copy (blockio.c:195), and a
  key that bounces back between two samples makes the timer function store `KEY_KEEP` over an
  unread event (line 156); `EventIsConsumed` and `EventIsFetched` say so in their formulas;
  blockio.c:186 says the reader is woken only when a key action occurs, but the status is read
  again (line 192) and may be `KEY_KEEP` by then; `read` returns the bytes *not* copied (line 197)
  where line 179 promises the bytes read; the interrupt may start the timer before `timer_setup`
  (line 287). In 20 (InputKey) the same crashes the kernel.
* 07 (LedDevice): atomic.c:41 returns `-EBUSY` "if device is busy"; between the decrement and the
  increment of a refused opener a free device also looks busy (`AtomicRefusals` says that this is
  the only case). 08 has no such window (`SpinRefusesOnlyBusy`).
* 12 (TimerLed): release darkens the LED and frees the gpio before it deletes the timer
  (timer.c:146-148); the timer function may light it again, set a gpio that is somebody else's,
  and the delete may stop the timer of the next open.
* 11, 12 (GpioFile): an open that cannot set the direction keeps the gpio for good, and every
  later open fails (`KeyLeakIsFinal`, `TimerLeakIsFinal`).
* 34, 35 (OneWire): a failed `misc_register`, or a `del_timer` that meets the running timer
  function (ds18b20.c:223, :232), leaves the timer running for good (`SamplingEnds` says so); a
  read that a store overlaps gets halves of two samples (ds18b20.c:133 against :166); DS18B20's
  checksum is not read, and the application skips a silent sensor only if both bytes are 0xFF
  (ds18b20App.c:35); four frames pass the checksum of DHT11 that it cannot tell from a failed
  read. dht11.c returns from a timeout in the middle of a byte with interrupts off.
* 05, 09, 10, 11 and 22 (DriverTables): `cdev_add` is not checked. 17-19, 21, 22 and 30: files can
  be used after the bus has unbound the driver. 31: the regmap is not released when probe fails,
  and is released before the device on remove; the error paths call `iio_device_unregister` on a
  device that was never registered (iic/ap3216c.c:342, spi/icm20608.c:667). 20:
  `input_allocate_device` (keyinput.c:123) is not checked; InputKey takes it to succeed. 26: an
  ERR_PTR of the queue is tested for NULL; 27: queue and disk are not tested. 23: `ret` is a `u8`
  in gt9147.c and never negative, and ft5x06.c requests its interrupt before the input device it
  reports to.

## 6. Not modelled

* The coverage of the tree stays small: of the 425,000 lines of implementation under `src/`
  more than 400,000 are the Realtek Wi-Fi driver (29), kept as it came from the vendor, and others
  are third-party too (24 m_can, 25 fusb302, 28 YT8511C, edt-ft5x06, the RPMsg archives). Of the
  lessons themselves nearly all that changes state is mapped.
* 21, 22, 30: the register transfers of concurrent readers, which get halves of each other's
  sample: nothing in driver or application relates the fields of a sample, so there is nothing
  to check them against. 23: what a touch report holds. 02-04: the level is stored through a
  set/reset register, so that two writers lose nothing. 01 has no state beyond two buffers;
  32 and 33 are applications that read and write files of sysfs.
* 34, 35: the bits on the line and their microseconds, abstracted to what a measurement yields;
  the copies of a DHT11 sample, which may meet at any byte, are cut once, before the checksum.
  31: the values of the channels.
* Registers, formats and messages; the device tree (parsing it holds nothing); `ioremap`, which
  no driver checks, is taken to succeed.
* Two CPUs see memory in the same order: the drivers use atomics and locks for what they share,
  and plain variables only inside the timer function; where 34 and 35 share a sample without
  either, its pieces are stored in program order.

### Order of work

1. 13, then 14-16: interrupt, timer function and readers. 2. 07-10: who has the device open.
3. Set-up and tear-down of all drivers by one table each. 4. 11, 12, 20, 26, 27, 31, 34, 35.

Left for later, in this order: concurrent register transfers (21, 22, 30) against the reset in
open; touch slots (23).
