----------------------------- MODULE IioSensor -----------------------------
(***************************************************************************)
(* src/Linux_Driver/31_iio/spi/icm20608.c: an IIO device that is read and  *)
(* set through sysfs in direct mode, or streams into a buffer, triggered   *)
(* by its data-ready interrupt.  The IIO core changes the mode under       *)
(* indio_dev->mlock, which iio_device_claim_direct_mode also takes; it     *)
(* returns -EBUSY without the mutex while the buffer is on.  The driver    *)
(* ignores that and releases the mutex all the same.  A kernel mutex,      *)
(* without debugging checks, is freed by whoever unlocks it.  The AP3216C  *)
(* (31_iio/iic/ap3216c.c) does the same in write_raw, without a trigger.   *)
(***************************************************************************)
EXTENDS Naturals

CONSTANTS Clients, NoClient, Handler

ASSUME ClientsAssumption == {NoClient, Handler} \cap Clients = {} /\ NoClient # Handler

VARIABLES
  chip,       \* how far probe has set the chip up: "registered", "reset" or "ready"
  buffer,     \* indio_dev->currentmode is a buffer mode
  intEnable,  \* the register ICM20_INT_ENABLE
  mlock,      \* owner of indio_dev->mlock
  chipLock,   \* owner of dev->lock
  call        \* where each client stands in its system call

iioVars == <<chip, buffer, intEnable, mlock, chipLock, call>>

IioInit ==
  /\ chip = "registered"
  /\ buffer = FALSE
  /\ intEnable = FALSE
  /\ mlock = NoClient
  /\ chipLock = NoClient
  /\ call = [c \in Clients |-> "user"]

Toggling == {"enable", "attach", "detach", "disable", "leave"}

IioTypeOK ==
  /\ chip \in {"registered", "reset", "ready"}
  /\ {buffer, intEnable} \subseteq BOOLEAN
  /\ mlock \in Clients \cup {NoClient}
  /\ chipLock \in Clients \cup {NoClient, Handler}
  /\ call \in [Clients -> {"user", "access", "transfer", "release"} \cup Toggling]

Move(c, from, to) == call[c] = from /\ call' = [call EXCEPT ![c] = to]

-----------------------------------------------------------------------------
(* icm20608_reginit, after iio_device_register and without dev->lock: a    *)
(* reset, and at the end the interrupt enabled.                            *)
ChipReset ==
  /\ chip = "registered"
  /\ chip' = "reset"
  /\ intEnable' = FALSE
  /\ UNCHANGED <<buffer, mlock, chipLock, call>>

\* A reginit that leaves the interrupt to the trigger.
ReadyNoInterrupt ==
  /\ chip = "reset"
  /\ chip' = "ready"
  /\ UNCHANGED <<buffer, intEnable, mlock, chipLock, call>>

ChipReady ==
  /\ chip = "reset"
  /\ chip' = "ready"
  /\ intEnable' = TRUE
  /\ UNCHANGED <<buffer, mlock, chipLock, call>>

(* icm20608_trigger_handler *)
TriggerRun ==
  /\ intEnable
  /\ buffer
  /\ chipLock = NoClient
  /\ chipLock' = Handler
  /\ UNCHANGED <<chip, buffer, intEnable, mlock, call>>

TriggerDone ==
  /\ chipLock = Handler
  /\ chipLock' = NoClient
  /\ UNCHANGED <<chip, buffer, intEnable, mlock, call>>

-----------------------------------------------------------------------------
(* icm20608_read_raw of a channel and icm20608_write_raw *)

(* iio_device_claim_direct_mode, whose result nobody looks at. *)
Claim(c) ==
  /\ Move(c, "user", "access")
  /\ mlock = NoClient
  /\ mlock' = IF buffer THEN NoClient ELSE c
  /\ UNCHANGED <<chip, buffer, intEnable, chipLock>>

(* mutex_lock(&dev->lock); a write of what cannot be set skips the chip.   *)
TransferBegin(c) ==
  \/ /\ Move(c, "access", "transfer")
     /\ chipLock = NoClient
     /\ chipLock' = c
     /\ UNCHANGED <<chip, buffer, intEnable, mlock>>
  \/ /\ Move(c, "access", "release")
     /\ UNCHANGED <<chip, buffer, intEnable, mlock, chipLock>>

TransferEnd(c) ==
  /\ Move(c, "transfer", "release")
  /\ chipLock' = NoClient
  /\ UNCHANGED <<chip, buffer, intEnable, mlock>>

(* iio_device_release_direct_mode *)
ReleaseClaim(c) ==
  /\ Move(c, "release", "user")
  /\ mlock' = NoClient
  /\ UNCHANGED <<chip, buffer, intEnable, chipLock>>

-----------------------------------------------------------------------------
(* A client writes buffer/enable: the IIO core, with the trigger's         *)
(* icm20608_trigger_set_state.                                             *)

Toggle(c) ==
  /\ Move(c, "user", IF buffer THEN "detach" ELSE "enable")
  /\ mlock = NoClient
  /\ mlock' = c
  /\ UNCHANGED <<chip, buffer, intEnable, chipLock>>

SetMode(c) ==
  /\ \/ Move(c, "enable", "attach") /\ buffer' = TRUE
     \/ Move(c, "disable", "leave") /\ buffer' = FALSE
  /\ UNCHANGED <<chip, intEnable, mlock, chipLock>>

(* icm20608_trigger_set_state, under dev->lock *)
SetTrigger(c) ==
  /\ chipLock = NoClient
  /\ \/ Move(c, "attach", "leave") /\ intEnable' = TRUE
     \/ Move(c, "detach", "disable") /\ intEnable' = FALSE
  /\ UNCHANGED <<chip, buffer, mlock, chipLock>>

ToggleDone(c) ==
  /\ Move(c, "leave", "user")
  /\ mlock' = NoClient
  /\ UNCHANGED <<chip, buffer, intEnable, chipLock>>

IioNext ==
  \/ ChipReset \/ ChipReady \/ TriggerRun \/ TriggerDone
  \/ \E c \in Clients :
       \/ Claim(c) \/ TransferBegin(c) \/ TransferEnd(c) \/ ReleaseClaim(c)
       \/ Toggle(c) \/ SetMode(c) \/ SetTrigger(c) \/ ToggleDone(c)

IioSpec == IioInit /\ [][IioNext]_iioVars

-----------------------------------------------------------------------------
(* A buffer that is on gets data: at rest its interrupt is enabled         *)
(* (icm20608.c:557), although a client may switch it on before reginit     *)
(* resets the chip (icm20608.c:649, :660), and although a read releases    *)
(* the mutex of a client that is switching (icm20608.c:341).               *)
BufferGetsData ==
  chip = "ready" /\ buffer /\ (\A c \in Clients : call[c] \notin Toggling) => intEnable

(* icm20608.c:337, "keep direct mode": while a channel is read or set, the *)
(* device is in direct mode.                                               *)
DirectKept == \A c \in Clients : call[c] = "transfer" => ~buffer
=============================================================================
