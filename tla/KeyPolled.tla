----------------------------- MODULE KeyPolled -----------------------------
(***************************************************************************)
(* src/Linux_Driver/11_key/key.c: a read that finds the key down waits, in *)
(* a busy loop of the kernel, until it is up, and returns what keyvalue    *)
(* holds by then; all processes that share the file set the same keyvalue. *)
(***************************************************************************)
EXTENDS GpioFile

VARIABLES
  up,         \* the key is not pressed: gpio_get_value gives 1
  keyvalue    \* KEY0VALUE, or INVAKEY

keyPolledVars == <<gpioFileVars, up, keyvalue>>

KeyPolledInit ==
  /\ GpioFileInit
  /\ up \in BOOLEAN
  /\ keyvalue = "INVAKEY"

KeyPolledTypeOK ==
  /\ GpioFileTypeOK
  /\ \A u \in Users :
       pc[u] \in {"user", "request", "direction", "free", "sample", "held", "press", "value"}
  /\ up \in BOOLEAN
  /\ keyvalue \in {"KEY0VALUE", "INVAKEY"}

MoveKey ==
  /\ up' = ~up
  /\ UNCHANGED <<gpioFileVars, keyvalue>>

KeyFile ==
  /\ \E u \in Users :
       \/ OpenFile(u, "request")
       \/ RequestGpio(u)
       \/ SetDirection(u)
       \/ \E v \in Users : ShareFile(u, v)
       \/ CloseFile(u, "free")
       \/ FreeGpio(u, "user")
  /\ UNCHANGED <<up, keyvalue>>

KeyReadCall(u) ==
  /\ u \in fds
  /\ Step(u, "user", "sample")
  /\ UNCHANGED <<fds, requested, up, keyvalue>>

(* The first gpio_get_value; a key that is up is an invalid value. *)
KeySample(u) ==
  /\ Step(u, "sample", IF up THEN "value" ELSE "held")
  /\ keyvalue' = IF up THEN "INVAKEY" ELSE keyvalue
  /\ UNCHANGED <<fds, requested, up>>

(* while(!gpio_get_value(dev->key_gpio)) *)
KeyAwaitUp(u) ==
  /\ up
  /\ Step(u, "held", "press")
  /\ UNCHANGED <<fds, requested, up, keyvalue>>

KeyPress(u) ==
  /\ Step(u, "press", "value")
  /\ keyvalue' = "KEY0VALUE"
  /\ UNCHANGED <<fds, requested, up>>

(* atomic_read, copy_to_user *)
KeyReadReturn(u) ==
  /\ Step(u, "value", "user")
  /\ UNCHANGED <<fds, requested, up, keyvalue>>

KeyPolledNext ==
  \/ MoveKey
  \/ KeyFile
  \/ \E u \in Users :
       KeyReadCall(u) \/ KeySample(u) \/ KeyAwaitUp(u) \/ KeyPress(u) \/ KeyReadReturn(u)

KeyPolledSpec == KeyPolledInit /\ [][KeyPolledNext]_keyPolledVars
=============================================================================
