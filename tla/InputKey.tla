------------------------------ MODULE InputKey ------------------------------
(***************************************************************************)
(* src/Linux_Driver/20_input/keyinput.c: the interrupt disables itself and *)
(* starts the debounce timer, the timer function reports the level and     *)
(* enables the interrupt.  The kernel counts disables, latches an edge     *)
(* that comes meanwhile, and lets it interrupt when it is enabled again.   *)
(* probe and remove run around this, from request_irq to free_irq and      *)
(* del_timer_sync.  A timer or an input device used before it is set up    *)
(* crashes the kernel; the board then boots again.  The interrupt comes on *)
(* both edges, as probe asks for when the device tree names no trigger.    *)
(***************************************************************************)
EXTENDS Naturals

VARIABLES
  stage,      \* how far probe or remove have come, or "crashed"
  level,      \* the line: 0 pressed, 1 released
  latched,    \* an edge waits for the interrupt to be enabled
  depth,      \* how often the interrupt is disabled; probe finds it at 1
  debounce,   \* key.timer is pending
  report,     \* where key_timer_function stands
  val,        \* its local of that name
  reported,   \* the level that the input device has reported last
  touched     \* ghost: the key has moved since the input device is registered

inputLine == <<level, latched, touched>>
inputTimer == <<debounce, report, val>>
inputVars == <<stage, inputLine, depth, inputTimer, reported>>

InputInit ==
  /\ stage = "out"
  /\ level \in {0, 1}
  /\ latched = FALSE
  /\ depth = 1
  /\ debounce = FALSE
  /\ report = "idle"
  /\ val = 1
  /\ reported = 1
  /\ touched = FALSE

\* The stages at which key_interrupt can be called.
HasIrq == {"irq", "timer", "allocated", "live"}

InputTypeOK ==
  /\ stage \in HasIrq \cup {"out", "freed", "deleted", "crashed"}
  /\ level \in {0, 1}
  /\ latched \in BOOLEAN
  /\ depth \in {0, 1}
  /\ debounce \in BOOLEAN
  /\ report \in {"idle", "report", "enable"}
  /\ val \in {0, 1}
  /\ reported \in {0, 1}
  /\ touched \in BOOLEAN

InputEdge ==
  /\ stage # "crashed"
  /\ level' = 1 - level
  /\ latched' = (stage \in HasIrq \/ latched)
  /\ touched' = (stage = "live")
  /\ UNCHANGED <<stage, depth, inputTimer, reported>>

-----------------------------------------------------------------------------
(* atk_key_probe and atk_key_remove *)

(* request_irq, after the gpio, enables the interrupt. *)
ProbeIrq ==
  /\ stage = "out"
  /\ stage' = "irq"
  /\ depth' = 0
  /\ latched' = FALSE
  /\ touched' = FALSE
  /\ UNCHANGED <<level, inputTimer, reported>>

ProbeTimer ==
  /\ stage = "irq"
  /\ stage' = "timer"
  /\ UNCHANGED <<inputLine, depth, inputTimer, reported>>

(* input_allocate_device: the new device has no key down. *)
ProbeAllocate ==
  /\ stage = "timer"
  /\ stage' = "allocated"
  /\ reported' = 1
  /\ UNCHANGED <<inputLine, depth, inputTimer>>

ProbeRegister ==
  /\ stage = "allocated"
  /\ stage' = "live"
  /\ UNCHANGED <<inputLine, depth, inputTimer, reported>>

(* remove, or probe when input_register_device fails: free_irq shuts the   *)
(* interrupt down, whatever its depth was; gpio_free.                      *)
FreeIrq ==
  /\ stage \in {"live", "allocated"}
  /\ stage' = "freed"
  /\ depth' = 1
  /\ latched' = FALSE
  /\ UNCHANGED <<level, touched, inputTimer, reported>>

DeleteTimer ==
  /\ stage = "freed"
  /\ report = "idle"
  /\ stage' = "deleted"
  /\ debounce' = FALSE
  /\ UNCHANGED <<inputLine, depth, report, val, reported>>

(* input_unregister_device; a device that was not registered is forgotten. *)
ForgetInput ==
  /\ stage = "deleted"
  /\ stage' = "out"
  /\ reported' = 1
  /\ touched' = FALSE
  /\ UNCHANGED <<level, latched, depth, inputTimer>>

-----------------------------------------------------------------------------
Raised == latched /\ depth = 0 /\ stage \in HasIrq

\* A handler without disable_irq_nosync.
InterruptStaysOn ==
  /\ Raised
  /\ latched' = FALSE
  /\ debounce' = TRUE
  /\ stage' = IF stage = "irq" THEN "crashed" ELSE stage
  /\ UNCHANGED <<level, touched, depth, report, val, reported>>

(* key_interrupt: before timer_setup, mod_timer crashes. *)
InputInterrupt ==
  /\ Raised
  /\ latched' = FALSE
  /\ depth' = 1
  /\ debounce' = TRUE
  /\ stage' = IF stage = "irq" THEN "crashed" ELSE stage
  /\ UNCHANGED <<level, touched, report, val, reported>>

(* The timer core calls key_timer_function: gpio_get_value *)
InputExpire ==
  /\ stage # "crashed"
  /\ debounce
  /\ report = "idle"
  /\ debounce' = FALSE
  /\ val' = level
  /\ report' = "report"
  /\ UNCHANGED <<stage, inputLine, depth, reported>>

(* input_report_key: without a device it crashes, and a device that has    *)
(* not got its capabilities yet drops the report.                          *)
InputReport ==
  /\ report = "report"
  /\ stage # "crashed"
  /\ report' = "enable"
  /\ stage' = IF stage = "timer" THEN "crashed" ELSE stage
  /\ reported' \in IF stage = "allocated" THEN {reported, val} ELSE {val}
  /\ val' = 1
  /\ UNCHANGED <<inputLine, depth, debounce>>

\* A function that enables the interrupt only when it has reported a press.
EnableAfterPress ==
  /\ report = "enable"
  /\ stage # "crashed"
  /\ report' = "idle"
  /\ depth' = IF reported = 0 THEN 0 ELSE depth
  /\ UNCHANGED <<stage, inputLine, debounce, val, reported>>

\* A function that forgets the edges that came while it was disabled.
EnableClearsLatch ==
  /\ report = "enable"
  /\ stage # "crashed"
  /\ report' = "idle"
  /\ depth' = 0
  /\ latched' = FALSE
  /\ UNCHANGED <<stage, level, touched, debounce, val, reported>>

(* enable_irq; if the interrupt is enabled already this only warns. *)
InputEnable ==
  /\ report = "enable"
  /\ stage # "crashed"
  /\ report' = "idle"
  /\ depth' = 0
  /\ UNCHANGED <<stage, inputLine, debounce, val, reported>>

InputReboot ==
  /\ stage = "crashed"
  /\ stage' = "out"
  /\ depth' = 1
  /\ latched' = FALSE
  /\ debounce' = FALSE
  /\ report' = "idle"
  /\ val' = 1
  /\ reported' = 1
  /\ touched' = FALSE
  /\ UNCHANGED level

InputServe == InputInterrupt \/ InputExpire \/ InputReport \/ InputEnable

InputNext ==
  \/ InputEdge \/ InputServe \/ InputReboot
  \/ ProbeIrq \/ ProbeTimer \/ ProbeAllocate \/ ProbeRegister
  \/ FreeIrq \/ DeleteTimer \/ ForgetInput

InputSpec == InputInit /\ [][InputNext]_inputVars

-----------------------------------------------------------------------------
(* The disable of the interrupt (keyinput.c:34) and the enable of the      *)
(* timer function (keyinput.c:101) pair up: as long as the driver has the  *)
(* interrupt it is disabled exactly while a debounce is under way, so that *)
(* neither an edge is lost for good nor an enable is one too many.         *)
DepthPairs ==
  stage \in HasIrq => (depth = 1 <=> debounce \/ report # "idle")

(* When nothing is under way, the input device has reported the level that *)
(* the key really has (keyinput.c:97-99), also if it moved while the       *)
(* interrupt was disabled.                                                 *)
RestIsCurrent ==
  stage = "live" /\ touched /\ ~latched /\ ~debounce /\ report = "idle" =>
    reported = level

(* A disabled interrupt is enabled again, or the driver lets go of it.     *)
InterruptReturns == depth = 1 /\ stage = "live" ~> depth = 0 \/ stage # "live"
=============================================================================
