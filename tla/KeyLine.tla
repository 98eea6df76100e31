------------------------------ MODULE KeyLine ------------------------------
(***************************************************************************)
(* The key, its interrupt line and the debounce timer that the drivers     *)
(* 13_irq, 14_blockio, 15_noblockio and 16_asyncnoti share: a change of    *)
(* the line raises the interrupt, key_interrupt arms the timer, and the    *)
(* timer function samples the line and classifies the sample against the   *)
(* previous one (the static last_val).  Time is abstracted: an armed timer *)
(* may expire at any moment, and re-arming a pending timer leaves it       *)
(* pending, so every spacing of edges, interrupts and expiries is covered. *)
(***************************************************************************)
EXTENDS Naturals

CONSTANT MaxEdges       \* bound: how often the key changes level

ASSUME MaxEdgesAssumption == MaxEdges \in Nat

VARIABLES
  level,        \* what gpio_get_value(key_gpio) returns now: 0 pressed, 1 released
  edges,        \* how many times the level has changed (bounded by MaxEdges)
  irq,          \* the interrupt is latched and key_interrupt has not run yet
  timer,        \* key.timer is pending
  tpc,          \* where the timer function stands
  current_val,  \* its local of that name
  last_val      \* its static of that name

lineVars == <<level, edges, irq, timer>>
debounceVars == <<tpc, current_val, last_val>>

Press   == "PRESS"      \* KEY_PRESS
Release == "RELEASE"    \* KEY_RELEASE
Keep    == "KEEP"       \* KEY_KEEP
Status  == {Press, Release, Keep}
Event   == {Press, Release}

(* The three-way test of the timer function. *)
Classify(cur, last) ==
  CASE cur = 0 /\ last = 1 -> Press
    [] cur = 1 /\ last = 0 -> Release
    [] OTHER               -> Keep

\* The key may already be held down when the module is loaded; last_val is 1 then too.
LineInit ==
  /\ level \in {0, 1}
  /\ edges = 0
  /\ irq = FALSE
  /\ timer = FALSE
  /\ tpc = "idle"
  /\ current_val = 1
  /\ last_val = 1

LineTypeOK ==
  /\ level \in {0, 1}
  /\ edges \in 0 .. MaxEdges
  /\ irq \in BOOLEAN
  /\ timer \in BOOLEAN
  /\ current_val \in {0, 1}
  /\ last_val \in {0, 1}

(* The key is pressed, released or bounces. *)
Edge ==
  /\ edges < MaxEdges
  /\ level' = 1 - level
  /\ edges' = edges + 1
  /\ irq' = TRUE
  /\ UNCHANGED <<timer, debounceVars>>

(* A handler that leaves the timer alone while its function is running. *)
InterruptSkipsRunning ==
  /\ irq
  /\ irq' = FALSE
  /\ timer' = (timer \/ tpc = "idle")
  /\ UNCHANGED <<level, edges, debounceVars>>

(* key_interrupt: mod_timer arms the timer whether it is idle, pending or  *)
(* its function is running on the other CPU.                               *)
Interrupt ==
  /\ irq
  /\ irq' = FALSE
  /\ timer' = TRUE
  /\ UNCHANGED <<level, edges, debounceVars>>

(* The timer core starts the function; a timer never runs twice at once.   *)
Expire(first) ==
  /\ timer
  /\ tpc = "idle"
  /\ timer' = FALSE
  /\ tpc' = first
  /\ UNCHANGED <<level, edges, irq, current_val, last_val>>

\* A sample that is the masked register, not 0 or 1.
SampleRawBit(here, next) ==
  /\ tpc = here
  /\ current_val' = 8 * level
  /\ tpc' = next
  /\ UNCHANGED <<lineVars, last_val>>

(* current_val = gpio_get_value(key.key_gpio) *)
Sample(here, next) ==
  /\ tpc = here
  /\ current_val' = level
  /\ tpc' = next
  /\ UNCHANGED <<lineVars, last_val>>

(* Once the line has been touched and everything in flight has settled,    *)
(* the debounced value is the real level of the key.                       *)
Settled == edges > 0 /\ ~irq /\ ~timer /\ tpc = "idle" => last_val = level
=============================================================================
