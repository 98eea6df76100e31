--------------------------- MODULE ExclusiveOpen ---------------------------
(***************************************************************************)
(* What the four drivers 07_atomic, 08_spinlock, 09_semaphore and 10_mutex *)
(* promise: /dev/gpioled is open at most once at a time (granted when free, *)
(* or passed on from one file to the next), and the LED changes only while *)
(* a file is open.                                                         *)
(***************************************************************************)
CONSTANT Files

VARIABLES
  opened,   \* the files that are open on the device
  gpio      \* the level of the LED's line: 0 lit, 1 dark

exclVars == <<opened, gpio>>

Init == opened = {} /\ gpio = 1

Grant(f)  == opened = {} /\ opened' = {f} /\ UNCHANGED gpio
Giveup(f) == f \in opened /\ opened' = opened \ {f} /\ UNCHANGED gpio
Pass(f, g) == opened = {f} /\ opened' = {g} /\ UNCHANGED gpio
Switch(v) == opened # {} /\ gpio' = v /\ UNCHANGED opened

Next ==
  \/ \E f \in Files : Grant(f) \/ Giveup(f) \/ \E g \in Files : Pass(f, g)
  \/ \E v \in {0, 1} : Switch(v)

Spec == Init /\ [][Next]_exclVars
=============================================================================
