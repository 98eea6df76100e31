------------------------------ MODULE GpioFile ------------------------------
(***************************************************************************)
(* The drivers 11_key and 12_timer request their gpio in open and free it  *)
(* in release, so that a second open is refused by gpio_request.  As at    *)
(* most one file is open, fds is the set of processes that have a          *)
(* descriptor of it; the last of them to close it runs release.  An open   *)
(* that cannot set the direction fails and keeps the gpio.                 *)
(***************************************************************************)
EXTENDS Naturals, FiniteSets

CONSTANT Users      \* single-threaded processes

VARIABLES
  pc,         \* what each process does: "user" or a label of a system call
  fds,        \* the processes with a descriptor of the open file
  requested   \* the gpio is requested

gpioFileVars == <<pc, fds, requested>>

GpioFileInit ==
  /\ pc = [u \in Users |-> "user"]
  /\ fds = {}
  /\ requested = FALSE

GpioFileTypeOK ==
  /\ DOMAIN pc = Users
  /\ fds \subseteq Users
  /\ requested \in BOOLEAN

Goto(u, l) == pc' = [pc EXCEPT ![u] = l]
Step(u, from, to) == pc[u] = from /\ Goto(u, to)

(* open, which begins at the label first. *)
OpenFile(u, first) ==
  /\ u \notin fds
  /\ Step(u, "user", first)
  /\ UNCHANGED <<fds, requested>>

\* An open that frees the gpio whenever it fails, also when gpio_request did.
RequestOrFree(u) ==
  /\ Step(u, "request", IF requested THEN "user" ELSE "direction")
  /\ requested' = ~requested
  /\ UNCHANGED fds

(* gpio_request *)
RequestGpio(u) ==
  /\ Step(u, "request", IF requested THEN "user" ELSE "direction")
  /\ requested' = TRUE
  /\ UNCHANGED fds

(* gpio_direction_input or gpio_direction_output, and open returns. *)
SetDirection(u) ==
  /\ Step(u, "direction", "user")
  /\ fds' \in {fds, fds \cup {u}}
  /\ UNCHANGED requested

(* fork, or a descriptor passed on *)
ShareFile(u, v) ==
  /\ pc[u] = "user" /\ u \in fds
  /\ pc[v] = "user" /\ v \notin fds
  /\ fds' = fds \cup {v}
  /\ UNCHANGED <<pc, requested>>

(* close; the last one runs release, which begins at the label first. *)
CloseFile(u, first) ==
  /\ u \in fds
  /\ Step(u, "user", IF fds = {u} THEN first ELSE "user")
  /\ fds' = fds \ {u}
  /\ UNCHANGED requested

(* gpio_free *)
FreeGpio(u, next) ==
  /\ Step(u, "free", next)
  /\ requested' = FALSE
  /\ UNCHANGED fds

-----------------------------------------------------------------------------
(* Between its gpio_request and its gpio_free, an open file, an open or a  *)
(* release has the gpio to itself (key.c:91 and :162, timer.c:86 and :147):*)
(* no other open gets it, and nobody else's failure or close frees it.     *)
Between == {"direction", "dark", "free"}
GpioOwned ==
  /\ fds # {} => requested /\ \A u \in Users : pc[u] \notin Between
  /\ \A u \in Users :
       pc[u] \in Between => requested /\ \A v \in Users \ {u} : pc[v] \notin Between
=============================================================================
