-------------------------------- MODULE Disk --------------------------------
(***************************************************************************)
(* What a RAM disk promises the block layer: a request for several blocks  *)
(* is served as a whole, in one step between its submission and its end,   *)
(* and its end means that all of it has been served.                       *)
(***************************************************************************)
CONSTANTS Blocks, Tags, Blank

VARIABLES
  disk,     \* the content of each block: the tag that wrote it last, or Blank
  op,       \* per tag: "none", "read" or "write"
  area,     \* the blocks that the request is for
  served,   \* the tags whose request has been served and has not ended
  got       \* what a read has found, per block

diskVars == <<disk, op, area, served, got>>

Nothing == [b \in {} |-> Blank]

Init ==
  /\ disk = [b \in Blocks |-> Blank]
  /\ op = [t \in Tags |-> "none"]
  /\ area = [t \in Tags |-> {}]
  /\ served = {}
  /\ got = [t \in Tags |-> Nothing]

Ask(t) ==
  /\ op[t] = "none"
  /\ \E o \in {"read", "write"}, a \in SUBSET Blocks :
       /\ op' = [op EXCEPT ![t] = o]
       /\ area' = [area EXCEPT ![t] = a]
  /\ UNCHANGED <<disk, served, got>>

ServeWrite(t) ==
  /\ op[t] = "write"
  /\ t \notin served
  /\ disk' = [b \in Blocks |-> IF b \in area[t] THEN t ELSE disk[b]]
  /\ served' = served \cup {t}
  /\ UNCHANGED <<op, area, got>>

ServeRead(t) ==
  /\ op[t] = "read"
  /\ t \notin served
  /\ got' = [got EXCEPT ![t] = [b \in area[t] |-> disk[b]]]
  /\ served' = served \cup {t}
  /\ UNCHANGED <<disk, op, area>>

End(t) ==
  /\ t \in served
  /\ op' = [op EXCEPT ![t] = "none"]
  /\ area' = [area EXCEPT ![t] = {}]
  /\ served' = served \ {t}
  /\ got' = [got EXCEPT ![t] = Nothing]
  /\ UNCHANGED disk

Next == \E t \in Tags : Ask(t) \/ ServeWrite(t) \/ ServeRead(t) \/ End(t)

Spec == Init /\ [][Next]_diskVars
=============================================================================
