------------------------------ MODULE Ramdisk ------------------------------
(***************************************************************************)
(* The RAM disks src/Linux_Driver/26_ramdisk_withrequest/ramdisk.c, which  *)
(* blk-mq hands requests, and 27_ramdisk_norequest/ramdisk.c, which takes  *)
(* the bios themselves.  A request or bio covers consecutive blocks, each  *)
(* a segment with a buffer of its own; bios that the block layer merged    *)
(* (BLK_MQ_F_SHOULD_MERGE) are the segments of one request.  Both drivers  *)
(* copy under a spinlock: 27 every segment, 26 the first one               *)
(* (blk_rq_cur_bytes), and both then end the whole.  A block holds the tag *)
(* that wrote it last.                                                     *)
(***************************************************************************)
EXTENDS Naturals

CONSTANTS
  Tags,             \* the requests or bios that may be under way at a time
  NoTag,
  Blank,            \* what kmalloc left in ramdiskbuf
  NBlocks,          \* bound: the size of the disk
  RequestSegments,  \* bound: the segments of a request of 26
  BioSegments       \* bound: the segments of a bio of 27

ASSUME RamdiskAssumption ==
  /\ NoTag \notin Tags
  /\ NBlocks \in Nat /\ RequestSegments \in Nat /\ BioSegments \in Nat

VARIABLES
  queue,    \* how the block layer reaches the driver: "request" (26) or "bio" (27)
  ram,      \* ramdiskbuf
  ramLock,  \* lock: the tag whose transfer holds it, or NoTag
  at,       \* where each transfer stands
  dir,      \* its direction, "none" when there is nothing to transfer
  start,    \* its first block
  segments, \* how many it has
  moved,    \* how many are copied
  page      \* what a read has put in its buffers, per block

transferVars == <<dir, start, segments>>
ramdiskVars == <<queue, ram, ramLock, at, transferVars, moved, page>>

Blocks == 1 .. NBlocks
Block(t, i) == start[t] + i
Area(t) == {Block(t, i) : i \in 0 .. segments[t] - 1}
MaxSegments == IF queue = "request" THEN RequestSegments ELSE BioSegments

NoPage == [b \in {} |-> Blank]

RamdiskInit ==
  /\ queue \in {"request", "bio"}
  /\ ram = [b \in Blocks |-> Blank]
  /\ ramLock = NoTag
  /\ at = [t \in Tags |-> "idle"]
  /\ dir = [t \in Tags |-> "none"]
  /\ start = [t \in Tags |-> 1]
  /\ segments = [t \in Tags |-> 0]
  /\ moved = [t \in Tags |-> 0]
  /\ page = [t \in Tags |-> NoPage]

RamdiskTypeOK ==
  /\ queue \in {"request", "bio"}
  /\ ram \in [Blocks -> Tags \cup {Blank}]
  /\ ramLock \in Tags \cup {NoTag}
  /\ at \in [Tags -> {"idle", "lock", "copy", "unlock", "end"}]
  /\ dir \in [Tags -> {"none", "read", "write"}]
  /\ start \in [Tags -> Blocks \cup {1}]
  /\ segments \in [Tags -> Nat]
  /\ moved \in [Tags -> Nat]
  /\ \A t \in Tags : page[t] \in [DOMAIN page[t] -> Tags \cup {Blank}]

(* A request or a bio inside the capacity reaches the driver. *)
Submit(t) ==
  /\ at[t] = "idle"
  /\ \E d \in {"read", "write"}, s \in Blocks, n \in 1 .. MaxSegments :
       /\ s + n - 1 \in Blocks
       /\ dir' = [dir EXCEPT ![t] = d]
       /\ start' = [start EXCEPT ![t] = s]
       /\ segments' = [segments EXCEPT ![t] = n]
  /\ at' = [at EXCEPT ![t] = "lock"]
  /\ UNCHANGED <<queue, ram, ramLock, moved, page>>

\* A transfer that begins without the spinlock.
TakeNothing(t) ==
  /\ at[t] = "lock"
  /\ ramLock' = t
  /\ at' = [at EXCEPT ![t] = "copy"]
  /\ UNCHANGED <<queue, ram, transferVars, moved, page>>

(* spin_lock(&dev->lock) *)
TakeLock(t) ==
  /\ at[t] = "lock"
  /\ ramLock = NoTag
  /\ ramLock' = t
  /\ at' = [at EXCEPT ![t] = "copy"]
  /\ UNCHANGED <<queue, ram, transferVars, moved, page>>

(* memcpy between the segment that is next and its block; 26 has no loop.  *)
CopySegment(t) ==
  LET b == Block(t, moved[t]) IN
  /\ at[t] = "copy"
  /\ IF dir[t] = "read"
       THEN /\ page' = [page EXCEPT ![t] =
                 [c \in DOMAIN page[t] \cup {b} |-> IF c = b THEN ram[b] ELSE page[t][c]]]
            /\ UNCHANGED ram
       ELSE /\ ram' = [ram EXCEPT ![b] = t]
            /\ UNCHANGED page
  /\ moved' = [moved EXCEPT ![t] = @ + 1]
  /\ at' = [at EXCEPT ![t] =
       CASE queue = "request" -> "end"
         [] queue = "bio" -> IF moved[t] + 1 = segments[t] THEN "unlock" ELSE "copy"]
  /\ UNCHANGED <<queue, ramLock, transferVars>>

(* spin_unlock; 26 has ended the request before, 27 ends the bio after.    *)
DropLock(t) ==
  /\ at[t] = "unlock"
  /\ ramLock' = NoTag
  /\ at' = [at EXCEPT ![t] = IF queue = "request" THEN "idle" ELSE "end"]
  /\ UNCHANGED <<queue, ram, transferVars, moved, page>>

(* blk_mq_end_request, with all of the request's bytes, or bio_endio.      *)
EndTransfer(t) ==
  /\ at[t] = "end"
  /\ at' = [at EXCEPT ![t] = IF queue = "request" THEN "unlock" ELSE "idle"]
  /\ dir' = [dir EXCEPT ![t] = "none"]
  /\ start' = [start EXCEPT ![t] = 1]
  /\ segments' = [segments EXCEPT ![t] = 0]
  /\ moved' = [moved EXCEPT ![t] = 0]
  /\ page' = [page EXCEPT ![t] = NoPage]
  /\ UNCHANGED <<queue, ram, ramLock>>

Transfer(t) == CopySegment(t) \/ DropLock(t) \/ EndTransfer(t)

RamdiskNext == \E t \in Tags : Submit(t) \/ TakeLock(t) \/ Transfer(t)

RamdiskSpec == RamdiskInit /\ [][RamdiskNext]_ramdiskVars

-----------------------------------------------------------------------------
(* What the driver copies of a transfer: all of a bio, the first segment of *)
(* a request (blk_rq_cur_bytes, ramdisk.c:43 of 26).                       *)
Length(t) == IF queue = "request" /\ segments[t] > 0 THEN 1 ELSE segments[t]
Reach(t) == {Block(t, i) : i \in 0 .. Length(t) - 1}

(* The transfer that holds the lock counts as served as a whole: what it   *)
(* has still to copy is taken as copied.                                   *)
Rest(t) == IF at[t] = "copy" THEN {Block(t, i) : i \in moved[t] .. Length(t) - 1} ELSE {}

Store ==
  [b \in Blocks |->
    IF ramLock \in Tags /\ dir[ramLock] = "write" /\ b \in Rest(ramLock)
      THEN ramLock ELSE ram[b]]

Found(t) ==
  IF dir[t] # "read" THEN NoPage
  ELSE [b \in DOMAIN page[t] \cup Rest(t) |-> IF b \in Rest(t) THEN ram[b] ELSE page[t][b]]

RamStore == INSTANCE Disk WITH
  disk   <- Store,
  op     <- dir,
  area   <- [t \in Tags |-> Reach(t)],
  served <- {t \in Tags : dir[t] # "none" /\ at[t] \in {"copy", "unlock", "end"}},
  got    <- [t \in Tags |-> Found(t)]

(* ramdisk.c:60-74 of 27, and ramdisk.c:72-75 of 26 for what it copies:    *)
(* copying segment by segment under the spinlock acts as one step on the   *)
(* disk.  No read sees half of a write, no two writes mix, and what has    *)
(* been ended is on the disk.                                              *)
ImplementsDisk == RamStore!Spec

(* A request that is ended has been transferred, each of its segments      *)
(* (ramdisk.c:73 of 26, "Transfer data").                                  *)
EndedIsTransferred == \A t \in Tags : at[t] = "end" => moved[t] = segments[t]
=============================================================================
