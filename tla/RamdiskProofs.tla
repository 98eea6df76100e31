--------------------------- MODULE RamdiskProofs ---------------------------
(***************************************************************************)
(* Proofs about the RAM disks 26 and 27, for any number of transfers and   *)
(* blocks: types, and the disk behaves as if each transfer were one step,  *)
(* of all the blocks of a bio and of the first of a request.  As long as   *)
(* the block layer merges nothing, that is, a request has one segment, the *)
(* step is for all it asked for and what is ended has been transferred.    *)
(***************************************************************************)
EXTENDS Ramdisk, TLAPS

\* The blocks of a transfer are on the disk, and it copies no more than them.
BoundsOf(t) ==
  /\ segments[t] # 0 => start[t] + segments[t] - 1 \in Blocks
  /\ at[t] \in {"lock", "copy"} => moved[t] < segments[t]
  /\ at[t] \in {"idle", "lock"} \/ (queue = "request" /\ at[t] # "end") => moved[t] = 0

Bounds == \A t \in Tags : BoundsOf(t)

RamdiskTyped == RamdiskTypeOK /\ page = [t \in Tags |-> page[t]] /\ Bounds

\* 26 holds the spinlock from the copy to the end of the request, 27 not to bio_endio.
Inside(t) == at[t] \in {"copy", "unlock"} \/ (at[t] = "end" /\ queue = "request")

LockOwned == \A t \in Tags : Inside(t) <=> ramLock = t

\* A transfer has a direction from its submission to its end.
HasDirection ==
  \A t \in Tags :
    dir[t] # "none" <=> at[t] \in {"lock", "copy", "end"} \/ (at[t] = "unlock" /\ queue = "bio")

\* A transfer that has not begun, or has ended, has nothing in its buffers.
Fresh ==
  \A t \in Tags :
    /\ dir[t] = "none" => segments[t] = 0 /\ moved[t] = 0
    /\ dir[t] = "none" \/ at[t] = "lock" => page[t] = NoPage

\* A transfer that is done has copied what it was going to.
Done ==
  \A t \in Tags :
    /\ at[t] \in {"end", "unlock"} => moved[t] = Length(t)
    /\ at[t] = "end" \/ (at[t] = "unlock" /\ queue = "bio") => segments[t] > 0

RamdiskInv == RamdiskTyped /\ LockOwned /\ HasDirection /\ Fresh /\ Done

(* The invariant holds when the driver has just been loaded. *)
LEMMA InitRamdisk == RamdiskInit => RamdiskInv
  BY RamdiskAssumption
  DEF RamdiskInit, RamdiskInv, RamdiskTyped, RamdiskTypeOK, Bounds, BoundsOf, NoPage,
      LockOwned, Inside, HasDirection, Fresh, Done, Length, Blocks

(* Every variable keeps its type in every step. *)
LEMMA NextRamdiskTyped == RamdiskTyped /\ [RamdiskNext]_ramdiskVars => RamdiskTyped'
  <1> SUFFICES ASSUME RamdiskTyped, [RamdiskNext]_ramdiskVars PROVE RamdiskTyped'
    OBVIOUS
  <1> USE RamdiskAssumption DEF RamdiskTyped, RamdiskTypeOK, Bounds, BoundsOf, transferVars
  <1>1. ASSUME NEW t \in Tags, Submit(t) PROVE RamdiskTyped'
    BY <1>1 DEF Submit, Blocks
  <1>2. ASSUME NEW t \in Tags, TakeLock(t) PROVE RamdiskTyped'
    BY <1>2 DEF TakeLock
  <1>3. ASSUME NEW t \in Tags, CopySegment(t) PROVE RamdiskTyped'
    <2> DEFINE b == Block(t, moved[t])
    <2> DEFINE p == [c \in DOMAIN page[t] \cup {b} |-> IF c = b THEN ram[b] ELSE page[t][c]]
    <2>0. b \in Blocks
      <3>1. start[t] \in Nat /\ start[t] >= 1 /\ moved[t] \in Nat /\ segments[t] \in Nat
        BY DEF Blocks
      <3>2. moved[t] < segments[t] /\ start[t] + segments[t] - 1 \in 1 .. NBlocks
        BY <1>3, <3>1 DEF CopySegment, Blocks
      <3> QED  BY <3>1, <3>2 DEF Block, Blocks
    <2>1. /\ at[t] = "copy" /\ queue' = queue /\ ramLock' = ramLock
          /\ dir' = dir /\ start' = start /\ segments' = segments
          /\ moved' = [moved EXCEPT ![t] = moved[t] + 1]
      BY <1>3 DEF CopySegment
    <2>2. /\ at' \in [Tags -> {"idle", "lock", "copy", "unlock", "end"}]
          /\ \A u \in Tags \ {t} : at'[u] = at[u]
          /\ at'[t] \in {"copy", "unlock", "end"}
          /\ at'[t] = "copy" => moved[t] + 1 # segments[t] /\ queue = "bio"
          /\ at'[t] # "end" => queue = "bio"
      BY <1>3 DEF CopySegment
    <2>3. Bounds'
      <3> SUFFICES ASSUME NEW u \in Tags PROVE BoundsOf(u)'
        OBVIOUS
      <3>1. CASE u = t
        <4>1. moved[t] \in Nat /\ segments[t] \in Nat /\ moved[t] < segments[t]
          BY <2>1
        <4>2. moved'[t] = moved[t] + 1 /\ segments'[t] = segments[t] /\ start'[t] = start[t]
          BY <2>1
        <4>3. at'[t] = "copy" => moved[t] + 1 < segments[t]
          BY <2>2, <4>1
        <4> QED
          BY <2>1, <2>2, <3>1, <4>2, <4>3
      <3>2. CASE u # t   BY <2>1, <2>2, <3>2
      <3> QED  BY <3>1, <3>2
    <2>4. p \in [DOMAIN page[t] \cup {b} -> Tags \cup {Blank}]
      BY <2>0
    <2>5. \/ page' = [page EXCEPT ![t] = p] /\ ram' = ram
          \/ page' = page /\ ram' = [ram EXCEPT ![b] = t]
      BY <1>3 DEF CopySegment
    <2>6. /\ ram' \in [Blocks -> Tags \cup {Blank}]
          /\ page' = [u \in Tags |-> page'[u]]
          /\ \A u \in Tags : page'[u] \in [DOMAIN page'[u] -> Tags \cup {Blank}]
      <3> HIDE DEF p
      <3> QED  BY <2>4, <2>5
    <2>7. moved' \in [Tags -> Nat]
      BY <2>1
    <2> HIDE DEF p, b, Bounds
    <2>8. RamdiskTypeOK'
      BY <2>1, <2>2, <2>6, <2>7
    <2> QED
      BY <2>3, <2>6, <2>8
  <1>4. ASSUME NEW t \in Tags, DropLock(t) PROVE RamdiskTyped'
    BY <1>4 DEF DropLock
  <1>5. ASSUME NEW t \in Tags, EndTransfer(t) PROVE RamdiskTyped'
    BY <1>5 DEF EndTransfer, NoPage
  <1>6. CASE UNCHANGED ramdiskVars
    BY <1>6 DEF ramdiskVars
  <1> QED
    BY <1>1, <1>2, <1>3, <1>4, <1>5, <1>6 DEF RamdiskNext, Transfer

\* What the lemmas below need of the types.
Types ==
  /\ queue \in {"request", "bio"}
  /\ at \in [Tags -> {"idle", "lock", "copy", "unlock", "end"}]
  /\ dir \in [Tags -> {"none", "read", "write"}]
  /\ segments \in [Tags -> Nat]
  /\ moved \in [Tags -> Nat]
  /\ page = [t \in Tags |-> page[t]]

(* Whoever is inside keeps the spinlock to itself. *)
LEMMA NextLockOwned ==
  ASSUME Types, LockOwned, [RamdiskNext]_ramdiskVars
  PROVE  LockOwned'
  <1> USE RamdiskAssumption DEF Types, LockOwned, Inside
  <1>1. ASSUME NEW t \in Tags, Submit(t) PROVE LockOwned'
    BY <1>1 DEF Submit
  <1>2. ASSUME NEW t \in Tags, TakeLock(t) PROVE LockOwned'
    <2> SUFFICES ASSUME NEW u \in Tags PROVE Inside(u)' <=> ramLock' = u
      OBVIOUS
    <2>1. CASE u = t
      BY <1>2, <2>1 DEF TakeLock
    <2>2. CASE u # t
      <3>1. ~Inside(u)
        BY <1>2 DEF TakeLock
      <3>2. at'[u] = at[u] /\ queue' = queue /\ ramLock' = t
        BY <1>2, <2>2 DEF TakeLock
      <3> QED
        BY <2>2, <3>1, <3>2
    <2> QED
      BY <2>1, <2>2
  <1>3. ASSUME NEW t \in Tags, CopySegment(t) PROVE LockOwned'
    BY <1>3 DEF CopySegment, transferVars
  <1>4. ASSUME NEW t \in Tags, DropLock(t) PROVE LockOwned'
    BY <1>4 DEF DropLock, transferVars
  <1>5. ASSUME NEW t \in Tags, EndTransfer(t) PROVE LockOwned'
    BY <1>5 DEF EndTransfer
  <1>6. CASE UNCHANGED ramdiskVars
    BY <1>6 DEF ramdiskVars, transferVars
  <1> QED
    BY <1>1, <1>2, <1>3, <1>4, <1>5, <1>6 DEF RamdiskNext, Transfer

(* A direction comes with the submission and goes with the end. *)
LEMMA NextHasDirection ==
  ASSUME Types, HasDirection, [RamdiskNext]_ramdiskVars
  PROVE  HasDirection'
  <1> USE RamdiskAssumption DEF Types, HasDirection
  <1>1. ASSUME NEW t \in Tags, Submit(t) PROVE HasDirection'
    <2> SUFFICES ASSUME NEW u \in Tags
                 PROVE  dir'[u] # "none" <=>
                          \/ at'[u] \in {"lock", "copy", "end"}
                          \/ at'[u] = "unlock" /\ queue' = "bio"
      OBVIOUS
    <2>1. PICK d \in {"read", "write"} : dir' = [dir EXCEPT ![t] = d]
      BY <1>1 DEF Submit
    <2>2. CASE u = t
      BY <1>1, <2>1, <2>2 DEF Submit
    <2>3. CASE u # t
      BY <1>1, <2>1, <2>3 DEF Submit
    <2> QED
      BY <2>2, <2>3
  <1>2. ASSUME NEW t \in Tags, TakeLock(t) PROVE HasDirection'
    BY <1>2 DEF TakeLock, transferVars
  <1>3. ASSUME NEW t \in Tags, CopySegment(t) PROVE HasDirection'
    BY <1>3 DEF CopySegment, transferVars
  <1>4. ASSUME NEW t \in Tags, DropLock(t) PROVE HasDirection'
    BY <1>4 DEF DropLock, transferVars
  <1>5. ASSUME NEW t \in Tags, EndTransfer(t) PROVE HasDirection'
    BY <1>5 DEF EndTransfer
  <1>6. CASE UNCHANGED ramdiskVars
    BY <1>6 DEF ramdiskVars, transferVars
  <1> QED
    BY <1>1, <1>2, <1>3, <1>4, <1>5, <1>6 DEF RamdiskNext, Transfer

(* The end forgets what was copied. *)
LEMMA NextFresh ==
  ASSUME Types, HasDirection, Fresh, [RamdiskNext]_ramdiskVars
  PROVE  Fresh'
  <1> USE RamdiskAssumption DEF Types, HasDirection, Fresh
  <1>1. ASSUME NEW t \in Tags, Submit(t) PROVE Fresh'
    BY <1>1 DEF Submit
  <1>2. ASSUME NEW t \in Tags, TakeLock(t) PROVE Fresh'
    BY <1>2 DEF TakeLock, transferVars
  <1>3. ASSUME NEW t \in Tags, CopySegment(t) PROVE Fresh'
    BY <1>3 DEF CopySegment, transferVars
  <1>4. ASSUME NEW t \in Tags, DropLock(t) PROVE Fresh'
    BY <1>4 DEF DropLock, transferVars
  <1>5. ASSUME NEW t \in Tags, EndTransfer(t) PROVE Fresh'
    BY <1>5 DEF EndTransfer
  <1>6. CASE UNCHANGED ramdiskVars
    BY <1>6 DEF ramdiskVars, transferVars
  <1> QED
    BY <1>1, <1>2, <1>3, <1>4, <1>5, <1>6 DEF RamdiskNext, Transfer

(* The first segment of a request, and a bio, is copied to its end. *)
LEMMA NextDone ==
  ASSUME Types, Bounds, Done, [RamdiskNext]_ramdiskVars
  PROVE  Done'
  <1> USE RamdiskAssumption DEF Types, Bounds, BoundsOf, Done, Length
  <1>1. ASSUME NEW t \in Tags, Submit(t) PROVE Done'
    BY <1>1 DEF Submit
  <1>2. ASSUME NEW t \in Tags, TakeLock(t) PROVE Done'
    BY <1>2 DEF TakeLock, transferVars
  <1>3. ASSUME NEW t \in Tags, CopySegment(t) PROVE Done'
    <2> SUFFICES ASSUME NEW u \in Tags
                 PROVE  /\ at'[u] \in {"end", "unlock"} => moved'[u] = Length(u)'
                        /\ at'[u] = "end" \/ (at'[u] = "unlock" /\ queue' = "bio") =>
                             segments'[u] > 0
      OBVIOUS
    <2>1. segments' = segments /\ queue' = queue
      BY <1>3 DEF CopySegment, transferVars
    <2>2. CASE u = t
      <3>1. /\ moved[t] \in Nat /\ segments[t] \in Nat /\ moved[t] < segments[t]
            /\ queue = "request" => moved[t] = 0
        BY <1>3 DEF CopySegment
      <3>2. moved'[t] = moved[t] + 1
        BY <1>3 DEF CopySegment
      <3>3. queue = "bio" /\ at'[t] \in {"end", "unlock"} => moved[t] + 1 = segments[t]
        BY <1>3 DEF CopySegment
      <3> QED
        BY <2>1, <2>2, <3>1, <3>2, <3>3
    <2>3. CASE u # t
      BY <1>3, <2>1, <2>3 DEF CopySegment
    <2> QED
      BY <2>2, <2>3
  <1>4. ASSUME NEW t \in Tags, DropLock(t) PROVE Done'
    BY <1>4 DEF DropLock, transferVars
  <1>5. ASSUME NEW t \in Tags, EndTransfer(t) PROVE Done'
    BY <1>5 DEF EndTransfer
  <1>6. CASE UNCHANGED ramdiskVars
    BY <1>6 DEF ramdiskVars, transferVars
  <1> QED
    BY <1>1, <1>2, <1>3, <1>4, <1>5, <1>6 DEF RamdiskNext, Transfer

(* A step keeps the invariant. *)
LEMMA NextRamdisk ==
  ASSUME RamdiskInv, [RamdiskNext]_ramdiskVars
  PROVE  RamdiskInv'
  <1>1. Types /\ Bounds
    BY DEF RamdiskInv, RamdiskTyped, Types, RamdiskTypeOK
  <1> QED
    BY <1>1, NextRamdiskTyped, NextLockOwned, NextHasDirection, NextFresh, NextDone DEF RamdiskInv
-----------------------------------------------------------------------------
(* The refinement of Disk *)

Served == {t \in Tags : dir[t] # "none" /\ at[t] \in {"copy", "unlock", "end"}}

\* A step of t leaves the other transfers alone.
Apart(t) ==
  \A u \in Tags \ {t} :
    /\ at'[u] = at[u] /\ dir'[u] = dir[u] /\ moved'[u] = moved[u] /\ page'[u] = page[u]
    /\ start'[u] = start[u] /\ segments'[u] = segments[u]

(* No step touches another transfer. *)
LEMMA StepsApart ==
  ASSUME RamdiskTyped, NEW t \in Tags, Submit(t) \/ TakeLock(t) \/ Transfer(t)
  PROVE  Apart(t) /\ queue' = queue
  <1> USE DEF RamdiskTyped, RamdiskTypeOK, Apart, transferVars
  <1>1. CASE Submit(t)       BY <1>1 DEF Submit
  <1>2. CASE TakeLock(t)     BY <1>2 DEF TakeLock
  <1>3. CASE CopySegment(t)  BY <1>3 DEF CopySegment
  <1>4. CASE DropLock(t)     BY <1>4 DEF DropLock
  <1>5. CASE EndTransfer(t)  BY <1>5 DEF EndTransfer
  <1> QED
    BY <1>1, <1>2, <1>3, <1>4, <1>5 DEF Transfer

(* How much a transfer copies is settled when it is submitted. *)
LEMMA LengthStays ==
  ASSUME NEW t \in Tags, queue' = queue, segments' = segments
  PROVE  Length(t)' = Length(t)
  BY DEF Length

(* What another transfer stands for stays, unless it has still to copy.    *)
LEMMA OthersStay ==
  ASSUME NEW t \in Tags, Apart(t), queue' = queue, NEW u \in Tags \ {t}
  PROVE  /\ Reach(u)' = Reach(u)
         /\ Rest(u)' = Rest(u)
         /\ (u \in Served)' <=> u \in Served
         /\ ram' = ram \/ Rest(u) = {} => Found(u)' = Found(u)
  <1>1. \A i : Block(u, i)' = Block(u, i)
    BY DEF Apart, Block
  <1>2. Reach(u)' = Reach(u)
    BY <1>1 DEF Reach, Length, Apart
  <1>3. Rest(u)' = Rest(u)
    BY <1>1 DEF Rest, Length, Apart
  <1>4. (u \in Served)' <=> u \in Served
    BY DEF Served, Apart
  <1>5. ram' = ram \/ Rest(u) = {} => Found(u)' = Found(u)
    BY <1>3 DEF Found, Apart
  <1> QED
    BY <1>2, <1>3, <1>4, <1>5

(* The blocks that t copies next, one by one, make up its reach.           *)
LEMMA RestShrinks ==
  ASSUME RamdiskTyped, NEW t \in Tags, CopySegment(t)
  PROVE  Block(t, moved[t]) \in Rest(t) /\ Rest(t)' = Rest(t) \ {Block(t, moved[t])}
  <1> DEFINE n == Length(t)
  <1>1. /\ start[t] \in Nat /\ moved[t] \in Nat /\ segments[t] \in Nat
        /\ moved[t] < segments[t]
        /\ queue = "request" => moved[t] = 0
    <2>1. at[t] = "copy"
      BY DEF CopySegment
    <2> QED
      BY <2>1 DEF RamdiskTyped, RamdiskTypeOK, Bounds, BoundsOf, Blocks
  <1>2. at[t] = "copy" /\ queue' = queue /\ start' = start /\ segments' = segments
    BY DEF CopySegment, transferVars
  <1>3. n' = n /\ n = (IF queue = "request" THEN 1 ELSE segments[t])
    BY <1>1, <1>2, LengthStays DEF Length
  <1> HIDE DEF n
  <1>4. moved'[t] = moved[t] + 1 /\ n \in Nat /\ moved[t] < n
    BY <1>1, <1>3 DEF CopySegment, RamdiskTyped, RamdiskTypeOK
  <1>5. (at'[t] = "copy" /\ moved[t] + 1 < n) \/ (at'[t] # "copy" /\ moved[t] + 1 = n)
    <2>1. CASE queue = "request"
      <3>1. at'[t] = "end"
        BY <2>1 DEF CopySegment, RamdiskTyped, RamdiskTypeOK
      <3> QED  BY <1>1, <1>3, <2>1, <3>1
    <2>2. CASE queue = "bio"
      <3>1. at'[t] = IF moved[t] + 1 = segments[t] THEN "unlock" ELSE "copy"
        BY <2>2 DEF CopySegment, RamdiskTyped, RamdiskTypeOK
      <3> QED  BY <1>1, <1>3, <2>2, <3>1
    <2> QED  BY <2>1, <2>2 DEF RamdiskTyped, RamdiskTypeOK
  <1>6. Rest(t) = {start[t] + i : i \in moved[t] .. n - 1}
    BY <1>2 DEF Rest, Block, n
  <1>7. CASE at'[t] = "copy" /\ moved[t] + 1 < n
    <2>1. Rest(t)' = {start[t] + i : i \in moved[t] + 1 .. n - 1}
      BY <1>2, <1>3, <1>4, <1>7 DEF Rest, Block, n
    <2> QED
      BY <1>1, <1>4, <1>6, <2>1 DEF Block
  <1>8. CASE at'[t] # "copy" /\ moved[t] + 1 = n
    <2>1. Rest(t)' = {}
      BY <1>8 DEF Rest
    <2> QED
      BY <1>1, <1>4, <1>6, <1>8, <2>1 DEF Block
  <1> QED
    BY <1>5, <1>7, <1>8

Reaches == [t \in Tags |-> Reach(t)]
Founds == [t \in Tags |-> Found(t)]

(* A transfer that reaches the driver is a request for its blocks.         *)
LEMMA SubmitAsks ==
  ASSUME RamdiskInv, NEW t \in Tags, Submit(t)
  PROVE  RamStore!Ask(t)
  <1> USE RamdiskAssumption
  <1>1. PICK d \in {"read", "write"}, s \in Blocks, n \in 1 .. MaxSegments :
          /\ s + n - 1 \in Blocks
          /\ dir' = [dir EXCEPT ![t] = d]
          /\ start' = [start EXCEPT ![t] = s]
          /\ segments' = [segments EXCEPT ![t] = n]
    BY DEF Submit
  <1>2. Apart(t) /\ queue' = queue
    BY StepsApart DEF RamdiskInv
  <1>3. at[t] = "idle" /\ at'[t] = "lock" /\ ram' = ram /\ ramLock' = ramLock /\ page' = page
    BY DEF Submit, RamdiskInv, RamdiskTyped, RamdiskTypeOK
  <1>4. /\ start'[t] = s /\ segments'[t] = n /\ n \in Nat
        /\ Length(t)' \in Nat /\ Length(t)' <= n
    BY <1>1 DEF RamdiskInv, RamdiskTyped, RamdiskTypeOK, MaxSegments, Length
  <1>5. Reach(t)' = {s + i : i \in 0 .. Length(t)' - 1}
    BY <1>4 DEF Reach, Block
  <1>6. Reach(t)' \subseteq Blocks
    BY <1>1, <1>4, <1>5 DEF Blocks
  <1>7. Reaches' = [Reaches EXCEPT ![t] = Reach(t)']
    BY <1>2, OthersStay DEF Reaches
  <1>8. dir[t] = "none" /\ page[t] = NoPage /\ Rest(t) = {} /\ Rest(t)' = {}
    BY <1>3 DEF RamdiskInv, HasDirection, Fresh, Rest
  <1>9. Found(t) = NoPage /\ Found(t)' = NoPage
    BY <1>3, <1>8 DEF Found, NoPage
  <1>10. Founds' = Founds
    BY <1>2, <1>3, <1>9, OthersStay DEF Founds
  <1>11. ramLock # t
    BY <1>3 DEF RamdiskInv, LockOwned, Inside
  <1>12. Store' = Store
    BY <1>2, <1>3, <1>11, OthersStay DEF Store, Apart
  <1>13. Served' = Served
    BY <1>2, <1>3, OthersStay DEF Served
  <1> QED
    BY <1>1, <1>6, <1>7, <1>8, <1>10, <1>12, <1>13
    DEF RamStore!Ask, Reaches, Founds, Served

(* The transfer that gets the spinlock is served. *)
LEMMA TakeLockServes ==
  ASSUME RamdiskInv, NEW t \in Tags, TakeLock(t)
  PROVE  RamStore!ServeWrite(t) \/ RamStore!ServeRead(t)
  <1> USE RamdiskAssumption
  <1>1. Apart(t) /\ queue' = queue
    BY StepsApart DEF RamdiskInv
  <1>2. /\ at[t] = "lock" /\ at'[t] = "copy" /\ ramLock = NoTag /\ ramLock' = t
        /\ ram' = ram /\ page' = page /\ moved' = moved
        /\ dir' = dir /\ start' = start /\ segments' = segments
    BY DEF TakeLock, transferVars, RamdiskInv, RamdiskTyped, RamdiskTypeOK
  <1>3. moved[t] = 0 /\ page[t] = NoPage /\ dir[t] \in {"read", "write"}
    <2>1. moved[t] = 0
      BY <1>2 DEF RamdiskInv, RamdiskTyped, Bounds, BoundsOf
    <2>2. page[t] = NoPage
      BY <1>2 DEF RamdiskInv, Fresh
    <2>3. dir[t] \in {"read", "write"}
      BY <1>2 DEF RamdiskInv, RamdiskTyped, RamdiskTypeOK, HasDirection
    <2> QED  BY <2>1, <2>2, <2>3
  <1>4. Rest(t) = {} /\ Reach(t)' = Reach(t) /\ Rest(t)' = Reach(t)
    BY <1>1, <1>2, <1>3, LengthStays DEF Rest, Reach, Block
  <1>5. Reaches' = Reaches
    BY <1>1, <1>4, OthersStay DEF Reaches
  <1>6. Store = ram
    BY <1>2 DEF Store, RamdiskInv, RamdiskTyped, RamdiskTypeOK
  <1>7. Store' = [b \in Blocks |-> IF dir[t] = "write" /\ b \in Reach(t) THEN t ELSE Store[b]]
    BY <1>2, <1>4, <1>6 DEF Store
  <1>8. t \notin Served /\ Served' = Served \cup {t}
    BY <1>1, <1>2, <1>3, OthersStay DEF Served
  <1>9. CASE dir[t] = "write"
    <2>1. Found(t)' = Found(t)
      BY <1>2, <1>9 DEF Found
    <2>2. Founds' = Founds
      BY <1>1, <1>2, <2>1, OthersStay DEF Founds
    <2>3. Store' = [b \in Blocks |-> IF b \in Reach(t) THEN t ELSE Store[b]]
      BY <1>7, <1>9
    <2> QED
      BY <1>2, <1>5, <1>8, <1>9, <2>2, <2>3
      DEF RamStore!ServeWrite, Reaches, Founds, Served
  <1>10. CASE dir[t] = "read"
    <2>1. Store' = Store
      BY <1>6, <1>7, <1>10 DEF RamdiskInv, RamdiskTyped, RamdiskTypeOK
    <2>2. Found(t)' = [b \in Reach(t) |-> Store[b]]
      BY <1>2, <1>3, <1>4, <1>6, <1>10 DEF Found, NoPage
    <2>3. Founds' = [Founds EXCEPT ![t] = [b \in Reach(t) |-> Store[b]]]
      BY <1>1, <1>2, <2>2, OthersStay DEF Founds
    <2> QED
      BY <1>2, <1>5, <1>8, <1>10, <2>1, <2>3
      DEF RamStore!ServeRead, Reaches, Founds, Served
  <1> QED
    BY <1>3, <1>9, <1>10

(* Copying one block after the other changes nothing more. *)
LEMMA CopyStutters ==
  ASSUME RamdiskInv, NEW t \in Tags, CopySegment(t)
  PROVE  Store' = Store /\ dir' = dir /\ Reaches' = Reaches /\ Served' = Served /\ Founds' = Founds
  <1> USE RamdiskAssumption
  <1> DEFINE b == Block(t, moved[t])
  <1>1. Apart(t) /\ queue' = queue
    BY StepsApart DEF RamdiskInv, Transfer
  <1>2. /\ at[t] = "copy" /\ at'[t] \in {"copy", "unlock", "end"} /\ ramLock' = ramLock
        /\ dir' = dir /\ start' = start /\ segments' = segments
    BY DEF CopySegment, transferVars, RamdiskInv, RamdiskTyped, RamdiskTypeOK
  <1>3. ramLock = t /\ \A u \in Tags \ {t} : Rest(u) = {}
    BY <1>2 DEF RamdiskInv, LockOwned, Inside, Rest
  <1>4. b \in Rest(t) /\ Rest(t)' = Rest(t) \ {b}
    BY RestShrinks DEF RamdiskInv
  <1>5. Reach(t)' = Reach(t)
    BY <1>1, <1>2, LengthStays DEF Reach, Block
  <1>6. Reaches' = Reaches
    BY <1>1, <1>5, OthersStay DEF Reaches
  <1>7. Served' = Served
    BY <1>1, <1>2, OthersStay DEF Served
  <1>8. dir[t] \in {"read", "write"}
    BY <1>2 DEF RamdiskInv, RamdiskTyped, RamdiskTypeOK, HasDirection
  <1>9. CASE dir[t] = "read"
    <2> DEFINE p == [c \in DOMAIN page[t] \cup {b} |-> IF c = b THEN ram[b] ELSE page[t][c]]
    <2>1. ram' = ram /\ page'[t] = p
      BY <1>9 DEF CopySegment, RamdiskInv, RamdiskTyped
    <2>2. Store' = Store
      BY <1>2, <1>3, <1>9, <2>1 DEF Store
    <2>3. DOMAIN page'[t] = DOMAIN page[t] \cup {b}
      BY <2>1
    <2>4. DOMAIN page'[t] \cup Rest(t)' = DOMAIN page[t] \cup Rest(t)
      BY <1>4, <2>3
    <2>5. \A c \in DOMAIN page[t] \cup Rest(t) :
            (IF c \in Rest(t)' THEN ram'[c] ELSE page'[t][c])
              = (IF c \in Rest(t) THEN ram[c] ELSE page[t][c])
      BY <1>4, <2>1
    <2>6. Found(t)' = Found(t)
      <3> HIDE DEF p, b
      <3> QED  BY <1>2, <1>9, <2>4, <2>5 DEF Found
    <2>7. Founds' = Founds
      BY <1>1, <2>1, <2>6, OthersStay DEF Founds
    <2> QED
      BY <1>2, <1>6, <1>7, <2>2, <2>7
  <1>10. CASE dir[t] = "write"
    <2>1. ram' = [ram EXCEPT ![b] = t]
      BY <1>10 DEF CopySegment
    <2>2. \A c \in Blocks :
            (IF c \in Rest(t)' THEN t ELSE ram'[c]) = (IF c \in Rest(t) THEN t ELSE ram[c])
      BY <1>4, <2>1 DEF RamdiskInv, RamdiskTyped, RamdiskTypeOK
    <2>3. Store' = Store
      <3> HIDE DEF b
      <3> QED  BY <1>2, <1>3, <1>10, <2>2 DEF Store
    <2>4. Found(t)' = Found(t)
      BY <1>2, <1>10 DEF Found
    <2>5. Founds' = Founds
      BY <1>1, <1>3, <2>4, OthersStay DEF Founds
    <2> QED
      BY <1>2, <1>6, <1>7, <2>3, <2>5
  <1> QED
    BY <1>8, <1>9, <1>10

(* Neither does dropping the spinlock. *)
LEMMA DropStutters ==
  ASSUME RamdiskInv, NEW t \in Tags, DropLock(t)
  PROVE  Store' = Store /\ dir' = dir /\ Reaches' = Reaches /\ Served' = Served /\ Founds' = Founds
  <1> USE RamdiskAssumption
  <1>1. Apart(t) /\ queue' = queue
    BY StepsApart DEF RamdiskInv, Transfer
  <1>2. /\ at[t] = "unlock" /\ at'[t] \notin {"copy", "unlock"}
        /\ at'[t] = "end" <=> queue = "bio"
        /\ ramLock' = NoTag /\ ram' = ram /\ page' = page /\ moved' = moved
        /\ dir' = dir /\ start' = start /\ segments' = segments
    BY DEF DropLock, transferVars, RamdiskInv, RamdiskTyped, RamdiskTypeOK
  <1>3. ramLock = t /\ Rest(t) = {} /\ Rest(t)' = {}
    BY <1>2 DEF RamdiskInv, LockOwned, Inside, Rest
  <1>4. Reach(t)' = Reach(t) /\ Found(t)' = Found(t)
    BY <1>1, <1>2, <1>3, LengthStays DEF Reach, Block, Found
  <1>5. Reaches' = Reaches /\ Founds' = Founds
    BY <1>1, <1>2, <1>4, OthersStay DEF Reaches, Founds
  <1>6. Store = ram /\ Store' = ram
    BY <1>2, <1>3 DEF Store, RamdiskInv, RamdiskTyped, RamdiskTypeOK
  <1>7. dir[t] # "none" <=> queue = "bio"
    BY <1>2 DEF RamdiskInv, RamdiskTyped, RamdiskTypeOK, HasDirection
  <1>8. Served' = Served
    BY <1>1, <1>2, <1>7, OthersStay DEF Served
  <1> QED
    BY <1>2, <1>5, <1>6, <1>8

(* blk_mq_end_request and bio_endio end what has been served. *)
LEMMA EndEnds ==
  ASSUME RamdiskInv, NEW t \in Tags, EndTransfer(t)
  PROVE  RamStore!End(t)
  <1> USE RamdiskAssumption
  <1>1. Apart(t) /\ queue' = queue
    BY StepsApart DEF RamdiskInv, Transfer
  <1>2. /\ at[t] = "end" /\ at'[t] \notin {"copy", "end"}
        /\ dir' = [dir EXCEPT ![t] = "none"] /\ dir'[t] = "none"
        /\ segments'[t] = 0 /\ page'[t] = NoPage /\ ramLock' = ramLock /\ ram' = ram
    BY DEF EndTransfer, RamdiskInv, RamdiskTyped, RamdiskTypeOK
  <1>3. dir[t] # "none"
    BY <1>2 DEF RamdiskInv, HasDirection
  <1>4. t \in Served /\ Served' = Served \ {t}
    BY <1>1, <1>2, <1>3, OthersStay DEF Served
  <1>5. Reach(t)' = {}
    BY <1>2 DEF Reach, Length
  <1>6. Reaches' = [Reaches EXCEPT ![t] = {}]
    BY <1>1, <1>5, OthersStay DEF Reaches
  <1>7. Found(t)' = NoPage
    BY <1>2 DEF Found
  <1>8. Founds' = [Founds EXCEPT ![t] = NoPage]
    BY <1>1, <1>2, <1>7, OthersStay DEF Founds
  <1>9. Rest(t) = {} /\ Rest(t)' = {}
    BY <1>2 DEF Rest
  <1>10. Store' = Store
    BY <1>1, <1>2, <1>9, OthersStay DEF Store, Apart
  <1> QED
    BY <1>2, <1>4, <1>6, <1>8, <1>10
    DEF RamStore!End, RamStore!Nothing, NoPage, Reaches, Founds, Served

(* The driver begins with an unwritten disk and nothing asked. *)
LEMMA InitRefines == RamdiskInit => RamStore!Init
  <1> SUFFICES ASSUME RamdiskInit PROVE RamStore!Init
    OBVIOUS
  <1> USE RamdiskAssumption DEF RamdiskInit
  <1>1. ASSUME NEW t \in Tags PROVE Reach(t) = {} /\ Found(t) = NoPage
    <2>1. segments[t] = 0 /\ dir[t] = "none"
      OBVIOUS
    <2>2. 0 .. segments[t] - 1 = {}
      BY <2>1
    <2> QED
      BY <2>1, <2>2 DEF Reach, Length, Found
  <1>2. Store = ram
    BY DEF Store
  <1> QED
    BY <1>1, <1>2 DEF RamStore!Init, RamStore!Nothing, NoPage

(* Every step is one of the disk's, or none. *)
LEMMA NextRefines ==
  ASSUME RamdiskInv, [RamdiskNext]_ramdiskVars
  PROVE  [RamStore!Next]_(RamStore!diskVars)
  <1>1. ASSUME NEW t \in Tags, Submit(t) \/ TakeLock(t) \/ EndTransfer(t)
        PROVE  RamStore!Next
    BY <1>1, SubmitAsks, TakeLockServes, EndEnds DEF RamStore!Next
  <1>2. ASSUME NEW t \in Tags, CopySegment(t) \/ DropLock(t)
        PROVE  UNCHANGED RamStore!diskVars
    BY <1>2, CopyStutters, DropStutters DEF RamStore!diskVars, Reaches, Founds, Served
  <1>3. CASE UNCHANGED ramdiskVars
    BY <1>3
    DEF ramdiskVars, transferVars, RamStore!diskVars, Store, Rest, Reach, Length, Block, Found
  <1> QED
    BY <1>1, <1>2, <1>3 DEF RamdiskNext, Transfer

-----------------------------------------------------------------------------
(* Every variable of the two RAM disks keeps its type, whatever is merged. *)
THEOREM RamdiskTyping == RamdiskSpec => []RamdiskTypeOK
  <1>1. RamdiskInit => RamdiskTyped
    BY InitRamdisk DEF RamdiskInv
  <1>2. RamdiskTyped => RamdiskTypeOK
    BY DEF RamdiskTyped
  <1> QED
    BY <1>1, <1>2, NextRamdiskTyped, PTL DEF RamdiskSpec

(* The invariant of the two drivers. *)
THEOREM RamdiskInvariant == RamdiskSpec => []RamdiskInv
  <1>1. RamdiskInv /\ [RamdiskNext]_ramdiskVars => RamdiskInv'
    BY NextRamdisk
  <1> QED
    BY <1>1, InitRamdisk, PTL DEF RamdiskSpec

(* Copying segment by segment under the spinlock acts as one step on the   *)
(* disk: on all the blocks of a bio (ramdisk.c:60-74 of 27), on the first  *)
(* of a request (72-75 of 26), however many have been merged.              *)
THEOREM Refinement == RamdiskSpec => ImplementsDisk
  <1>1. RamdiskInv /\ [RamdiskNext]_ramdiskVars => [RamStore!Next]_(RamStore!diskVars)
    BY NextRefines
  <1> QED
    BY <1>1, InitRefines, RamdiskInvariant, PTL DEF RamdiskSpec, ImplementsDisk, RamStore!Spec

(* What a transfer has copied when it is ended: every segment of a bio, of *)
(* a request the first and no other (ramdisk.c:43 of 26).                  *)
THEOREM Copying ==
  RamdiskSpec =>
    [](\A t \in Tags : at[t] = "end" => moved[t] = IF queue = "bio" THEN segments[t] ELSE 1)
  <1>1. RamdiskInv => \A t \in Tags :
                  at[t] = "end" => moved[t] = IF queue = "bio" THEN segments[t] ELSE 1
    BY DEF RamdiskInv, RamdiskTyped, RamdiskTypeOK, Done, Length
  <1> QED
    BY <1>1, RamdiskInvariant, PTL

-----------------------------------------------------------------------------
(* As long as the block layer merges nothing *)

\* The disk that serves a transfer for all the blocks that it asked for.
WholeStore == INSTANCE Disk WITH
  disk   <- Store,
  op     <- dir,
  area   <- [t \in Tags |-> Area(t)],
  served <- Served,
  got    <- Founds

\* No request has a second segment.
Unmerged == queue = "request" => \A t \in Tags : segments[t] <= 1

(* There are none before the first submission. *)
LEMMA InitUnmerged == RamdiskInit => Unmerged
  <1> SUFFICES ASSUME RamdiskInit, NEW t \in Tags PROVE segments[t] <= 1
    BY DEF Unmerged
  <1>1. segments[t] = 0
    BY DEF RamdiskInit
  <1> QED
    BY <1>1

(* Nothing but a submission brings segments. *)
LEMMA NextUnmerged ==
  ASSUME RequestSegments <= 1, RamdiskInv, Unmerged, [RamdiskNext]_ramdiskVars
  PROVE  Unmerged'
  <1> USE DEF Unmerged
  <1>1. segments \in [Tags -> Nat]
    BY DEF RamdiskInv, RamdiskTyped, RamdiskTypeOK
  <1>2. ASSUME NEW t \in Tags, Submit(t) PROVE Unmerged'
    BY RamdiskAssumption, <1>1, <1>2 DEF Submit, MaxSegments
  <1>3. ASSUME NEW t \in Tags, EndTransfer(t) PROVE Unmerged'
    BY <1>1, <1>3 DEF EndTransfer
  <1>4. ASSUME NEW t \in Tags, TakeLock(t) \/ CopySegment(t) \/ DropLock(t) PROVE Unmerged'
    BY <1>4 DEF TakeLock, CopySegment, DropLock, transferVars
  <1>5. CASE UNCHANGED ramdiskVars
    BY <1>5 DEF ramdiskVars, transferVars
  <1> QED
    BY <1>2, <1>3, <1>4, <1>5 DEF RamdiskNext, Transfer

(* Then a transfer copies all that it asked for. *)
LEMMA ReachIsArea ==
  ASSUME RamdiskInv, Unmerged, NEW t \in Tags
  PROVE  Length(t) = segments[t] /\ Reach(t) = Area(t)
  <1>1. segments[t] \in Nat
    BY DEF RamdiskInv, RamdiskTyped, RamdiskTypeOK
  <1>2. Length(t) = segments[t]
    BY <1>1 DEF Unmerged, Length
  <1> QED
    BY <1>2 DEF Reach, Area

(* What is ended has been transferred (ramdisk.c:73 of 26), if requests    *)
(* have one segment; of 27 it is true as it is.                            *)
THEOREM WholeTransfers ==
  ASSUME RequestSegments <= 1 PROVE RamdiskSpec => []EndedIsTransferred
  <1>1. RamdiskInv /\ RamdiskInv' /\ Unmerged /\ [RamdiskNext]_ramdiskVars => Unmerged'
    BY NextUnmerged
  <1>2. RamdiskInv /\ Unmerged => EndedIsTransferred
    BY ReachIsArea DEF RamdiskInv, Done, EndedIsTransferred
  <1> QED
    BY InitUnmerged, <1>1, <1>2, RamdiskInvariant, PTL DEF RamdiskSpec

(* If requests have one segment, a transfer is served in one step for all  *)
(* the blocks that it asked for.                                           *)
THEOREM WholeRefinement ==
  ASSUME RequestSegments <= 1 PROVE RamdiskSpec => WholeStore!Spec
  <1>1. RamdiskInv /\ RamdiskInv' /\ Unmerged /\ [RamdiskNext]_ramdiskVars => Unmerged'
    BY NextUnmerged
  <1>2. RamdiskInv /\ Unmerged => Reaches = [t \in Tags |-> Area(t)]
    BY ReachIsArea DEF Reaches
  <1>3. RamdiskInit => WholeStore!Init
    BY InitUnmerged, <1>2, InitRamdisk, InitRefines
    DEF WholeStore!Init, WholeStore!Nothing, RamStore!Init, RamStore!Nothing, Reaches, Founds,
        Served
  <1>4. ASSUME RamdiskInv, Unmerged, RamdiskInv', Unmerged', [RamdiskNext]_ramdiskVars
        PROVE  [WholeStore!Next]_(WholeStore!diskVars)
    <2>1. [RamStore!Next]_(RamStore!diskVars)
      BY <1>4, NextRefines
    <2>2. Reaches = [t \in Tags |-> Area(t)] /\ Reaches' = [t \in Tags |-> Area(t)]'
      <3>1. Reaches = [t \in Tags |-> Area(t)]
        BY <1>2, <1>4
      <3>2. (RamdiskInv /\ Unmerged => Reaches = [t \in Tags |-> Area(t)])'
        BY <1>2, PTL
      <3> QED
        BY <1>4, <3>1, <3>2
    <2> QED
      BY <2>1, <2>2
      DEF RamStore!Next, RamStore!diskVars, RamStore!Ask, RamStore!ServeWrite, RamStore!ServeRead,
          RamStore!End, RamStore!Nothing, WholeStore!Next, WholeStore!diskVars, WholeStore!Ask,
          WholeStore!ServeWrite, WholeStore!ServeRead, WholeStore!End, WholeStore!Nothing,
          Reaches, Founds, Served
  <1> QED
    BY InitUnmerged, <1>1, <1>3, <1>4, RamdiskInvariant, PTL DEF RamdiskSpec, WholeStore!Spec
=============================================================================
