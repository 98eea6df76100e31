------------------------- MODULE DriverModuleProofs -------------------------
(***************************************************************************)
(* Proofs about DriverModule, for any number of loads and files.  First    *)
(* what holds of every table with a ladder that covers what was acquired,  *)
(* or an order that acquires what is used before what makes it usable;     *)
(* then that the tables of the drivers have such ladders and orders.       *)
(***************************************************************************)
EXTENDS DriverModule, TLAPS

\* The elements of a list.
Elems(l) == {l[i] : i \in 1 .. Len(l)}

\* No element comes twice.
Once(l) == \A i, j \in 1 .. Len(l) : l[i] = l[j] => i = j

\* l lists the set u.
Lists(l, u) == Elems(l) = u /\ Once(l)

(* Whatever of R is held, or acquired before step i of s fails, is in the  *)
(* ladder of step i; and all of it is in the releases of exit, down.       *)
Covers(R, s, h, down) ==
  /\ \A i \in 1 .. Len(s) : s[i].try = "checked" =>
       \A r \in R : r \in h \/ (\E j \in 1 .. i - 1 : s[j].res = r) => r \in Elems(s[i].undo)
  /\ \A r \in R : r \in h \/ (\E j \in 1 .. Len(s) : s[j].res = r) => r \in Elems(down)

(* n is acquired after all of U, and nothing after it fails. *)
Follows(n, U, s, h) ==
  /\ n \in h => U \subseteq h /\ \A i \in 1 .. Len(s) : s[i].try # "checked"
  /\ \A m \in 1 .. Len(s) : s[m].res = n =>
       /\ \A u \in U : u \in h \/ \E j \in 1 .. m - 1 : s[j].res = u /\ s[j].try # "ignored"
       /\ \A i \in m + 1 .. Len(s) : s[i].try # "checked"

Typed ==
  /\ TypeOK
  /\ phase = "init" => todo \in Seq(Steps)
  /\ phase \in {"unwind", "exit"} => todo \in Seq(Resources)

\* What of R is held will be released.
Covered(R) ==
  /\ phase = "out" => held \cap R = {}
  /\ phase = "init" => Covers(R, todo, held, drv.exit)
  /\ phase = "live" => held \cap R \subseteq Elems(drv.exit)
  /\ phase \in {"unwind", "exit"} => held \cap R \subseteq Elems(todo)

\* When n is held, so is U, until exit.
Ordered(n, U) ==
  /\ phase = "init" => Follows(n, U, todo, held)
  /\ phase = "live" => (n \in held => U \subseteq held)
  /\ phase \in {"out", "unwind"} => n \notin held

(* Every variable keeps its type. *)
LEMMA InitTyped == Init => Typed
<1>1. 0 \in 0 .. MaxFiles /\ 0 \in 0 .. MaxLoads
  BY BoundsAssumption
<1>2. QED
  BY <1>1 DEF Init, Typed, TypeOK

(* Every step keeps the types. *)
LEMMA NextTyped == Typed /\ [Next]_vars => Typed'
  <1> SUFFICES ASSUME Typed, [Next]_vars PROVE Typed'
    OBVIOUS
  <1> USE BoundsAssumption, TablesAssumption DEF Typed, TypeOK
  <1>1. CASE Load         BY <1>1 DEF Load
  <1>2. CASE Acquire
    <2>1. Head(todo) \in Steps /\ Tail(todo) \in Seq(Steps)
      BY <1>2 DEF Acquire
    <2>2. held' \subseteq Resources
      BY <1>2, <2>1 DEF Acquire, Steps
    <2>3. armed' \in BOOLEAN
      BY <1>2 DEF Acquire
    <2>4. QED
      BY <1>2, <2>1, <2>2, <2>3 DEF Acquire
  <1>3. CASE Refuse
    <2>1. Head(todo).undo \in Seq(Resources) /\ Tail(todo) \in Seq(Steps)
      <3>1. Head(todo) \in Steps /\ Tail(todo) \in Seq(Steps)
        BY <1>3 DEF Refuse
      <3>2. QED
        BY <3>1 DEF Steps
    <2>2. QED
      BY <1>3, <2>1 DEF Refuse
  <1>4. CASE GoLive       BY <1>4 DEF GoLive
  <1>5. CASE Unload       BY <1>5 DEF Unload
  <1>6. CASE ReleaseNext  BY <1>6 DEF ReleaseNext
  <1>7. CASE Gone         BY <1>7 DEF Gone
  <1>8. CASE Open         BY <1>8 DEF Open
  <1>9. CASE Close        BY <1>9 DEF Close
  <1>10. CASE Arm         BY <1>10 DEF Arm
  <1>11. CASE Expire      BY <1>11 DEF Expire
  <1>12. CASE UNCHANGED vars  BY <1>12 DEF vars
  <1>13. QED
    BY <1>1, <1>2, <1>3, <1>4, <1>5, <1>6, <1>7, <1>8, <1>9, <1>10, <1>11, <1>12 DEF Next

(* No step changes the table. *)
LEMMA SameTable == [Next]_vars => drv' = drv
  BY DEF Next, vars, Load, Acquire, Refuse, GoLive, Unload, ReleaseNext, Gone, Open, Close,
     Arm, Expire

(* What is done with the rest of a list. *)
LEMMA TailFacts ==
  ASSUME NEW S, NEW s \in Seq(S), s # <<>>
  PROVE  /\ Head(s) = s[1] /\ Head(s) \in S
         /\ Len(s) \in Nat /\ Len(s) >= 1
         /\ Len(Tail(s)) = Len(s) - 1
         /\ \A i \in 1 .. Len(s) - 1 : Tail(s)[i] = s[i + 1]
         /\ Elems(s) = {s[1]} \cup Elems(Tail(s))
<1>1. /\ Head(s) = s[1] /\ Head(s) \in S
      /\ Len(s) \in Nat /\ Len(s) >= 1
      /\ Len(Tail(s)) = Len(s) - 1
      /\ \A i \in 1 .. Len(s) - 1 : Tail(s)[i] = s[i + 1]
  OBVIOUS
<1>2. ASSUME NEW e \in Elems(s)
      PROVE  e \in {s[1]} \cup Elems(Tail(s))
  <2>1. PICK i \in 1 .. Len(s) : e = s[i]
    BY DEF Elems
  <2>2. CASE i # 1
    <3>1. i - 1 \in 1 .. Len(Tail(s)) /\ Tail(s)[i - 1] = e
      BY <1>1, <2>1, <2>2
    <3>2. QED
      BY <3>1 DEF Elems
  <2>3. QED
    BY <2>1, <2>2
<1>3. ASSUME NEW e \in Elems(Tail(s))
      PROVE  e \in Elems(s)
  <2>1. PICK i \in 1 .. Len(Tail(s)) : e = Tail(s)[i]
    BY DEF Elems
  <2>2. i + 1 \in 1 .. Len(s) /\ s[i + 1] = e
    BY <1>1, <2>1
  <2>3. QED
    BY <2>2 DEF Elems
<1>4. s[1] \in Elems(s)
  BY <1>1 DEF Elems
<1>5. QED
  BY <1>1, <1>2, <1>3, <1>4

(* Nothing is left to release of an empty list.                            *)
LEMMA NoRest == Lists(<<>>, {})
  BY DEF Lists, Elems, Once

(* The conditions pass from a list of steps to its rest: the first step is *)
(* taken, or refused without anybody looking.                              *)
LEMMA CoversTail ==
  ASSUME NEW R, NEW h, NEW down, NEW s \in Seq(Steps), s # <<>>, Covers(R, s, h, down),
         NEW g, g \subseteq h \cup {s[1].res}
  PROVE  Covers(R, Tail(s), g, down)
<1>1. /\ Len(s) \in Nat /\ Len(Tail(s)) = Len(s) - 1
      /\ \A i \in 1 .. Len(s) - 1 : Tail(s)[i] = s[i + 1]
  BY TailFacts
<1>2. ASSUME NEW i \in 1 .. Len(Tail(s)), NEW r \in R, Tail(s)[i].try = "checked",
             r \in g \/ (\E j \in 1 .. i - 1 : Tail(s)[j].res = r)
      PROVE  r \in Elems(Tail(s)[i].undo)
  <2>1. i + 1 \in 1 .. Len(s) /\ Tail(s)[i] = s[i + 1]
    BY <1>1
  <2>2. r \in h \/ \E j \in 1 .. i : s[j].res = r
    <3>1. CASE r \in g
      BY <3>1, <1>1
    <3>2. ASSUME NEW j \in 1 .. i - 1, Tail(s)[j].res = r
          PROVE  \E k \in 1 .. i : s[k].res = r
      <4>1. j + 1 \in 1 .. i /\ s[j + 1].res = r
        BY <3>2, <1>1
      <4>2. QED
        BY <4>1
    <3>3. QED
      BY <1>2, <3>1, <3>2
  <2>3. QED
    BY <1>2, <2>1, <2>2 DEF Covers
<1>3. ASSUME NEW r \in R, r \in g \/ (\E j \in 1 .. Len(Tail(s)) : Tail(s)[j].res = r)
      PROVE  r \in Elems(down)
  <2>1. r \in h \/ \E j \in 1 .. Len(s) : s[j].res = r
    <3>1. CASE r \in g
      BY <3>1, <1>1
    <3>2. ASSUME NEW j \in 1 .. Len(Tail(s)), Tail(s)[j].res = r
          PROVE  \E k \in 1 .. Len(s) : s[k].res = r
      <4>1. j + 1 \in 1 .. Len(s) /\ s[j + 1].res = r
        BY <3>2, <1>1
      <4>2. QED
        BY <4>1
    <3>3. QED
      BY <1>3, <3>1, <3>2
  <2>2. QED
    BY <2>1 DEF Covers
<1>4. QED
  BY <1>2, <1>3 DEF Covers

(* So does the order of acquisition.                                       *)
LEMMA FollowsTail ==
  ASSUME NEW n, NEW U, NEW h, NEW s \in Seq(Steps), s # <<>>, Follows(n, U, s, h),
         "nothing" \notin U \cup {n},
         NEW g, g = h \cup ({s[1].res} \ {"nothing"}) \/ (g = h /\ s[1].try = "ignored")
  PROVE  Follows(n, U, Tail(s), g)
<1>1. /\ Len(s) \in Nat /\ Len(s) >= 1 /\ Len(Tail(s)) = Len(s) - 1
      /\ \A i \in 1 .. Len(s) - 1 : Tail(s)[i] = s[i + 1]
  BY TailFacts
<1>2. ASSUME n \in g
      PROVE  U \subseteq g /\ \A i \in 1 .. Len(Tail(s)) : Tail(s)[i].try # "checked"
  <2>1. CASE n \in h
    BY <1>1, <2>1 DEF Follows
  <2>2. CASE s[1].res = n
    <3>1. U \subseteq h
      BY <1>1, <2>2 DEF Follows
    <3>2. \A i \in 2 .. Len(s) : s[i].try # "checked"
      BY <1>1, <2>2 DEF Follows
    <3>3. QED
      BY <1>1, <3>1, <3>2
  <2>3. QED
    BY <1>2, <2>1, <2>2
<1>3. ASSUME NEW m \in 1 .. Len(Tail(s)), Tail(s)[m].res = n
      PROVE  /\ \A u \in U : u \in g \/ \E j \in 1 .. m - 1 :
                                            Tail(s)[j].res = u /\ Tail(s)[j].try # "ignored"
             /\ \A i \in m + 1 .. Len(Tail(s)) : Tail(s)[i].try # "checked"
  <2>1. m + 1 \in 1 .. Len(s) /\ s[m + 1].res = n
    BY <1>1, <1>3
  <2>2. ASSUME NEW u \in U, u \notin g
        PROVE  \E j \in 1 .. m - 1 : Tail(s)[j].res = u /\ Tail(s)[j].try # "ignored"
    <3>1. PICK j \in 1 .. m : s[j].res = u /\ s[j].try # "ignored"
      BY <2>1, <2>2 DEF Follows
    <3>2. j # 1
      BY <3>1, <2>2
    <3>3. j - 1 \in 1 .. m - 1 /\ Tail(s)[j - 1] = s[j]
      BY <1>1, <3>1, <3>2
    <3> DEFINE First(k) == Tail(s)[k].res = u /\ Tail(s)[k].try # "ignored"
    <3>4. First(j - 1)
      BY <3>1, <3>3
    <3>5. \E k \in 1 .. m - 1 : First(k)
      <4> HIDE DEF First
      <4> QED
        BY <3>3, <3>4
    <3>6. QED
      BY <3>5
  <2>3. ASSUME NEW i \in m + 1 .. Len(Tail(s))
        PROVE  Tail(s)[i].try # "checked"
    <3>1. i + 1 \in (m + 1) + 1 .. Len(s) /\ Tail(s)[i] = s[i + 1]
      BY <1>1
    <3>2. QED
      BY <3>1, <2>1 DEF Follows
  <2>4. QED
    BY <2>2, <2>3
<1>4. QED
  BY <1>2, <1>3 DEF Follows

-----------------------------------------------------------------------------
(* Every step of a driver whose ladders cover R keeps what is held of R    *)
(* within the releases to come.                                            *)
LEMMA NextCovered ==
  ASSUME NEW R, R \subseteq Resources, Typed, Covers(R, drv.init, {}, drv.exit),
         Covered(R), [Next]_vars
  PROVE  Covered(R)'
<1>a. drv' = drv
  BY SameTable
<1>1. CASE Load
  <2>1. Covers(R, drv.init, held, drv.exit)
    BY <1>1 DEF Load, Covered, Covers
  <2>2. QED
    BY <1>1, <2>1 DEF Load, Covered
<1>2. CASE Acquire
  <2>1. todo \in Seq(Steps) /\ todo # <<>> /\ Covers(R, todo, held, drv.exit)
    BY <1>2 DEF Acquire, Typed, Covered
  <2>2. held' \subseteq held \cup {todo[1].res}
    BY <1>2, <2>1, TailFacts DEF Acquire
  <2>3. Covers(R, Tail(todo), held', drv.exit)
    BY <2>1, <2>2, CoversTail
  <2>4. QED
    BY <1>2, <1>a, <2>3 DEF Acquire, Covered
<1>3. CASE Refuse
  <2>1. todo \in Seq(Steps) /\ todo # <<>> /\ Covers(R, todo, held, drv.exit)
    BY <1>3 DEF Refuse, Typed, Covered
  <2>2. CASE Head(todo).try = "checked"
    <3>1. 1 \in 1 .. Len(todo) /\ todo[1] = Head(todo)
      BY <2>1, TailFacts
    <3>2. held \cap R \subseteq Elems(Head(todo).undo)
      BY <2>1, <2>2, <3>1 DEF Covers
    <3>3. QED
      BY <1>3, <2>2, <3>2 DEF Refuse, Covered
  <2>3. CASE Head(todo).try # "checked"
    <3>1. Covers(R, Tail(todo), held, drv.exit)
      BY <2>1, CoversTail
    <3>2. QED
      BY <1>3, <1>a, <2>3, <3>1 DEF Refuse, Covered
  <2>4. QED
    BY <2>2, <2>3
<1>4. CASE GoLive
  <2>1. held \cap R \subseteq Elems(drv.exit)
    BY <1>4 DEF GoLive, Covered, Covers
  <2>2. QED
    BY <1>4, <1>a, <2>1 DEF GoLive, Covered
<1>5. CASE Unload
  BY <1>5 DEF Unload, Covered
<1>6. CASE ReleaseNext
  <2>1. todo \in Seq(Resources) /\ todo # <<>>
    BY <1>6 DEF ReleaseNext, Typed
  <2>2. Elems(todo) = {Head(todo)} \cup Elems(Tail(todo))
    BY <2>1, TailFacts
  <2>3. QED
    BY <1>6, <2>2 DEF ReleaseNext, Covered
<1>7. CASE Gone
  BY <1>7, NoRest DEF Gone, Lists, Covered
<1>8. CASE Open \/ Close \/ Arm \/ Expire \/ UNCHANGED vars
  BY <1>8 DEF Open, Close, Arm, Expire, vars, Covered
<1>9. QED
  BY <1>1, <1>2, <1>3, <1>4, <1>5, <1>6, <1>7, <1>8 DEF Next

(* Every step of a driver that acquires n after U, and releases n whenever *)
(* it fails or ends, keeps that order.                                     *)
LEMMA NextOrdered ==
  ASSUME NEW n, NEW U, "nothing" \notin U \cup {n}, n \in Resources, Typed,
         Follows(n, U, drv.init, {}), Covered({n}), Ordered(n, U), [Next]_vars
  PROVE  Ordered(n, U)'
<1>a. drv' = drv
  BY SameTable
<1>1. CASE Load
  <2>1. Follows(n, U, drv.init, held)
    BY <1>1 DEF Load, Ordered, Follows
  <2>2. QED
    BY <1>1, <2>1 DEF Load, Ordered
<1>2. CASE Acquire
  <2>1. todo \in Seq(Steps) /\ todo # <<>> /\ Follows(n, U, todo, held)
    BY <1>2 DEF Acquire, Typed, Ordered
  <2>2. held' = held \cup ({todo[1].res} \ {"nothing"})
    BY <1>2, <2>1, TailFacts DEF Acquire
  <2>3. Follows(n, U, Tail(todo), held')
    BY <2>1, <2>2, FollowsTail
  <2>4. QED
    BY <1>2, <2>3 DEF Acquire, Ordered
<1>3. CASE Refuse
  <2>1. /\ todo \in Seq(Steps) /\ todo # <<>> /\ Follows(n, U, todo, held)
        /\ 1 \in 1 .. Len(todo) /\ todo[1] = Head(todo) /\ Head(todo) \in Steps
    BY <1>3, TailFacts DEF Refuse, Typed, Ordered
  <2>2. CASE Head(todo).try = "checked"
    <3>1. n \notin held
      BY <2>1, <2>2 DEF Follows
    <3>2. QED
      BY <1>3, <2>2, <3>1 DEF Refuse, Ordered
  <2>3. CASE Head(todo).try # "checked"
    <3>1. Head(todo).try = "ignored"
      BY <1>3, <2>1, <2>3 DEF Refuse, Steps
    <3>2. Follows(n, U, Tail(todo), held)
      BY <2>1, <3>1, FollowsTail
    <3>3. QED
      BY <1>3, <2>3, <3>2 DEF Refuse, Ordered
  <2>4. QED
    BY <2>2, <2>3
<1>4. CASE GoLive
  BY <1>4 DEF GoLive, Ordered, Follows
<1>5. CASE Unload
  BY <1>5 DEF Unload, Ordered
<1>6. CASE ReleaseNext
  BY <1>6 DEF ReleaseNext, Ordered
<1>7. CASE Gone
  BY <1>7, NoRest DEF Gone, Lists, Ordered, Covered
<1>8. CASE Open \/ Close \/ Arm \/ Expire \/ UNCHANGED vars
  BY <1>8 DEF Open, Close, Arm, Expire, vars, Ordered
<1>9. QED
  BY <1>1, <1>2, <1>3, <1>4, <1>5, <1>6, <1>7, <1>8 DEF Next

\* Files are open only on a complete device.
FilesOn(n) == files > 0 => phase \in {"init", "live"} /\ n \in held

(* A device that is openable once n is held, in a driver that nobody       *)
(* unbinds, has files only while n is held.                                *)
LEMMA NextFilesOn ==
  ASSUME NEW n, NEW U, Typed, n \in drv.nodes, ~drv.bound, Ordered(n, U), FilesOn(n),
         [Next]_vars
  PROVE  FilesOn(n)'
<1>0. files \in Nat
  BY BoundsAssumption DEF Typed, TypeOK
<1>1. CASE Load
  BY <1>1 DEF Load, FilesOn
<1>2. CASE Acquire
  BY <1>2 DEF Acquire, FilesOn
<1>3. CASE Refuse
  <2>1. todo \in Seq(Steps) /\ todo # <<>> /\ Follows(n, U, todo, held)
        /\ 1 \in 1 .. Len(todo) /\ todo[1] = Head(todo)
    BY <1>3, TailFacts DEF Refuse, Typed, Ordered
  <2>2. Head(todo).try = "checked" => n \notin held
    BY <2>1 DEF Follows
  <2>3. QED
    BY <1>3, <2>2 DEF Refuse, FilesOn
<1>4. CASE GoLive
  BY <1>4 DEF GoLive, FilesOn
<1>5. CASE Unload
  BY <1>5, <1>0 DEF Unload, FilesOn
<1>6. CASE ReleaseNext
  BY <1>6 DEF ReleaseNext, FilesOn
<1>7. CASE Gone
  BY <1>7 DEF Gone, FilesOn
<1>8. CASE Open
  BY <1>8 DEF Open, FilesOn, Ordered, Typed, TypeOK
<1>9. CASE Close
  BY <1>9, <1>0 DEF Close, FilesOn
<1>10. CASE Arm \/ Expire \/ UNCHANGED vars
  BY <1>10 DEF Arm, Expire, vars, FilesOn
<1>11. QED
  BY <1>1, <1>2, <1>3, <1>4, <1>5, <1>6, <1>7, <1>8, <1>9, <1>10 DEF Next

-----------------------------------------------------------------------------
(* The tables, step by step: what is acquired, what is checked, and what   *)
(* the ladder and exit release.                                            *)
Row(step, r, t, u) == step.res = r /\ step.try = t /\ Lists(step.undo, u)

(* What one to five releases consist of.                                   *)
LEMMA Few ==
  /\ \A a : Lists(<<a>>, {a})
  /\ \A a, b : a # b => Lists(<<a, b>>, {a, b})
  /\ \A a, b, c : a \notin {b, c} /\ b # c => Lists(<<a, b, c>>, {a, b, c})
  /\ \A a, b, c, d :
       a \notin {b, c, d} /\ b \notin {c, d} /\ c # d => Lists(<<a, b, c, d>>, {a, b, c, d})
  /\ \A a, b, c, d, e :
       a \notin {b, c, d, e} /\ b \notin {c, d, e} /\ c \notin {d, e} /\ d # e =>
         Lists(<<a, b, c, d, e>>, {a, b, c, d, e})
  BY DEF Lists, Elems, Once

(* What the rest of a ladder of four consists of.                          *)
LEMMA FromFour ==
  ASSUME NEW a, NEW b, NEW c, NEW d, b \notin {c, d}, c # d
  PROVE  /\ Lists(From(<<a, b, c, d>>, 2), {b, c, d})
         /\ Lists(From(<<a, b, c, d>>, 3), {c, d})
         /\ Lists(From(<<a, b, c, d>>, 4), {d})
<1> DEFINE l == <<a, b, c, d>>
<1>1. /\ Len(From(l, 2)) = 3 /\ From(l, 2)[1] = b /\ From(l, 2)[2] = c /\ From(l, 2)[3] = d
      /\ Len(From(l, 3)) = 2 /\ From(l, 3)[1] = c /\ From(l, 3)[2] = d
      /\ Len(From(l, 4)) = 1 /\ From(l, 4)[1] = d
  BY DEF From
<1>2. /\ Lists(From(l, 2), {b, c, d})
      /\ Lists(From(l, 3), {c, d})
      /\ Lists(From(l, 4), {d})
  <2> HIDE DEF l
  <2> QED
    BY <1>1 DEF Lists, Elems, Once
<1>3. QED
  BY <1>2

(* And of a ladder of two.                                                 *)
LEMMA FromTwo ==
  ASSUME NEW a, NEW b
  PROVE  Lists(From(<<a, b>>, 2), {b})
<1> DEFINE l == From(<<a, b>>, 2)
<1>1. Len(l) = 1 /\ l[1] = b
  BY DEF From
<1>2. Lists(l, {b})
  <2> HIDE DEF l
  <2> QED
    BY <1>1 DEF Lists, Elems, Once
<1>3. QED
  BY <1>2

(* And of five.                                                            *)
LEMMA FromFive ==
  ASSUME NEW a, NEW b, NEW c, NEW d, NEW e, b \notin {c, d, e}, c \notin {d, e}, d # e
  PROVE  /\ Lists(From(<<a, b, c, d, e>>, 2), {b, c, d, e})
         /\ Lists(From(<<a, b, c, d, e>>, 3), {c, d, e})
         /\ Lists(From(<<a, b, c, d, e>>, 4), {d, e})
         /\ Lists(From(<<a, b, c, d, e>>, 5), {e})
<1> DEFINE l == <<a, b, c, d, e>>
<1>1. /\ Len(From(l, 2)) = 4
      /\ From(l, 2)[1] = b /\ From(l, 2)[2] = c /\ From(l, 2)[3] = d /\ From(l, 2)[4] = e
      /\ Len(From(l, 3)) = 3 /\ From(l, 3)[1] = c /\ From(l, 3)[2] = d /\ From(l, 3)[3] = e
      /\ Len(From(l, 4)) = 2 /\ From(l, 4)[1] = d /\ From(l, 4)[2] = e
      /\ Len(From(l, 5)) = 1 /\ From(l, 5)[1] = e
  BY DEF From
<1>2. /\ Lists(From(l, 2), {b, c, d, e})
      /\ Lists(From(l, 3), {c, d, e})
      /\ Lists(From(l, 4), {d, e})
      /\ Lists(From(l, 5), {e})
  <2> HIDE DEF l
  <2>1. Lists(From(l, 2), {b, c, d, e})
    <3>1. Elems(From(l, 2)) = {b, c, d, e}
      BY <1>1 DEF Elems
    <3>2. Once(From(l, 2))
      BY <1>1 DEF Once
    <3>3. QED
      BY <3>1, <3>2 DEF Lists
  <2>2. Lists(From(l, 3), {c, d, e})
    BY <1>1 DEF Lists, Elems, Once
  <2>3. Lists(From(l, 4), {d, e})
    BY <1>1 DEF Lists, Elems, Once
  <2>4. Lists(From(l, 5), {e})
    BY <1>1 DEF Lists, Elems, Once
  <2>5. QED
    BY <2>1, <2>2, <2>3, <2>4
<1>3. QED
  BY <1>2

(* And of three.                                                           *)
LEMMA FromThree ==
  ASSUME NEW a, NEW b, NEW c, b # c
  PROVE  /\ Lists(From(<<a, b, c>>, 2), {b, c})
         /\ Lists(From(<<a, b, c>>, 3), {c})
         /\ Lists(From(<<a, b, c>>, 4), {})
<1> DEFINE l == <<a, b, c>>
<1>1. /\ Len(From(l, 2)) = 2 /\ From(l, 2)[1] = b /\ From(l, 2)[2] = c
      /\ Len(From(l, 3)) = 1 /\ From(l, 3)[1] = c
      /\ Len(From(l, 4)) = 0
  BY DEF From
<1>2. /\ Lists(From(l, 2), {b, c})
      /\ Lists(From(l, 3), {c})
      /\ Lists(From(l, 4), {})
  <2> HIDE DEF l
  <2> QED
    BY <1>1 DEF Lists, Elems, Once
<1>3. QED
  BY <1>2

(* What the constructors of steps stand for.                               *)
LEMMA IsChecked ==
  ASSUME NEW s, NEW r, NEW l, NEW u, s = Checked(r, l), Lists(l, u)
  PROVE  Row(s, r, "checked", u)
  BY DEF Row, Checked

(* A step whose result nobody looks at has no ladder.                      *)
LEMMA IsOther ==
  ASSUME NEW s, NEW r
  PROVE  /\ s = Ignored(r) => Row(s, r, "ignored", {})
         /\ s = Certain(r) => Row(s, r, "certain", {})
  BY NoRest DEF Row, Ignored, Certain

(* The four steps to a character device after a first one.                 *)
LEMMA CharDevRows ==
  ASSUME NEW f, NEW a, NEW b, NEW c, NEW d, a \notin {b, c, d}, b \notin {c, d}, c # d,
         NEW s, s = <<f>> \o CharDev(<<a, b, c, d>>)
  PROVE  /\ Len(s) = 5
         /\ s[1] = f
         /\ Row(s[2], "region", "checked", {d})
         /\ Row(s[3], "cdev", "checked", {c, d})
         /\ Row(s[4], "class", "checked", {b, c, d})
         /\ Row(s[5], "device", "checked", {a, b, c, d})
<1>1. /\ Len(s) = 5
      /\ s[1] = f
      /\ s[2] = Checked("region", From(<<a, b, c, d>>, 4))
      /\ s[3] = Checked("cdev", From(<<a, b, c, d>>, 3))
      /\ s[4] = Checked("class", From(<<a, b, c, d>>, 2))
      /\ s[5] = Checked("device", <<a, b, c, d>>)
  BY DEF CharDev
<1>0. /\ Lists(From(<<a, b, c, d>>, 2), {b, c, d})
      /\ Lists(From(<<a, b, c, d>>, 3), {c, d})
      /\ Lists(From(<<a, b, c, d>>, 4), {d})
      /\ Lists(<<a, b, c, d>>, {a, b, c, d})
  BY FromFour, Few
<1>2. Row(s[2], "region", "checked", {d})
  BY <1>1, <1>0, IsChecked
<1>3. Row(s[3], "cdev", "checked", {c, d})
  BY <1>1, <1>0, IsChecked, IsOther
<1>4. Row(s[4], "class", "checked", {b, c, d})
  BY <1>1, <1>0, IsChecked
<1>5. Row(s[5], "device", "checked", {a, b, c, d})
  BY <1>1, <1>0, IsChecked
<1>6. QED
  BY <1>1, <1>2, <1>3, <1>4, <1>5

(* The same where the result of cdev_add is thrown away.                   *)
LEMMA CharDevUncheckedRows ==
  ASSUME NEW f, NEW a, NEW b, NEW c, NEW d, a \notin {b, c, d}, b \notin {c, d}, c # d,
         NEW s, s = <<f>> \o CharDevUnchecked(<<a, b, c, d>>)
  PROVE  /\ Len(s) = 5
         /\ s[1] = f
         /\ Row(s[2], "region", "checked", {d})
         /\ Row(s[3], "cdev", "ignored", {})
         /\ Row(s[4], "class", "checked", {b, c, d})
         /\ Row(s[5], "device", "checked", {a, b, c, d})
<1>1. /\ Len(s) = 5
      /\ s[1] = f
      /\ s[2] = Checked("region", From(<<a, b, c, d>>, 4))
      /\ s[3] = Ignored("cdev")
      /\ s[4] = Checked("class", From(<<a, b, c, d>>, 2))
      /\ s[5] = Checked("device", <<a, b, c, d>>)
  BY DEF CharDevUnchecked
<1>0. /\ Lists(From(<<a, b, c, d>>, 2), {b, c, d})
      /\ Lists(From(<<a, b, c, d>>, 3), {c, d})
      /\ Lists(From(<<a, b, c, d>>, 4), {d})
      /\ Lists(<<a, b, c, d>>, {a, b, c, d})
  BY FromFour, Few
<1>2. Row(s[2], "region", "checked", {d})
  BY <1>1, <1>0, IsChecked
<1>3. Row(s[3], "cdev", "ignored", {})
  BY <1>1, <1>0, IsChecked, IsOther
<1>4. Row(s[4], "class", "checked", {b, c, d})
  BY <1>1, <1>0, IsChecked
<1>5. Row(s[5], "device", "checked", {a, b, c, d})
  BY <1>1, <1>0, IsChecked
<1>6. QED
  BY <1>1, <1>2, <1>3, <1>4, <1>5

(* The four releases of a character device, after or before a fifth.       *)
LEMMA DownRows ==
  ASSUME NEW x, x \notin {"cdev", "region", "device", "class"}
  PROVE  /\ Lists(<<x>> \o DownCharDev, {x, "cdev", "region", "device", "class"})
         /\ Lists(DownCharDev \o <<x>>, {x, "cdev", "region", "device", "class"})
<1> DEFINE l == <<x>> \o DownCharDev  r == DownCharDev \o <<x>>
<1>1. /\ Len(l) = 5 /\ l[1] = x /\ l[2] = "cdev" /\ l[3] = "region" /\ l[4] = "device"
      /\ l[5] = "class"
      /\ Len(r) = 5 /\ r[1] = "cdev" /\ r[2] = "region" /\ r[3] = "device" /\ r[4] = "class"
      /\ r[5] = x
  BY DEF DownCharDev
<1>2. /\ Lists(l, {x, "cdev", "region", "device", "class"})
      /\ Lists(r, {x, "cdev", "region", "device", "class"})
  <2> HIDE DEF l, r
  <2> QED
    BY <1>1 DEF Elems, Lists, Once
<1>3. QED
  BY <1>2

(* 03_newchrled, 04_dtsled, 17_platform *)
LEMMA NewchrTable ==
  ASSUME NEW d, d \in {NewchrLed, DtsLed, PlatformLed}
  PROVE  /\ Len(d.init) = 5
         /\ Row(d.init[1], "map", "certain", {})
         /\ Row(d.init[2], "region", "checked", {"map"})
         /\ Row(d.init[3], "cdev", "checked", {"region", "map"})
         /\ Row(d.init[4], "class", "checked", {"cdev", "region", "map"})
         /\ Row(d.init[5], "device", "checked", {"class", "cdev", "region", "map"})
         /\ Lists(d.exit, {"map", "cdev", "region", "device", "class"})
<1>1. d.init = <<Certain("map")>> \o CharDev(<<"class", "cdev", "region", "map">>)
  <2>1. CASE d = NewchrLed
    BY <2>1 DEF NewchrLed, Plain, Bound
  <2>2. CASE d = DtsLed
    BY <2>2 DEF DtsLed, Plain, Bound
  <2>3. CASE d = PlatformLed
    BY <2>3 DEF PlatformLed, Plain, Bound
  <2>4. QED
    BY <2>1, <2>2, <2>3
<1>2. Row(Certain("map"), "map", "certain", {})
  BY IsOther
<1>3. Lists(d.exit, {"map", "cdev", "region", "device", "class"})
  <2>1. d.exit = <<"map">> \o DownCharDev
    BY DEF NewchrLed, DtsLed, PlatformLed, Plain, Bound
  <2>2. QED
    BY <2>1, DownRows
<1>4. /\ Len(d.init) = 5
      /\ d.init[1] = Certain("map")
      /\ Row(d.init[2], "region", "checked", {"map"})
      /\ Row(d.init[3], "cdev", "checked", {"region", "map"})
      /\ Row(d.init[4], "class", "checked", {"cdev", "region", "map"})
      /\ Row(d.init[5], "device", "checked", {"class", "cdev", "region", "map"})
  BY <1>1, CharDevRows
<1>5. QED
  BY <1>2, <1>3, <1>4

(* 06_beep *)
LEMMA BeepTable ==
  ASSUME NEW d, d = Beep
  PROVE  /\ Len(d.init) = 5
         /\ Row(d.init[1], "gpio", "checked", {})
         /\ Row(d.init[2], "region", "checked", {"gpio"})
         /\ Row(d.init[3], "cdev", "checked", {"region", "gpio"})
         /\ Row(d.init[4], "class", "checked", {"cdev", "region", "gpio"})
         /\ Row(d.init[5], "device", "checked", {"class", "cdev", "region", "gpio"})
         /\ Lists(d.exit, {"gpio", "cdev", "region", "device", "class"})
<1>1. d.init = <<Checked("gpio", <<>>)>> \o CharDev(<<"class", "cdev", "region", "gpio">>)
  BY DEF Beep, Plain, Bound
<1>2. Row(Checked("gpio", <<>>), "gpio", "checked", {})
  BY NoRest, IsChecked
<1>3. Lists(d.exit, {"gpio", "cdev", "region", "device", "class"})
  <2>1. d.exit = DownCharDev \o <<"gpio">>
    BY DEF Beep, Plain, Bound
  <2>2. QED
    BY <2>1, DownRows
<1>4. /\ Len(d.init) = 5
      /\ d.init[1] = Checked("gpio", <<>>)
      /\ Row(d.init[2], "region", "checked", {"gpio"})
      /\ Row(d.init[3], "cdev", "checked", {"region", "gpio"})
      /\ Row(d.init[4], "class", "checked", {"cdev", "region", "gpio"})
      /\ Row(d.init[5], "device", "checked", {"class", "cdev", "region", "gpio"})
  BY <1>1, CharDevRows
<1>5. QED
  BY <1>2, <1>3, <1>4

(* 18_dtsplatform *)
LEMMA DtsPlatformTable ==
  ASSUME NEW d, d = DtsPlatformLed
  PROVE  /\ Len(d.init) = 5
         /\ Row(d.init[1], "gpio", "checked", {})
         /\ Row(d.init[2], "region", "checked", {"gpio"})
         /\ Row(d.init[3], "cdev", "checked", {"region", "gpio"})
         /\ Row(d.init[4], "class", "checked", {"cdev", "region", "gpio"})
         /\ Row(d.init[5], "device", "checked", {"class", "cdev", "region", "gpio"})
         /\ Lists(d.exit, {"gpio", "cdev", "region", "device", "class"})
<1>1. d.init = <<Checked("gpio", <<>>)>> \o CharDev(<<"class", "cdev", "region", "gpio">>)
  BY DEF DtsPlatformLed, Plain, Bound
<1>2. Row(Checked("gpio", <<>>), "gpio", "checked", {})
  BY NoRest, IsChecked
<1>3. Lists(d.exit, {"gpio", "cdev", "region", "device", "class"})
  <2>1. d.exit = <<"gpio">> \o DownCharDev
    BY DEF DtsPlatformLed, Plain, Bound
  <2>2. QED
    BY <2>1, DownRows
<1>4. /\ Len(d.init) = 5
      /\ d.init[1] = Checked("gpio", <<>>)
      /\ Row(d.init[2], "region", "checked", {"gpio"})
      /\ Row(d.init[3], "cdev", "checked", {"region", "gpio"})
      /\ Row(d.init[4], "class", "checked", {"cdev", "region", "gpio"})
      /\ Row(d.init[5], "device", "checked", {"class", "cdev", "region", "gpio"})
  BY <1>1, CharDevRows
<1>5. QED
  BY <1>2, <1>3, <1>4

(* 05_gpioled *)
LEMMA GpioTable ==
  ASSUME NEW d, d = GpioLed
  PROVE  /\ Len(d.init) = 5
         /\ Row(d.init[1], "gpio", "checked", {})
         /\ Row(d.init[2], "region", "checked", {"gpio"})
         /\ Row(d.init[3], "cdev", "ignored", {})
         /\ Row(d.init[4], "class", "checked", {"cdev", "region", "gpio"})
         /\ Row(d.init[5], "device", "checked", {"class", "cdev", "region", "gpio"})
         /\ Lists(d.exit, {"gpio", "cdev", "region", "device", "class"})
<1>1. d.init = <<Checked("gpio", <<>>)>> \o CharDevUnchecked(<<"class", "cdev", "region", "gpio">>)
  BY DEF GpioLed, Plain, Bound
<1>2. Row(Checked("gpio", <<>>), "gpio", "checked", {})
  BY NoRest, IsChecked
<1>3. Lists(d.exit, {"gpio", "cdev", "region", "device", "class"})
  <2>1. d.exit = DownCharDev \o <<"gpio">>
    BY DEF GpioLed, Plain, Bound
  <2>2. QED
    BY <2>1, DownRows
<1>4. /\ Len(d.init) = 5
      /\ d.init[1] = Checked("gpio", <<>>)
      /\ Row(d.init[2], "region", "checked", {"gpio"})
      /\ Row(d.init[3], "cdev", "ignored", {})
      /\ Row(d.init[4], "class", "checked", {"cdev", "region", "gpio"})
      /\ Row(d.init[5], "device", "checked", {"class", "cdev", "region", "gpio"})
  BY <1>1, CharDevUncheckedRows
<1>5. QED
  BY <1>2, <1>3, <1>4

(* 07_atomic, 08_spinlock *)
LEMMA AtomicTable ==
  ASSUME NEW d, d \in {Atomic, Spinlock}
  PROVE  /\ Len(d.init) = 5
         /\ Row(d.init[1], "gpio", "checked", {})
         /\ Row(d.init[2], "region", "checked", {"gpio"})
         /\ Row(d.init[3], "cdev", "checked", {"region", "gpio"})
         /\ Row(d.init[4], "class", "checked", {"cdev", "region", "gpio"})
         /\ Row(d.init[5], "device", "checked", {"device", "cdev", "region", "gpio"})
         /\ Lists(d.exit, {"gpio", "cdev", "region", "device", "class"})
<1>1. d.init = <<Checked("gpio", <<>>)>> \o CharDev(<<"device", "cdev", "region", "gpio">>)
  <2>1. CASE d = Atomic
    BY <2>1 DEF Atomic, Plain, Bound
  <2>2. CASE d = Spinlock
    BY <2>2 DEF Spinlock, Atomic, Plain, Bound
  <2>3. QED
    BY <2>1, <2>2
<1>2. Row(Checked("gpio", <<>>), "gpio", "checked", {})
  BY NoRest, IsChecked
<1>3. Lists(d.exit, {"gpio", "cdev", "region", "device", "class"})
  <2>1. d.exit = DownCharDev \o <<"gpio">>
    BY DEF Atomic, Spinlock, Plain, Bound
  <2>2. QED
    BY <2>1, DownRows
<1>4. /\ Len(d.init) = 5
      /\ d.init[1] = Checked("gpio", <<>>)
      /\ Row(d.init[2], "region", "checked", {"gpio"})
      /\ Row(d.init[3], "cdev", "checked", {"region", "gpio"})
      /\ Row(d.init[4], "class", "checked", {"cdev", "region", "gpio"})
      /\ Row(d.init[5], "device", "checked", {"device", "cdev", "region", "gpio"})
  BY <1>1, CharDevRows
<1>5. QED
  BY <1>2, <1>3, <1>4

(* 09_semaphore, 10_mutex *)
LEMMA SemaphoreTable ==
  ASSUME NEW d, d \in {Semaphore, Mutex}
  PROVE  /\ Len(d.init) = 5
         /\ Row(d.init[1], "gpio", "checked", {})
         /\ Row(d.init[2], "region", "checked", {"gpio"})
         /\ Row(d.init[3], "cdev", "ignored", {})
         /\ Row(d.init[4], "class", "checked", {"cdev", "region", "gpio"})
         /\ Row(d.init[5], "device", "checked", {"device", "cdev", "region", "gpio"})
         /\ Lists(d.exit, {"gpio", "cdev", "region", "device", "class"})
<1>1. d.init = <<Checked("gpio", <<>>)>> \o CharDevUnchecked(<<"device", "cdev", "region", "gpio">>)
  <2>1. CASE d = Semaphore
    BY <2>1 DEF Semaphore, Plain, Bound
  <2>2. CASE d = Mutex
    BY <2>2 DEF Mutex, Semaphore, Plain, Bound
  <2>3. QED
    BY <2>1, <2>2
<1>2. Row(Checked("gpio", <<>>), "gpio", "checked", {})
  BY NoRest, IsChecked
<1>3. Lists(d.exit, {"gpio", "cdev", "region", "device", "class"})
  <2>1. d.exit = DownCharDev \o <<"gpio">>
    BY DEF Semaphore, Mutex, Plain, Bound
  <2>2. QED
    BY <2>1, DownRows
<1>4. /\ Len(d.init) = 5
      /\ d.init[1] = Checked("gpio", <<>>)
      /\ Row(d.init[2], "region", "checked", {"gpio"})
      /\ Row(d.init[3], "cdev", "ignored", {})
      /\ Row(d.init[4], "class", "checked", {"cdev", "region", "gpio"})
      /\ Row(d.init[5], "device", "checked", {"device", "cdev", "region", "gpio"})
  BY <1>1, CharDevUncheckedRows
<1>5. QED
  BY <1>2, <1>3, <1>4

(* 01_chrdevbase *)
LEMMA ChrdevbaseTable ==
  ASSUME NEW d, d = Chrdevbase
  PROVE  /\ Len(d.init) = 1
         /\ Row(d.init[1], "cdev", "ignored", {})
         /\ Lists(d.exit, {"cdev"})
<1>1. /\ Len(d.init) = 1
      /\ d.init[1] = Ignored("cdev")
  BY DEF Chrdevbase, Plain, Bound, From
<1>3. Lists(d.exit, {"cdev"})
  BY DEF Chrdevbase, Plain, Bound, From, DownCharDev, Elems, Lists, Once
<1>4. Row(d.init[1], "cdev", "ignored", {})
  BY <1>1, IsOther
<1>5. QED
  BY <1>1, <1>3, <1>4

(* 02_led *)
LEMMA LedTable ==
  ASSUME NEW d, d = Led
  PROVE  /\ Len(d.init) = 2
         /\ Row(d.init[1], "map", "certain", {})
         /\ Row(d.init[2], "cdev", "checked", {"map"})
         /\ Lists(d.exit, {"map", "cdev"})
<1>1. /\ Len(d.init) = 2
      /\ d.init[1] = Certain("map")
      /\ d.init[2] = Checked("cdev", <<"map">>)
  BY DEF Led, Plain, Bound, From
<1>2. /\ Lists(<<"map">>, {"map"})
  BY Few
<1>3. Lists(d.exit, {"map", "cdev"})
  BY DEF Led, Plain, Bound, From, DownCharDev, Elems, Lists, Once
<1>4. Row(d.init[1], "map", "certain", {})
  BY <1>1, IsOther
<1>5. Row(d.init[2], "cdev", "checked", {"map"})
  BY <1>1, <1>2, IsChecked
<1>6. QED
  BY <1>1, <1>3, <1>4, <1>5

(* 13_irq *)
LEMMA KeyIrqTable ==
  ASSUME NEW d, d = KeyIrqDriver
  PROVE  /\ Len(d.init) = 7
         /\ Row(d.init[1], "gpio", "checked", {})
         /\ Row(d.init[2], "irq", "checked", {"gpio"})
         /\ Row(d.init[3], "region", "checked", {"irq", "gpio"})
         /\ Row(d.init[4], "cdev", "checked", {"region", "irq", "gpio"})
         /\ Row(d.init[5], "class", "checked", {"cdev", "region", "irq", "gpio"})
         /\ Row(d.init[6], "device", "checked", {"class", "cdev", "region", "irq", "gpio"})
         /\ Row(d.init[7], "timer", "certain", {})
         /\ Lists(d.exit, {"cdev", "region", "timer", "device", "class", "irq", "gpio"})
<1>1. /\ Len(d.init) = 7
      /\ d.init[1] = Checked("gpio", <<>>)
      /\ d.init[2] = Checked("irq", <<"gpio">>)
      /\ d.init[3] = Checked("region", From(<<"class", "cdev", "region", "irq", "gpio">>, 4))
      /\ d.init[4] = Checked("cdev", From(<<"class", "cdev", "region", "irq", "gpio">>, 3))
      /\ d.init[5] = Checked("class", From(<<"class", "cdev", "region", "irq", "gpio">>, 2))
      /\ d.init[6] = Checked("device", <<"class", "cdev", "region", "irq", "gpio">>)
      /\ d.init[7] = Certain("timer")
  BY DEF KeyIrqDriver, KeyDriver, KeyExit, CharDev, Plain
<1>2. /\ Lists(<<>>, {})
      /\ Lists(<<"gpio">>, {"gpio"})
      /\ Lists(From(<<"class", "cdev", "region", "irq", "gpio">>, 4), {"irq", "gpio"})
      /\ Lists(From(<<"class", "cdev", "region", "irq", "gpio">>, 3), {"region", "irq", "gpio"})
      /\ Lists(From(<<"class", "cdev", "region", "irq", "gpio">>, 2), {"cdev", "region", "irq", "gpio"})
      /\ Lists(<<"class", "cdev", "region", "irq", "gpio">>, {"class", "cdev", "region", "irq", "gpio"})
  BY Few, NoRest, FromFive
<1>3. Lists(d.exit, {"cdev", "region", "timer", "device", "class", "irq", "gpio"})
  BY DEF KeyIrqDriver, KeyDriver, KeyExit, CharDev, Plain, DownCharDev, Elems, Lists, Once
<1>4. Row(d.init[1], "gpio", "checked", {})
  BY <1>1, <1>2, IsChecked
<1>5. Row(d.init[2], "irq", "checked", {"gpio"})
  BY <1>1, <1>2, IsChecked
<1>6. Row(d.init[3], "region", "checked", {"irq", "gpio"})
  BY <1>1, <1>2, IsChecked
<1>7. Row(d.init[4], "cdev", "checked", {"region", "irq", "gpio"})
  BY <1>1, <1>2, IsChecked
<1>8. Row(d.init[5], "class", "checked", {"cdev", "region", "irq", "gpio"})
  BY <1>1, <1>2, IsChecked
<1>9. Row(d.init[6], "device", "checked", {"class", "cdev", "region", "irq", "gpio"})
  BY <1>1, <1>2, IsChecked
<1>10. Row(d.init[7], "timer", "certain", {})
  BY <1>1, IsOther
<1>11. QED
  BY <1>1, <1>3, <1>4, <1>5, <1>6, <1>7, <1>8, <1>9, <1>10

(* 19_miscbeep *)
LEMMA MiscTable ==
  ASSUME NEW d, d = MiscBeep
  PROVE  /\ Len(d.init) = 2
         /\ Row(d.init[1], "gpio", "checked", {})
         /\ Row(d.init[2], "device", "checked", {"gpio"})
         /\ Lists(d.exit, {"gpio", "device"})
<1>1. /\ Len(d.init) = 2
      /\ d.init[1] = Checked("gpio", <<>>)
      /\ d.init[2] = Checked("device", <<"gpio">>)
  BY DEF MiscBeep, Plain, Bound, From
<1>2. /\ Lists(<<>>, {})
      /\ Lists(<<"gpio">>, {"gpio"})
  BY Few, NoRest
<1>3. Lists(d.exit, {"gpio", "device"})
  BY DEF MiscBeep, Plain, Bound, From, DownCharDev, Elems, Lists, Once
<1>4. Row(d.init[1], "gpio", "checked", {})
  BY <1>1, <1>2, IsChecked
<1>5. Row(d.init[2], "device", "checked", {"gpio"})
  BY <1>1, <1>2, IsChecked
<1>6. QED
  BY <1>1, <1>3, <1>4, <1>5

(* 22_spi *)
LEMMA Icm20608Table ==
  ASSUME NEW d, d = Icm20608
  PROVE  /\ Len(d.init) = 5
         /\ Row(d.init[1], "region", "ignored", {})
         /\ Row(d.init[2], "cdev", "ignored", {})
         /\ Row(d.init[3], "class", "checked", {"class", "cdev", "region"})
         /\ Row(d.init[4], "device", "checked", {"device", "class", "cdev", "region"})
         /\ Row(d.init[5], "registers", "certain", {})
         /\ Lists(d.exit, {"cdev", "region", "device", "class", "registers"})
<1>1. /\ Len(d.init) = 5
      /\ d.init[1] = Ignored("region")
      /\ d.init[2] = Ignored("cdev")
      /\ d.init[3] = Checked("class", From(<<"device", "class", "cdev", "region">>, 2))
      /\ d.init[4] = Checked("device", <<"device", "class", "cdev", "region">>)
      /\ d.init[5] = Certain("registers")
  BY DEF Icm20608, Plain, Bound
<1>2. /\ Lists(From(<<"device", "class", "cdev", "region">>, 2), {"class", "cdev", "region"})
      /\ Lists(<<"device", "class", "cdev", "region">>, {"device", "class", "cdev", "region"})
  BY Few, FromFour
<1>3. Lists(d.exit, {"cdev", "region", "device", "class", "registers"})
  BY DEF Icm20608, Plain, Bound, DownCharDev, Elems, Lists, Once
<1>4. Row(d.init[1], "region", "ignored", {})
  BY <1>1, IsOther
<1>5. Row(d.init[2], "cdev", "ignored", {})
  BY <1>1, IsOther
<1>6. Row(d.init[3], "class", "checked", {"class", "cdev", "region"})
  BY <1>1, <1>2, IsChecked
<1>7. Row(d.init[4], "device", "checked", {"device", "class", "cdev", "region"})
  BY <1>1, <1>2, IsChecked
<1>8. Row(d.init[5], "registers", "certain", {})
  BY <1>1, IsOther
<1>9. QED
  BY <1>1, <1>3, <1>4, <1>5, <1>6, <1>7, <1>8

(* 23_multitouch, gt9147.c *)
LEMMA Gt9147Table ==
  ASSUME NEW d, d = Gt9147
  PROVE  /\ Len(d.init) = 5
         /\ Row(d.init[1], "gpio", "ignored", {})
         /\ Row(d.init[2], "input", "checked", {"gpio"})
         /\ Row(d.init[3], "nothing", "checked", {"input", "gpio"})
         /\ Row(d.init[4], "device", "checked", {"input", "gpio"})
         /\ Row(d.init[5], "irq", "ignored", {})
         /\ Lists(d.exit, {"device", "irq", "input", "gpio"})
<1>1. /\ Len(d.init) = 5
      /\ d.init[1] = Ignored("gpio")
      /\ d.init[2] = Checked("input", From(<<"input", "gpio">>, 2))
      /\ d.init[3] = Checked("nothing", <<"input", "gpio">>)
      /\ d.init[4] = Checked("device", <<"input", "gpio">>)
      /\ d.init[5] = Ignored("irq")
  BY DEF Gt9147, TouchDriver, Plain, Bound, Test
<1>2. /\ Lists(From(<<"input", "gpio">>, 2), {"gpio"})
      /\ Lists(<<"input", "gpio">>, {"input", "gpio"})
  BY Few, FromTwo
<1>3. Lists(d.exit, {"device", "irq", "input", "gpio"})
  BY DEF Gt9147, TouchDriver, Plain, Bound, Test, DownCharDev, Elems, Lists, Once
<1>4. Row(d.init[1], "gpio", "ignored", {})
  BY <1>1, IsOther
<1>5. Row(d.init[2], "input", "checked", {"gpio"})
  BY <1>1, <1>2, IsChecked
<1>6. Row(d.init[3], "nothing", "checked", {"input", "gpio"})
  BY <1>1, <1>2, IsChecked
<1>7. Row(d.init[4], "device", "checked", {"input", "gpio"})
  BY <1>1, <1>2, IsChecked
<1>8. Row(d.init[5], "irq", "ignored", {})
  BY <1>1, IsOther
<1>9. QED
  BY <1>1, <1>3, <1>4, <1>5, <1>6, <1>7, <1>8

(* 23_multitouch, ft5x06.c *)
LEMMA Ft5426Table ==
  ASSUME NEW d, d = Ft5426
  PROVE  /\ Len(d.init) = 7
         /\ Row(d.init[1], "memory", "checked", {})
         /\ Row(d.init[2], "reset", "checked", {"memory"})
         /\ Row(d.init[3], "gpio", "checked", {"reset", "memory"})
         /\ Row(d.init[4], "irq", "checked", {"gpio", "reset", "memory"})
         /\ Row(d.init[5], "input", "checked", {"irq", "gpio", "reset", "memory"})
         /\ Row(d.init[6], "nothing", "checked", {"input", "irq", "gpio", "reset", "memory"})
         /\ Row(d.init[7], "device", "checked", {"input", "irq", "gpio", "reset", "memory"})
         /\ Lists(d.exit, {"device", "input", "irq", "gpio", "reset", "memory"})
<1>1. /\ Len(d.init) = 7
      /\ d.init[1] = Checked("memory", <<>>)
      /\ d.init[2] = Checked("reset", From(<<"input", "irq", "gpio", "reset", "memory">>, 5))
      /\ d.init[3] = Checked("gpio", From(<<"input", "irq", "gpio", "reset", "memory">>, 4))
      /\ d.init[4] = Checked("irq", From(<<"input", "irq", "gpio", "reset", "memory">>, 3))
      /\ d.init[5] = Checked("input", From(<<"input", "irq", "gpio", "reset", "memory">>, 2))
      /\ d.init[6] = Checked("nothing", <<"input", "irq", "gpio", "reset", "memory">>)
      /\ d.init[7] = Checked("device", <<"input", "irq", "gpio", "reset", "memory">>)
  BY DEF Ft5426, TouchDriver, Plain, Bound, Test
<1>2. /\ Lists(<<>>, {})
      /\ Lists(From(<<"input", "irq", "gpio", "reset", "memory">>, 5), {"memory"})
      /\ Lists(From(<<"input", "irq", "gpio", "reset", "memory">>, 4), {"reset", "memory"})
      /\ Lists(From(<<"input", "irq", "gpio", "reset", "memory">>, 3), {"gpio", "reset", "memory"})
      /\ Lists(From(<<"input", "irq", "gpio", "reset", "memory">>, 2), {"irq", "gpio", "reset", "memory"})
      /\ Lists(<<"input", "irq", "gpio", "reset", "memory">>, {"input", "irq", "gpio", "reset", "memory"})
  BY Few, NoRest, FromFive
<1>3. Lists(d.exit, {"device", "input", "irq", "gpio", "reset", "memory"})
  BY DEF Ft5426, TouchDriver, Plain, Bound, Test, DownCharDev, Elems, Lists, Once
<1>4. Row(d.init[1], "memory", "checked", {})
  BY <1>1, <1>2, IsChecked
<1>5. Row(d.init[2], "reset", "checked", {"memory"})
  BY <1>1, <1>2, IsChecked
<1>6. Row(d.init[3], "gpio", "checked", {"reset", "memory"})
  BY <1>1, <1>2, IsChecked
<1>7. Row(d.init[4], "irq", "checked", {"gpio", "reset", "memory"})
  BY <1>1, <1>2, IsChecked
<1>8. Row(d.init[5], "input", "checked", {"irq", "gpio", "reset", "memory"})
  BY <1>1, <1>2, IsChecked
<1>9. Row(d.init[6], "nothing", "checked", {"input", "irq", "gpio", "reset", "memory"})
  BY <1>1, <1>2, IsChecked
<1>10. Row(d.init[7], "device", "checked", {"input", "irq", "gpio", "reset", "memory"})
  BY <1>1, <1>2, IsChecked
<1>11. QED
  BY <1>1, <1>3, <1>4, <1>5, <1>6, <1>7, <1>8, <1>9, <1>10

(* 11_key *)
LEMMA KeyTable ==
  ASSUME NEW d, d = Key
  PROVE  /\ Len(d.init) = 4
         /\ Row(d.init[1], "region", "checked", {})
         /\ Row(d.init[2], "cdev", "ignored", {})
         /\ Row(d.init[3], "class", "checked", {"cdev", "region"})
         /\ Row(d.init[4], "device", "checked", {"device", "cdev", "region"})
         /\ Lists(d.exit, {"cdev", "region", "device", "class"})
<1>1. /\ Len(d.init) = 4
      /\ d.init[1] = Checked("region", From(<<"device", "cdev", "region">>, 4))
      /\ d.init[2] = Ignored("cdev")
      /\ d.init[3] = Checked("class", From(<<"device", "cdev", "region">>, 2))
      /\ d.init[4] = Checked("device", <<"device", "cdev", "region">>)
  BY DEF Key, CharDevUnchecked, Plain
<1>2. /\ Lists(From(<<"device", "cdev", "region">>, 4), {})
      /\ Lists(From(<<"device", "cdev", "region">>, 2), {"cdev", "region"})
      /\ Lists(<<"device", "cdev", "region">>, {"device", "cdev", "region"})
  BY Few, NoRest, FromThree, FromFour, FromFive
<1>3. Lists(d.exit, {"cdev", "region", "device", "class"})
  <2> DEFINE l == d.exit
  <2>1. Len(l) = 4 /\ l[1] = "cdev" /\ l[2] = "region" /\ l[3] = "device"
        /\ l[4] = "class"
    BY DEF Key, CharDevUnchecked, Plain, DownCharDev
  <2>2. Lists(l, {"cdev", "region", "device", "class"})
    <3> HIDE DEF l
    <3> QED
      BY <2>1 DEF Elems, Lists, Once
  <2>3. QED
    BY <2>2
<1>4. Row(d.init[1], "region", "checked", {})
  BY <1>1, <1>2, IsChecked
<1>5. Row(d.init[2], "cdev", "ignored", {})
  BY <1>1, IsOther
<1>6. Row(d.init[3], "class", "checked", {"cdev", "region"})
  BY <1>1, <1>2, IsChecked
<1>7. Row(d.init[4], "device", "checked", {"device", "cdev", "region"})
  BY <1>1, <1>2, IsChecked
<1>8. QED
  BY <1>1, <1>3, <1>4, <1>5, <1>6, <1>7

(* 12_timer *)
LEMMA TimerRows ==
  ASSUME NEW d, d = Timer
  PROVE  /\ Len(d.init) = 5
         /\ Row(d.init[1], "region", "checked", {})
         /\ Row(d.init[2], "cdev", "checked", {"region"})
         /\ Row(d.init[3], "class", "checked", {"cdev", "region"})
         /\ Row(d.init[4], "device", "checked", {"device", "cdev", "region"})
         /\ Row(d.init[5], "timer", "certain", {})
         /\ Lists(d.exit, {"timer", "cdev", "region", "device", "class"})
<1>1. /\ Len(d.init) = 5
      /\ d.init[1] = Checked("region", From(<<"device", "cdev", "region">>, 4))
      /\ d.init[2] = Checked("cdev", From(<<"device", "cdev", "region">>, 3))
      /\ d.init[3] = Checked("class", From(<<"device", "cdev", "region">>, 2))
      /\ d.init[4] = Checked("device", <<"device", "cdev", "region">>)
      /\ d.init[5] = Certain("timer")
  BY DEF Timer, CharDev, Plain
<1>2. /\ Lists(From(<<"device", "cdev", "region">>, 4), {})
      /\ Lists(From(<<"device", "cdev", "region">>, 3), {"region"})
      /\ Lists(From(<<"device", "cdev", "region">>, 2), {"cdev", "region"})
      /\ Lists(<<"device", "cdev", "region">>, {"device", "cdev", "region"})
  BY Few, NoRest, FromThree, FromFour, FromFive
<1>3. Lists(d.exit, {"timer", "cdev", "region", "device", "class"})
  <2> DEFINE l == d.exit
  <2>1. Len(l) = 5 /\ l[1] = "timer" /\ l[2] = "cdev" /\ l[3] = "region"
        /\ l[4] = "device" /\ l[5] = "class"
    BY DEF Timer, CharDev, Plain, DownCharDev
  <2>2. Lists(l, {"timer", "cdev", "region", "device", "class"})
    <3> HIDE DEF l
    <3> QED
      BY <2>1 DEF Elems, Lists, Once
  <2>3. QED
    BY <2>2
<1>4. Row(d.init[1], "region", "checked", {})
  BY <1>1, <1>2, IsChecked
<1>5. Row(d.init[2], "cdev", "checked", {"region"})
  BY <1>1, <1>2, IsChecked
<1>6. Row(d.init[3], "class", "checked", {"cdev", "region"})
  BY <1>1, <1>2, IsChecked
<1>7. Row(d.init[4], "device", "checked", {"device", "cdev", "region"})
  BY <1>1, <1>2, IsChecked
<1>8. Row(d.init[5], "timer", "certain", {})
  BY <1>1, IsOther
<1>9. QED
  BY <1>1, <1>3, <1>4, <1>5, <1>6, <1>7, <1>8

(* 14_blockio, 15_noblockio, 16_asyncnoti *)
LEMMA BlockIoTable ==
  ASSUME NEW d, d = BlockIo
  PROVE  /\ Len(d.init) = 7
         /\ Row(d.init[1], "gpio", "checked", {})
         /\ Row(d.init[2], "irq", "checked", {"gpio"})
         /\ Row(d.init[3], "region", "checked", {"irq", "gpio"})
         /\ Row(d.init[4], "cdev", "checked", {"region", "irq", "gpio"})
         /\ Row(d.init[5], "class", "checked", {"cdev", "region", "irq", "gpio"})
         /\ Row(d.init[6], "device", "checked", {"device", "cdev", "region", "irq", "gpio"})
         /\ Row(d.init[7], "timer", "certain", {})
         /\ Lists(d.exit, {"cdev", "region", "timer", "device", "class", "irq", "gpio"})
<1>1. /\ Len(d.init) = 7
      /\ d.init[1] = Checked("gpio", <<>>)
      /\ d.init[2] = Checked("irq", <<"gpio">>)
      /\ d.init[3] = Checked("region", From(<<"device", "cdev", "region", "irq", "gpio">>, 4))
      /\ d.init[4] = Checked("cdev", From(<<"device", "cdev", "region", "irq", "gpio">>, 3))
      /\ d.init[5] = Checked("class", From(<<"device", "cdev", "region", "irq", "gpio">>, 2))
      /\ d.init[6] = Checked("device", <<"device", "cdev", "region", "irq", "gpio">>)
      /\ d.init[7] = Certain("timer")
  BY DEF BlockIo, KeyDriver, KeyExit, CharDev, Plain
<1>2. /\ Lists(<<>>, {})
      /\ Lists(<<"gpio">>, {"gpio"})
      /\ Lists(From(<<"device", "cdev", "region", "irq", "gpio">>, 4), {"irq", "gpio"})
      /\ Lists(From(<<"device", "cdev", "region", "irq", "gpio">>, 3), {"region", "irq", "gpio"})
      /\ Lists(From(<<"device", "cdev", "region", "irq", "gpio">>, 2), {"cdev", "region", "irq", "gpio"})
      /\ Lists(<<"device", "cdev", "region", "irq", "gpio">>, {"device", "cdev", "region", "irq", "gpio"})
  BY Few, NoRest, FromThree, FromFour, FromFive
<1>3. Lists(d.exit, {"cdev", "region", "timer", "device", "class", "irq", "gpio"})
  <2> DEFINE l == d.exit
  <2>1. Len(l) = 7 /\ l[1] = "cdev" /\ l[2] = "region" /\ l[3] = "timer"
        /\ l[4] = "device" /\ l[5] = "class" /\ l[6] = "irq" /\ l[7] = "gpio"
    BY DEF BlockIo, KeyDriver, KeyExit, CharDev, Plain, DownCharDev
  <2>2. Lists(l, {"cdev", "region", "timer", "device", "class", "irq", "gpio"})
    <3> HIDE DEF l
    <3> QED
      BY <2>1 DEF Elems, Lists, Once
  <2>3. QED
    BY <2>2
<1>4. Row(d.init[1], "gpio", "checked", {})
  BY <1>1, <1>2, IsChecked
<1>5. Row(d.init[2], "irq", "checked", {"gpio"})
  BY <1>1, <1>2, IsChecked
<1>6. Row(d.init[3], "region", "checked", {"irq", "gpio"})
  BY <1>1, <1>2, IsChecked
<1>7. Row(d.init[4], "cdev", "checked", {"region", "irq", "gpio"})
  BY <1>1, <1>2, IsChecked
<1>8. Row(d.init[5], "class", "checked", {"cdev", "region", "irq", "gpio"})
  BY <1>1, <1>2, IsChecked
<1>9. Row(d.init[6], "device", "checked", {"device", "cdev", "region", "irq", "gpio"})
  BY <1>1, <1>2, IsChecked
<1>10. Row(d.init[7], "timer", "certain", {})
  BY <1>1, IsOther
<1>11. QED
  BY <1>1, <1>3, <1>4, <1>5, <1>6, <1>7, <1>8, <1>9, <1>10

(* 20_input *)
LEMMA InputTable ==
  ASSUME NEW d, d = KeyInput
  PROVE  /\ Len(d.init) = 6
         /\ Row(d.init[1], "gpio", "checked", {})
         /\ Row(d.init[2], "nothing", "checked", {})
         /\ Row(d.init[3], "irq", "checked", {"gpio"})
         /\ Row(d.init[4], "timer", "certain", {})
         /\ Row(d.init[5], "input", "ignored", {})
         /\ Row(d.init[6], "device", "checked", {"irq", "gpio", "timer"})
         /\ Lists(d.exit, {"irq", "gpio", "timer", "device", "input"})
<1>1. /\ Len(d.init) = 6
      /\ d.init[1] = Checked("gpio", <<>>)
      /\ d.init[2] = Checked("nothing", <<>>)
      /\ d.init[3] = Checked("irq", <<"gpio">>)
      /\ d.init[4] = Certain("timer")
      /\ d.init[5] = Ignored("input")
      /\ d.init[6] = Checked("device", <<"irq", "gpio", "timer">>)
  BY DEF KeyInput, InputDriver, InputProbe, Test, Bound, Plain
<1>2. /\ Lists(<<>>, {})
      /\ Lists(<<"gpio">>, {"gpio"})
      /\ Lists(<<"irq", "gpio", "timer">>, {"irq", "gpio", "timer"})
  BY Few, NoRest, FromThree, FromFour, FromFive
<1>3. Lists(d.exit, {"irq", "gpio", "timer", "device", "input"})
  <2> DEFINE l == d.exit
  <2>1. Len(l) = 5 /\ l[1] = "irq" /\ l[2] = "gpio" /\ l[3] = "timer"
        /\ l[4] = "device" /\ l[5] = "input"
    BY DEF KeyInput, InputDriver, InputProbe, Test, Bound, Plain, DownCharDev
  <2>2. Lists(l, {"irq", "gpio", "timer", "device", "input"})
    <3> HIDE DEF l
    <3> QED
      BY <2>1 DEF Elems, Lists, Once
  <2>3. QED
    BY <2>2
<1>4. Row(d.init[1], "gpio", "checked", {})
  BY <1>1, <1>2, IsChecked
<1>5. Row(d.init[2], "nothing", "checked", {})
  BY <1>1, <1>2, IsChecked
<1>6. Row(d.init[3], "irq", "checked", {"gpio"})
  BY <1>1, <1>2, IsChecked
<1>7. Row(d.init[4], "timer", "certain", {})
  BY <1>1, IsOther
<1>8. Row(d.init[5], "input", "ignored", {})
  BY <1>1, IsOther
<1>9. Row(d.init[6], "device", "checked", {"irq", "gpio", "timer"})
  BY <1>1, <1>2, IsChecked
<1>10. QED
  BY <1>1, <1>3, <1>4, <1>5, <1>6, <1>7, <1>8, <1>9

(* 21_iic *)
LEMMA Ap3216cTable ==
  ASSUME NEW d, d = Ap3216c
  PROVE  /\ Len(d.init) = 5
         /\ Row(d.init[1], "region", "checked", {})
         /\ Row(d.init[2], "cdev", "checked", {"region"})
         /\ Row(d.init[3], "class", "checked", {"cdev", "region"})
         /\ Row(d.init[4], "device", "checked", {"device", "cdev", "region"})
         /\ Row(d.init[5], "client", "certain", {})
         /\ Lists(d.exit, {"cdev", "region", "device", "class", "client"})
<1>1. /\ Len(d.init) = 5
      /\ d.init[1] = Checked("region", From(<<"device", "cdev", "region">>, 4))
      /\ d.init[2] = Checked("cdev", From(<<"device", "cdev", "region">>, 3))
      /\ d.init[3] = Checked("class", From(<<"device", "cdev", "region">>, 2))
      /\ d.init[4] = Checked("device", <<"device", "cdev", "region">>)
      /\ d.init[5] = Certain("client")
  BY DEF Ap3216c, CharDev, Bound, Plain
<1>2. /\ Lists(From(<<"device", "cdev", "region">>, 4), {})
      /\ Lists(From(<<"device", "cdev", "region">>, 3), {"region"})
      /\ Lists(From(<<"device", "cdev", "region">>, 2), {"cdev", "region"})
      /\ Lists(<<"device", "cdev", "region">>, {"device", "cdev", "region"})
  BY Few, NoRest, FromThree, FromFour, FromFive
<1>3. Lists(d.exit, {"cdev", "region", "device", "class", "client"})
  <2> DEFINE l == d.exit
  <2>1. Len(l) = 5 /\ l[1] = "cdev" /\ l[2] = "region" /\ l[3] = "device"
        /\ l[4] = "class" /\ l[5] = "client"
    BY DEF Ap3216c, CharDev, Bound, Plain, DownCharDev
  <2>2. Lists(l, {"cdev", "region", "device", "class", "client"})
    <3> HIDE DEF l
    <3> QED
      BY <2>1 DEF Elems, Lists, Once
  <2>3. QED
    BY <2>2
<1>4. Row(d.init[1], "region", "checked", {})
  BY <1>1, <1>2, IsChecked
<1>5. Row(d.init[2], "cdev", "checked", {"region"})
  BY <1>1, <1>2, IsChecked
<1>6. Row(d.init[3], "class", "checked", {"cdev", "region"})
  BY <1>1, <1>2, IsChecked
<1>7. Row(d.init[4], "device", "checked", {"device", "cdev", "region"})
  BY <1>1, <1>2, IsChecked
<1>8. Row(d.init[5], "client", "certain", {})
  BY <1>1, IsOther
<1>9. QED
  BY <1>1, <1>3, <1>4, <1>5, <1>6, <1>7, <1>8

(* 30_regmap, iic *)
LEMMA RegmapAp3216cTable ==
  ASSUME NEW d, d = RegmapAp3216c
  PROVE  /\ Len(d.init) = 5
         /\ Row(d.init[1], "regmap", "checked", {})
         /\ Row(d.init[2], "region", "checked", {"regmap"})
         /\ Row(d.init[3], "cdev", "checked", {"region", "regmap"})
         /\ Row(d.init[4], "class", "checked", {"cdev", "region", "regmap"})
         /\ Row(d.init[5], "device", "checked", {"device", "cdev", "region", "regmap"})
         /\ Lists(d.exit, {"cdev", "region", "device", "class", "regmap"})
<1>1. /\ Len(d.init) = 5
      /\ d.init[1] = Checked("regmap", <<>>)
      /\ d.init[2] = Checked("region", From(<<"device", "cdev", "region", "regmap">>, 4))
      /\ d.init[3] = Checked("cdev", From(<<"device", "cdev", "region", "regmap">>, 3))
      /\ d.init[4] = Checked("class", From(<<"device", "cdev", "region", "regmap">>, 2))
      /\ d.init[5] = Checked("device", <<"device", "cdev", "region", "regmap">>)
  BY DEF RegmapAp3216c, CharDev, Bound, Plain
<1>2. /\ Lists(<<>>, {})
      /\ Lists(From(<<"device", "cdev", "region", "regmap">>, 4), {"regmap"})
      /\ Lists(From(<<"device", "cdev", "region", "regmap">>, 3), {"region", "regmap"})
      /\ Lists(From(<<"device", "cdev", "region", "regmap">>, 2), {"cdev", "region", "regmap"})
      /\ Lists(<<"device", "cdev", "region", "regmap">>, {"device", "cdev", "region", "regmap"})
  BY Few, NoRest, FromThree, FromFour, FromFive
<1>3. Lists(d.exit, {"cdev", "region", "device", "class", "regmap"})
  <2> DEFINE l == d.exit
  <2>1. Len(l) = 5 /\ l[1] = "cdev" /\ l[2] = "region" /\ l[3] = "device"
        /\ l[4] = "class" /\ l[5] = "regmap"
    BY DEF RegmapAp3216c, CharDev, Bound, Plain, DownCharDev
  <2>2. Lists(l, {"cdev", "region", "device", "class", "regmap"})
    <3> HIDE DEF l
    <3> QED
      BY <2>1 DEF Elems, Lists, Once
  <2>3. QED
    BY <2>2
<1>4. Row(d.init[1], "regmap", "checked", {})
  BY <1>1, <1>2, IsChecked
<1>5. Row(d.init[2], "region", "checked", {"regmap"})
  BY <1>1, <1>2, IsChecked
<1>6. Row(d.init[3], "cdev", "checked", {"region", "regmap"})
  BY <1>1, <1>2, IsChecked
<1>7. Row(d.init[4], "class", "checked", {"cdev", "region", "regmap"})
  BY <1>1, <1>2, IsChecked
<1>8. Row(d.init[5], "device", "checked", {"device", "cdev", "region", "regmap"})
  BY <1>1, <1>2, IsChecked
<1>9. QED
  BY <1>1, <1>3, <1>4, <1>5, <1>6, <1>7, <1>8

(* 30_regmap, spi *)
LEMMA RegmapIcm20608Table ==
  ASSUME NEW d, d = RegmapIcm20608
  PROVE  /\ Len(d.init) = 6
         /\ Row(d.init[1], "regmap", "checked", {})
         /\ Row(d.init[2], "region", "checked", {"regmap"})
         /\ Row(d.init[3], "cdev", "checked", {"region", "regmap"})
         /\ Row(d.init[4], "class", "checked", {"cdev", "region", "regmap"})
         /\ Row(d.init[5], "device", "checked", {"device", "cdev", "region", "regmap"})
         /\ Row(d.init[6], "registers", "certain", {})
         /\ Lists(d.exit, {"cdev", "region", "device", "class", "regmap", "registers"})
<1>1. /\ Len(d.init) = 6
      /\ d.init[1] = Checked("regmap", <<>>)
      /\ d.init[2] = Checked("region", From(<<"device", "cdev", "region", "regmap">>, 4))
      /\ d.init[3] = Checked("cdev", From(<<"device", "cdev", "region", "regmap">>, 3))
      /\ d.init[4] = Checked("class", From(<<"device", "cdev", "region", "regmap">>, 2))
      /\ d.init[5] = Checked("device", <<"device", "cdev", "region", "regmap">>)
      /\ d.init[6] = Certain("registers")
  BY DEF RegmapIcm20608, CharDev, Bound, Plain
<1>2. /\ Lists(<<>>, {})
      /\ Lists(From(<<"device", "cdev", "region", "regmap">>, 4), {"regmap"})
      /\ Lists(From(<<"device", "cdev", "region", "regmap">>, 3), {"region", "regmap"})
      /\ Lists(From(<<"device", "cdev", "region", "regmap">>, 2), {"cdev", "region", "regmap"})
      /\ Lists(<<"device", "cdev", "region", "regmap">>, {"device", "cdev", "region", "regmap"})
  BY Few, NoRest, FromThree, FromFour, FromFive
<1>3. Lists(d.exit, {"cdev", "region", "device", "class", "regmap", "registers"})
  <2> DEFINE l == d.exit
  <2>1. Len(l) = 6 /\ l[1] = "cdev" /\ l[2] = "region" /\ l[3] = "device"
        /\ l[4] = "class" /\ l[5] = "regmap" /\ l[6] = "registers"
    BY DEF RegmapIcm20608, CharDev, Bound, Plain, DownCharDev
  <2>2. Lists(l, {"cdev", "region", "device", "class", "regmap", "registers"})
    <3> HIDE DEF l
    <3> QED
      BY <2>1 DEF Elems, Lists, Once
  <2>3. QED
    BY <2>2
<1>4. Row(d.init[1], "regmap", "checked", {})
  BY <1>1, <1>2, IsChecked
<1>5. Row(d.init[2], "region", "checked", {"regmap"})
  BY <1>1, <1>2, IsChecked
<1>6. Row(d.init[3], "cdev", "checked", {"region", "regmap"})
  BY <1>1, <1>2, IsChecked
<1>7. Row(d.init[4], "class", "checked", {"cdev", "region", "regmap"})
  BY <1>1, <1>2, IsChecked
<1>8. Row(d.init[5], "device", "checked", {"device", "cdev", "region", "regmap"})
  BY <1>1, <1>2, IsChecked
<1>9. Row(d.init[6], "registers", "certain", {})
  BY <1>1, IsOther
<1>10. QED
  BY <1>1, <1>3, <1>4, <1>5, <1>6, <1>7, <1>8, <1>9

(* 26_ramdisk_withrequest *)
LEMMA RamRequestTable ==
  ASSUME NEW d, d = RamRequest
  PROVE  /\ Len(d.init) = 5
         /\ Row(d.init[1], "memory", "checked", {})
         /\ Row(d.init[2], "buffer", "checked", {})
         /\ Row(d.init[3], "region", "checked", {"buffer", "memory"})
         /\ Row(d.init[4], "queue", "ignored", {})
         /\ Row(d.init[5], "device", "checked", {"queue", "region", "buffer", "memory"})
         /\ Lists(d.exit, {"device", "queue", "region", "buffer", "memory"})
<1>1. /\ Len(d.init) = 5
      /\ d.init[1] = Checked("memory", <<>>)
      /\ d.init[2] = Checked("buffer", <<>>)
      /\ d.init[3] = Checked("region", From(<<"queue", "region", "buffer", "memory">>, 3))
      /\ d.init[4] = Ignored("queue")
      /\ d.init[5] = Checked("device", <<"queue", "region", "buffer", "memory">>)
  BY DEF RamRequest, RamMemory, RamExit, Plain
<1>2. /\ Lists(<<>>, {})
      /\ Lists(From(<<"queue", "region", "buffer", "memory">>, 3), {"buffer", "memory"})
      /\ Lists(<<"queue", "region", "buffer", "memory">>, {"queue", "region", "buffer", "memory"})
  BY Few, NoRest, FromThree, FromFour, FromFive
<1>3. Lists(d.exit, {"device", "queue", "region", "buffer", "memory"})
  <2> DEFINE l == d.exit
  <2>1. Len(l) = 5 /\ l[1] = "device" /\ l[2] = "queue" /\ l[3] = "region"
        /\ l[4] = "buffer" /\ l[5] = "memory"
    BY DEF RamRequest, RamMemory, RamExit, Plain, DownCharDev
  <2>2. Lists(l, {"device", "queue", "region", "buffer", "memory"})
    <3> HIDE DEF l
    <3> QED
      BY <2>1 DEF Elems, Lists, Once
  <2>3. QED
    BY <2>2
<1>4. Row(d.init[1], "memory", "checked", {})
  BY <1>1, <1>2, IsChecked
<1>5. Row(d.init[2], "buffer", "checked", {})
  BY <1>1, <1>2, IsChecked
<1>6. Row(d.init[3], "region", "checked", {"buffer", "memory"})
  BY <1>1, <1>2, IsChecked
<1>7. Row(d.init[4], "queue", "ignored", {})
  BY <1>1, IsOther
<1>8. Row(d.init[5], "device", "checked", {"queue", "region", "buffer", "memory"})
  BY <1>1, <1>2, IsChecked
<1>9. QED
  BY <1>1, <1>3, <1>4, <1>5, <1>6, <1>7, <1>8

(* 27_ramdisk_norequest *)
LEMMA RamBioTable ==
  ASSUME NEW d, d = RamBio
  PROVE  /\ Len(d.init) = 5
         /\ Row(d.init[1], "memory", "checked", {})
         /\ Row(d.init[2], "buffer", "checked", {})
         /\ Row(d.init[3], "region", "checked", {"buffer", "memory"})
         /\ Row(d.init[4], "queue", "ignored", {})
         /\ Row(d.init[5], "device", "ignored", {})
         /\ Lists(d.exit, {"device", "queue", "region", "buffer", "memory"})
<1>1. /\ Len(d.init) = 5
      /\ d.init[1] = Checked("memory", <<>>)
      /\ d.init[2] = Checked("buffer", <<>>)
      /\ d.init[3] = Checked("region", From(<<"queue", "region", "buffer", "memory">>, 3))
      /\ d.init[4] = Ignored("queue")
      /\ d.init[5] = Ignored("device")
  BY DEF RamBio, RamMemory, RamExit, Plain
<1>2. /\ Lists(<<>>, {})
      /\ Lists(From(<<"queue", "region", "buffer", "memory">>, 3), {"buffer", "memory"})
  BY Few, NoRest, FromThree, FromFour, FromFive
<1>3. Lists(d.exit, {"device", "queue", "region", "buffer", "memory"})
  <2> DEFINE l == d.exit
  <2>1. Len(l) = 5 /\ l[1] = "device" /\ l[2] = "queue" /\ l[3] = "region"
        /\ l[4] = "buffer" /\ l[5] = "memory"
    BY DEF RamBio, RamMemory, RamExit, Plain, DownCharDev
  <2>2. Lists(l, {"device", "queue", "region", "buffer", "memory"})
    <3> HIDE DEF l
    <3> QED
      BY <2>1 DEF Elems, Lists, Once
  <2>3. QED
    BY <2>2
<1>4. Row(d.init[1], "memory", "checked", {})
  BY <1>1, <1>2, IsChecked
<1>5. Row(d.init[2], "buffer", "checked", {})
  BY <1>1, <1>2, IsChecked
<1>6. Row(d.init[3], "region", "checked", {"buffer", "memory"})
  BY <1>1, <1>2, IsChecked
<1>7. Row(d.init[4], "queue", "ignored", {})
  BY <1>1, IsOther
<1>8. Row(d.init[5], "device", "ignored", {})
  BY <1>1, IsOther
<1>9. QED
  BY <1>1, <1>3, <1>4, <1>5, <1>6, <1>7, <1>8

(* 31_iio, spi *)
LEMMA IioIcm20608Table ==
  ASSUME NEW d, d = IioIcm20608
  PROVE  /\ Len(d.init) = 8
         /\ Row(d.init[1], "iio", "checked", {})
         /\ Row(d.init[2], "regmap", "checked", {"device", "iio"})
         /\ Row(d.init[3], "buffer", "ignored", {})
         /\ Row(d.init[4], "trigger", "checked", {"device", "buffer", "iio"})
         /\ Row(d.init[5], "registration", "ignored", {})
         /\ Row(d.init[6], "irq", "ignored", {})
         /\ Row(d.init[7], "device", "checked",
                {"device", "buffer", "irq", "registration", "trigger", "iio"})
         /\ Row(d.init[8], "registers", "certain", {})
         /\ Lists(d.exit, {"regmap", "device", "registers", "buffer", "irq", "registration", "trigger", "iio"})
<1>1. /\ Len(d.init) = 8
      /\ d.init[1] = Checked("iio", <<>>)
      /\ d.init[2] = Checked("regmap", <<"device", "iio">>)
      /\ d.init[3] = Ignored("buffer")
      /\ d.init[4] = Checked("trigger", <<"device", "buffer", "iio">>)
      /\ d.init[5] = Ignored("registration")
      /\ d.init[6] = Ignored("irq")
      /\ d.init[7] = Checked("device", <<"device">> \o <<"buffer", "irq", "registration", "trigger", "iio">>)
      /\ d.init[8] = Certain("registers")
  BY DEF IioIcm20608, Bound, Plain
<1>2. /\ Lists(<<>>, {})
      /\ Lists(<<"device", "iio">>, {"device", "iio"})
      /\ Lists(<<"device", "buffer", "iio">>, {"device", "buffer", "iio"})
  BY Few, NoRest
<1>a. Lists(d.init[7].undo, {"device", "buffer", "irq", "registration", "trigger", "iio"})
  <2> DEFINE l == d.init[7].undo
  <2>1. Len(l) = 6 /\ l[1] = "device" /\ l[2] = "buffer" /\ l[3] = "irq"
        /\ l[4] = "registration" /\ l[5] = "trigger" /\ l[6] = "iio"
    BY <1>1 DEF Checked
  <2>2. Lists(l, {"device", "buffer", "irq", "registration", "trigger", "iio"})
    <3> HIDE DEF l
    <3> QED
      BY <2>1 DEF Elems, Lists, Once
  <2>3. QED
    BY <2>2
<1>3. Lists(d.exit, {"regmap", "device", "registers", "buffer", "irq", "registration", "trigger", "iio"})
  <2> DEFINE l == d.exit
  <2>1. Len(l) = 8 /\ l[1] = "regmap" /\ l[2] = "device" /\ l[3] = "registers"
        /\ l[4] = "buffer" /\ l[5] = "irq" /\ l[6] = "registration" /\ l[7] = "trigger"
        /\ l[8] = "iio"
    BY DEF IioIcm20608, Bound, Plain, DownCharDev
  <2>2. Lists(l, {"regmap", "device", "registers", "buffer", "irq", "registration", "trigger", "iio"})
    <3> HIDE DEF l
    <3> QED
      BY <2>1 DEF Elems, Lists, Once
  <2>3. QED
    BY <2>2
<1>4. Row(d.init[1], "iio", "checked", {})
  BY <1>1, <1>2, IsChecked
<1>5. Row(d.init[2], "regmap", "checked", {"device", "iio"})
  BY <1>1, <1>2, IsChecked
<1>6. Row(d.init[3], "buffer", "ignored", {})
  BY <1>1, IsOther
<1>7. Row(d.init[4], "trigger", "checked", {"device", "buffer", "iio"})
  BY <1>1, <1>2, IsChecked
<1>8. Row(d.init[5], "registration", "ignored", {})
  BY <1>1, IsOther
<1>9. Row(d.init[6], "irq", "ignored", {})
  BY <1>1, IsOther
<1>10. Row(d.init[7], "device", "checked",
                {"device", "buffer", "irq", "registration", "trigger", "iio"})
  BY <1>1, <1>a DEF Row, Checked
<1>11. Row(d.init[8], "registers", "certain", {})
  BY <1>1, IsOther
<1>12. QED
  BY <1>1, <1>3, <1>4, <1>5, <1>6, <1>7, <1>8, <1>9, <1>10, <1>11

(* 31_iio, iic *)
LEMMA IioAp3216cTable ==
  ASSUME NEW d, d = IioAp3216c
  PROVE  /\ Len(d.init) = 4
         /\ Row(d.init[1], "iio", "checked", {})
         /\ Row(d.init[2], "regmap", "checked", {"device", "iio"})
         /\ Row(d.init[3], "device", "checked", {"device", "iio"})
         /\ Row(d.init[4], "registers", "certain", {})
         /\ Lists(d.exit, {"regmap", "device", "registers", "iio"})
<1>1. /\ Len(d.init) = 4
      /\ d.init[1] = Checked("iio", <<>>)
      /\ d.init[2] = Checked("regmap", <<"device", "iio">>)
      /\ d.init[3] = Checked("device", <<"device", "iio">>)
      /\ d.init[4] = Certain("registers")
  BY DEF IioAp3216c, Bound, Plain
<1>2. /\ Lists(<<>>, {})
      /\ Lists(<<"device", "iio">>, {"device", "iio"})
  BY Few, NoRest, FromThree, FromFour, FromFive
<1>3. Lists(d.exit, {"regmap", "device", "registers", "iio"})
  <2> DEFINE l == d.exit
  <2>1. Len(l) = 4 /\ l[1] = "regmap" /\ l[2] = "device" /\ l[3] = "registers"
        /\ l[4] = "iio"
    BY DEF IioAp3216c, Bound, Plain, DownCharDev
  <2>2. Lists(l, {"regmap", "device", "registers", "iio"})
    <3> HIDE DEF l
    <3> QED
      BY <2>1 DEF Elems, Lists, Once
  <2>3. QED
    BY <2>2
<1>4. Row(d.init[1], "iio", "checked", {})
  BY <1>1, <1>2, IsChecked
<1>5. Row(d.init[2], "regmap", "checked", {"device", "iio"})
  BY <1>1, <1>2, IsChecked
<1>6. Row(d.init[3], "device", "checked", {"device", "iio"})
  BY <1>1, <1>2, IsChecked
<1>7. Row(d.init[4], "registers", "certain", {})
  BY <1>1, IsOther
<1>8. QED
  BY <1>1, <1>3, <1>4, <1>5, <1>6, <1>7

(* 34_ds18b20, 35_dht11 *)
LEMMA OneWireTable ==
  ASSUME NEW d, d = Ds18b20
  PROVE  /\ Len(d.init) = 3
         /\ Row(d.init[1], "gpio", "checked", {})
         /\ Row(d.init[2], "timer", "certain", {})
         /\ Row(d.init[3], "device", "checked", {"gpio"})
         /\ Lists(d.exit, {"device", "timer", "gpio"})
<1>1. /\ Len(d.init) = 3
      /\ d.init[1] = Checked("gpio", <<>>)
      /\ d.init[2] = Certain("timer")
      /\ d.init[3] = Checked("device", <<"gpio">>)
  BY DEF Ds18b20, OneWireDriver, Bound, Plain
<1>2. /\ Lists(<<>>, {})
      /\ Lists(<<"gpio">>, {"gpio"})
  BY Few, NoRest, FromThree, FromFour, FromFive
<1>3. Lists(d.exit, {"device", "timer", "gpio"})
  <2> DEFINE l == d.exit
  <2>1. Len(l) = 3 /\ l[1] = "device" /\ l[2] = "timer" /\ l[3] = "gpio"
    BY DEF Ds18b20, OneWireDriver, Bound, Plain, DownCharDev
  <2>2. Lists(l, {"device", "timer", "gpio"})
    <3> HIDE DEF l
    <3> QED
      BY <2>1 DEF Elems, Lists, Once
  <2>3. QED
    BY <2>2
<1>4. Row(d.init[1], "gpio", "checked", {})
  BY <1>1, <1>2, IsChecked
<1>5. Row(d.init[2], "timer", "certain", {})
  BY <1>1, IsOther
<1>6. Row(d.init[3], "device", "checked", {"gpio"})
  BY <1>1, <1>2, IsChecked
<1>7. QED
  BY <1>1, <1>3, <1>4, <1>5, <1>6

-----------------------------------------------------------------------------
\* What the steps before the i-th ask for.
Asked(s, i) == {s[j].res : j \in 1 .. i - 1}

\* When step i fails, its ladder releases all that, or it is in X.
Safe(s, i, X) == s[i].try = "checked" => Asked(s, i) \subseteq Elems(s[i].undo) \cup X

\* Every ladder does, and exit.
AllSafe(d, X) ==
  /\ Len(d.init) \in Nat
  /\ \A i \in 1 .. Len(d.init) : Safe(d.init, i, X)
  /\ Asked(d.init, Len(d.init) + 1) \subseteq Elems(d.exit) \cup X

(* What up to eight steps ask for.                                         *)
LEMMA AskedFew ==
  ASSUME NEW s
  PROVE  /\ Asked(s, 1) = {}
         /\ Asked(s, 2) = {s[1].res}
         /\ Asked(s, 3) = {s[1].res, s[2].res}
         /\ Asked(s, 4) = {s[1].res, s[2].res, s[3].res}
         /\ Asked(s, 5) = {s[1].res, s[2].res, s[3].res, s[4].res}
         /\ Asked(s, 6) = {s[1].res, s[2].res, s[3].res, s[4].res, s[5].res}
         /\ Asked(s, 7) = {s[1].res, s[2].res, s[3].res, s[4].res, s[5].res, s[6].res}
         /\ Asked(s, 8) = {s[1].res, s[2].res, s[3].res, s[4].res, s[5].res, s[6].res, s[7].res}
         /\ Asked(s, 9) = {s[1].res, s[2].res, s[3].res, s[4].res, s[5].res, s[6].res, s[7].res,
                          s[8].res}
  BY DEF Asked

(* Then the ladders and exit of d cover everything but X.                  *)
LEMMA SafeCovers ==
  ASSUME NEW d, NEW X, AllSafe(d, X)
  PROVE  Covers(Resources \ X, d.init, {}, d.exit)
<1> DEFINE s == d.init
<1>1. ASSUME NEW i \in 1 .. Len(s), s[i].try = "checked", NEW r \in Resources \ X,
             NEW j \in 1 .. i - 1, s[j].res = r
      PROVE  r \in Elems(s[i].undo)
  <2>1. Asked(s, i) \subseteq Elems(s[i].undo) \cup X
    BY <1>1 DEF AllSafe, Safe
  <2>2. r \in Asked(s, i)
    BY <1>1 DEF Asked
  <2>3. QED
    BY <2>1, <2>2
<1>2. ASSUME NEW r \in Resources \ X, NEW j \in 1 .. Len(s), s[j].res = r
      PROVE  r \in Elems(d.exit)
  <2>1. j \in 1 .. Len(s) + 1 - 1
    BY DEF AllSafe
  <2>2. r \in Asked(s, Len(s) + 1)
    BY <1>2, <2>1 DEF Asked
  <2>3. QED
    BY <2>2 DEF AllSafe
<1>3. QED
  BY <1>1, <1>2 DEF Covers

(* The ladders and exits of the tidy drivers release all they acquire.        *)
LEMMA TidySafe ==
  ASSUME NEW d, d \in Tidy
  PROVE  AllSafe(d, {"nothing"})
<1>1. CASE d \in {NewchrLed, DtsLed, PlatformLed}
  <2> DEFINE s == d.init
  <2>0. /\ Len(d.init) = 5
        /\ Row(d.init[1], "map", "certain", {})
        /\ Row(d.init[2], "region", "checked", {"map"})
        /\ Row(d.init[3], "cdev", "checked", {"region", "map"})
        /\ Row(d.init[4], "class", "checked", {"cdev", "region", "map"})
        /\ Row(d.init[5], "device", "checked", {"class", "cdev", "region", "map"})
        /\ Lists(d.exit, {"map", "cdev", "region", "device", "class"})
    BY <1>1, NewchrTable
  <2>1. /\ Len(s) = 5
        /\ Safe(s, 1, {"nothing"})
        /\ Safe(s, 2, {"nothing"})
        /\ Safe(s, 3, {"nothing"})
        /\ Safe(s, 4, {"nothing"})
        /\ Safe(s, 5, {"nothing"})
        /\ Asked(s, 6) \subseteq Elems(d.exit) \cup {"nothing"}
    BY <2>0, AskedFew DEF Row, Lists, Safe
  <2>2. QED
    BY <2>1 DEF AllSafe
<1>2. CASE d = Beep
  <2> DEFINE s == d.init
  <2>1. /\ Len(s) = 5
        /\ Safe(s, 1, {"nothing"})
        /\ Safe(s, 2, {"nothing"})
        /\ Safe(s, 3, {"nothing"})
        /\ Safe(s, 4, {"nothing"})
        /\ Safe(s, 5, {"nothing"})
        /\ Asked(s, 6) \subseteq Elems(d.exit) \cup {"nothing"}
    BY <1>2, AskedFew, BeepTable DEF Row, Lists, Safe
  <2>2. QED
    BY <2>1 DEF AllSafe
<1>3. CASE d = DtsPlatformLed
  <2> DEFINE s == d.init
  <2>1. /\ Len(s) = 5
        /\ Safe(s, 1, {"nothing"})
        /\ Safe(s, 2, {"nothing"})
        /\ Safe(s, 3, {"nothing"})
        /\ Safe(s, 4, {"nothing"})
        /\ Safe(s, 5, {"nothing"})
        /\ Asked(s, 6) \subseteq Elems(d.exit) \cup {"nothing"}
    BY <1>3, AskedFew, DtsPlatformTable DEF Row, Lists, Safe
  <2>2. QED
    BY <2>1 DEF AllSafe
<1>4. CASE d = GpioLed
  <2> DEFINE s == d.init
  <2>1. /\ Len(s) = 5
        /\ Safe(s, 1, {"nothing"})
        /\ Safe(s, 2, {"nothing"})
        /\ Safe(s, 3, {"nothing"})
        /\ Safe(s, 4, {"nothing"})
        /\ Safe(s, 5, {"nothing"})
        /\ Asked(s, 6) \subseteq Elems(d.exit) \cup {"nothing"}
    BY <1>4, AskedFew, GpioTable DEF Row, Lists, Safe
  <2>2. QED
    BY <2>1 DEF AllSafe
<1>5. CASE d = Chrdevbase
  <2> DEFINE s == d.init
  <2>1. /\ Len(s) = 1
        /\ Safe(s, 1, {"nothing"})
        /\ Asked(s, 2) \subseteq Elems(d.exit) \cup {"nothing"}
    BY <1>5, AskedFew, ChrdevbaseTable DEF Row, Lists, Safe
  <2>2. QED
    BY <2>1 DEF AllSafe
<1>6. CASE d = Led
  <2> DEFINE s == d.init
  <2>1. /\ Len(s) = 2
        /\ Safe(s, 1, {"nothing"})
        /\ Safe(s, 2, {"nothing"})
        /\ Asked(s, 3) \subseteq Elems(d.exit) \cup {"nothing"}
    BY <1>6, AskedFew, LedTable DEF Row, Lists, Safe
  <2>2. QED
    BY <2>1 DEF AllSafe
<1>7. CASE d = KeyIrqDriver
  <2> DEFINE s == d.init
  <2>1. /\ Len(s) = 7
        /\ Safe(s, 1, {"nothing"})
        /\ Safe(s, 2, {"nothing"})
        /\ Safe(s, 3, {"nothing"})
        /\ Safe(s, 4, {"nothing"})
        /\ Safe(s, 5, {"nothing"})
        /\ Safe(s, 6, {"nothing"})
        /\ Safe(s, 7, {"nothing"})
        /\ Asked(s, 8) \subseteq Elems(d.exit) \cup {"nothing"}
    BY <1>7, AskedFew, KeyIrqTable DEF Row, Lists, Safe
  <2>2. QED
    BY <2>1 DEF AllSafe
<1>8. CASE d = MiscBeep
  <2> DEFINE s == d.init
  <2>1. /\ Len(s) = 2
        /\ Safe(s, 1, {"nothing"})
        /\ Safe(s, 2, {"nothing"})
        /\ Asked(s, 3) \subseteq Elems(d.exit) \cup {"nothing"}
    BY <1>8, AskedFew, MiscTable DEF Row, Lists, Safe
  <2>2. QED
    BY <2>1 DEF AllSafe
<1>9. CASE d = Icm20608
  <2> DEFINE s == d.init
  <2>1. /\ Len(s) = 5
        /\ Safe(s, 1, {"nothing"})
        /\ Safe(s, 2, {"nothing"})
        /\ Safe(s, 3, {"nothing"})
        /\ Safe(s, 4, {"nothing"})
        /\ Safe(s, 5, {"nothing"})
        /\ Asked(s, 6) \subseteq Elems(d.exit) \cup {"nothing"}
    BY <1>9, AskedFew, Icm20608Table DEF Row, Lists, Safe
  <2>2. QED
    BY <2>1 DEF AllSafe
<1>10. CASE d = Gt9147
  <2> DEFINE s == d.init
  <2>1. /\ Len(s) = 5
        /\ Safe(s, 1, {"nothing"})
        /\ Safe(s, 2, {"nothing"})
        /\ Safe(s, 3, {"nothing"})
        /\ Safe(s, 4, {"nothing"})
        /\ Safe(s, 5, {"nothing"})
        /\ Asked(s, 6) \subseteq Elems(d.exit) \cup {"nothing"}
    BY <1>10, AskedFew, Gt9147Table DEF Row, Lists, Safe
  <2>2. QED
    BY <2>1 DEF AllSafe
<1>11. CASE d = Ft5426
  <2> DEFINE s == d.init
  <2>1. /\ Len(s) = 7
        /\ Safe(s, 1, {"nothing"})
        /\ Safe(s, 2, {"nothing"})
        /\ Safe(s, 3, {"nothing"})
        /\ Safe(s, 4, {"nothing"})
        /\ Safe(s, 5, {"nothing"})
        /\ Safe(s, 6, {"nothing"})
        /\ Safe(s, 7, {"nothing"})
        /\ Asked(s, 8) \subseteq Elems(d.exit) \cup {"nothing"}
    BY <1>11, AskedFew, Ft5426Table DEF Row, Lists, Safe
  <2>2. QED
    BY <2>1 DEF AllSafe
<1>12. QED
  BY <1>1, <1>2, <1>3, <1>4, <1>5, <1>6, <1>7, <1>8, <1>9, <1>10, <1>11 DEF Tidy

(* Those with the wrong label release all but the class.                    *)
LEMMA ClassKeptSafe ==
  ASSUME NEW d, d \in ClassKept
  PROVE  AllSafe(d, {"nothing", "class"})
<1>1. CASE d \in {Atomic, Spinlock}
  <2> DEFINE s == d.init
  <2>0. /\ Len(d.init) = 5
        /\ Row(d.init[1], "gpio", "checked", {})
        /\ Row(d.init[2], "region", "checked", {"gpio"})
        /\ Row(d.init[3], "cdev", "checked", {"region", "gpio"})
        /\ Row(d.init[4], "class", "checked", {"cdev", "region", "gpio"})
        /\ Row(d.init[5], "device", "checked", {"device", "cdev", "region", "gpio"})
        /\ Lists(d.exit, {"gpio", "cdev", "region", "device", "class"})
    BY <1>1, AtomicTable
  <2>1. /\ Len(s) = 5
        /\ Safe(s, 1, {"nothing", "class"})
        /\ Safe(s, 2, {"nothing", "class"})
        /\ Safe(s, 3, {"nothing", "class"})
        /\ Safe(s, 4, {"nothing", "class"})
        /\ Safe(s, 5, {"nothing", "class"})
        /\ Asked(s, 6) \subseteq Elems(d.exit) \cup {"nothing", "class"}
    BY <2>0, AskedFew DEF Row, Lists, Safe
  <2>2. QED
    BY <2>1 DEF AllSafe
<1>2. CASE d \in {Semaphore, Mutex}
  <2> DEFINE s == d.init
  <2>0. /\ Len(d.init) = 5
        /\ Row(d.init[1], "gpio", "checked", {})
        /\ Row(d.init[2], "region", "checked", {"gpio"})
        /\ Row(d.init[3], "cdev", "ignored", {})
        /\ Row(d.init[4], "class", "checked", {"cdev", "region", "gpio"})
        /\ Row(d.init[5], "device", "checked", {"device", "cdev", "region", "gpio"})
        /\ Lists(d.exit, {"gpio", "cdev", "region", "device", "class"})
    BY <1>2, SemaphoreTable
  <2>1. /\ Len(s) = 5
        /\ Safe(s, 1, {"nothing", "class"})
        /\ Safe(s, 2, {"nothing", "class"})
        /\ Safe(s, 3, {"nothing", "class"})
        /\ Safe(s, 4, {"nothing", "class"})
        /\ Safe(s, 5, {"nothing", "class"})
        /\ Asked(s, 6) \subseteq Elems(d.exit) \cup {"nothing", "class"}
    BY <2>0, AskedFew DEF Row, Lists, Safe
  <2>2. QED
    BY <2>1 DEF AllSafe
<1>3. CASE d = Key
  <2> DEFINE s == d.init
  <2>1. /\ Len(s) = 4
        /\ Safe(s, 1, {"nothing", "class"})
        /\ Safe(s, 2, {"nothing", "class"})
        /\ Safe(s, 3, {"nothing", "class"})
        /\ Safe(s, 4, {"nothing", "class"})
        /\ Asked(s, 5) \subseteq Elems(d.exit) \cup {"nothing", "class"}
    BY <1>3, AskedFew, KeyTable DEF Row, Lists, Safe
  <2>2. QED
    BY <2>1 DEF AllSafe
<1>4. CASE d = Timer
  <2> DEFINE s == d.init
  <2>1. /\ Len(s) = 5
        /\ Safe(s, 1, {"nothing", "class"})
        /\ Safe(s, 2, {"nothing", "class"})
        /\ Safe(s, 3, {"nothing", "class"})
        /\ Safe(s, 4, {"nothing", "class"})
        /\ Safe(s, 5, {"nothing", "class"})
        /\ Asked(s, 6) \subseteq Elems(d.exit) \cup {"nothing", "class"}
    BY <1>4, AskedFew, TimerRows DEF Row, Lists, Safe
  <2>2. QED
    BY <2>1 DEF AllSafe
<1>5. CASE d \in {BlockIo, NoBlockIo, AsyncNoti}
  <2> DEFINE s == d.init
  <2>0. d = BlockIo
    BY <1>5 DEF BlockIo, NoBlockIo, AsyncNoti
  <2>1. /\ Len(s) = 7
        /\ Safe(s, 1, {"nothing", "class"})
        /\ Safe(s, 2, {"nothing", "class"})
        /\ Safe(s, 3, {"nothing", "class"})
        /\ Safe(s, 4, {"nothing", "class"})
        /\ Safe(s, 5, {"nothing", "class"})
        /\ Safe(s, 6, {"nothing", "class"})
        /\ Safe(s, 7, {"nothing", "class"})
        /\ Asked(s, 8) \subseteq Elems(d.exit) \cup {"nothing", "class"}
    BY <2>0, AskedFew, BlockIoTable DEF Row, Lists, Safe
  <2>2. QED
    BY <2>1 DEF AllSafe
<1>6. CASE d = Ap3216c
  <2> DEFINE s == d.init
  <2>1. /\ Len(s) = 5
        /\ Safe(s, 1, {"nothing", "class"})
        /\ Safe(s, 2, {"nothing", "class"})
        /\ Safe(s, 3, {"nothing", "class"})
        /\ Safe(s, 4, {"nothing", "class"})
        /\ Safe(s, 5, {"nothing", "class"})
        /\ Asked(s, 6) \subseteq Elems(d.exit) \cup {"nothing", "class"}
    BY <1>6, AskedFew, Ap3216cTable DEF Row, Lists, Safe
  <2>2. QED
    BY <2>1 DEF AllSafe
<1>7. CASE d = RegmapAp3216c
  <2> DEFINE s == d.init
  <2>1. /\ Len(s) = 5
        /\ Safe(s, 1, {"nothing", "class"})
        /\ Safe(s, 2, {"nothing", "class"})
        /\ Safe(s, 3, {"nothing", "class"})
        /\ Safe(s, 4, {"nothing", "class"})
        /\ Safe(s, 5, {"nothing", "class"})
        /\ Asked(s, 6) \subseteq Elems(d.exit) \cup {"nothing", "class"}
    BY <1>7, AskedFew, RegmapAp3216cTable DEF Row, Lists, Safe
  <2>2. QED
    BY <2>1 DEF AllSafe
<1>8. CASE d = RegmapIcm20608
  <2> DEFINE s == d.init
  <2>1. /\ Len(s) = 6
        /\ Safe(s, 1, {"nothing", "class"})
        /\ Safe(s, 2, {"nothing", "class"})
        /\ Safe(s, 3, {"nothing", "class"})
        /\ Safe(s, 4, {"nothing", "class"})
        /\ Safe(s, 5, {"nothing", "class"})
        /\ Safe(s, 6, {"nothing", "class"})
        /\ Asked(s, 7) \subseteq Elems(d.exit) \cup {"nothing", "class"}
    BY <1>8, AskedFew, RegmapIcm20608Table DEF Row, Lists, Safe
  <2>2. QED
    BY <2>1 DEF AllSafe
<1>9. QED
  BY <1>1, <1>2, <1>3, <1>4, <1>5, <1>6, <1>7, <1>8 DEF ClassKept

(* 20_input forgets the gpio, and later the input device.                   *)
LEMMA InputSafe ==
  ASSUME NEW d, d = KeyInput
  PROVE  AllSafe(d, {"nothing", "gpio", "input"})
<1>1. CASE d = KeyInput
  <2> DEFINE s == d.init
  <2>1. /\ Len(s) = 6
        /\ Safe(s, 1, {"nothing", "gpio", "input"})
        /\ Safe(s, 2, {"nothing", "gpio", "input"})
        /\ Safe(s, 3, {"nothing", "gpio", "input"})
        /\ Safe(s, 4, {"nothing", "gpio", "input"})
        /\ Safe(s, 5, {"nothing", "gpio", "input"})
        /\ Safe(s, 6, {"nothing", "gpio", "input"})
        /\ Asked(s, 7) \subseteq Elems(d.exit) \cup {"nothing", "gpio", "input"}
    BY <1>1, AskedFew, InputTable DEF Row, Lists, Safe
  <2>2. QED
    BY <2>1 DEF AllSafe
<1>2. QED
  BY <1>1

(* 26 and 27 forget the device structure.                                   *)
LEMMA RamSafe ==
  ASSUME NEW d, d \in {RamRequest, RamBio}
  PROVE  AllSafe(d, {"nothing", "memory"})
<1>1. CASE d = RamRequest
  <2> DEFINE s == d.init
  <2>1. /\ Len(s) = 5
        /\ Safe(s, 1, {"nothing", "memory"})
        /\ Safe(s, 2, {"nothing", "memory"})
        /\ Safe(s, 3, {"nothing", "memory"})
        /\ Safe(s, 4, {"nothing", "memory"})
        /\ Safe(s, 5, {"nothing", "memory"})
        /\ Asked(s, 6) \subseteq Elems(d.exit) \cup {"nothing", "memory"}
    BY <1>1, AskedFew, RamRequestTable DEF Row, Lists, Safe
  <2>2. QED
    BY <2>1 DEF AllSafe
<1>2. CASE d = RamBio
  <2> DEFINE s == d.init
  <2>1. /\ Len(s) = 5
        /\ Safe(s, 1, {"nothing", "memory"})
        /\ Safe(s, 2, {"nothing", "memory"})
        /\ Safe(s, 3, {"nothing", "memory"})
        /\ Safe(s, 4, {"nothing", "memory"})
        /\ Safe(s, 5, {"nothing", "memory"})
        /\ Asked(s, 6) \subseteq Elems(d.exit) \cup {"nothing", "memory"}
    BY <1>2, AskedFew, RamBioTable DEF Row, Lists, Safe
  <2>2. QED
    BY <2>1 DEF AllSafe
<1>3. QED
  BY <1>1, <1>2

(* The IIO drivers forget the regmap.                                       *)
LEMMA IioSafe ==
  ASSUME NEW d, d \in {IioIcm20608, IioAp3216c}
  PROVE  AllSafe(d, {"nothing", "regmap"})
<1>1. CASE d = IioIcm20608
  <2> DEFINE s == d.init
  <2>1. /\ Len(s) = 8
        /\ Safe(s, 1, {"nothing", "regmap"})
        /\ Safe(s, 2, {"nothing", "regmap"})
        /\ Safe(s, 3, {"nothing", "regmap"})
        /\ Safe(s, 4, {"nothing", "regmap"})
        /\ Safe(s, 5, {"nothing", "regmap"})
        /\ Safe(s, 6, {"nothing", "regmap"})
        /\ Safe(s, 7, {"nothing", "regmap"})
        /\ Safe(s, 8, {"nothing", "regmap"})
        /\ Asked(s, 9) \subseteq Elems(d.exit) \cup {"nothing", "regmap"}
    BY <1>1, AskedFew, IioIcm20608Table DEF Row, Lists, Safe
  <2>2. QED
    BY <2>1 DEF AllSafe
<1>2. CASE d = IioAp3216c
  <2> DEFINE s == d.init
  <2>1. /\ Len(s) = 4
        /\ Safe(s, 1, {"nothing", "regmap"})
        /\ Safe(s, 2, {"nothing", "regmap"})
        /\ Safe(s, 3, {"nothing", "regmap"})
        /\ Safe(s, 4, {"nothing", "regmap"})
        /\ Asked(s, 5) \subseteq Elems(d.exit) \cup {"nothing", "regmap"}
    BY <1>2, AskedFew, IioAp3216cTable DEF Row, Lists, Safe
  <2>2. QED
    BY <2>1 DEF AllSafe
<1>3. QED
  BY <1>1, <1>2

(* The one-wire drivers forget the timer.                                   *)
LEMMA OneWireSafe ==
  ASSUME NEW d, d \in {Ds18b20, Dht11}
  PROVE  AllSafe(d, {"nothing", "timer"})
<1>1. CASE d \in {Ds18b20, Dht11}
  <2> DEFINE s == d.init
  <2>0. d = Ds18b20
    BY <1>1 DEF Ds18b20, Dht11, OneWireDriver
  <2>1. /\ Len(s) = 3
        /\ Safe(s, 1, {"nothing", "timer"})
        /\ Safe(s, 2, {"nothing", "timer"})
        /\ Safe(s, 3, {"nothing", "timer"})
        /\ Asked(s, 4) \subseteq Elems(d.exit) \cup {"nothing", "timer"}
    BY <2>0, AskedFew, OneWireTable DEF Row, Lists, Safe
  <2>2. QED
    BY <2>1 DEF AllSafe
<1>2. QED
  BY <1>1

(* A list of steps whose last acquires n, after u.                         *)
LEMMA LastStep ==
  ASSUME NEW s, NEW n, NEW u, NEW down, Len(s) \in Nat, NEW k \in 1 .. Len(s) - 1,
         s[Len(s)].res = n, \A i \in 1 .. Len(s) - 1 : s[i].res # n,
         s[k].res = u, s[k].try # "ignored", n \in Elems(down)
  PROVE  Covers({n}, s, {}, down) /\ Follows(n, {u}, s, {})
<1>1. Covers({n}, s, {}, down)
  BY DEF Covers
<1>2. \A m \in 1 .. Len(s) : s[m].res = n => m = Len(s)
  OBVIOUS
<1>3. Follows(n, {u}, s, {})
  BY <1>2 DEF Follows
<1>4. QED
  BY <1>1, <1>3

(* What makes a device of the guarded drivers openable, last.              *)
Node(d) == IF "device" \in d.nodes THEN "device" ELSE "cdev"

(* The guarded drivers make the device openable last, are not unbound, and *)
(* keep what its files use until then.                                     *)
LEMMA GuardedTables ==
  ASSUME NEW d, d \in Guarded
  PROVE  /\ Covers({Node(d)}, d.init, {}, d.exit)
         /\ Follows(Node(d), d.uses, d.init, {})
         /\ Node(d) \in d.nodes /\ ~d.bound /\ "nothing" \notin d.uses
<1>1. CASE d \in {NewchrLed, DtsLed}
  <2>1. d.nodes = {"cdev", "device"} /\ d.uses = {"map"} /\ ~d.bound
    <3>1. CASE d = NewchrLed
      BY <3>1 DEF NewchrLed, Plain, Nodes
    <3>2. CASE d = DtsLed
      BY <3>2 DEF DtsLed, Plain, Nodes
    <3>3. QED
      BY <1>1, <3>1, <3>2
  <2>2. Node(d) = "device"
    BY <2>1 DEF Node
  <2>3. /\ Len(d.init) = 5
        /\ d.init[1].res = "map" /\ d.init[1].try # "ignored"
        /\ d.init[2].res # "device"
        /\ d.init[3].res # "device"
        /\ d.init[4].res # "device"
        /\ d.init[5].res = "device"
        /\ "device" \in Elems(d.exit)
    BY <1>1, NewchrTable DEF Row, Lists
  <2>4. \A i \in 1 .. Len(d.init) - 1 : d.init[i].res # "device"
    BY <2>3
  <2>5. 1 \in 1 .. Len(d.init) - 1 /\ Len(d.init) \in Nat
    BY <2>3
  <2>6. Covers({"device"}, d.init, {}, d.exit) /\ Follows("device", {"map"}, d.init, {})
    BY <2>3, <2>4, <2>5, LastStep
  <2>7. QED
    BY <2>1, <2>2, <2>6
<1>2. CASE d = Beep
  <2>1. d.nodes = {"cdev", "device"} /\ d.uses = {"gpio"} /\ ~d.bound
    BY <1>2 DEF Beep, Plain, Nodes
  <2>2. Node(d) = "device"
    BY <2>1 DEF Node
  <2>3. /\ Len(d.init) = 5
        /\ d.init[1].res = "gpio" /\ d.init[1].try # "ignored"
        /\ d.init[2].res # "device"
        /\ d.init[3].res # "device"
        /\ d.init[4].res # "device"
        /\ d.init[5].res = "device"
        /\ "device" \in Elems(d.exit)
    BY <1>2, BeepTable DEF Row, Lists
  <2>4. \A i \in 1 .. Len(d.init) - 1 : d.init[i].res # "device"
    BY <2>3
  <2>5. 1 \in 1 .. Len(d.init) - 1 /\ Len(d.init) \in Nat
    BY <2>3
  <2>6. Covers({"device"}, d.init, {}, d.exit) /\ Follows("device", {"gpio"}, d.init, {})
    BY <2>3, <2>4, <2>5, LastStep
  <2>7. QED
    BY <2>1, <2>2, <2>6
<1>3. CASE d = GpioLed
  <2>1. d.nodes = {"cdev", "device"} /\ d.uses = {"gpio"} /\ ~d.bound
    BY <1>3 DEF GpioLed, Plain, Nodes
  <2>2. Node(d) = "device"
    BY <2>1 DEF Node
  <2>3. /\ Len(d.init) = 5
        /\ d.init[1].res = "gpio" /\ d.init[1].try # "ignored"
        /\ d.init[2].res # "device"
        /\ d.init[3].res # "device"
        /\ d.init[4].res # "device"
        /\ d.init[5].res = "device"
        /\ "device" \in Elems(d.exit)
    BY <1>3, GpioTable DEF Row, Lists
  <2>4. \A i \in 1 .. Len(d.init) - 1 : d.init[i].res # "device"
    BY <2>3
  <2>5. 1 \in 1 .. Len(d.init) - 1 /\ Len(d.init) \in Nat
    BY <2>3
  <2>6. Covers({"device"}, d.init, {}, d.exit) /\ Follows("device", {"gpio"}, d.init, {})
    BY <2>3, <2>4, <2>5, LastStep
  <2>7. QED
    BY <2>1, <2>2, <2>6
<1>4. CASE d \in {Atomic, Spinlock}
  <2>1. d.nodes = {"cdev", "device"} /\ d.uses = {"gpio"} /\ ~d.bound
    <3>1. CASE d = Atomic
      BY <3>1 DEF Atomic, Plain, Nodes
    <3>2. CASE d = Spinlock
      BY <3>2 DEF Spinlock, Atomic, Plain, Nodes
    <3>3. QED
      BY <1>4, <3>1, <3>2
  <2>2. Node(d) = "device"
    BY <2>1 DEF Node
  <2>3. /\ Len(d.init) = 5
        /\ d.init[1].res = "gpio" /\ d.init[1].try # "ignored"
        /\ d.init[2].res # "device"
        /\ d.init[3].res # "device"
        /\ d.init[4].res # "device"
        /\ d.init[5].res = "device"
        /\ "device" \in Elems(d.exit)
    BY <1>4, AtomicTable DEF Row, Lists
  <2>4. \A i \in 1 .. Len(d.init) - 1 : d.init[i].res # "device"
    BY <2>3
  <2>5. 1 \in 1 .. Len(d.init) - 1 /\ Len(d.init) \in Nat
    BY <2>3
  <2>6. Covers({"device"}, d.init, {}, d.exit) /\ Follows("device", {"gpio"}, d.init, {})
    BY <2>3, <2>4, <2>5, LastStep
  <2>7. QED
    BY <2>1, <2>2, <2>6
<1>5. CASE d \in {Semaphore, Mutex}
  <2>1. d.nodes = {"cdev", "device"} /\ d.uses = {"gpio"} /\ ~d.bound
    <3>1. CASE d = Semaphore
      BY <3>1 DEF Semaphore, Plain, Nodes
    <3>2. CASE d = Mutex
      BY <3>2 DEF Mutex, Semaphore, Plain, Nodes
    <3>3. QED
      BY <1>5, <3>1, <3>2
  <2>2. Node(d) = "device"
    BY <2>1 DEF Node
  <2>3. /\ Len(d.init) = 5
        /\ d.init[1].res = "gpio" /\ d.init[1].try # "ignored"
        /\ d.init[2].res # "device"
        /\ d.init[3].res # "device"
        /\ d.init[4].res # "device"
        /\ d.init[5].res = "device"
        /\ "device" \in Elems(d.exit)
    BY <1>5, SemaphoreTable DEF Row, Lists
  <2>4. \A i \in 1 .. Len(d.init) - 1 : d.init[i].res # "device"
    BY <2>3
  <2>5. 1 \in 1 .. Len(d.init) - 1 /\ Len(d.init) \in Nat
    BY <2>3
  <2>6. Covers({"device"}, d.init, {}, d.exit) /\ Follows("device", {"gpio"}, d.init, {})
    BY <2>3, <2>4, <2>5, LastStep
  <2>7. QED
    BY <2>1, <2>2, <2>6
<1>6. CASE d = Led
  <2>1. d.nodes = {"cdev"} /\ d.uses = {"map"} /\ ~d.bound
    BY <1>6 DEF Led, Plain, Nodes
  <2>2. Node(d) = "cdev"
    BY <2>1 DEF Node
  <2>3. /\ Len(d.init) = 2
        /\ d.init[1].res = "map" /\ d.init[1].try # "ignored"
        /\ d.init[2].res = "cdev"
        /\ "cdev" \in Elems(d.exit)
    BY <1>6, LedTable DEF Row, Lists
  <2>4. \A i \in 1 .. Len(d.init) - 1 : d.init[i].res # "cdev"
    BY <2>3
  <2>5. 1 \in 1 .. Len(d.init) - 1 /\ Len(d.init) \in Nat
    BY <2>3
  <2>6. Covers({"cdev"}, d.init, {}, d.exit) /\ Follows("cdev", {"map"}, d.init, {})
    BY <2>3, <2>4, <2>5, LastStep
  <2>7. QED
    BY <2>1, <2>2, <2>6
<1>7. QED
  BY <1>1, <1>2, <1>3, <1>4, <1>5, <1>6 DEF Guarded

\* No release of U comes before the one of n.
Precedes(n, U, l) == \A i \in 1 .. Len(l) : l[i] \in U => \E j \in 1 .. i - 1 : l[j] = n

(* The interrupt of 23 comes last and goes before what its handler uses.   *)
LEMMA Gt9147Order ==
  /\ Covers({"irq"}, Gt9147.init, {}, Gt9147.exit)
  /\ Follows("irq", Gt9147.serves, Gt9147.init, {})
  /\ Precedes("irq", Gt9147.serves, Gt9147.exit)
  /\ Gt9147.serves = {"input"}
<1> DEFINE s == Gt9147.init
<1>1. Gt9147.serves = {"input"}
  BY DEF Gt9147, TouchDriver, Bound, Plain
<1>2. /\ Len(s) = 5 /\ s[1].res = "gpio" /\ s[2].res = "input" /\ s[2].try = "checked"
      /\ s[3].res = "nothing" /\ s[4].res = "device" /\ s[5].res = "irq"
      /\ "irq" \in Elems(Gt9147.exit)
  BY Gt9147Table DEF Row, Lists
<1>3. Covers({"irq"}, s, {}, Gt9147.exit) /\ Follows("irq", {"input"}, s, {})
  <2> HIDE DEF s
  <2>1. \A i \in 1 .. Len(s) - 1 : s[i].res # "irq"
    BY <1>2
  <2>2. 2 \in 1 .. Len(s) - 1 /\ Len(s) \in Nat
    BY <1>2
  <2>3. QED
    BY <1>2, <2>1, <2>2, LastStep
<1>4. Precedes("irq", {"input"}, Gt9147.exit)
  <2> DEFINE l == Gt9147.exit
  <2>1. Len(l) = 4 /\ l[1] = "device" /\ l[2] = "irq" /\ l[3] = "input" /\ l[4] = "gpio"
    BY DEF Gt9147, TouchDriver, Bound, Plain
  <2>2. Precedes("irq", {"input"}, l)
    <3> HIDE DEF l
    <3> QED
      BY <2>1 DEF Precedes
  <2>3. QED
    BY <2>2
<1>5. QED
  BY <1>1, <1>3, <1>4

-----------------------------------------------------------------------------
(* While it goes away, n is released before anything of U.                 *)
Down(n, U) == phase = "exit" /\ n \in held => U \subseteq held /\ Precedes(n, U, todo)

(* The order passes to the rest of the releases.                           *)
LEMMA PrecedesTail ==
  ASSUME NEW n, NEW U, NEW S, NEW l \in Seq(S), l # <<>>, Precedes(n, U, l), l[1] # n
  PROVE  l[1] \notin U /\ Precedes(n, U, Tail(l))
<1>1. /\ Len(l) \in Nat /\ Len(l) >= 1 /\ Len(Tail(l)) = Len(l) - 1
      /\ \A i \in 1 .. Len(l) - 1 : Tail(l)[i] = l[i + 1]
  BY TailFacts
<1>2. l[1] \notin U
  BY <1>1 DEF Precedes
<1>3. ASSUME NEW i \in 1 .. Len(Tail(l)), Tail(l)[i] \in U
      PROVE  \E j \in 1 .. i - 1 : Tail(l)[j] = n
  <2>1. i + 1 \in 1 .. Len(l) /\ l[i + 1] \in U
    BY <1>1, <1>3
  <2>2. PICK j \in 1 .. i : l[j] = n
    BY <2>1 DEF Precedes
  <2>3. j - 1 \in 1 .. i - 1 /\ Tail(l)[j - 1] = n
    BY <1>1, <2>2
  <2>4. QED
    BY <2>3
<1>4. QED
  BY <1>2, <1>3 DEF Precedes

(* A driver that releases n before U keeps that order.                     *)
LEMMA NextDown ==
  ASSUME NEW n, NEW U, Typed, Ordered(n, U), Down(n, U), Precedes(n, U, drv.exit), [Next]_vars
  PROVE  Down(n, U)'
<1>1. CASE Load
  BY <1>1 DEF Load, Down
<1>2. CASE Acquire
  BY <1>2 DEF Acquire, Down
<1>3. CASE Refuse
  BY <1>3 DEF Refuse, Down
<1>4. CASE GoLive
  BY <1>4 DEF GoLive, Down
<1>5. CASE Unload
  BY <1>5 DEF Unload, Down, Ordered
<1>6. CASE ReleaseNext
  <2> SUFFICES ASSUME phase = "exit", n \in held, Head(todo) # n
               PROVE  U \subseteq held' /\ Precedes(n, U, todo')
    BY <1>6 DEF ReleaseNext, Down
  <2>1. todo \in Seq(Resources) /\ todo # <<>> /\ Head(todo) = todo[1]
    BY <1>6, TailFacts DEF ReleaseNext, Typed
  <2>2. U \subseteq held /\ Precedes(n, U, todo)
    BY DEF Down
  <2>3. todo[1] \notin U /\ Precedes(n, U, Tail(todo))
    BY <2>1, <2>2, PrecedesTail
  <2>4. QED
    BY <1>6, <2>1, <2>2, <2>3 DEF ReleaseNext
<1>7. CASE Gone
  BY <1>7 DEF Gone, Down
<1>8. CASE Open \/ Close \/ Arm \/ Expire \/ UNCHANGED vars
  BY <1>8 DEF Open, Close, Arm, Expire, vars, Down
<1>9. QED
  BY <1>1, <1>2, <1>3, <1>4, <1>5, <1>6, <1>7, <1>8 DEF Next


-----------------------------------------------------------------------------
\* Every result is looked at.
Sure(s) == Len(s) \in Nat /\ \A i \in 1 .. Len(s) : s[i].try # "ignored"

(* The diligent drivers look at every result.                              *)
LEMMA DiligentTables ==
  ASSUME NEW d, d \in Diligent
  PROVE  Sure(d.init)
<1>1. CASE d \in {NewchrLed, DtsLed, PlatformLed}
  <2>1. Len(d.init) = 5
        /\ d.init[1].try # "ignored"
        /\ d.init[2].try # "ignored"
        /\ d.init[3].try # "ignored"
        /\ d.init[4].try # "ignored"
        /\ d.init[5].try # "ignored"
    BY <1>1, NewchrTable DEF Row, Lists
  <2>2. QED
    BY <2>1 DEF Sure
<1>2. CASE d = Beep
  <2>1. Len(d.init) = 5
        /\ d.init[1].try # "ignored"
        /\ d.init[2].try # "ignored"
        /\ d.init[3].try # "ignored"
        /\ d.init[4].try # "ignored"
        /\ d.init[5].try # "ignored"
    BY <1>2, BeepTable DEF Row, Lists
  <2>2. QED
    BY <2>1 DEF Sure
<1>3. CASE d = DtsPlatformLed
  <2>1. Len(d.init) = 5
        /\ d.init[1].try # "ignored"
        /\ d.init[2].try # "ignored"
        /\ d.init[3].try # "ignored"
        /\ d.init[4].try # "ignored"
        /\ d.init[5].try # "ignored"
    BY <1>3, DtsPlatformTable DEF Row, Lists
  <2>2. QED
    BY <2>1 DEF Sure
<1>4. CASE d \in {Atomic, Spinlock}
  <2>1. Len(d.init) = 5
        /\ d.init[1].try # "ignored"
        /\ d.init[2].try # "ignored"
        /\ d.init[3].try # "ignored"
        /\ d.init[4].try # "ignored"
        /\ d.init[5].try # "ignored"
    BY <1>4, AtomicTable DEF Row, Lists
  <2>2. QED
    BY <2>1 DEF Sure
<1>5. CASE d = Led
  <2>1. Len(d.init) = 2
        /\ d.init[1].try # "ignored"
        /\ d.init[2].try # "ignored"
    BY <1>5, LedTable DEF Row, Lists
  <2>2. QED
    BY <2>1 DEF Sure
<1>6. CASE d = KeyIrqDriver
  <2>1. Len(d.init) = 7
        /\ d.init[1].try # "ignored"
        /\ d.init[2].try # "ignored"
        /\ d.init[3].try # "ignored"
        /\ d.init[4].try # "ignored"
        /\ d.init[5].try # "ignored"
        /\ d.init[6].try # "ignored"
        /\ d.init[7].try # "ignored"
    BY <1>6, KeyIrqTable DEF Row, Lists
  <2>2. QED
    BY <2>1 DEF Sure
<1>7. CASE d = MiscBeep
  <2>1. Len(d.init) = 2
        /\ d.init[1].try # "ignored"
        /\ d.init[2].try # "ignored"
    BY <1>7, MiscTable DEF Row, Lists
  <2>2. QED
    BY <2>1 DEF Sure
<1>8. CASE d = Ft5426
  <2>1. Len(d.init) = 7
        /\ d.init[1].try # "ignored"
        /\ d.init[2].try # "ignored"
        /\ d.init[3].try # "ignored"
        /\ d.init[4].try # "ignored"
        /\ d.init[5].try # "ignored"
        /\ d.init[6].try # "ignored"
        /\ d.init[7].try # "ignored"
    BY <1>8, Ft5426Table DEF Row, Lists
  <2>2. QED
    BY <2>1 DEF Sure
<1>9. CASE d = Timer
  <2>1. Len(d.init) = 5
        /\ d.init[1].try # "ignored"
        /\ d.init[2].try # "ignored"
        /\ d.init[3].try # "ignored"
        /\ d.init[4].try # "ignored"
        /\ d.init[5].try # "ignored"
    BY <1>9 DEF Timer, CharDev, Plain, Checked, Certain
  <2>2. QED
    BY <2>1 DEF Sure
<1>10. CASE d = BlockIo
  <2>1. Len(d.init) = 7
        /\ d.init[1].try # "ignored"
        /\ d.init[2].try # "ignored"
        /\ d.init[3].try # "ignored"
        /\ d.init[4].try # "ignored"
        /\ d.init[5].try # "ignored"
        /\ d.init[6].try # "ignored"
        /\ d.init[7].try # "ignored"
    BY <1>10 DEF BlockIo, KeyDriver, CharDev, Plain, Checked, Certain
  <2>2. QED
    BY <2>1 DEF Sure
<1>11. CASE d = NoBlockIo
  <2>1. Len(d.init) = 7
        /\ d.init[1].try # "ignored"
        /\ d.init[2].try # "ignored"
        /\ d.init[3].try # "ignored"
        /\ d.init[4].try # "ignored"
        /\ d.init[5].try # "ignored"
        /\ d.init[6].try # "ignored"
        /\ d.init[7].try # "ignored"
    BY <1>11 DEF NoBlockIo, KeyDriver, CharDev, Plain, Checked, Certain
  <2>2. QED
    BY <2>1 DEF Sure
<1>12. CASE d = AsyncNoti
  <2>1. Len(d.init) = 7
        /\ d.init[1].try # "ignored"
        /\ d.init[2].try # "ignored"
        /\ d.init[3].try # "ignored"
        /\ d.init[4].try # "ignored"
        /\ d.init[5].try # "ignored"
        /\ d.init[6].try # "ignored"
        /\ d.init[7].try # "ignored"
    BY <1>12 DEF AsyncNoti, KeyDriver, CharDev, Plain, Checked, Certain
  <2>2. QED
    BY <2>1 DEF Sure
<1>13. CASE d = Ap3216c
  <2>1. Len(d.init) = 5
        /\ d.init[1].try # "ignored"
        /\ d.init[2].try # "ignored"
        /\ d.init[3].try # "ignored"
        /\ d.init[4].try # "ignored"
        /\ d.init[5].try # "ignored"
    BY <1>13 DEF Ap3216c, CharDev, Bound, Plain, Checked, Certain
  <2>2. QED
    BY <2>1 DEF Sure
<1>14. CASE d = RegmapAp3216c
  <2>1. Len(d.init) = 5
        /\ d.init[1].try # "ignored"
        /\ d.init[2].try # "ignored"
        /\ d.init[3].try # "ignored"
        /\ d.init[4].try # "ignored"
        /\ d.init[5].try # "ignored"
    BY <1>14 DEF RegmapAp3216c, CharDev, Bound, Plain, Checked, Certain
  <2>2. QED
    BY <2>1 DEF Sure
<1>15. CASE d = RegmapIcm20608
  <2>1. Len(d.init) = 6
        /\ d.init[1].try # "ignored"
        /\ d.init[2].try # "ignored"
        /\ d.init[3].try # "ignored"
        /\ d.init[4].try # "ignored"
        /\ d.init[5].try # "ignored"
        /\ d.init[6].try # "ignored"
    BY <1>15 DEF RegmapIcm20608, CharDev, Bound, Plain, Checked, Certain
  <2>2. QED
    BY <2>1 DEF Sure
<1>16. CASE d = IioAp3216c
  <2>1. Len(d.init) = 4
        /\ d.init[1].try # "ignored"
        /\ d.init[2].try # "ignored"
        /\ d.init[3].try # "ignored"
        /\ d.init[4].try # "ignored"
    BY <1>16 DEF IioAp3216c, Bound, Plain, Checked, Certain
  <2>2. QED
    BY <2>1 DEF Sure
<1>17. CASE d = Ds18b20
  <2>1. Len(d.init) = 3
        /\ d.init[1].try # "ignored"
        /\ d.init[2].try # "ignored"
        /\ d.init[3].try # "ignored"
    BY <1>17 DEF Ds18b20, OneWireDriver, Bound, Plain, Checked, Certain
  <2>2. QED
    BY <2>1 DEF Sure
<1>18. CASE d = Dht11
  <2>1. Len(d.init) = 3
        /\ d.init[1].try # "ignored"
        /\ d.init[2].try # "ignored"
        /\ d.init[3].try # "ignored"
    BY <1>18 DEF Dht11, OneWireDriver, Bound, Plain, Checked, Certain
  <2>2. QED
    BY <2>1 DEF Sure
<1>19. QED
  BY <1>1, <1>2, <1>3, <1>4, <1>5, <1>6, <1>7, <1>8, <1>9, <1>10, <1>11,
     <1>12, <1>13, <1>14, <1>15, <1>16, <1>17, <1>18 DEF Diligent

(* Whatever it wants is held, or still to be acquired.                     *)
Complete ==
  /\ phase = "init" =>
       /\ Sure(todo)
       /\ \A i \in 1 .. Len(drv.init) :
            \/ drv.init[i].res \in held \cup {"nothing"}
            \/ \E j \in 1 .. Len(todo) : todo[j].res = drv.init[i].res
  /\ phase = "live" => \A i \in 1 .. Len(drv.init) : drv.init[i].res \in held \cup {"nothing"}

(* A driver that checks every result keeps that.                           *)
LEMMA NextComplete ==
  ASSUME Typed, Sure(drv.init), Complete, [Next]_vars
  PROVE  Complete'
<1>a. drv' = drv
  BY SameTable
<1>1. CASE Load
  BY <1>1 DEF Load, Complete
<1>2. CASE Acquire
  <2>1. /\ todo \in Seq(Steps) /\ todo # <<>> /\ todo' = Tail(todo)
        /\ phase = "init" /\ phase' = phase
        /\ held' = held \cup ({Head(todo).res} \ {"nothing"})
    BY <1>2 DEF Acquire, Typed
  <2>2. /\ Len(todo) \in Nat /\ Len(Tail(todo)) = Len(todo) - 1 /\ Head(todo) = todo[1]
        /\ Len(todo) >= 1 /\ \A i \in 1 .. Len(todo) - 1 : Tail(todo)[i] = todo[i + 1]
    BY <2>1, TailFacts
  <2>3. Sure(Tail(todo))
    BY <2>1, <2>2 DEF Complete, Sure
  <2>4. ASSUME NEW i \in 1 .. Len(drv.init), drv.init[i].res \notin held' \cup {"nothing"}
        PROVE  \E j \in 1 .. Len(Tail(todo)) : Tail(todo)[j].res = drv.init[i].res
    <3>1. PICK j \in 1 .. Len(todo) : todo[j].res = drv.init[i].res
      BY <2>1, <2>4 DEF Complete
    <3>2. j # 1
      BY <2>1, <2>2, <2>4, <3>1
    <3>3. j - 1 \in 1 .. Len(Tail(todo)) /\ Tail(todo)[j - 1] = todo[j]
      BY <2>2, <3>2
    <3> DEFINE Left(m) == Tail(todo)[m].res = drv.init[i].res
    <3>4. Left(j - 1)
      BY <3>1, <3>3
    <3>5. \E m \in 1 .. Len(Tail(todo)) : Left(m)
      <4> HIDE DEF Left
      <4> QED
        BY <3>3, <3>4
    <3>6. QED
      BY <3>5
  <2>5. QED
    BY <1>a, <2>1, <2>3, <2>4 DEF Complete
<1>3. CASE Refuse
  <2>1. /\ todo \in Seq(Steps) /\ todo # <<>> /\ Sure(todo) /\ Head(todo) = todo[1]
        /\ 1 \in 1 .. Len(todo) /\ Head(todo) \in Steps
    BY <1>3, TailFacts DEF Refuse, Typed, Complete
  <2>2. Head(todo).try = "checked"
    BY <1>3, <2>1 DEF Refuse, Sure, Steps
  <2>3. QED
    BY <1>3, <2>2 DEF Refuse, Complete
<1>4. CASE GoLive
  BY <1>4, <1>a DEF GoLive, Complete
<1>5. CASE Unload
  BY <1>5 DEF Unload, Complete
<1>6. CASE ReleaseNext
  BY <1>6 DEF ReleaseNext, Complete
<1>7. CASE Gone
  BY <1>7 DEF Gone, Complete
<1>8. CASE Open \/ Close \/ Arm \/ Expire \/ UNCHANGED vars
  BY <1>8 DEF Open, Close, Arm, Expire, vars, Complete
<1>9. QED
  BY <1>1, <1>2, <1>3, <1>4, <1>5, <1>6, <1>7, <1>8 DEF Next

-----------------------------------------------------------------------------
(* 12_timer sets its timer up after the node, which nobody takes back then. *)
LEMMA TimerTable ==
  /\ Covers({"device"}, Timer.init, {}, Timer.exit)
  /\ Follows("device", {}, Timer.init, {})
  /\ "timer" \in Elems(Timer.exit)
  /\ "device" \in Timer.nodes /\ ~Timer.bound /\ Timer.arms = {"file", "self"}
<1> DEFINE s == Timer.init
<1>1. /\ Len(s) = 5 /\ s[1].res = "region" /\ s[2].res = "cdev" /\ s[3].res = "class"
      /\ s[4].res = "device" /\ s[5].res = "timer" /\ s[5].try = "certain"
  BY DEF Timer, CharDev, Plain, Checked, Certain
<1>2. "timer" \in Elems(Timer.exit) /\ "device" \in Elems(Timer.exit)
  <2> DEFINE l == Timer.exit
  <2>1. Len(l) = 5 /\ l[1] = "timer" /\ l[2] = "cdev" /\ l[3] = "region" /\ l[4] = "device"
        /\ l[5] = "class"
    BY DEF Timer, Plain, DownCharDev
  <2>2. Elems(l) = {"timer", "cdev", "region", "device", "class"}
    <3> HIDE DEF l
    <3> QED
      BY <2>1 DEF Elems
  <2>3. QED
    BY <2>2
<1>3. Covers({"device"}, s, {}, Timer.exit) /\ Follows("device", {}, s, {})
  <2> HIDE DEF s
  <2>1. \A m \in 1 .. Len(s) : s[m].res = "device" => m = 4
    BY <1>1
  <2>2. Covers({"device"}, s, {}, Timer.exit)
    BY <1>1, <1>2, <2>1 DEF Covers
  <2>3. Follows("device", {}, s, {})
    BY <1>1, <2>1 DEF Follows
  <2>4. QED
    BY <2>2, <2>3
<1>4. "device" \in Timer.nodes /\ ~Timer.bound /\ Timer.arms = {"file", "self"}
  BY DEF Timer, Plain, Nodes
<1>5. QED
  BY <1>2, <1>3, <1>4

\* A file may have started the timer as long as the node is there; exit stops it.
Ticks ==
  armed => \/ phase \in {"init", "live"} /\ "device" \in held
           \/ phase = "exit" /\ "timer" \in Elems(todo)

(* Every step of 12_timer keeps that: its ladders run before the node is   *)
(* there, and files are open only while it is.                             *)
LEMMA NextTicks ==
  ASSUME Typed, drv = Timer, Ordered("device", {}), FilesOn("device"), Ticks, [Next]_vars
  PROVE  Ticks'
<1>0. Timer.arms = {"file", "self"} /\ "timer" \in Elems(Timer.exit)
  BY TimerTable
<1>1. CASE Load
  BY <1>1 DEF Load, Ticks
<1>2. CASE Acquire
  BY <1>0, <1>2 DEF Acquire, Ticks
<1>3. CASE Refuse
  <2>1. /\ todo \in Seq(Steps) /\ todo # <<>> /\ Follows("device", {}, todo, held)
        /\ 1 \in 1 .. Len(todo) /\ todo[1] = Head(todo)
    BY <1>3, TailFacts DEF Refuse, Typed, Ordered
  <2>2. Head(todo).try = "checked" => "device" \notin held
    BY <2>1 DEF Follows
  <2>3. QED
    BY <1>3, <2>2 DEF Refuse, Ticks
<1>4. CASE GoLive
  BY <1>4 DEF GoLive, Ticks
<1>5. CASE Unload
  BY <1>0, <1>5 DEF Unload, Ticks
<1>6. CASE ReleaseNext
  <2>1. todo \in Seq(Resources) /\ todo # <<>>
    BY <1>6 DEF ReleaseNext, Typed
  <2>2. Elems(todo) = {Head(todo)} \cup Elems(Tail(todo))
    BY <2>1, TailFacts
  <2>3. QED
    BY <1>6, <2>2 DEF ReleaseNext, Ticks
<1>7. CASE Gone
  BY <1>7, NoRest DEF Gone, Lists, Ticks
<1>8. CASE Arm
  BY <1>0, <1>8 DEF Arm, Ticks, FilesOn
<1>9. CASE Open \/ Close \/ Expire \/ UNCHANGED vars
  BY <1>9 DEF Open, Close, Expire, vars, Ticks
<1>10. QED
  BY <1>1, <1>2, <1>3, <1>4, <1>5, <1>6, <1>7, <1>8, <1>9 DEF Next

-----------------------------------------------------------------------------
(* 20_input: releases that stop the interrupt first and then the timer.    *)
Stops(l) == {"irq", "timer"} \subseteq Elems(l) /\ Precedes("irq", {"timer"}, l)

\* From the interrupt on, every failure stops both.
StopsWhenRefused(s, on) ==
  /\ on => \A i \in 1 .. Len(s) : s[i].try = "checked" => Stops(s[i].undo)
  /\ \A m \in 1 .. Len(s) : s[m].res = "irq" =>
       \A i \in m + 1 .. Len(s) : s[i].try = "checked" => Stops(s[i].undo)

(* The tables of 20_input do, and its interrupt starts the timer.          *)
LEMMA KeyInputTable ==
  /\ StopsWhenRefused(KeyInput.init, FALSE)
  /\ Stops(KeyInput.exit)
  /\ KeyInput.arms = {"irq"}
<1> DEFINE s == KeyInput.init  l == KeyInput.exit  u == s[6].undo
<1>1. /\ Len(s) = 6 /\ s[1].res = "gpio" /\ s[2].res = "nothing" /\ s[3].res = "irq"
      /\ s[4].res = "timer" /\ s[4].try = "certain" /\ s[5].res = "input"
      /\ s[5].try = "ignored" /\ s[6].res = "device"
  BY DEF KeyInput, InputDriver, InputProbe, Bound, Plain, Test, Checked, Certain, Ignored
<1>2. /\ Len(u) = 3 /\ u[1] = "irq" /\ u[2] = "gpio" /\ u[3] = "timer"
      /\ Len(l) = 5 /\ l[1] = "irq" /\ l[2] = "gpio" /\ l[3] = "timer" /\ l[4] = "device"
      /\ l[5] = "input"
  BY DEF KeyInput, InputDriver, InputProbe, Bound, Plain, Test, Checked, Certain, Ignored
<1>3. Stops(u) /\ Stops(l)
  <2> HIDE DEF u, l
  <2> QED
    BY <1>2 DEF Stops, Elems, Precedes
<1>4. StopsWhenRefused(s, FALSE)
  <2>1. s[6].undo = u
    OBVIOUS
  <2> HIDE DEF s, u
  <2>2. \A m \in 1 .. Len(s) : s[m].res = "irq" => m = 3
    BY <1>1
  <2>3. \A i \in 4 .. Len(s) : s[i].try = "checked" => i = 6
    BY <1>1
  <2>4. QED
    BY <1>3, <2>1, <2>2, <2>3 DEF StopsWhenRefused
<1>5. KeyInput.arms = {"irq"}
  BY DEF KeyInput, InputDriver, Bound, Plain
<1>6. QED
  BY <1>3, <1>4, <1>5

(* The condition passes to the rest of the steps.                          *)
LEMMA StopsTail ==
  ASSUME NEW on, NEW s \in Seq(Steps), s # <<>>, StopsWhenRefused(s, on),
         NEW now, now => on \/ s[1].res = "irq"
  PROVE  StopsWhenRefused(Tail(s), now)
<1>1. /\ Len(s) \in Nat /\ Len(s) >= 1 /\ Len(Tail(s)) = Len(s) - 1
      /\ \A i \in 1 .. Len(s) - 1 : Tail(s)[i] = s[i + 1]
  BY TailFacts
<1>2. ASSUME now, NEW i \in 1 .. Len(Tail(s)), Tail(s)[i].try = "checked"
      PROVE  Stops(Tail(s)[i].undo)
  <2>1. i + 1 \in 1 .. Len(s) /\ i + 1 \in 1 + 1 .. Len(s) /\ 1 \in 1 .. Len(s)
        /\ Tail(s)[i] = s[i + 1]
    BY <1>1
  <2>2. QED
    BY <1>2, <2>1 DEF StopsWhenRefused
<1>3. ASSUME NEW m \in 1 .. Len(Tail(s)), Tail(s)[m].res = "irq",
             NEW i \in m + 1 .. Len(Tail(s)), Tail(s)[i].try = "checked"
      PROVE  Stops(Tail(s)[i].undo)
  <2>1. /\ m + 1 \in 1 .. Len(s) /\ i + 1 \in (m + 1) + 1 .. Len(s)
        /\ Tail(s)[i] = s[i + 1] /\ Tail(s)[m] = s[m + 1]
    BY <1>1
  <2>2. QED
    BY <1>3, <2>1 DEF StopsWhenRefused
<1>4. QED
  BY <1>2, <1>3 DEF StopsWhenRefused

(* The interrupt that starts the timer, and the timer, will be stopped, in *)
(* that order.                                                             *)
Debounced ==
  /\ phase = "out" => ~armed /\ "irq" \notin held
  /\ phase = "init" => StopsWhenRefused(todo, armed \/ "irq" \in held)
  /\ phase \in {"unwind", "exit"} =>
       /\ armed => "timer" \in Elems(todo)
       /\ "irq" \in held => Stops(todo)

(* Every step of 20_input keeps that.                                      *)
LEMMA NextDebounced ==
  ASSUME Typed, drv = KeyInput, Debounced, [Next]_vars
  PROVE  Debounced'
<1>0. /\ StopsWhenRefused(KeyInput.init, FALSE) /\ Stops(KeyInput.exit)
      /\ KeyInput.arms = {"irq"}
  BY KeyInputTable
<1>1. CASE Load
  <2>1. ~armed /\ "irq" \notin held
    BY <1>1 DEF Load, Debounced
  <2>2. StopsWhenRefused(todo', armed' \/ "irq" \in held')
    BY <1>0, <1>1, <2>1 DEF Load, StopsWhenRefused
  <2>3. QED
    BY <1>1, <2>2 DEF Load, Debounced
<1>2. CASE Acquire
  <2>1. /\ todo \in Seq(Steps) /\ todo # <<>> /\ todo' = Tail(todo)
        /\ phase = "init" /\ phase' = phase
        /\ armed' = armed /\ held' = held \cup ({Head(todo).res} \ {"nothing"})
        /\ Head(todo) = todo[1]
    BY <1>0, <1>2, TailFacts DEF Acquire, Typed, TypeOK
  <2>2. StopsWhenRefused(todo, armed \/ "irq" \in held)
    BY <2>1 DEF Debounced
  <2>3. armed' \/ "irq" \in held' => (armed \/ "irq" \in held) \/ todo[1].res = "irq"
    BY <2>1
  <2>4. StopsWhenRefused(Tail(todo), armed' \/ "irq" \in held')
    BY <2>1, <2>2, <2>3, StopsTail
  <2>5. QED
    BY <2>1, <2>4 DEF Debounced
<1>3. CASE Refuse
  <2>1. /\ todo \in Seq(Steps) /\ todo # <<>> /\ StopsWhenRefused(todo, armed \/ "irq" \in held)
        /\ 1 \in 1 .. Len(todo) /\ todo[1] = Head(todo)
    BY <1>3, TailFacts DEF Refuse, Typed, Debounced
  <2>2. CASE Head(todo).try = "checked"
    <3>1. armed \/ "irq" \in held => Stops(Head(todo).undo)
      BY <2>1, <2>2 DEF StopsWhenRefused
    <3>2. QED
      BY <1>3, <2>2, <3>1 DEF Refuse, Debounced, Stops
  <2>3. CASE Head(todo).try # "checked"
    <3>1. StopsWhenRefused(Tail(todo), armed \/ "irq" \in held)
      BY <2>1, StopsTail
    <3>2. QED
      BY <1>3, <2>3, <3>1 DEF Refuse, Debounced
  <2>4. QED
    BY <2>2, <2>3
<1>4. CASE GoLive
  BY <1>4 DEF GoLive, Debounced
<1>5. CASE Unload
  BY <1>0, <1>5 DEF Unload, Debounced, Stops
<1>6. CASE ReleaseNext
  <2>1. todo \in Seq(Resources) /\ todo # <<>> /\ phase \in {"unwind", "exit"}
        /\ todo' = Tail(todo) /\ phase' = phase
        /\ held' = held \ {Head(todo)} /\ armed' = (armed /\ Head(todo) # "timer")
    BY <1>6 DEF ReleaseNext, Typed
  <2>2. Elems(todo) = {Head(todo)} \cup Elems(Tail(todo)) /\ Head(todo) = todo[1]
    BY <2>1, TailFacts
  <2>3. armed' => "timer" \in Elems(Tail(todo))
    BY <2>1, <2>2 DEF Debounced
  <2>4. ASSUME "irq" \in held'
        PROVE  Stops(Tail(todo))
    <3>1. Stops(todo) /\ todo[1] # "irq"
      BY <2>1, <2>2, <2>4 DEF Debounced
    <3>2. todo[1] \notin {"timer"} /\ Precedes("irq", {"timer"}, Tail(todo))
      BY <2>1, <3>1, PrecedesTail DEF Stops
    <3>3. QED
      BY <2>2, <3>1, <3>2 DEF Stops
  <2>5. QED
    BY <2>1, <2>3, <2>4 DEF Debounced
<1>7. CASE Gone
  BY <1>7, NoRest DEF Gone, Lists, Debounced, Stops
<1>8. CASE Arm
  <2>1. "irq" \in held /\ phase' = phase /\ todo' = todo /\ held' = held /\ armed'
    BY <1>0, <1>8 DEF Arm
  <2>2. phase = "init" => StopsWhenRefused(todo, armed' \/ "irq" \in held')
    BY <2>1 DEF Debounced, StopsWhenRefused
  <2>3. QED
    BY <2>1, <2>2 DEF Debounced, Stops
<1>9. CASE Expire \/ Close
  <2>1. phase' = phase /\ todo' = todo /\ held' = held /\ (armed' => armed)
    BY <1>0, <1>9 DEF Expire, Close
  <2>2. phase = "init" => StopsWhenRefused(todo, armed' \/ "irq" \in held')
    BY <2>1 DEF Debounced, StopsWhenRefused
  <2>3. QED
    BY <2>1, <2>2 DEF Debounced
<1>10. CASE Open \/ UNCHANGED vars
  BY <1>10 DEF Open, vars, Debounced
<1>11. QED
  BY <1>1, <1>2, <1>3, <1>4, <1>5, <1>6, <1>7, <1>8, <1>9, <1>10 DEF Next

-----------------------------------------------------------------------------
(* What each driver can forget is all that is not going to be released.    *)
Kept(d) ==
  /\ d \in Tidy => Covered(Resources \ {"nothing"})
  /\ d \in ClassKept => Covered(Resources \ {"nothing", "class"})
  /\ d = KeyInput => Covered(Resources \ {"nothing", "gpio", "input"})
  /\ d \in {RamRequest, RamBio} => Covered(Resources \ {"nothing", "memory"})
  /\ d \in {IioIcm20608, IioAp3216c} => Covered(Resources \ {"nothing", "regmap"})
  /\ d \in {Ds18b20, Dht11} => Covered(Resources \ {"nothing", "timer"})

(* Every step of it keeps that.                                            *)
LEMMA NextKept ==
  ASSUME Typed, Kept(drv), [Next]_vars
  PROVE  Kept(drv)'
<1>1. drv' = drv
  BY SameTable
<1>2. ASSUME NEW X, AllSafe(drv, X), Covered(Resources \ X)
      PROVE  Covered(Resources \ X)'
  <2>1. Covers(Resources \ X, drv.init, {}, drv.exit)
    BY <1>2, SafeCovers
  <2>2. QED
    BY <1>2, <2>1, NextCovered
<1>3. ASSUME drv \in Tidy PROVE Covered(Resources \ {"nothing"})'
  BY <1>2, <1>3, TidySafe DEF Kept
<1>4. ASSUME drv \in ClassKept PROVE Covered(Resources \ {"nothing", "class"})'
  BY <1>2, <1>4, ClassKeptSafe DEF Kept
<1>5. ASSUME drv = KeyInput PROVE Covered(Resources \ {"nothing", "gpio", "input"})'
  BY <1>2, <1>5, InputSafe DEF Kept
<1>6. ASSUME drv \in {RamRequest, RamBio} PROVE Covered(Resources \ {"nothing", "memory"})'
  BY <1>2, <1>6, RamSafe DEF Kept
<1>7. ASSUME drv \in {IioIcm20608, IioAp3216c}
      PROVE  Covered(Resources \ {"nothing", "regmap"})'
  BY <1>2, <1>7, IioSafe DEF Kept
<1>8. ASSUME drv \in {Ds18b20, Dht11} PROVE Covered(Resources \ {"nothing", "timer"})'
  BY <1>2, <1>8, OneWireSafe DEF Kept
<1>9. QED
  BY <1>1, <1>3, <1>4, <1>5, <1>6, <1>7, <1>8 DEF Kept

(* The inductive invariant: the order and the ladders of each driver at    *)
(* work.                                                                   *)
IInv ==
  /\ Typed
  /\ Kept(drv)
  /\ drv \in Guarded => /\ Covered({Node(drv)})
                        /\ Ordered(Node(drv), drv.uses)
                        /\ FilesOn(Node(drv))
  /\ drv = Gt9147 => /\ Covered({"irq"})
                     /\ Ordered("irq", drv.serves)
                     /\ Down("irq", drv.serves)
  /\ drv \in Diligent => Complete
  /\ drv = Timer => /\ Covered({"device"})
                    /\ Ordered("device", {})
                    /\ FilesOn("device")
                    /\ Ticks
  /\ drv = KeyInput => Debounced

(* It holds initially, *)
LEMMA InitIInv == Init => IInv
<1> SUFFICES ASSUME Init PROVE IInv
  OBVIOUS
<1>1. Typed
  BY InitTyped
<1>2. phase = "out" /\ held = {} /\ files = 0 /\ ~armed
  BY DEF Init
<1>3. QED
  BY <1>1, <1>2 DEF IInv, Kept, Covered, Ordered, FilesOn, Down, Complete, Ticks, Debounced

(* every step keeps it, *)
LEMMA NextIInv == IInv /\ [Next]_vars => IInv'
<1> SUFFICES ASSUME IInv, [Next]_vars PROVE IInv'
  OBVIOUS
<1>1. Typed /\ Typed'
  BY NextTyped DEF IInv
<1>2. drv' = drv
  BY SameTable
<1>3. Kept(drv)'
  BY <1>1, NextKept DEF IInv
<1>4. ASSUME drv \in Guarded
      PROVE  Covered({Node(drv)})' /\ Ordered(Node(drv), drv.uses)' /\ FilesOn(Node(drv))'
  <2> DEFINE n == Node(drv)  U == drv.uses
  <2>1. /\ Covers({n}, drv.init, {}, drv.exit)
        /\ Follows(n, U, drv.init, {})
        /\ n \in drv.nodes /\ ~drv.bound /\ "nothing" \notin U
    BY <1>4, GuardedTables
  <2>2. n \in Resources /\ n # "nothing"
    BY DEF Node, Resources
  <2>3. Covered({n}) /\ Ordered(n, U) /\ FilesOn(n)
    BY <1>4 DEF IInv
  <2>4. n' = n /\ U' = U
    BY <1>2
  <2>5. ASSUME NEW m, NEW V, m = n, V = U
        PROVE  Covered({m})' /\ Ordered(m, V)' /\ FilesOn(m)'
    <3>1. /\ Covers({m}, drv.init, {}, drv.exit) /\ Follows(m, V, drv.init, {})
          /\ m \in drv.nodes /\ ~drv.bound /\ "nothing" \notin V \cup {m} /\ m \in Resources
          /\ {m} \subseteq Resources
          /\ Covered({m}) /\ Ordered(m, V) /\ FilesOn(m)
      BY <2>1, <2>2, <2>3, <2>5
    <3> HIDE DEF n, U
    <3>2. Covered({m})'
      BY <1>1, <3>1, NextCovered
    <3>3. Ordered(m, V)'
      BY <1>1, <3>1, NextOrdered
    <3>4. FilesOn(m)'
      BY <1>1, <3>1, NextFilesOn
    <3>5. QED
      BY <3>2, <3>3, <3>4
  <2>6. QED
    BY <2>4, <2>5
<1>5. ASSUME drv = Gt9147
      PROVE  Covered({"irq"})' /\ Ordered("irq", drv.serves)' /\ Down("irq", drv.serves)'
  <2>1. /\ Covers({"irq"}, drv.init, {}, drv.exit)
        /\ Follows("irq", {"input"}, drv.init, {})
        /\ Precedes("irq", {"input"}, drv.exit)
        /\ drv.serves = {"input"} /\ drv.serves' = {"input"}
    BY <1>2, <1>5, Gt9147Order
  <2>2. Covered({"irq"}) /\ Ordered("irq", {"input"}) /\ Down("irq", {"input"})
    BY <1>5, <2>1 DEF IInv
  <2>3. "irq" \in Resources /\ {"irq"} \subseteq Resources
        /\ "nothing" \notin {"input"} \cup {"irq"}
    BY DEF Resources
  <2>4. Covered({"irq"})'
    BY <1>1, <2>1, <2>2, <2>3, NextCovered
  <2>5. Ordered("irq", {"input"})'
    BY <1>1, <2>1, <2>2, <2>3, NextOrdered
  <2>6. Down("irq", {"input"})'
    BY <1>1, <2>1, <2>2, NextDown
  <2>7. QED
    BY <2>1, <2>4, <2>5, <2>6
<1>6. ASSUME drv \in Diligent PROVE Complete'
  BY <1>1, <1>6, DiligentTables, NextComplete DEF IInv
<1>7. ASSUME drv = Timer
      PROVE  Covered({"device"})' /\ Ordered("device", {})' /\ FilesOn("device")' /\ Ticks'
  <2>1. /\ Covers({"device"}, drv.init, {}, drv.exit) /\ Follows("device", {}, drv.init, {})
        /\ "device" \in drv.nodes /\ ~drv.bound
    BY <1>7, TimerTable
  <2>2. Covered({"device"}) /\ Ordered("device", {}) /\ FilesOn("device") /\ Ticks
    BY <1>7 DEF IInv
  <2>3. "device" \in Resources /\ {"device"} \subseteq Resources
        /\ "nothing" \notin {} \cup {"device"}
    BY DEF Resources
  <2>4. Covered({"device"})'
    BY <1>1, <2>1, <2>2, <2>3, NextCovered
  <2>5. Ordered("device", {})'
    BY <1>1, <2>1, <2>2, <2>3, NextOrdered
  <2>6. FilesOn("device")'
    BY <1>1, <2>1, <2>2, NextFilesOn
  <2>7. Ticks'
    BY <1>1, <1>7, <2>2, NextTicks
  <2>8. QED
    BY <2>4, <2>5, <2>6, <2>7
<1>8. ASSUME drv = KeyInput PROVE Debounced'
  BY <1>1, <1>8, NextDebounced DEF IInv
<1>9. QED
  BY <1>1, <1>2, <1>3, <1>4, <1>5, <1>6, <1>7, <1>8 DEF IInv

(* and so it holds always. *)
THEOREM Invariant == Spec => []IInv
  BY InitIInv, NextIInv, PTL DEF Spec

(* Whatever fails and however often a driver is loaded and opened, it      *)
(* leaves behind nothing, or at most what LeftBehind names for it.         *)
THEOREM Tidiness == Spec => []LeftBehind
<1>1. IInv => LeftBehind
  <2> SUFFICES ASSUME IInv, phase = "out" PROVE LeftBehind
    BY DEF LeftBehind
  <2>1. held \subseteq Resources /\ "nothing" \notin Resources
    BY DEF IInv, Typed, TypeOK, Resources
  <2>2. ASSUME NEW X, Covered(Resources \ X) PROVE held \subseteq X
    BY <2>1, <2>2 DEF Covered
  <2>3. drv \in Tidy => held = {}
    BY <2>1, <2>2 DEF IInv, Kept
  <2>4. drv \in ClassKept => held \subseteq {"class"}
    BY <2>1, <2>2 DEF IInv, Kept
  <2>5. drv = KeyInput => held \subseteq {"gpio", "input"}
    BY <2>1, <2>2 DEF IInv, Kept
  <2>6. drv \in {RamRequest, RamBio} => held \subseteq {"memory"}
    BY <2>1, <2>2 DEF IInv, Kept
  <2>7. drv \in {IioIcm20608, IioAp3216c} => held \subseteq {"regmap"}
    BY <2>1, <2>2 DEF IInv, Kept
  <2>8. drv \in {Ds18b20, Dht11} => held \subseteq {"timer"}
    BY <2>1, <2>2 DEF IInv, Kept
  <2>9. QED
    BY <2>3, <2>4, <2>5, <2>6, <2>7, <2>8 DEF LeftBehind
<1>2. QED
  BY <1>1, Invariant, PTL

(* What the open files of 02 to 10 and the interrupt of the GT9147 use is  *)
(* there as long as they may use it.                                       *)
THEOREM InUse == Spec => []InUseIsHeld
<1>1. IInv => InUseIsHeld
  <2> SUFFICES ASSUME IInv PROVE InUseIsHeld
    OBVIOUS
  <2>1. ASSUME drv \in Guarded, files > 0 PROVE drv.uses \subseteq held
    <3>1. phase \in {"init", "live"} /\ Node(drv) \in held /\ Ordered(Node(drv), drv.uses)
      BY <2>1 DEF IInv, FilesOn
    <3>2. QED
      BY <3>1 DEF Ordered, Follows
  <2>2. ASSUME drv = Gt9147, "irq" \in held PROVE drv.serves \subseteq held
    <3>1. Ordered("irq", drv.serves) /\ Down("irq", drv.serves)
          /\ phase \in {"out", "init", "unwind", "live", "exit"}
      BY <2>2 DEF IInv, Typed, TypeOK
    <3>2. QED
      BY <2>2, <3>1 DEF Ordered, Follows, Down
  <2>3. QED
    BY <2>1, <2>2 DEF InUseIsHeld
<1>2. QED
  BY <1>1, Invariant, PTL

(* A driver that checks every result has, when it is live, all it wanted.  *)
THEOREM Completeness == Spec => []LiveIsComplete
<1>1. IInv => LiveIsComplete
  BY DEF IInv, LiveIsComplete, Complete
<1>2. QED
  BY <1>1, Invariant, PTL

(* No timer of 12_timer or 20_input outlives its driver.                   *)
THEOREM NoTimerLeft == Spec => []TimerStops
<1>1. IInv => TimerStops
  BY DEF IInv, TimerStops, TimerGone, Ticks, Debounced
<1>2. QED
  BY <1>1, Invariant, PTL
-----------------------------------------------------------------------------
(* What a lost resource means for the next load: it is asked for again and *)
(* refused, and no ladder up to there releases it.                         *)
Hopeless(x, s) ==
  \E i \in 1 .. Len(s) :
    /\ s[i].res = x /\ s[i].try = "checked"
    /\ \A j \in 1 .. i : s[j].try = "checked" => x \notin Elems(s[j].undo)

\* So the driver goes round without x ever being released.
Stuck(x) ==
  /\ x \in held
  /\ \/ phase = "out"
     \/ phase = "init" /\ Hopeless(x, todo)
     \/ phase = "unwind" /\ x \notin Elems(todo)

(* The steps that remain stay hopeless when the first is not for x.        *)
LEMMA HopelessTail ==
  ASSUME NEW x, NEW s \in Seq(Steps), s # <<>>, Hopeless(x, s),
         s[1].res # x \/ s[1].try # "checked"
  PROVE  Hopeless(x, Tail(s))
<1>1. /\ Len(s) \in Nat /\ Len(s) >= 1 /\ Len(Tail(s)) = Len(s) - 1
      /\ \A i \in 1 .. Len(s) - 1 : Tail(s)[i] = s[i + 1]
  BY TailFacts
<1>2. PICK i \in 1 .. Len(s) :
        /\ s[i].res = x /\ s[i].try = "checked"
        /\ \A j \in 1 .. i : s[j].try = "checked" => x \notin Elems(s[j].undo)
  BY DEF Hopeless
<1> DEFINE t == Tail(s)
<1>3. i - 1 \in 1 .. Len(t) /\ t[i - 1] = s[i]
  BY <1>1, <1>2
<1>4. ASSUME NEW j \in 1 .. i - 1, t[j].try = "checked"
      PROVE  x \notin Elems(t[j].undo)
  <2>1. j + 1 \in 1 .. i /\ t[j] = s[j + 1]
    BY <1>1
  <2>2. QED
    BY <1>2, <1>4, <2>1
<1>5. t[i - 1].res = x /\ t[i - 1].try = "checked"
  BY <1>2, <1>3
<1>6. QED
  <2> HIDE DEF t
  <2>1. Hopeless(x, t)
    BY <1>3, <1>4, <1>5 DEF Hopeless
  <2>2. QED
    BY <2>1 DEF t

(* Such a driver stays stuck.                                              *)
LEMMA NextStuck ==
  ASSUME NEW x \in Exclusive, Typed, Hopeless(x, drv.init), Stuck(x), [Next]_vars
  PROVE  Stuck(x)'
<1>1. CASE Load
  BY <1>1 DEF Load, Stuck
<1>2. CASE Acquire
  <2>1. /\ todo \in Seq(Steps) /\ todo # <<>> /\ Head(todo) = todo[1]
        /\ phase = "init" /\ Hopeless(x, todo) /\ x \in held
    BY <1>2, TailFacts DEF Acquire, Typed, Stuck
  <2>2. todo[1].res # x
    BY <1>2, <2>1 DEF Acquire
  <2>3. Hopeless(x, Tail(todo))
    BY <2>1, <2>2, HopelessTail
  <2>4. QED
    BY <1>2, <2>1, <2>3 DEF Acquire, Stuck
<1>3. CASE Refuse
  <2>1. /\ todo \in Seq(Steps) /\ todo # <<>> /\ Head(todo) = todo[1]
        /\ phase = "init" /\ Hopeless(x, todo) /\ x \in held
    BY <1>3, TailFacts DEF Refuse, Typed, Stuck
  <2>2. CASE todo[1].try = "checked"
    <3>1. PICK i \in 1 .. Len(todo) :
            \A j \in 1 .. i : todo[j].try = "checked" => x \notin Elems(todo[j].undo)
      BY <2>1 DEF Hopeless
    <3>2. x \notin Elems(todo[1].undo)
      BY <2>2, <3>1
    <3>3. QED
      BY <1>3, <2>1, <2>2, <3>2 DEF Refuse, Stuck
  <2>3. CASE todo[1].try # "checked"
    <3>1. Hopeless(x, Tail(todo))
      BY <2>1, <2>3, HopelessTail
    <3>2. QED
      BY <1>3, <2>1, <2>3, <3>1 DEF Refuse, Stuck
  <2>4. QED
    BY <2>2, <2>3
<1>4. CASE GoLive
  BY <1>4 DEF GoLive, Stuck, Hopeless
<1>5. CASE Unload
  BY <1>5 DEF Unload, Stuck
<1>6. CASE ReleaseNext
  <2>1. todo \in Seq(Resources) /\ todo # <<>> /\ phase = "unwind" /\ x \notin Elems(todo)
    BY <1>6 DEF ReleaseNext, Typed, Stuck
  <2>2. Head(todo) # x /\ x \notin Elems(Tail(todo))
    BY <2>1, TailFacts
  <2>3. QED
    BY <1>6, <2>1, <2>2 DEF ReleaseNext, Stuck
<1>7. CASE Gone
  BY <1>7 DEF Gone, Stuck
<1>8. CASE Open \/ Close \/ Arm \/ Expire \/ UNCHANGED vars
  BY <1>8 DEF Open, Close, Arm, Expire, vars, Stuck
<1>9. QED
  BY <1>1, <1>2, <1>3, <1>4, <1>5, <1>6, <1>7, <1>8 DEF Next

(* The drivers that forget the class check it, after ladders without it.   *)
LEMMA ClassHopeless ==
  ASSUME NEW d, d \in ClassKept
  PROVE  Hopeless("class", d.init)
<1>1. CASE d \in {Atomic, Spinlock}
  <2> DEFINE s == d.init
  <2>1. 4 \in 1 .. Len(s) /\ s[4].res = "class" /\ s[4].try = "checked"
    BY <1>1, AtomicTable DEF Row, Lists
  <2>2. ASSUME NEW j \in 1 .. 4, s[j].try = "checked"
        PROVE  "class" \notin Elems(s[j].undo)
    <3>1. j = 1 \/ j = 2 \/ j = 3 \/ j = 4
      OBVIOUS
    <3>2. QED
      BY <1>1, <2>2, <3>1, AtomicTable DEF Row, Lists
  <2>3. QED
    BY <2>1, <2>2 DEF Hopeless
<1>2. CASE d \in {Semaphore, Mutex}
  <2> DEFINE s == d.init
  <2>1. 4 \in 1 .. Len(s) /\ s[4].res = "class" /\ s[4].try = "checked"
    BY <1>2, SemaphoreTable DEF Row, Lists
  <2>2. ASSUME NEW j \in 1 .. 4, s[j].try = "checked"
        PROVE  "class" \notin Elems(s[j].undo)
    <3>1. j = 1 \/ j = 2 \/ j = 3 \/ j = 4
      OBVIOUS
    <3>2. QED
      BY <1>2, <2>2, <3>1, SemaphoreTable DEF Row, Lists
  <2>3. QED
    BY <2>1, <2>2 DEF Hopeless
<1>3. CASE d = Key
  <2> DEFINE s == d.init
  <2>1. 3 \in 1 .. Len(s) /\ s[3].res = "class" /\ s[3].try = "checked"
    BY <1>3, KeyTable DEF Row, Lists
  <2>2. ASSUME NEW j \in 1 .. 3, s[j].try = "checked"
        PROVE  "class" \notin Elems(s[j].undo)
    <3>1. j = 1 \/ j = 2 \/ j = 3
      OBVIOUS
    <3>2. QED
      BY <1>3, <2>2, <3>1, KeyTable DEF Row, Lists
  <2>3. QED
    BY <2>1, <2>2 DEF Hopeless
<1>4. CASE d = Timer
  <2> DEFINE s == d.init
  <2>1. 3 \in 1 .. Len(s) /\ s[3].res = "class" /\ s[3].try = "checked"
    BY <1>4, TimerRows DEF Row, Lists
  <2>2. ASSUME NEW j \in 1 .. 3, s[j].try = "checked"
        PROVE  "class" \notin Elems(s[j].undo)
    <3>1. j = 1 \/ j = 2 \/ j = 3
      OBVIOUS
    <3>2. QED
      BY <1>4, <2>2, <3>1, TimerRows DEF Row, Lists
  <2>3. QED
    BY <2>1, <2>2 DEF Hopeless
<1>5. CASE d = BlockIo
  <2> DEFINE s == d.init
  <2>1. 5 \in 1 .. Len(s) /\ s[5].res = "class" /\ s[5].try = "checked"
    BY <1>5, BlockIoTable DEF Row, Lists
  <2>2. ASSUME NEW j \in 1 .. 5, s[j].try = "checked"
        PROVE  "class" \notin Elems(s[j].undo)
    <3>1. j = 1 \/ j = 2 \/ j = 3 \/ j = 4 \/ j = 5
      OBVIOUS
    <3>2. QED
      BY <1>5, <2>2, <3>1, BlockIoTable DEF Row, Lists
  <2>3. QED
    BY <2>1, <2>2 DEF Hopeless
<1>6. CASE d = Ap3216c
  <2> DEFINE s == d.init
  <2>1. 3 \in 1 .. Len(s) /\ s[3].res = "class" /\ s[3].try = "checked"
    BY <1>6, Ap3216cTable DEF Row, Lists
  <2>2. ASSUME NEW j \in 1 .. 3, s[j].try = "checked"
        PROVE  "class" \notin Elems(s[j].undo)
    <3>1. j = 1 \/ j = 2 \/ j = 3
      OBVIOUS
    <3>2. QED
      BY <1>6, <2>2, <3>1, Ap3216cTable DEF Row, Lists
  <2>3. QED
    BY <2>1, <2>2 DEF Hopeless
<1>7. CASE d = RegmapAp3216c
  <2> DEFINE s == d.init
  <2>1. 4 \in 1 .. Len(s) /\ s[4].res = "class" /\ s[4].try = "checked"
    BY <1>7, RegmapAp3216cTable DEF Row, Lists
  <2>2. ASSUME NEW j \in 1 .. 4, s[j].try = "checked"
        PROVE  "class" \notin Elems(s[j].undo)
    <3>1. j = 1 \/ j = 2 \/ j = 3 \/ j = 4
      OBVIOUS
    <3>2. QED
      BY <1>7, <2>2, <3>1, RegmapAp3216cTable DEF Row, Lists
  <2>3. QED
    BY <2>1, <2>2 DEF Hopeless
<1>8. CASE d = RegmapIcm20608
  <2> DEFINE s == d.init
  <2>1. 4 \in 1 .. Len(s) /\ s[4].res = "class" /\ s[4].try = "checked"
    BY <1>8, RegmapIcm20608Table DEF Row, Lists
  <2>2. ASSUME NEW j \in 1 .. 4, s[j].try = "checked"
        PROVE  "class" \notin Elems(s[j].undo)
    <3>1. j = 1 \/ j = 2 \/ j = 3 \/ j = 4
      OBVIOUS
    <3>2. QED
      BY <1>8, <2>2, <3>1, RegmapIcm20608Table DEF Row, Lists
  <2>3. QED
    BY <2>1, <2>2 DEF Hopeless
<1>9. QED
  <2>1. NoBlockIo = BlockIo /\ AsyncNoti = BlockIo
    BY DEF BlockIo, NoBlockIo, AsyncNoti
  <2>2. QED
    BY <1>1, <1>2, <1>3, <1>4, <1>5, <1>6, <1>7, <1>8, <2>1 DEF ClassKept

(* 20_input asks for the gpio first.                                       *)
LEMMA GpioHopeless == Hopeless("gpio", KeyInput.init)
<1> DEFINE d == KeyInput
<1>1. 1 \in 1 .. Len(d.init) /\ d.init[1].res = "gpio" /\ d.init[1].try = "checked"
      /\ Elems(d.init[1].undo) = {}
  BY InputTable DEF Row, Lists
<1> HIDE DEF d
<1>2. Hopeless("gpio", d.init)
  BY <1>1 DEF Hopeless
<1>3. QED
  BY <1>2 DEF d

\* A driver that has lost its class, or 20_input its gpio.
Lost ==
  \/ drv \in ClassKept /\ "class" \in held
  \/ drv = KeyInput /\ "gpio" \in held

\* It is stuck with it.
LostForGood ==
  \/ drv \in ClassKept /\ Stuck("class")
  \/ drv = KeyInput /\ Stuck("gpio")

(* What the label destroy_class (blockio.c:291) or the return without a    *)
(* gpio_free (keyinput.c:70) forgets is lost for good: a driver that has   *)
(* left it behind once never goes live again, however often it is loaded.  *)
THEOREM LeakIsFinal == Spec => [](phase = "out" /\ Lost => [](phase # "live"))
<1>1. phase = "out" /\ Lost => LostForGood
  BY DEF Lost, LostForGood, Stuck
<1>2. LostForGood => phase # "live"
  BY DEF LostForGood, Stuck
<1>3. IInv /\ LostForGood /\ [Next]_vars => LostForGood'
  <2> SUFFICES ASSUME IInv, LostForGood, [Next]_vars PROVE LostForGood'
    OBVIOUS
  <2>1. Typed /\ drv' = drv /\ "class" \in Exclusive /\ "gpio" \in Exclusive
    BY SameTable DEF IInv, Exclusive
  <2>2. CASE drv \in ClassKept /\ Stuck("class")
    <3>1. Stuck("class")'
      BY <2>1, <2>2, ClassHopeless, NextStuck
    <3>2. QED
      BY <2>1, <2>2, <3>1 DEF LostForGood
  <2>3. CASE drv = KeyInput /\ Stuck("gpio")
    <3>1. Stuck("gpio")'
      BY <2>1, <2>3, GpioHopeless, NextStuck
    <3>2. QED
      BY <2>1, <2>3, <3>1 DEF LostForGood
  <2>4. QED
    BY <2>2, <2>3 DEF LostForGood
<1>4. QED
  BY <1>1, <1>2, <1>3, Invariant, PTL DEF Spec

-----------------------------------------------------------------------------
\* The ladder of step i releases nothing twice and only what was asked for, or what is in X.
Fitting(s, i, X) ==
  s[i].try = "checked" => Once(s[i].undo) /\ Elems(s[i].undo) \subseteq Asked(s, i) \cup X

\* Every ladder does, and exit, which releases only what was asked for.
AllFitting(d, X) ==
  /\ Len(d.init) \in Nat
  /\ \A i \in 1 .. Len(d.init) : Fitting(d.init, i, X)
  /\ Once(d.exit) /\ Elems(d.exit) \subseteq Asked(d.init, Len(d.init) + 1)

\* What a ladder may take down that is not there: device_destroy finds no
\* device, iio_device_unregister finds one that was never registered.
Spare(d) == IF d \in ClassKept \cup {IioAp3216c} THEN {"device"} ELSE {}

(* The ladders and exits of the diligent drivers fit.                      *)
LEMMA DiligentFitting ==
  ASSUME NEW d, d \in Diligent
  PROVE  AllFitting(d, Spare(d))
<1>1. CASE d \in {NewchrLed, DtsLed, PlatformLed}
  <2> DEFINE s == d.init
  <2>0. /\ Len(d.init) = 5
        /\ Row(d.init[1], "map", "certain", {})
        /\ Row(d.init[2], "region", "checked", {"map"})
        /\ Row(d.init[3], "cdev", "checked", {"region", "map"})
        /\ Row(d.init[4], "class", "checked", {"cdev", "region", "map"})
        /\ Row(d.init[5], "device", "checked", {"class", "cdev", "region", "map"})
        /\ Lists(d.exit, {"map", "cdev", "region", "device", "class"})
    BY <1>1, NewchrTable
  <2>1. /\ Len(s) = 5
        /\ Fitting(s, 1, {})
        /\ Fitting(s, 2, {})
        /\ Fitting(s, 3, {})
        /\ Fitting(s, 4, {})
        /\ Fitting(s, 5, {})
        /\ Once(d.exit) /\ Elems(d.exit) \subseteq Asked(s, 6)
    BY <2>0, AskedFew DEF Row, Lists, Fitting
  <2>2. QED
    BY <2>1 DEF AllFitting, Fitting
<1>2. CASE d = Beep
  <2> DEFINE s == d.init
  <2>1. /\ Len(s) = 5
        /\ Fitting(s, 1, {})
        /\ Fitting(s, 2, {})
        /\ Fitting(s, 3, {})
        /\ Fitting(s, 4, {})
        /\ Fitting(s, 5, {})
        /\ Once(d.exit) /\ Elems(d.exit) \subseteq Asked(s, 6)
    BY <1>2, AskedFew, BeepTable DEF Row, Lists, Fitting
  <2>2. QED
    BY <2>1 DEF AllFitting, Fitting
<1>3. CASE d = DtsPlatformLed
  <2> DEFINE s == d.init
  <2>1. /\ Len(s) = 5
        /\ Fitting(s, 1, {})
        /\ Fitting(s, 2, {})
        /\ Fitting(s, 3, {})
        /\ Fitting(s, 4, {})
        /\ Fitting(s, 5, {})
        /\ Once(d.exit) /\ Elems(d.exit) \subseteq Asked(s, 6)
    BY <1>3, AskedFew, DtsPlatformTable DEF Row, Lists, Fitting
  <2>2. QED
    BY <2>1 DEF AllFitting, Fitting
<1>4. CASE d \in {Atomic, Spinlock}
  <2> DEFINE s == d.init
  <2>0. /\ Len(d.init) = 5
        /\ Row(d.init[1], "gpio", "checked", {})
        /\ Row(d.init[2], "region", "checked", {"gpio"})
        /\ Row(d.init[3], "cdev", "checked", {"region", "gpio"})
        /\ Row(d.init[4], "class", "checked", {"cdev", "region", "gpio"})
        /\ Row(d.init[5], "device", "checked", {"device", "cdev", "region", "gpio"})
        /\ Lists(d.exit, {"gpio", "cdev", "region", "device", "class"})
    BY <1>4, AtomicTable
  <2>1. /\ Len(s) = 5
        /\ Fitting(s, 1, {"device"})
        /\ Fitting(s, 2, {"device"})
        /\ Fitting(s, 3, {"device"})
        /\ Fitting(s, 4, {"device"})
        /\ Fitting(s, 5, {"device"})
        /\ Once(d.exit) /\ Elems(d.exit) \subseteq Asked(s, 6)
    BY <2>0, AskedFew DEF Row, Lists, Fitting
  <2>2. Spare(d) = {"device"}
    BY <1>4 DEF Spare, ClassKept
  <2>3. QED
    BY <2>1, <2>2 DEF AllFitting
<1>5. CASE d = Led
  <2> DEFINE s == d.init
  <2>1. /\ Len(s) = 2
        /\ Fitting(s, 1, {})
        /\ Fitting(s, 2, {})
        /\ Once(d.exit) /\ Elems(d.exit) \subseteq Asked(s, 3)
    BY <1>5, AskedFew, LedTable DEF Row, Lists, Fitting
  <2>2. QED
    BY <2>1 DEF AllFitting, Fitting
<1>6. CASE d = KeyIrqDriver
  <2> DEFINE s == d.init
  <2>1. /\ Len(s) = 7
        /\ Fitting(s, 1, {})
        /\ Fitting(s, 2, {})
        /\ Fitting(s, 3, {})
        /\ Fitting(s, 4, {})
        /\ Fitting(s, 5, {})
        /\ Fitting(s, 6, {})
        /\ Fitting(s, 7, {})
        /\ Once(d.exit) /\ Elems(d.exit) \subseteq Asked(s, 8)
    BY <1>6, AskedFew, KeyIrqTable DEF Row, Lists, Fitting
  <2>2. QED
    BY <2>1 DEF AllFitting, Fitting
<1>7. CASE d = MiscBeep
  <2> DEFINE s == d.init
  <2>1. /\ Len(s) = 2
        /\ Fitting(s, 1, {})
        /\ Fitting(s, 2, {})
        /\ Once(d.exit) /\ Elems(d.exit) \subseteq Asked(s, 3)
    BY <1>7, AskedFew, MiscTable DEF Row, Lists, Fitting
  <2>2. QED
    BY <2>1 DEF AllFitting, Fitting
<1>8. CASE d = Ft5426
  <2> DEFINE s == d.init
  <2>1. /\ Len(s) = 7
        /\ Fitting(s, 1, {})
        /\ Fitting(s, 2, {})
        /\ Fitting(s, 3, {})
        /\ Fitting(s, 4, {})
        /\ Fitting(s, 5, {})
        /\ Fitting(s, 6, {})
        /\ Fitting(s, 7, {})
        /\ Once(d.exit) /\ Elems(d.exit) \subseteq Asked(s, 8)
    BY <1>8, AskedFew, Ft5426Table DEF Row, Lists, Fitting
  <2>2. QED
    BY <2>1 DEF AllFitting, Fitting
<1>9. CASE d = Timer
  <2> DEFINE s == d.init
  <2>1. /\ Len(s) = 5
        /\ Fitting(s, 1, {"device"})
        /\ Fitting(s, 2, {"device"})
        /\ Fitting(s, 3, {"device"})
        /\ Fitting(s, 4, {"device"})
        /\ Fitting(s, 5, {"device"})
        /\ Once(d.exit) /\ Elems(d.exit) \subseteq Asked(s, 6)
    BY <1>9, AskedFew, TimerRows DEF Row, Lists, Fitting
  <2>2. Spare(d) = {"device"}
    BY <1>9 DEF Spare, ClassKept
  <2>3. QED
    BY <2>1, <2>2 DEF AllFitting
<1>10. CASE d = BlockIo
  <2> DEFINE s == d.init
  <2>1. /\ Len(s) = 7
        /\ Fitting(s, 1, {"device"})
        /\ Fitting(s, 2, {"device"})
        /\ Fitting(s, 3, {"device"})
        /\ Fitting(s, 4, {"device"})
        /\ Fitting(s, 5, {"device"})
        /\ Fitting(s, 6, {"device"})
        /\ Fitting(s, 7, {"device"})
        /\ Once(d.exit) /\ Elems(d.exit) \subseteq Asked(s, 8)
    BY <1>10, AskedFew, BlockIoTable DEF Row, Lists, Fitting
  <2>2. Spare(d) = {"device"}
    BY <1>10 DEF Spare, ClassKept
  <2>3. QED
    BY <2>1, <2>2 DEF AllFitting
<1>11. CASE d = Ap3216c
  <2> DEFINE s == d.init
  <2>1. /\ Len(s) = 5
        /\ Fitting(s, 1, {"device"})
        /\ Fitting(s, 2, {"device"})
        /\ Fitting(s, 3, {"device"})
        /\ Fitting(s, 4, {"device"})
        /\ Fitting(s, 5, {"device"})
        /\ Once(d.exit) /\ Elems(d.exit) \subseteq Asked(s, 6)
    BY <1>11, AskedFew, Ap3216cTable DEF Row, Lists, Fitting
  <2>2. Spare(d) = {"device"}
    BY <1>11 DEF Spare, ClassKept
  <2>3. QED
    BY <2>1, <2>2 DEF AllFitting
<1>12. CASE d = RegmapAp3216c
  <2> DEFINE s == d.init
  <2>1. /\ Len(s) = 5
        /\ Fitting(s, 1, {"device"})
        /\ Fitting(s, 2, {"device"})
        /\ Fitting(s, 3, {"device"})
        /\ Fitting(s, 4, {"device"})
        /\ Fitting(s, 5, {"device"})
        /\ Once(d.exit) /\ Elems(d.exit) \subseteq Asked(s, 6)
    BY <1>12, AskedFew, RegmapAp3216cTable DEF Row, Lists, Fitting
  <2>2. Spare(d) = {"device"}
    BY <1>12 DEF Spare, ClassKept
  <2>3. QED
    BY <2>1, <2>2 DEF AllFitting
<1>13. CASE d = RegmapIcm20608
  <2> DEFINE s == d.init
  <2>1. /\ Len(s) = 6
        /\ Fitting(s, 1, {"device"})
        /\ Fitting(s, 2, {"device"})
        /\ Fitting(s, 3, {"device"})
        /\ Fitting(s, 4, {"device"})
        /\ Fitting(s, 5, {"device"})
        /\ Fitting(s, 6, {"device"})
        /\ Once(d.exit) /\ Elems(d.exit) \subseteq Asked(s, 7)
    BY <1>13, AskedFew, RegmapIcm20608Table DEF Row, Lists, Fitting
  <2>2. Spare(d) = {"device"}
    BY <1>13 DEF Spare, ClassKept
  <2>3. QED
    BY <2>1, <2>2 DEF AllFitting
<1>14. CASE d = IioAp3216c
  <2> DEFINE s == d.init
  <2>1. /\ Len(s) = 4
        /\ Fitting(s, 1, {"device"})
        /\ Fitting(s, 2, {"device"})
        /\ Fitting(s, 3, {"device"})
        /\ Fitting(s, 4, {"device"})
        /\ Once(d.exit) /\ Elems(d.exit) \subseteq Asked(s, 5)
    BY <1>14, AskedFew, IioAp3216cTable DEF Row, Lists, Fitting
  <2>2. Spare(d) = {"device"}
    BY <1>14 DEF Spare
  <2>3. QED
    BY <2>1, <2>2 DEF AllFitting
<1>15. CASE d = Ds18b20
  <2> DEFINE s == d.init
  <2>0. /\ Len(d.init) = 3
        /\ Row(d.init[1], "gpio", "checked", {})
        /\ Row(d.init[2], "timer", "certain", {})
        /\ Row(d.init[3], "device", "checked", {"gpio"})
        /\ Lists(d.exit, {"device", "timer", "gpio"})
    BY <1>15, OneWireTable
  <2>1. /\ Len(s) = 3
        /\ Fitting(s, 1, {})
        /\ Fitting(s, 2, {})
        /\ Fitting(s, 3, {})
        /\ Once(d.exit) /\ Elems(d.exit) \subseteq Asked(s, 4)
    BY <2>0, AskedFew DEF Row, Lists, Fitting
  <2>2. QED
    BY <2>1 DEF AllFitting, Fitting
<1>16. QED
  <2>1. NoBlockIo = BlockIo /\ AsyncNoti = BlockIo /\ Dht11 = Ds18b20
    BY DEF BlockIo, NoBlockIo, AsyncNoti, Ds18b20, Dht11
  <2>2. QED
    BY <2>1, <1>1, <1>2, <1>3, <1>4, <1>5, <1>6, <1>7, <1>8, <1>9,
       <1>10, <1>11, <1>12, <1>13, <1>14, <1>15 DEF Diligent

(* The ladders of s and the releases of exit, down, release nothing twice  *)
(* and only what is held or still asked for before them, or what is in X.  *)
Exact(X, s, h, down) ==
  /\ \A i \in 1 .. Len(s) : s[i].try = "checked" =>
       /\ Once(s[i].undo)
       /\ \A r \in Elems(s[i].undo) : r \in h \cup X \/ \E j \in 1 .. i - 1 : s[j].res = r
  /\ Once(down)
  /\ \A r \in Elems(down) : r \in h \/ \E j \in 1 .. Len(s) : s[j].res = r

(* When the tables fit that holds before the first step.                   *)
LEMMA FittingExact ==
  ASSUME NEW d, NEW X, NEW h, AllFitting(d, X)
  PROVE  Exact(X, d.init, h, d.exit)
<1> DEFINE s == d.init
<1>1. ASSUME NEW i \in 1 .. Len(s), s[i].try = "checked"
      PROVE  /\ Once(s[i].undo)
             /\ \A r \in Elems(s[i].undo) : r \in h \cup X \/ \E j \in 1 .. i - 1 : s[j].res = r
  BY <1>1 DEF AllFitting, Fitting, Asked
<1>2. ASSUME NEW r \in Elems(d.exit)
      PROVE  \E j \in 1 .. Len(s) : s[j].res = r
  BY <1>2 DEF AllFitting, Asked
<1>3. QED
  BY <1>1, <1>2 DEF Exact, AllFitting

(* It passes to the rest of the steps when the first one has been taken.   *)
LEMMA ExactTail ==
  ASSUME NEW X, NEW h, NEW down \in Seq(Resources), NEW s \in Seq(Steps), s # <<>>,
         Exact(X, s, h, down), NEW g, g = h \cup ({s[1].res} \ {"nothing"})
  PROVE  Exact(X, Tail(s), g, down)
<1>1. /\ Len(s) \in Nat /\ Len(s) >= 1 /\ Len(Tail(s)) = Len(s) - 1
      /\ \A i \in 1 .. Len(s) - 1 : Tail(s)[i] = s[i + 1]
  BY TailFacts
<1>2. ASSUME NEW r \in Resources, NEW n \in 0 .. Len(s) - 1,
             NEW j \in 1 .. n + 1, s[j].res = r
      PROVE  r \in g \/ \E k \in 1 .. n : Tail(s)[k].res = r
  <2>1. CASE j = 1
    BY <1>2, <2>1 DEF Resources
  <2>2. CASE j # 1
    <3> DEFINE Asks(k) == Tail(s)[k].res = r
    <3>1. j - 1 \in 1 .. n /\ j - 1 \in 1 .. Len(s) - 1
      BY <1>1, <2>2
    <3>2. Asks(j - 1)
      BY <1>1, <1>2, <3>1
    <3>3. \E k \in 1 .. n : Asks(k)
      <4> HIDE DEF Asks
      <4> QED
        BY <3>1, <3>2
    <3>4. QED
      BY <3>3
  <2>3. QED
    BY <2>1, <2>2
<1>3. ASSUME NEW i \in 1 .. Len(Tail(s)), Tail(s)[i].try = "checked"
      PROVE  /\ Once(Tail(s)[i].undo)
             /\ \A r \in Elems(Tail(s)[i].undo) :
                  r \in g \cup X \/ \E j \in 1 .. i - 1 : Tail(s)[j].res = r
  <2>1. /\ i + 1 \in 1 .. Len(s) /\ Tail(s)[i] = s[i + 1] /\ i - 1 \in 0 .. Len(s) - 1
        /\ s[i + 1].try = "checked" /\ (i + 1) - 1 = (i - 1) + 1
    BY <1>1, <1>3
  <2>2. /\ Once(s[i + 1].undo)
        /\ \A r \in Elems(s[i + 1].undo) :
             r \in h \cup X \/ \E j \in 1 .. (i + 1) - 1 : s[j].res = r
    BY <2>1 DEF Exact
  <2>3. ASSUME NEW r \in Elems(Tail(s)[i].undo)
        PROVE  r \in g \cup X \/ \E j \in 1 .. i - 1 : Tail(s)[j].res = r
    <3>1. r \in Resources
      <4>1. s[i + 1] \in Steps
        BY <2>1
      <4>2. s[i + 1].undo \in Seq(Resources)
        BY <4>1 DEF Steps
      <4>3. QED
        BY <2>1, <2>3, <4>2 DEF Elems
    <3>2. CASE r \in h \cup X
      BY <3>2
    <3>3. ASSUME NEW j \in 1 .. (i - 1) + 1, s[j].res = r
          PROVE  r \in g \/ \E k \in 1 .. i - 1 : Tail(s)[k].res = r
      BY <1>2, <2>1, <3>1, <3>3
    <3>4. QED
      BY <2>1, <2>2, <2>3, <3>2, <3>3
  <2>4. QED
    BY <2>1, <2>2, <2>3
<1>4. ASSUME NEW r \in Elems(down)
      PROVE  r \in g \/ \E j \in 1 .. Len(Tail(s)) : Tail(s)[j].res = r
  <2>1. r \in Resources
    BY <1>4 DEF Elems
  <2>2. r \in h \/ \E j \in 1 .. Len(s) : s[j].res = r
    BY <1>4 DEF Exact
  <2>3. Len(Tail(s)) \in 0 .. Len(s) - 1 /\ Len(s) = Len(Tail(s)) + 1
    BY <1>1
  <2>4. ASSUME NEW j \in 1 .. Len(Tail(s)) + 1, s[j].res = r
        PROVE  r \in g \/ \E k \in 1 .. Len(Tail(s)) : Tail(s)[k].res = r
    BY <1>2, <2>1, <2>3, <2>4
  <2>5. QED
    BY <2>2, <2>3, <2>4
<1>5. QED
  BY <1>3, <1>4 DEF Exact

(* Nothing left of a list comes again.                                     *)
LEMMA OnceTail ==
  ASSUME NEW S, NEW l \in Seq(S), l # <<>>, Once(l)
  PROVE  Once(Tail(l)) /\ Head(l) \notin Elems(Tail(l))
<1>1. /\ Head(l) = l[1] /\ Len(l) \in Nat /\ Len(l) >= 1 /\ Len(Tail(l)) = Len(l) - 1
      /\ \A i \in 1 .. Len(l) - 1 : Tail(l)[i] = l[i + 1]
  BY TailFacts
<1>2. ASSUME NEW i \in 1 .. Len(Tail(l)), NEW j \in 1 .. Len(Tail(l)), Tail(l)[i] = Tail(l)[j]
      PROVE  i = j
  <2>1. i + 1 \in 1 .. Len(l) /\ j + 1 \in 1 .. Len(l) /\ l[i + 1] = l[j + 1]
    BY <1>1, <1>2
  <2>2. i + 1 = j + 1
    BY <2>1 DEF Once
  <2>3. QED
    BY <1>1, <2>2
<1>3. ASSUME NEW i \in 1 .. Len(Tail(l)), Tail(l)[i] = l[1]
      PROVE  FALSE
  <2>1. i + 1 \in 1 .. Len(l) /\ 1 \in 1 .. Len(l) /\ l[i + 1] = l[1]
    BY <1>1, <1>3
  <2>2. i + 1 = 1
    BY <2>1 DEF Once
  <2>3. QED
    BY <1>1, <2>2
<1>4. QED
  BY <1>1, <1>2, <1>3 DEF Once, Elems

\* What will be released is held, or will be.
Backed(X) ==
  /\ phase = "init" => Exact(X, todo, held, drv.exit)
  /\ phase = "live" => Once(drv.exit) /\ Elems(drv.exit) \subseteq held
  /\ phase = "unwind" => Once(todo) /\ Elems(todo) \subseteq held \cup X
  /\ phase = "exit" => Once(todo) /\ Elems(todo) \subseteq held

(* A driver that checks every result and whose ladders fit keeps that.     *)
LEMMA NextBacked ==
  ASSUME Typed, Complete, NEW X, AllFitting(drv, X), Backed(X), [Next]_vars
  PROVE  Backed(X)'
<1>a. drv' = drv /\ drv.exit \in Seq(Resources)
  BY SameTable, TablesAssumption DEF Typed, TypeOK
<1>1. CASE Load
  <2>1. Exact(X, drv.init, held, drv.exit)
    BY FittingExact
  <2>2. QED
    BY <1>1, <1>a, <2>1 DEF Load, Backed
<1>2. CASE Acquire
  <2>1. /\ todo \in Seq(Steps) /\ todo # <<>> /\ todo' = Tail(todo)
        /\ phase = "init" /\ phase' = phase
        /\ held' = held \cup ({Head(todo).res} \ {"nothing"})
        /\ Exact(X, todo, held, drv.exit)
    BY <1>2 DEF Acquire, Typed, Backed
  <2>2. Head(todo) = todo[1]
    BY <2>1, TailFacts
  <2>3. Exact(X, Tail(todo), held', drv.exit)
    BY <1>a, <2>1, <2>2, ExactTail
  <2>4. QED
    BY <1>a, <2>1, <2>3 DEF Backed
<1>3. CASE Refuse
  <2>1. /\ todo \in Seq(Steps) /\ todo # <<>> /\ Sure(todo) /\ Head(todo) = todo[1]
        /\ 1 \in 1 .. Len(todo) /\ Head(todo) \in Steps
        /\ Exact(X, todo, held, drv.exit)
    BY <1>3, TailFacts DEF Refuse, Typed, Complete, Backed
  <2>2. Head(todo).try = "checked"
    BY <1>3, <2>1 DEF Refuse, Sure, Steps
  <2>3. Once(Head(todo).undo) /\ Elems(Head(todo).undo) \subseteq held \cup X
    BY <2>1, <2>2 DEF Exact
  <2>4. QED
    BY <1>3, <2>2, <2>3 DEF Refuse, Backed
<1>4. CASE GoLive
  <2>1. Once(drv.exit) /\ \A r \in Elems(drv.exit) : r \in held
    BY <1>4 DEF GoLive, Backed, Exact
  <2>2. QED
    BY <1>4, <1>a, <2>1 DEF GoLive, Backed
<1>5. CASE Unload
  BY <1>5, <1>a DEF Unload, Backed
<1>6. CASE ReleaseNext
  <2>1. /\ todo \in Seq(Resources) /\ todo # <<>> /\ todo' = Tail(todo) /\ Once(todo)
        /\ phase \in {"unwind", "exit"} /\ phase' = phase /\ held' = held \ {Head(todo)}
    BY <1>6 DEF ReleaseNext, Typed, Backed
  <2>2. Once(Tail(todo)) /\ Head(todo) \notin Elems(Tail(todo))
    BY <2>1, OnceTail
  <2>3. Elems(Tail(todo)) \subseteq Elems(todo)
    BY <2>1, TailFacts
  <2>4. QED
    BY <2>1, <2>2, <2>3 DEF Backed
<1>7. CASE Gone
  BY <1>7 DEF Gone, Backed
<1>8. CASE Open \/ Close \/ Arm \/ Expire \/ UNCHANGED vars
  BY <1>8, <1>a DEF Open, Close, Arm, Expire, vars, Backed
<1>9. QED
  BY <1>1, <1>2, <1>3, <1>4, <1>5, <1>6, <1>7, <1>8 DEF Next

\* What is released is held, but for the device that an error path takes down before it was made.
Releases ==
  drv \in Diligent /\ ReleaseNext =>
    \/ Head(todo) \in held
    \/ drv \in ClassKept \cup {IioAp3216c} /\ phase = "unwind" /\ Head(todo) = "device"

(* A driver that checks every result gives nothing back that it does not   *)
(* have, and nothing twice: whatever the kernel refuses, on the error path *)
(* and in exit, each release finds what it releases.  Two error paths are  *)
(* the exceptions: device_destroy under the label destroy_class            *)
(* (blockio.c:291), which finds no device, and iio_device_unregister of    *)
(* 31_iio (ap3216c.c:342), which takes down one that was never registered. *)
THEOREM ReleasesHeld == Spec => [][Releases]_vars
<1> DEFINE BackedInv == drv \in Diligent => Backed(Spare(drv))
<1>1. Init => BackedInv
  BY DEF Init, Backed
<1>2. IInv /\ BackedInv /\ [Next]_vars => BackedInv'
  <2> SUFFICES ASSUME IInv, BackedInv, [Next]_vars, drv' \in Diligent
               PROVE  Backed(Spare(drv))'
    OBVIOUS
  <2>1. drv' = drv /\ drv \in Diligent /\ Typed /\ Complete
    BY SameTable DEF IInv
  <2>2. ASSUME NEW X, X = Spare(drv)
        PROVE  Backed(X)'
    <3>1. Backed(X) /\ AllFitting(drv, X)
      BY <2>1, <2>2, DiligentFitting
    <3>2. QED
      BY <2>1, <3>1, NextBacked
  <2>3. Spare(drv)' = Spare(drv)
    BY <2>1 DEF Spare
  <2>4. QED
    BY <2>2, <2>3 DEF Backed
<1>3. BackedInv /\ IInv /\ [Next]_vars => [Releases]_vars
  <2> SUFFICES ASSUME BackedInv, IInv, drv \in Diligent, ReleaseNext
               PROVE  \/ Head(todo) \in held
                      \/ drv \in ClassKept \cup {IioAp3216c} /\ phase = "unwind" /\ Head(todo) = "device"
    BY DEF Releases
  <2>1. /\ todo \in Seq(Resources) /\ todo # <<>> /\ phase \in {"unwind", "exit"}
        /\ Backed(Spare(drv))
    BY DEF ReleaseNext, IInv, Typed
  <2>2. Head(todo) \in Elems(todo)
    BY <2>1, TailFacts
  <2>3. Head(todo) \in held \/ (phase = "unwind" /\ Head(todo) \in Spare(drv))
    BY <2>1, <2>2 DEF Backed
  <2>4. QED
    BY <2>3 DEF Spare
<1>4. QED
  <2> HIDE DEF BackedInv
  <2> QED
    BY <1>1, <1>2, <1>3, Invariant, PTL DEF Spec
=============================================================================
