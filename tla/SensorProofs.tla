---------------------------- MODULE SensorProofs ----------------------------
(***************************************************************************)
(* Proofs about the sensors: the one-wire drivers 34 and 35, for any       *)
(* temperatures and frames, and the IIO device of 31, for any number of    *)
(* clients.                                                                *)
(***************************************************************************)
EXTENDS OneWire, IioSensor, TLAPS

-----------------------------------------------------------------------------
(* Types of 34 and 35 *)

(* A piece of a sample is one of a measurement or of the zeros.            *)
LEMMA Pieces ==
  /\ Zero \in Samples /\ Received \subseteq Samples
  /\ \A s \in Samples : \A i \in {1, 2} : s[i] \in {r[i] : r \in Samples}
  BY DEF Samples

(* The types hold before the first probe. *)
LEMMA InitOneWireTyped == OneWireInit => OneWireTypeOK
  BY Pieces DEF OneWireInit, OneWireTypeOK

(* Every step keeps them. *)
LEMMA NextOneWireTyped == OneWireTypeOK /\ [OneWireNext]_oneWireVars => OneWireTypeOK'
  <1> SUFFICES ASSUME OneWireTypeOK, [OneWireNext]_oneWireVars PROVE OneWireTypeOK'
    OBVIOUS
  <1> DEFINE Piece(i) == {s[i] : s \in Samples}
  <1>1. sensor' = sensor
    BY DEF OneWireNext, OneWireProbe, MiscRegister, MiscDeregister, RemoveTimer, CancelWork,
           SampleExpire, TickQueue, TickRestart, Work, WorkStart, WorkMeasure, WorkFirst,
           WorkSecond, AppFirst, AppSecond, AppReturn, oneWireVars, lifeVars
  <1>2. Samples' = Samples
    BY <1>1 DEF Samples, Zero, Received, Sent, Bytes
  <1>3. /\ sample \in Samples /\ Zero \in Samples /\ Received \subseteq Samples
        /\ data[1] \in Piece(1) /\ copy[1] \in Piece(1)
        /\ data[2] \in Piece(2) /\ copy[2] \in Piece(2)
        /\ \A s \in Samples : s[1] \in Piece(1) /\ s[2] \in Piece(2)
    BY Pieces DEF OneWireTypeOK
  <1>4. /\ sensor' \in {"ds18b20", "dht11"}
        /\ bind' \in {"out", "armed", "live", "closing", "stopped"}
        /\ tick' \in {"idle", "queue", "restart"}
        /\ work' \in {"idle", "measure", "first", "second"}
        /\ app' \in {"user", "half", "print"}
    BY <1>1 DEF OneWireTypeOK, OneWireNext, OneWireProbe, MiscRegister, MiscDeregister,
           RemoveTimer, CancelWork, SampleExpire, TickQueue, TickRestart, Work, WorkStart,
           WorkMeasure, WorkFirst, WorkSecond, AppFirst, AppSecond, AppReturn,
           oneWireVars, lifeVars, tickVars, workVars, readVars
  <1>5. {sampleTimer, queued, torn, unclean}' \subseteq BOOLEAN
    BY DEF OneWireTypeOK, OneWireNext, OneWireProbe, MiscRegister, MiscDeregister,
           RemoveTimer, CancelWork, SampleExpire, TickQueue, TickRestart, Work, WorkStart,
           WorkMeasure, WorkFirst, WorkSecond, AppFirst, AppSecond, AppReturn,
           oneWireVars, lifeVars, tickVars, workVars, readVars
  <1>6. sample' \in Samples
    BY <1>3 DEF OneWireNext, OneWireProbe, MiscRegister, MiscDeregister,
           RemoveTimer, CancelWork, SampleExpire, TickQueue, TickRestart, Work, WorkStart,
           WorkMeasure, WorkFirst, WorkSecond, AppFirst, AppSecond, AppReturn,
           oneWireVars, workVars
  <1>7. data'[1] \in Piece(1) /\ data'[2] \in Piece(2)
    <2> HIDE DEF Piece
    <2> QED
      BY <1>3 DEF OneWireNext, OneWireProbe, MiscRegister, MiscDeregister,
           RemoveTimer, CancelWork, SampleExpire, TickQueue, TickRestart, Work, WorkStart,
           WorkMeasure, WorkFirst, WorkSecond, AppFirst, AppSecond, AppReturn, oneWireVars
  <1>8. copy'[1] \in Piece(1) /\ copy'[2] \in Piece(2)
    <2> HIDE DEF Piece
    <2> QED
      BY <1>3 DEF OneWireNext, OneWireProbe, MiscRegister, MiscDeregister,
           RemoveTimer, CancelWork, SampleExpire, TickQueue, TickRestart, Work, WorkStart,
           WorkMeasure, WorkFirst, WorkSecond, AppFirst, AppSecond, AppReturn,
           oneWireVars, readVars
  <1> QED
    BY <1>2, <1>4, <1>5, <1>6, <1>7, <1>8 DEF OneWireTypeOK

(* Every variable of ds18b20.c and dht11.c keeps its type. *)
THEOREM OneWireTyping == OneWireSpec => []OneWireTypeOK
  BY InitOneWireTyped, NextOneWireTyped, PTL DEF OneWireSpec

-----------------------------------------------------------------------------
(* The end of sampling *)

\* What probe has started is stopped by the time remove cancels the work item, or never.
Stopped ==
  /\ bind \in {"armed", "live", "closing"} => ~unclean
  /\ bind \in {"stopped", "out"} /\ ~unclean => ~sampleTimer /\ tick = "idle"
  /\ bind \in {"armed", "live", "closing"} \/ unclean => sampleTimer \/ tick # "idle"

EndInv == Stopped /\ SamplingEnds

(* It holds before the first probe. *)
LEMMA InitEnd == OneWireInit => EndInv
  BY DEF OneWireInit, EndInv, Stopped, SamplingEnds

(* Every step keeps it. *)
LEMMA NextEnd == EndInv /\ [OneWireNext]_oneWireVars => EndInv'
  <1> SUFFICES ASSUME EndInv, [OneWireNext]_oneWireVars PROVE EndInv'
    OBVIOUS
  <1> USE DEF EndInv, Stopped, SamplingEnds, lifeVars, tickVars, workVars
  <1>1. CASE OneWireProbe    BY <1>1 DEF OneWireProbe
  <1>2. CASE MiscRegister    BY <1>2 DEF MiscRegister
  <1>3. CASE MiscDeregister  BY <1>3 DEF MiscDeregister
  <1>4. CASE RemoveTimer     BY <1>4 DEF RemoveTimer
  <1>5. CASE CancelWork      BY <1>5 DEF CancelWork
  <1>6. CASE SampleExpire    BY <1>6 DEF SampleExpire
  <1>7. CASE TickQueue       BY <1>7 DEF TickQueue
  <1>8. CASE TickRestart     BY <1>8 DEF TickRestart
  <1>9. CASE WorkStart       BY <1>9 DEF WorkStart
  <1>10. CASE WorkMeasure    BY <1>10 DEF WorkMeasure
  <1>11. CASE WorkFirst      BY <1>11 DEF WorkFirst
  <1>12. CASE WorkSecond     BY <1>12 DEF WorkSecond
  <1>13. CASE AppFirst       BY <1>13 DEF AppFirst
  <1>14. CASE AppSecond      BY <1>14 DEF AppSecond
  <1>15. CASE AppReturn      BY <1>15 DEF AppReturn
  <1>16. CASE UNCHANGED oneWireVars  BY <1>16 DEF oneWireVars
  <1> QED
    BY <1>1, <1>2, <1>3, <1>4, <1>5, <1>6, <1>7, <1>8, <1>9, <1>10, <1>11, <1>12, <1>13,
       <1>14, <1>15, <1>16 DEF OneWireNext, Work

(* After remove nothing samples any more (ds18b20.c:233), except when      *)
(* del_timer met the timer function while it ran (:232) or misc_register   *)
(* failed (:223): then the timer is never stopped.                         *)
THEOREM SamplingStops == OneWireSpec => []SamplingEnds
  <1>1. EndInv => SamplingEnds
    BY DEF EndInv
  <1> QED
    BY <1>1, InitEnd, NextEnd, PTL DEF OneWireSpec

-----------------------------------------------------------------------------
(* What is reported is real *)

Good(s) == s = Zero \/ (s \in Received /\ Verified(s))

\* The sample that is stored, the stored one, and the copy that is not torn, are good.
RealInv ==
  /\ sensor \in {"ds18b20", "dht11"}
  /\ Good(sample)
  /\ IF work = "second" THEN data[1] = sample[1] ELSE Good(data)
  /\ data = <<data[1], data[2]>> /\ sample = <<sample[1], sample[2]>>
  /\ app = "half" /\ ~torn => work # "second" /\ copy[1] = data[1]
  /\ app = "print" /\ ~torn => Good(copy)

(* Samples are pairs. *)
LEMMA Pairs ==
  /\ Zero = <<Zero[1], Zero[2]>>
  /\ \A s \in Received : s = <<s[1], s[2]>>
  BY OneWireAssumption DEF Zero, Received, Sent, Bytes

(* Before the first measurement the zeros count. *)
LEMMA InitReal == OneWireInit => RealInv
  BY Pairs DEF OneWireInit, RealInv, Good

(* Every step keeps it. *)
LEMMA NextReal == RealInv /\ [OneWireNext]_oneWireVars => RealInv'
  <1> SUFFICES ASSUME RealInv, [OneWireNext]_oneWireVars PROVE RealInv'
    OBVIOUS
  <1>1. sensor' = sensor
    BY DEF OneWireNext, OneWireProbe, MiscRegister, MiscDeregister, RemoveTimer, CancelWork,
           SampleExpire, TickQueue, TickRestart, Work, WorkStart, WorkMeasure, WorkFirst,
           WorkSecond, AppFirst, AppSecond, AppReturn, oneWireVars, lifeVars
  <1>2. Zero' = Zero /\ Received' = Received /\ \A s : Verified(s)' <=> Verified(s)
    BY <1>1 DEF Zero, Received, Sent, Verified
  <1>3. \A s : Good(s)' <=> Good(s)
    BY <1>2 DEF Good
  <1>4. CASE UNCHANGED <<workVars, data, readVars>>
    BY <1>1, <1>3, <1>4 DEF RealInv, workVars, readVars
  <1>5. CASE UNCHANGED <<work, sample, data, readVars>>
    BY <1>1, <1>3, <1>5 DEF RealInv, readVars
  <1>6. CASE WorkStart
    BY <1>1, <1>3, <1>6 DEF RealInv, WorkStart, readVars
  <1>7. CASE WorkMeasure
    BY <1>1, <1>3, <1>7, Pairs DEF RealInv, WorkMeasure, readVars, Good
  <1>8. CASE WorkFirst
    BY <1>1, <1>3, <1>8 DEF RealInv, WorkFirst
  <1>9. CASE WorkSecond
    BY <1>1, <1>2, <1>3, <1>9, Pairs DEF RealInv, WorkSecond, Good
  <1>10. CASE AppFirst
    BY <1>1, <1>3, <1>10 DEF RealInv, AppFirst, workVars
  <1>11. CASE AppSecond
    BY <1>1, <1>3, <1>11 DEF RealInv, AppSecond, workVars
  <1>12. CASE AppReturn
    BY <1>1, <1>3, <1>12 DEF RealInv, AppReturn, workVars
  <1> QED
    BY <1>4, <1>5, <1>6, <1>7, <1>8, <1>9, <1>10, <1>11, <1>12
    DEF OneWireNext, Work, OneWireProbe, MiscRegister, MiscDeregister, RemoveTimer,
        CancelWork, SampleExpire, TickQueue, TickRestart, oneWireVars, workVars

(* What -EINVAL is as a byte (dht11.c reads into an u8). *)
LEMMA TimeoutByte == Timeout = 234
  BY DEF Timeout

(* A sum of four bytes, and its remainder. *)
LEMMA Remainder ==
  ASSUME NEW n \in 0 .. 1020
  PROVE  /\ n % 256 \in 0 .. 255
         /\ n < 256 => n % 256 = n
         /\ n > 255 => n % 256 < n - 255
  <1>1. CASE n \in 0 .. 255     BY <1>1
  <1>2. CASE n \in 256 .. 511   BY <1>2
  <1>3. CASE n \in 512 .. 767   BY <1>3
  <1>4. CASE n \in 768 .. 1020  BY <1>4
  <1> QED
    BY <1>1, <1>2, <1>3, <1>4

\* Four bytes a and a checksum c, of which some may have timed out, for the bytes f.
Lossy(f, a, c) ==
  /\ f[1] \in 0 .. 255 /\ f[2] \in 0 .. 255 /\ f[3] \in 0 .. 255 /\ f[4] \in 0 .. 255
  /\ a[1] \in {f[1], 234} /\ a[2] \in {f[2], 234}
  /\ a[3] \in {f[3], 234} /\ a[4] \in {f[4], 234}
  /\ c \in {(f[1] + f[2] + f[3] + f[4]) % 256, 234}

\* None of them has, or one of zeros and the checksum.
Harmless(f, a, c) ==
  \/ /\ a[1] = f[1] /\ a[2] = f[2] /\ a[3] = f[3] /\ a[4] = f[4]
     /\ c = (f[1] + f[2] + f[3] + f[4]) % 256
  \/ /\ c = 234
     /\ \/ a[1] = 234 /\ a[2] = 0 /\ a[3] = 0 /\ a[4] = 0
        \/ a[1] = 0 /\ a[2] = 234 /\ a[3] = 0 /\ a[4] = 0
        \/ a[1] = 0 /\ a[2] = 0 /\ a[3] = 234 /\ a[4] = 0
        \/ a[1] = 0 /\ a[2] = 0 /\ a[3] = 0 /\ a[4] = 234

(* What the checksum lets pass. *)
LEMMA Checksum ==
  ASSUME NEW f, NEW a, NEW c, Lossy(f, a, c), a[1] + a[2] + a[3] + a[4] = c
  PROVE  Harmless(f, a, c)
  <1> DEFINE f1 == f[1]  f2 == f[2]  f3 == f[3]  f4 == f[4]
             a1 == a[1]  a2 == a[2]  a3 == a[3]  a4 == a[4]
             n == f1 + f2 + f3 + f4
             r == n % 256
  <1>1. /\ f1 \in 0 .. 255 /\ f2 \in 0 .. 255 /\ f3 \in 0 .. 255 /\ f4 \in 0 .. 255
        /\ a1 \in {f1, 234} /\ a2 \in {f2, 234} /\ a3 \in {f3, 234} /\ a4 \in {f4, 234}
        /\ a1 + a2 + a3 + a4 = c /\ c \in {r, 234}
    BY DEF Lossy
  <1>2. Harmless(f, a, c) <=>
          \/ a1 = f1 /\ a2 = f2 /\ a3 = f3 /\ a4 = f4 /\ c = r
          \/ /\ c = 234
             /\ \/ a1 = 234 /\ a2 = 0 /\ a3 = 0 /\ a4 = 0
                \/ a1 = 0 /\ a2 = 234 /\ a3 = 0 /\ a4 = 0
                \/ a1 = 0 /\ a2 = 0 /\ a3 = 234 /\ a4 = 0
                \/ a1 = 0 /\ a2 = 0 /\ a3 = 0 /\ a4 = 234
    BY DEF Harmless
  <1>3. n = f1 + f2 + f3 + f4
    OBVIOUS
  <1> HIDE DEF f1, f2, f3, f4, a1, a2, a3, a4
  <1>4. n \in 0 .. 1020
    BY <1>1
  <1>5. r \in 0 .. 255 /\ (n < 256 => r = n) /\ (n > 255 => r < n - 255)
    <2> HIDE DEF n
    <2> QED  BY <1>4, Remainder
  <1> HIDE DEF n, r
  <1>6. CASE a1 = f1 /\ a2 = f2 /\ a3 = f3 /\ a4 = f4
    <2>1. n = c
      BY <1>1, <1>3, <1>6
    <2>2. c = r
      BY <1>1, <1>5, <2>1
    <2> QED  BY <1>2, <1>6, <2>2
  <1>7. CASE a1 = 234 /\ a2 = f2 /\ a3 = f3 /\ a4 = f4
    <2>1. c = 234 \/ f1 = 234
      BY <1>1, <1>3, <1>5, <1>7
    <2>2. c = 234 => a2 = 0 /\ a3 = 0 /\ a4 = 0
      BY <1>1, <1>7
    <2> QED  BY <1>2, <1>6, <1>7, <2>1, <2>2
  <1>8. CASE a1 = f1 /\ a2 = 234 /\ a3 = f3 /\ a4 = f4
    <2>1. c = 234 \/ f2 = 234
      BY <1>1, <1>3, <1>5, <1>8
    <2>2. c = 234 => a1 = 0 /\ a3 = 0 /\ a4 = 0
      BY <1>1, <1>8
    <2> QED  BY <1>2, <1>6, <1>8, <2>1, <2>2
  <1>9. CASE a1 = f1 /\ a2 = f2 /\ a3 = 234 /\ a4 = f4
    <2>1. c = 234 \/ f3 = 234
      BY <1>1, <1>3, <1>5, <1>9
    <2>2. c = 234 => a1 = 0 /\ a2 = 0 /\ a4 = 0
      BY <1>1, <1>9
    <2> QED  BY <1>2, <1>6, <1>9, <2>1, <2>2
  <1>10. CASE a1 = f1 /\ a2 = f2 /\ a3 = f3 /\ a4 = 234
    <2>1. c = 234 \/ f4 = 234
      BY <1>1, <1>3, <1>5, <1>10
    <2>2. c = 234 => a1 = 0 /\ a2 = 0 /\ a3 = 0
      BY <1>1, <1>10
    <2> QED  BY <1>2, <1>6, <1>10, <2>1, <2>2
  <1>11. c < 256
    BY <1>1, <1>5
  <1> QED
    BY <1>1, <1>6, <1>7, <1>8, <1>9, <1>10, <1>11

(* A frame that passes the checksum is sent, or one of the four phantoms;  *)
(* a sample of DS18B20 is sent or garbled.                                 *)
LEMMA GoodIsReal ==
  ASSUME sensor \in {"ds18b20", "dht11"}, NEW s, Good(s)
  PROVE  s \in Sent \cup {Zero} \cup (IF sensor = "dht11" THEN Phantoms ELSE Garbled)
  <1>1. CASE s = Zero
    BY <1>1
  <1>2. CASE sensor = "ds18b20" /\ s # Zero
    BY <1>2 DEF Good, Received
  <1>3. CASE sensor = "dht11" /\ s # Zero
    <2>1. s \in Received /\ Sum(s[1]) = s[2]
      BY <1>3 DEF Good, Verified
    <2>2. PICK f \in Frames, lost \in SUBSET (1 .. 5) :
            s = <<[i \in 1 .. 4 |-> IF i \in lost THEN Timeout ELSE f[i]],
                  IF 5 \in lost THEN Timeout ELSE Sum(f) % 256>>
      BY <1>3, <2>1 DEF Received, Sent
    <2> DEFINE a == s[1]
    <2>3. Lossy(f, a, s[2]) /\ f = [i \in 1 .. 4 |-> f[i]]
      BY <2>2, OneWireAssumption, TimeoutByte DEF Lossy, Sum
    <2>4. a = [i \in 1 .. 4 |-> a[i]] /\ s = <<a, s[2]>>
      BY <2>2
    <2>5. a[1] + a[2] + a[3] + a[4] = s[2]
      BY <2>1 DEF Sum
    <2> HIDE DEF a
    <2>6. Harmless(f, a, s[2])
      BY <2>3, <2>5, Checksum
    <2>7. CASE /\ a[1] = f[1] /\ a[2] = f[2] /\ a[3] = f[3] /\ a[4] = f[4]
               /\ s[2] = (f[1] + f[2] + f[3] + f[4]) % 256
      <3>1. \A i \in 1 .. 4 : a[i] = f[i]
        <4>1. \A i \in 1 .. 4 : i = 1 \/ i = 2 \/ i = 3 \/ i = 4
          OBVIOUS
        <4> QED  BY <2>7, <4>1
      <3>2. a = f
        BY <2>3, <2>4, <3>1
      <3>3. s = <<f, Sum(f) % 256>>
        BY <2>4, <2>7, <3>2 DEF Sum
      <3> QED  BY <1>3, <3>3 DEF Sent
    <2>8. ASSUME NEW j \in 1 .. 4, s[2] = 234,
                 \A i \in 1 .. 4 : a[i] = IF i = j THEN 234 ELSE 0
          PROVE  s \in Phantoms
      <3>1. a = [i \in 1 .. 4 |-> IF i = j THEN Timeout ELSE 0]
        BY <2>4, <2>8, TimeoutByte
      <3>2. s = <<[i \in 1 .. 4 |-> IF i = j THEN Timeout ELSE 0], Timeout>>
        BY <2>4, <2>8, <3>1, TimeoutByte
      <3> QED  BY <3>2 DEF Phantoms
    <2>9. \A i \in 1 .. 4 : i = 1 \/ i = 2 \/ i = 3 \/ i = 4
      OBVIOUS
    <2>10. CASE s[2] = 234 /\ a[1] = 234 /\ a[2] = 0 /\ a[3] = 0 /\ a[4] = 0
      <3>1. \A i \in 1 .. 4 : a[i] = IF i = 1 THEN 234 ELSE 0
        BY <2>9, <2>10
      <3> QED  BY <1>3, <2>8, <2>10, <3>1
    <2>11. CASE s[2] = 234 /\ a[1] = 0 /\ a[2] = 234 /\ a[3] = 0 /\ a[4] = 0
      <3>1. \A i \in 1 .. 4 : a[i] = IF i = 2 THEN 234 ELSE 0
        BY <2>9, <2>11
      <3> QED  BY <1>3, <2>8, <2>11, <3>1
    <2>12. CASE s[2] = 234 /\ a[1] = 0 /\ a[2] = 0 /\ a[3] = 234 /\ a[4] = 0
      <3>1. \A i \in 1 .. 4 : a[i] = IF i = 3 THEN 234 ELSE 0
        BY <2>9, <2>12
      <3> QED  BY <1>3, <2>8, <2>12, <3>1
    <2>13. CASE s[2] = 234 /\ a[1] = 0 /\ a[2] = 0 /\ a[3] = 0 /\ a[4] = 234
      <3>1. \A i \in 1 .. 4 : a[i] = IF i = 4 THEN 234 ELSE 0
        BY <2>9, <2>13
      <3> QED  BY <1>3, <2>8, <2>13, <3>1
    <2> QED
      BY <2>6, <2>7, <2>10, <2>11, <2>12, <2>13 DEF Harmless
  <1> QED
    BY <1>1, <1>2, <1>3

(* What the application prints, unless a store overlapped its read, is one *)
(* measurement as the line gave it, or the zeros of before the first: from *)
(* DHT11 what the sensor sent or one of four frames at zero whose timeouts *)
(* cancel out (dht11App.c:32), from DS18B20 what it sent or garbled bytes. *)
THEOREM Reporting == OneWireSpec => []ReportsReal
  <1>1. RealInv => ReportsReal
    BY GoodIsReal DEF RealInv, ReportsReal
  <1> QED
    BY <1>1, InitReal, NextReal, PTL DEF OneWireSpec

-----------------------------------------------------------------------------
(* The temperatures of DS18B20 *)

(* The high byte counts the 256s; below zero it is counted from 256.       *)
LEMMA HighByte ==
  ASSUME NEW t \in -880 .. 2000
  PROVE  \E k \in -4 .. 7 : /\ t - 256 * k \in 0 .. 255
                            /\ t % 256 = t - 256 * k
                            /\ (t % 65536) \div 256 = IF k < 0 THEN 256 + k ELSE k
<1>1. ASSUME NEW k \in 0 .. 7, t \in 256 * k .. 256 * k + 255
      PROVE  t % 256 = t - 256 * k /\ (t % 65536) \div 256 = k
  <2>1. t % 65536 = t
    BY <1>1
  <2>2. t % 256 = t - 256 * k /\ t \div 256 = k
    BY <1>1
  <2>3. QED
    BY <2>1, <2>2
<1>2. ASSUME NEW k \in -4 .. -1, t \in 256 * k .. 256 * k + 255
      PROVE  t % 256 = t - 256 * k /\ (t % 65536) \div 256 = 256 + k
  <2>1. t % 65536 = t + 65536
    BY <1>2
  <2>2. t % 256 = t - 256 * k /\ (t + 65536) \div 256 = 256 + k
    BY <1>2
  <2>3. QED
    BY <2>1, <2>2
<1>3. \E k \in -4 .. 7 : t \in 256 * k .. 256 * k + 255
  OBVIOUS
<1>4. PICK k \in -4 .. 7 : t \in 256 * k .. 256 * k + 255
  BY <1>3
<1>5. CASE k \in 0 .. 7
  BY <1>1, <1>4, <1>5
<1>6. CASE k \in -4 .. -1
  BY <1>2, <1>4, <1>6
<1>7. QED
  BY <1>5, <1>6

\* What the sensor measures, in sixteenths of a degree: -55 to 125 degrees.
Measurable == -880 .. 2000

(* ds18b20App.c:39 complements the low byte as an int, with all the bits   *)
(* above it: what is printed is right from zero on, and 256 sixteenths too *)
(* high below.                                                             *)
LEMMA Conversion ==
  \A t \in Measurable : /\ t < 0 => Shown(Bytes(t)) = t + 256
                        /\ ~(t < 0) => Shown(Bytes(t)) = t
<1> SUFFICES ASSUME NEW t \in Measurable
             PROVE  /\ t < 0 => Shown(Bytes(t)) = t + 256
                    /\ ~(t < 0) => Shown(Bytes(t)) = t
  OBVIOUS
<1>1. PICK k \in -4 .. 7 : /\ t - 256 * k \in 0 .. 255
                           /\ t % 256 = t - 256 * k
                           /\ (t % 65536) \div 256 = IF k < 0 THEN 256 + k ELSE k
  BY HighByte DEF Measurable
<1>2. CASE k \in 0 .. 7
  <2>1. Bytes(t)[1] = t - 256 * k /\ Bytes(t)[2] = k /\ t >= 0
    BY <1>1, <1>2 DEF Bytes, Measurable
  <2>2. Short(k) = k /\ Short(k * 256) = k * 256 /\ Short(k * 256 + (t - 256 * k)) = t
    BY <1>1, <1>2 DEF Short, Measurable
  <2>3. QED
    BY <1>1, <1>2, <2>1, <2>2 DEF Shown, Measurable
<1>3. CASE k \in -4 .. -1
  <2>1. Bytes(t)[1] = t - 256 * k /\ Bytes(t)[2] = 256 + k /\ t < 0
    BY <1>1, <1>3 DEF Bytes, Measurable
  <2>2. /\ Short(-(256 + k) - 1) = -257 - k
        /\ Short((-257 - k) * 256) = -256 - 256 * k
        /\ Short(-256 - 256 * k + (-(t - 256 * k) - 1)) = -257 - t
    BY <1>1, <1>3 DEF Short, Measurable
  <2>3. QED
    BY <1>1, <1>3, <2>1, <2>2 DEF Shown, Measurable
<1>4. QED
  BY <1>1, <1>2, <1>3

(* What the application of DS18B20 prints (ds18b20App.c:54) is a           *)
(* temperature that was measured, or one below zero sixteen degrees too    *)
(* high, or the zero of before the first.  The exceptions are a read that  *)
(* a store overlapped and bytes that the line garbled.                     *)
THEOREM Printing ==
  OneWireSpec =>
    [](app = "print" /\ sensor = "ds18b20" /\ Used(copy) =>
         \/ torn
         \/ copy \in Garbled
         \/ \E t \in Temperatures \cup {0} :
              copy = Bytes(t) /\ Shown(copy) = IF t < 0 THEN t + 256 ELSE t)
<1> DEFINE Prints ==
      app = "print" /\ sensor = "ds18b20" /\ Used(copy) =>
        \/ torn
        \/ copy \in Garbled
        \/ \E t \in Temperatures \cup {0} :
             copy = Bytes(t) /\ Shown(copy) = IF t < 0 THEN t + 256 ELSE t
<1>1. ReportsReal => Prints
  <2> SUFFICES ASSUME ReportsReal, app = "print", sensor = "ds18b20", Used(copy),
                      ~torn, copy \notin Garbled
               PROVE  \E t \in Temperatures \cup {0} :
                        copy = Bytes(t) /\ Shown(copy) = IF t < 0 THEN t + 256 ELSE t
    OBVIOUS
  <2>1. copy \in Sent \cup {Zero}
    BY Zenon DEF ReportsReal
  <2>2. \E t \in Temperatures \cup {0} : copy = Bytes(t)
    <3>1. Zero = Bytes(0)
      BY DEF Zero, Bytes
    <3>2. Sent = {Bytes(t) : t \in Temperatures}
      BY DEF Sent
    <3>3. CASE copy \in Sent
      BY <3>2, <3>3
    <3>4. CASE copy = Zero
      BY <3>1, <3>4
    <3>5. QED
      BY <2>1, <3>3, <3>4
  <2>3. PICK t \in Temperatures \cup {0} : copy = Bytes(t)
    BY <2>2
  <2>4. t \in Measurable
    BY OneWireAssumption DEF Measurable
  <2>5. /\ t < 0 => Shown(Bytes(t)) = t + 256
        /\ ~(t < 0) => Shown(Bytes(t)) = t
    BY <2>4, Conversion, Zenon
  <2>6. Shown(copy) = IF t < 0 THEN t + 256 ELSE t
    BY <2>3, <2>5
  <2>7. QED
    BY <2>3, <2>6
<1>2. QED
  BY <1>1, Reporting, PTL

(* Above zero it is what was measured: the fault of MCBelowZero is the     *)
(* only one of the conversion (ds18b20App.c:48).                           *)
THEOREM ShownAboveZero ==
  ASSUME Temperatures \subseteq Nat
  PROVE  OneWireSpec => []ShowsMeasured
<1>1. ShowsMeasured
  <2> SUFFICES ASSUME NEW t \in Temperatures PROVE Shown(Bytes(t)) = t
    BY DEF ShowsMeasured
  <2>1. t \in Measurable
    BY OneWireAssumption DEF Measurable
  <2>2. /\ t < 0 => Shown(Bytes(t)) = t + 256
        /\ ~(t < 0) => Shown(Bytes(t)) = t
    BY <2>1, Conversion, Zenon
  <2>3. ~(t < 0)
    OBVIOUS
  <2>4. QED
    BY <2>2, <2>3, Zenon
<1>2. QED
  BY <1>1, PTL

-----------------------------------------------------------------------------
(* The IIO device *)

\* If the interrupt is off although it should be on, a client is still switching.
DataInv ==
  chip = "ready" /\ buffer /\ ~intEnable =>
    \E c \in Clients : call[c] \in {"attach", "disable"}

IioInv == IioTypeOK /\ DataInv

(* The invariant holds when the device is registered. *)
LEMMA InitIio == IioInit => IioInv
  BY ClientsAssumption DEF IioInit, IioInv, IioTypeOK, DataInv

(* Every variable keeps its type. *)
LEMMA IioTyped == IioTypeOK /\ [IioNext]_iioVars => IioTypeOK'
  <1> SUFFICES ASSUME IioTypeOK, [IioNext]_iioVars PROVE IioTypeOK'
    OBVIOUS
  <1> USE ClientsAssumption DEF IioTypeOK, Toggling, Move
  <1>1. CASE ChipReset \/ ChipReady \/ TriggerRun \/ TriggerDone
    BY <1>1 DEF ChipReset, ChipReady, TriggerRun, TriggerDone
  <1>2. ASSUME NEW c \in Clients, Claim(c) \/ TransferBegin(c) \/ TransferEnd(c)
        PROVE  IioTypeOK'
    BY <1>2 DEF Claim, TransferBegin, TransferEnd
  <1>3. ASSUME NEW c \in Clients, ReleaseClaim(c) \/ Toggle(c) \/ ToggleDone(c)
        PROVE  IioTypeOK'
    BY <1>3 DEF ReleaseClaim, Toggle, ToggleDone
  <1>4. ASSUME NEW c \in Clients, SetMode(c) \/ SetTrigger(c)
        PROVE  IioTypeOK'
    BY <1>4 DEF SetMode, SetTrigger
  <1>5. CASE UNCHANGED iioVars
    BY <1>5 DEF iioVars
  <1> QED
    BY <1>1, <1>2, <1>3, <1>4, <1>5 DEF IioNext

(* A client that is in its system call stays the reason, a new one comes   *)
(* with each switch, and it goes only when the interrupt or the mode does. *)
LEMMA DataKept == IioTypeOK /\ DataInv /\ [IioNext]_iioVars => DataInv'
  <1> SUFFICES ASSUME IioTypeOK, DataInv, [IioNext]_iioVars PROVE DataInv'
    OBVIOUS
  <1> USE DEF IioTypeOK, DataInv, Move
  <1>1. CASE ChipReset \/ ChipReady \/ TriggerRun \/ TriggerDone
    BY <1>1 DEF ChipReset, ChipReady, TriggerRun, TriggerDone
  <1>2. ASSUME NEW c \in Clients, Claim(c) \/ TransferBegin(c) \/ TransferEnd(c)
        PROVE  DataInv'
    BY <1>2 DEF Claim, TransferBegin, TransferEnd
  <1>3. ASSUME NEW c \in Clients, ReleaseClaim(c) \/ Toggle(c) \/ ToggleDone(c)
        PROVE  DataInv'
    BY <1>3 DEF ReleaseClaim, Toggle, ToggleDone
  <1>4. ASSUME NEW c \in Clients, SetMode(c) PROVE DataInv'
    BY <1>4 DEF SetMode
  <1>5. ASSUME NEW c \in Clients, SetTrigger(c) PROVE DataInv'
    BY <1>5 DEF SetTrigger
  <1>6. CASE UNCHANGED iioVars
    BY <1>6 DEF iioVars
  <1> QED
    BY <1>1, <1>2, <1>3, <1>4, <1>5, <1>6 DEF IioNext

(* It is an invariant of the driver. *)
THEOREM IioInvariant == IioSpec => []IioInv
  BY InitIio, IioTyped, DataKept, PTL DEF IioSpec, IioInv

(* Every variable of the IIO device keeps its type. *)
THEOREM IioTyping == IioSpec => []IioTypeOK
  BY IioInvariant, PTL DEF IioInv

(* A buffer that is on, with no client switching, has its interrupt        *)
(* (icm20608.c:557), for any number of clients.                            *)
THEOREM BufferFlows == IioSpec => []BufferGetsData
  <1>1. IioInv => BufferGetsData
    BY DEF IioInv, DataInv, BufferGetsData, Toggling
  <1> QED
    BY <1>1, IioInvariant, PTL
=============================================================================
