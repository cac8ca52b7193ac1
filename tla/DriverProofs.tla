------------------------------ MODULE DriverProofs ------------------------------
(***************************************************************************)
(* Proofs about four drivers: the push button, for any number of edges;    *)
(* the serial port, for FIFOs and ring buffers of any size; the SDIO       *)
(* slave, for any number of buffers of any size; and the I2C master, for   *)
(* any bytes.                                                              *)
(***************************************************************************)
EXTENDS Key, Uart, Sdio, I2cMaster, SequenceTheorems, WellFoundedInduction, TLAPS

-------------------------------------------------------------------------------
(* The push button.                                                        *)
KeyTypeOK ==
  /\ pin \in {0, 1} /\ edges \in Nat
  /\ intrType \in {"NEGEDGE", "POSEDGE", "DISABLE"} /\ intrStatus \in BOOLEAN
  /\ handler \in {"none", "interrupt", "up", "bounce"}
  /\ key_level \in {0, 1} /\ key_5s \in BOOLEAN /\ key_50ms \in BOOLEAN
  /\ presses \in Nat /\ shorts \in Nat /\ longs \in Nat

(* While the handler runs or the short timer is armed, never both, the     *)
(* interrupt is disabled; otherwise it is enabled.                         *)
OneAtATime ==
  /\ intrType = "DISABLE" <=> handler # "none" \/ key_50ms
  /\ ~(handler # "none" /\ key_50ms)
  /\ intrType = "DISABLE" => ~intrStatus

(* The short timer is armed, and its callback goes on, only for a key that *)
(* is down.                                                                *)
ReleaseOfPressed == key_50ms \/ handler \in {"up", "bounce"} => key_level = 0

(* The edges so far agree with the level of the pin; an interrupt of a key *)
(* that is up was raised by a falling edge no press has counted yet, and a *)
(* callback that read a high pin saw the press that it ends rise.          *)
EdgesUsed ==
  /\ edges % 2 = 1 - pin
  /\ intrType = "POSEDGE" => key_level = 0
  /\ key_level = 1 /\ (intrStatus \/ handler = "interrupt") => 2 * presses < edges
  /\ handler = "up" => 2 * presses <= edges

KeyCore == KeyTypeOK /\ OneAtATime /\ ReleaseOfPressed /\ OneCallPerPress
KeyIInv == KeyCore /\ CallsAreReal /\ EdgesUsed

LEMMA KeyInitial == KeyInit => KeyIInv
<1> SUFFICES ASSUME KeyInit
             PROVE  KeyIInv
  OBVIOUS
<1>1. KeyTypeOK
  BY DEF KeyInit, KeyTypeOK
<1>2. OneAtATime
  BY Zenon DEF KeyInit, OneAtATime
<1>3. ReleaseOfPressed
  BY DEF KeyInit, ReleaseOfPressed
<1>4. OneCallPerPress
  BY DEF KeyInit, OneCallPerPress
<1>5. CallsAreReal
  BY DEF KeyInit, CallsAreReal
<1>6. EdgesUsed
  BY DEF KeyInit, EdgesUsed
<1> QED
  BY <1>1, <1>2, <1>3, <1>4, <1>5, <1>6 DEF KeyIInv, KeyCore

LEMMA KeyCoreStep == KeyCore /\ [KeyNext]_keyVars => KeyCore'
<1> SUFFICES ASSUME KeyCore, [KeyNext]_keyVars
             PROVE  KeyCore'
  OBVIOUS
<1> USE DEF KeyCore, KeyTypeOK, OneAtATime, ReleaseOfPressed, OneCallPerPress, keyHistory
<1>1. CASE PinChanges
  BY <1>1 DEF PinChanges
<1>2. CASE KeyIntrHandler
  BY <1>2 DEF KeyIntrHandler
<1>3. CASE KeyIntrPressed
  BY <1>3 DEF KeyIntrPressed
<1>4. CASE KeyIntrReleased
  BY <1>4 DEF KeyIntrReleased
<1>5. CASE Key5sCb
  <2> USE <1>5 DEF Key5sCb
  <2>1. longs' \in Nat /\ longs' <= presses'
    OBVIOUS
  <2>2. ~key_5s' /\ presses' = shorts' + (1 - key_level')
    OBVIOUS
  <2>3. OneCallPerPress'
    BY <2>1, <2>2
  <2>4. KeyTypeOK'
    BY <2>1
  <2>5. OneAtATime' /\ ReleaseOfPressed'
    OBVIOUS
  <2> QED
    BY <2>3, <2>4, <2>5, Zenon
<1>6. CASE Key50msCb
  <2> USE <1>6 DEF Key50msCb
  <2>1. handler' \in {"up", "bounce"}
    OBVIOUS
  <2>2. OneAtATime'
    BY <2>1
  <2>3. KeyTypeOK' /\ ReleaseOfPressed' /\ OneCallPerPress'
    BY <2>1
  <2> QED
    BY <2>2, <2>3, Zenon
<1>7. CASE KeyIsUp
  <2> USE <1>7 DEF KeyIsUp
  <2>1. presses' = shorts' + (1 - key_level') /\ longs' <= presses'
    OBVIOUS
  <2>2. OneCallPerPress'
    BY <2>1
  <2>3. shorts' \in Nat
    OBVIOUS
  <2>4. KeyTypeOK'
    BY <2>3, Zenon
  <2>5. OneAtATime' /\ ReleaseOfPressed'
    OBVIOUS
  <2> QED
    BY <2>2, <2>4, <2>5, Zenon
<1>8. CASE KeyBounced
  BY <1>8 DEF KeyBounced
<1>9. CASE UNCHANGED keyVars
  BY <1>9, Zenon DEF keyVars
<1> QED
  BY <1>1, <1>2, <1>3, <1>4, <1>5, <1>6, <1>7, <1>8, <1>9 DEF KeyNext

LEMMA KeyEdgesStep == KeyIInv /\ [KeyNext]_keyVars => CallsAreReal' /\ EdgesUsed'
<1> SUFFICES ASSUME KeyIInv, [KeyNext]_keyVars
             PROVE  CallsAreReal' /\ EdgesUsed'
  OBVIOUS
<1> USE DEF KeyIInv, KeyCore, KeyTypeOK, CallsAreReal, EdgesUsed, keyHistory
<1>1. CASE PinChanges
  <2> USE <1>1 DEF PinChanges
  <2>1. edges' = edges + 1 /\ pin' = 1 - pin
    OBVIOUS
  <2>2. edges' % 2 = 1 - pin'
    BY <2>1
  <2>3. CallsAreReal'
    BY <2>1
  <2>4. ASSUME key_level' = 1, intrStatus' \/ handler' = "interrupt"
        PROVE  2 * presses' < edges'
    <3>1. CASE intrStatus \/ handler = "interrupt"
      BY <2>1, <2>4, <3>1
    <3>2. CASE intrType = "NEGEDGE" /\ pin = 1
      <4>1. edges % 2 = 0
        BY <3>2
      <4>2. 2 * presses <= edges
        BY <4>1
      <4> QED
        BY <2>1, <4>2
    <3> QED
      BY <2>4, <3>1, <3>2
  <2>5. handler' = "up" => 2 * presses' <= edges'
    BY <2>1
  <2> QED
    BY <2>2, <2>3, <2>4, <2>5
<1>2. CASE KeyIntrHandler
  BY <1>2 DEF KeyIntrHandler
<1>3. CASE KeyIntrPressed
  BY <1>3 DEF KeyIntrPressed, OneAtATime
<1>4. CASE KeyIntrReleased
  BY <1>4 DEF KeyIntrReleased
<1>5. CASE Key5sCb
  BY <1>5 DEF Key5sCb
<1>6. CASE Key50msCb
  <2>1. pin = 1 => 2 * presses <= edges
    OBVIOUS
  <2> QED
    BY <1>6, <2>1 DEF Key50msCb
<1>7. CASE KeyIsUp
  <2>1. presses = shorts + 1 /\ 2 * presses <= edges /\ ~intrStatus
    BY <1>7 DEF KeyIsUp, ReleaseOfPressed, OneCallPerPress, OneAtATime
  <2> QED
    BY <1>7, <2>1 DEF KeyIsUp
<1>8. CASE KeyBounced
  BY <1>8 DEF KeyBounced, ReleaseOfPressed
<1>9. CASE UNCHANGED keyVars
  BY <1>9 DEF keyVars
<1> QED
  BY <1>1, <1>2, <1>3, <1>4, <1>5, <1>6, <1>7, <1>8, <1>9 DEF KeyNext

LEMMA KeyStep == KeyIInv /\ [KeyNext]_keyVars => KeyIInv'
BY KeyCoreStep, KeyEdgesStep DEF KeyIInv

(* However often and whenever the pin moves: every press that was noticed  *)
(* ends in one call of short_press(), the long press is reported once at   *)
(* most, its timer stops with the press, no call is made of a bounce, and  *)
(* the interrupt of the key is never left disabled for good                *)
(* (key.c:102-173).  A press may go unnoticed (KeyLevelTrue).              *)
THEOREM KeyCorrect == KeySpec => []KeyHeard
<1>1. KeyIInv => OneCallPerPress /\ CallsAreReal
  BY DEF KeyIInv, KeyCore
<1>2. KeyIInv => KeyNeverDeaf
  BY DEF KeyIInv, KeyCore, OneAtATime, KeyNeverDeaf
<1>3. KeyIInv => KeyHeard
  BY <1>1, <1>2 DEF KeyHeard
<1> QED
  BY <1>3, KeyInitial, KeyStep, PTL DEF KeySpec

-------------------------------------------------------------------------------
(* The ring buffers of the serial port.                                    *)
(* A position in a ring.                                                   *)
Wrap(x, size) == IF x < size THEN x ELSE x - size

LEMMA Wraps ==
  ASSUME NEW size \in Nat \ {0}, NEW x \in 0..(2 * size - 1)
  PROVE  x % size = Wrap(x, size) /\ Wrap(x, size) \in 0..(size - 1)
<1>1. CASE x < size
  BY <1>1 DEF Wrap
<1>2. CASE x >= size
  BY <1>2 DEF Wrap
<1> QED
  BY <1>1, <1>2

(* A ring of the given size: the bytes it keeps begin at its out position  *)
(* and end before its in position, round the end.                          *)
Rings(size) == [bytes : [0..(size - 1) -> Int], in : 0..(size - 1), out : 0..(size - 1),
                space : 0..size, size : {size}]

RingOK(ring, size) ==
  /\ ring \in Rings(size)
  /\ ring.in = Wrap(ring.out + (size - ring.space), size)

LEMMA SameRing ==
  ASSUME NEW size \in Nat \ {0}, NEW a \in Rings(size), NEW b \in Rings(size),
         a.bytes = b.bytes, a.in = b.in, a.out = b.out, a.space = b.space
  PROVE  a = b
BY DEF Rings

LEMMA RingFields ==
  ASSUME NEW size \in Nat \ {0}, NEW ring \in Rings(size)
  PROVE  /\ ring.bytes \in [0..(size - 1) -> Int] /\ ring.in \in 0..(size - 1)
         /\ ring.out \in 0..(size - 1) /\ ring.space \in 0..size /\ ring.size = size
         /\ ring.in \in Nat /\ ring.out \in Nat /\ ring.space \in Nat
BY DEF Rings

(* The bytes a reader takes.                                               *)
LEMMA Cells ==
  ASSUME NEW size \in Nat \ {0}, NEW ring \in Rings(size), NEW n \in 0..size
  PROVE  /\ DequeuedEach(ring, n) \in Seq(Int) /\ Len(DequeuedEach(ring, n)) = n
         /\ \A i \in 1..n : DequeuedEach(ring, n)[i] = ring.bytes[Wrap(ring.out + i - 1, size)]
<1> DEFINE cell(i) == ring.bytes[(ring.out + i - 1) % ring.size]
<1>1. \A i \in 1..n : /\ cell(i) = ring.bytes[Wrap(ring.out + i - 1, size)]
                      /\ cell(i) \in Int
  <2> SUFFICES ASSUME NEW i \in 1..n
               PROVE  /\ cell(i) = ring.bytes[Wrap(ring.out + i - 1, size)]
                      /\ cell(i) \in Int
    OBVIOUS
  <2>1. ring.out + i - 1 \in 0..(2 * size - 1)
    <3>1. ring.out \in Nat /\ ring.out < size /\ i \in Nat /\ 1 <= i /\ i <= size
      BY RingFields
    <3> QED
      BY <3>1
  <2>2. /\ (ring.out + i - 1) % size = Wrap(ring.out + i - 1, size)
        /\ Wrap(ring.out + i - 1, size) \in 0..(size - 1)
    BY <2>1, Wraps
  <2> QED
    BY <2>2, RingFields
<1>2. DequeuedEach(ring, n) = [i \in 1..n |-> cell(i)]
  BY DEF DequeuedEach
<1> HIDE DEF cell
<1>3. n \in Nat
  OBVIOUS
<1>4. [i \in 1..n |-> cell(i)] \in Seq(Int)
  <2>1. [i \in 1..n |-> cell(i)] \in [1..n -> Int]
    BY <1>1, Zenon
  <2> QED
    BY <2>1, <1>3
<1>5. Len([i \in 1..n |-> cell(i)]) = n
  BY <1>3
<1> QED
  BY <1>1, <1>2, <1>4, <1>5

LEMMA ConsumedRing ==
  ASSUME NEW size \in Nat \ {0}, NEW ring, RingOK(ring, size), NEW n \in 0..(size - ring.space)
  PROVE  /\ RingOK(Consumed(ring, n), size)
         /\ Consumed(ring, n).bytes = ring.bytes
         /\ Consumed(ring, n).out = Wrap(ring.out + n, size)
         /\ Consumed(ring, n).in = ring.in
         /\ Consumed(ring, n).space = ring.space + n
<1>1. ring \in Rings(size) /\ ring.in = Wrap(ring.out + (size - ring.space), size)
  BY DEF RingOK
<1>2. /\ ring.bytes \in [0..(size - 1) -> Int] /\ ring.in \in 0..(size - 1)
      /\ ring.out \in 0..(size - 1) /\ ring.space \in 0..size /\ ring.size = size
  BY <1>1, RingFields
<1> DEFINE k == size - (ring.space + n)
<1>3. n \in Nat /\ k \in Nat /\ n + k = size - ring.space /\ n + k <= size
      /\ ring.space + n \in 0..size
  <2>1. ring.space \in Nat /\ ring.space <= size
    BY <1>2
  <2>2. n \in Nat /\ n <= size - ring.space
    BY <2>1
  <2> QED
    BY <2>1, <2>2
<1> HIDE DEF k
<1>4. /\ ring.out + n \in 0..(2 * size - 1)
      /\ Wrap(Wrap(ring.out + n, size) + k, size) = Wrap(ring.out + (n + k), size)
  <2>1. ring.out \in Nat /\ ring.out < size /\ n \in Nat /\ k \in Nat /\ n + k <= size
    BY <1>2, <1>3
  <2>2. ring.out + n \in 0..(2 * size - 1)
    BY <2>1
  <2>3. CASE ring.out + n < size
    BY <2>1, <2>3 DEF Wrap
  <2>4. CASE ~(ring.out + n < size)
    BY <2>1, <2>4 DEF Wrap
  <2> QED
    BY <2>2, <2>3, <2>4
<1>5. /\ (ring.out + n) % size = Wrap(ring.out + n, size)
      /\ Wrap(ring.out + n, size) \in 0..(size - 1)
  BY <1>4, Wraps
<1> DEFINE out == Wrap(ring.out + n, size)
<1> DEFINE space == ring.space + n
<1>6. Consumed(ring, n) = [ring EXCEPT !.out = out, !.space = space]
  BY <1>1, <1>2, <1>5 DEF Consumed, Rings
<1>7. out \in 0..(size - 1) /\ space \in 0..size
  BY <1>3, <1>5
<1> HIDE DEF out, space
<1>8. /\ Consumed(ring, n) \in Rings(size)
      /\ Consumed(ring, n).bytes = ring.bytes
      /\ Consumed(ring, n).out = out
      /\ Consumed(ring, n).in = ring.in
      /\ Consumed(ring, n).space = space
  BY <1>1, <1>6, <1>7 DEF Rings
<1>9. Consumed(ring, n).in = Wrap(Consumed(ring, n).out + (size - Consumed(ring, n).space), size)
  BY <1>1, <1>3, <1>4, <1>8 DEF k, out, space
<1> QED
  BY <1>8, <1>9 DEF RingOK, out, space

(* Two reads in a row are one.                                             *)
LEMMA DequeuedTwice ==
  ASSUME NEW size \in Nat \ {0}, NEW ring, RingOK(ring, size),
         NEW m \in 0..(size - ring.space), NEW n \in 0..m
  PROVE  /\ DequeuedEach(ring, n) \o DequeuedEach(Consumed(ring, n), m - n) = DequeuedEach(ring, m)
         /\ Consumed(Consumed(ring, n), m - n) = Consumed(ring, m)
<1> DEFINE k == m - n
<1>1. ring.space \in 0..size
  BY RingFields DEF RingOK
<1>2. /\ n \in Nat /\ k \in Nat /\ n + k = m
       /\ n \in 0..(size - ring.space) /\ n + k \in 0..(size - ring.space)
  BY <1>1
<1> HIDE DEF k
<1> DEFINE rest == Consumed(ring, n)
<1> DEFINE last == Consumed(rest, k)
<1> DEFINE once == Consumed(ring, n + k)
<1>3. ring \in Rings(size)
  BY DEF RingOK
<1>4. /\ ring.out \in 0..(size - 1) /\ ring.space \in 0..size /\ ring.size = size
      /\ ring.out \in Nat /\ ring.space \in Nat
  BY <1>3, RingFields
<1>5. n \in 0..(size - ring.space) /\ n + k \in 0..(size - ring.space)
  BY <1>2
<1>6. /\ RingOK(rest, size) /\ rest \in Rings(size) /\ rest.bytes = ring.bytes
      /\ rest.out = Wrap(ring.out + n, size) /\ rest.space = ring.space + n
      /\ rest.in = ring.in
  BY <1>5, ConsumedRing DEF RingOK
<1>7. /\ once \in Rings(size) /\ once.bytes = ring.bytes /\ once.in = ring.in
      /\ once.out = Wrap(ring.out + (n + k), size) /\ once.space = ring.space + (n + k)
  BY <1>5, ConsumedRing DEF RingOK
<1> HIDE DEF rest, once
<1>8. k \in 0..(size - rest.space)
  BY <1>2, <1>4, <1>6
<1>9. /\ last \in Rings(size) /\ last.bytes = rest.bytes /\ last.in = rest.in
      /\ last.out = Wrap(rest.out + k, size) /\ last.space = rest.space + k
  BY <1>6, <1>8, ConsumedRing DEF RingOK
<1> HIDE DEF last
<1>10. n \in Nat /\ k \in Nat /\ n + k \in Nat /\ n + k <= size
  BY <1>2, <1>4
<1>11. last.space = once.space
  BY <1>4, <1>6, <1>7, <1>10, <1>9
<1>12. last.out = once.out
  <2>1. CASE ring.out + n < size
    BY <2>1, <1>4, <1>6, <1>7, <1>10, <1>9 DEF Wrap
  <2>2. CASE ~(ring.out + n < size)
    BY <2>2, <1>4, <1>6, <1>7, <1>10, <1>9 DEF Wrap
  <2> QED
    BY <2>1, <2>2
<1>13. last = once
  BY <1>6, <1>7, <1>9, <1>11, <1>12, SameRing
<1>14. n \in 0..size /\ k \in 0..size /\ n + k \in 0..size
  BY <1>10
<1> DEFINE all == DequeuedEach(ring, n + k)
<1> DEFINE first == DequeuedEach(ring, n)
<1> DEFINE second == DequeuedEach(rest, k)
<1>15. /\ all \in Seq(Int) /\ Len(all) = n + k
      /\ \A i \in 1..(n + k) : all[i] = ring.bytes[Wrap(ring.out + i - 1, size)]
  BY <1>3, <1>14, Cells
<1>16. /\ first \in Seq(Int) /\ Len(first) = n
      /\ \A i \in 1..n : first[i] = ring.bytes[Wrap(ring.out + i - 1, size)]
  BY <1>3, <1>14, Cells
<1>17. /\ second \in Seq(Int) /\ Len(second) = k
      /\ \A i \in 1..k : second[i] = ring.bytes[Wrap(rest.out + i - 1, size)]
  <2>1. /\ second \in Seq(Int) /\ Len(second) = k
        /\ \A i \in 1..k : second[i] = rest.bytes[Wrap(rest.out + i - 1, size)]
    BY <1>6, <1>14, Cells
  <2> QED
    BY <2>1, <1>6
<1> HIDE DEF all, first, second
<1>18. /\ first \o second \in Seq(Int) /\ Len(first \o second) = n + k
       /\ \A i \in 1..(n + k) :
            (first \o second)[i] = IF i <= n THEN first[i] ELSE second[i - n]
  <2>1. first \in Seq(Int) /\ second \in Seq(Int)
    BY <1>16, <1>17
  <2>2. /\ first \o second \in Seq(Int) /\ Len(first \o second) = Len(first) + Len(second)
        /\ \A i \in 1..(Len(first) + Len(second)) :
             (first \o second)[i] = IF i <= Len(first) THEN first[i] ELSE second[i - Len(first)]
    BY <2>1, ConcatProperties
  <2>3. Len(first) = n /\ Len(second) = k
    BY <1>16, <1>17
  <2> QED
    BY <2>2, <2>3
<1>19. \A i \in 1..(n + k) : (first \o second)[i] = all[i]
  <2> SUFFICES ASSUME NEW i \in 1..(n + k)
               PROVE  (first \o second)[i] = all[i]
    OBVIOUS
  <2>1. CASE i <= n
    <3>1. i \in 1..n
      BY <2>1, <1>10
    <3> QED
      BY <2>1, <3>1, <1>15, <1>16, <1>18
  <2>2. CASE ~(i <= n)
    <3>1. i - n \in 1..k /\ i - n \in Nat /\ i - n > 0 /\ n + (i - n) = i /\ n + (i - n) <= size
      BY <2>2, <1>10
    <3>2. (first \o second)[i] = ring.bytes[Wrap(rest.out + (i - n) - 1, size)]
      BY <2>2, <3>1, <1>17, <1>18
    <3>3. Wrap(rest.out + (i - n) - 1, size) = Wrap(ring.out + i - 1, size)
      BY <1>4, <1>6, <1>10, <3>1 DEF Wrap
    <3> QED
      BY <3>2, <3>3, <1>15
  <2> QED
    BY <2>1, <2>2
<1>20. first \o second = all
  BY <1>15, <1>18, <1>19, SeqEqual
<1> QED
  BY <1>13, <1>20, <1>2 DEF all, first, second, rest, last, once, k

(* What a ring that lost its first n bytes holds is the rest.              *)
LEMMA Consuming ==
  ASSUME NEW size \in Nat \ {0}, NEW ring, RingOK(ring, size), NEW n \in 0..(size - ring.space)
  PROVE  DequeuedEach(ring, n) \o Stored(Consumed(ring, n)) = Stored(ring)
<1> DEFINE m == size - ring.space
<1>1. ring.space \in 0..size /\ ring.size = size
  BY RingFields DEF RingOK
<1>2. /\ Consumed(ring, n).size = size /\ Consumed(ring, n).space = ring.space + n
  BY ConsumedRing, RingFields DEF RingOK
<1>3. m \in 0..(size - ring.space) /\ n \in 0..m
  BY <1>1
<1>4. size - (ring.space + n) = m - n
  BY <1>1
<1>5. /\ Stored(ring) = DequeuedEach(ring, m)
      /\ Stored(Consumed(ring, n)) = DequeuedEach(Consumed(ring, n), m - n)
  BY <1>1, <1>2, <1>4 DEF Stored
<1> HIDE DEF m
<1>6. DequeuedEach(ring, n) \o DequeuedEach(Consumed(ring, n), m - n) = DequeuedEach(ring, m)
  BY <1>3, DequeuedTwice
<1> QED
  BY <1>5, <1>6

(* Without a wrap, the bytes are those a reader takes.                     *)
LEMMA CopiedOut ==
  ASSUME NEW size \in Nat \ {0}, NEW ring \in Rings(size), NEW n \in Nat, ring.out + n <= size
  PROVE  CopyOut(ring, n) = DequeuedEach(ring, n)
<1>1. ring.out \in 0..(size - 1) /\ ring.size = size
  BY RingFields
<1>2. \A i \in 1..n : (IF ring.out + i <= ring.size THEN ring.bytes[ring.out + i - 1] ELSE GARBAGE)
                        = ring.bytes[(ring.out + i - 1) % ring.size]
  <2> SUFFICES ASSUME NEW i \in 1..n
               PROVE  /\ ring.out + i <= size
                      /\ (ring.out + i - 1) % size = ring.out + i - 1
    BY <1>1
  <2> DEFINE x == ring.out + i - 1
  <2>1. x \in 0..(2 * size - 1) /\ x < size /\ ring.out + i <= size
    BY <1>1
  <2> HIDE DEF x
  <2>2. x % size = x
    BY <2>1, Wraps DEF Wrap
  <2> QED
    BY <2>1, <2>2 DEF x
<1> QED
  BY <1>2 DEF CopyOut, DequeuedEach

(* rx_buff_deq() takes the bytes in their order, unless the ring is full.  *)
LEMMA DequeuedInOrder ==
  ASSUME NEW size \in Nat \ {0}, NEW ring, RingOK(ring, size), ring.space > 0, NEW n \in Nat
  PROVE  LET len == Lesser(n, size - ring.space)
         IN  /\ len \in 0..(size - ring.space)
             /\ Dequeued(ring, n).ring = Consumed(ring, len)
             /\ Dequeued(ring, n).data = DequeuedEach(ring, len)
<1> DEFINE stored == size - ring.space
<1> DEFINE len == Lesser(n, stored)
<1> DEFINE tail == size - ring.out
<1> DEFINE first == Consumed(ring, tail)
<1>1. ring \in Rings(size) /\ ring.in = Wrap(ring.out + stored, size)
  BY DEF RingOK
<1>2. /\ ring.in \in 0..(size - 1) /\ ring.out \in 0..(size - 1) /\ ring.space \in 0..size
      /\ ring.size = size
  BY <1>1, RingFields
<1>3. /\ stored \in Nat /\ stored < size /\ len \in 0..stored /\ len \in Nat
      /\ tail \in Nat /\ tail <= size
  BY <1>2 DEF Lesser
<1>4. Dequeued(ring, n) =
        CASE ring.out <= ring.in ->
             [ring |-> [ring EXCEPT !.out = @ + len, !.space = @ + len],
              data |-> CopyOut(ring, len)]
          [] ring.out > ring.in /\ len > tail ->
             [ring |-> Consumed(first, len - tail),
              data |-> CopyOut(ring, tail) \o CopyOut(first, len - tail)]
          [] OTHER -> [ring |-> Consumed(ring, len), data |-> CopyOut(ring, len)]
  BY <1>2, Zenon DEF Dequeued
<1>5. CASE ring.out <= ring.in
  <2>1. ring.in = ring.out + stored
    BY <1>1, <1>2, <1>3, <1>5 DEF Wrap
  <2>2. ring.out + len < size /\ ring.out + len \in 0..(2 * size - 1)
    BY <2>1, <1>2, <1>3
  <2>3. CopyOut(ring, len) = DequeuedEach(ring, len)
    BY <2>2, <1>1, <1>2, <1>3, CopiedOut
  <2>4. (ring.out + len) % size = ring.out + len
    BY <2>2, Wraps DEF Wrap
  <2>5. [ring EXCEPT !.out = @ + len, !.space = @ + len] = Consumed(ring, len)
    BY <2>4, <1>2 DEF Consumed
  <2>6. Dequeued(ring, n) = [ring |-> [ring EXCEPT !.out = @ + len, !.space = @ + len],
                             data |-> CopyOut(ring, len)]
    <3>1. ~(ring.out > ring.in)
      BY <1>2, <1>5
    <3> QED
      BY <1>4, <1>5, <3>1, Zenon
  <2> HIDE DEF len
  <2>7. Dequeued(ring, n) = [ring |-> Consumed(ring, len), data |-> DequeuedEach(ring, len)]
    BY <2>3, <2>5, <2>6, Zenon
  <2> QED
    BY <2>7, <1>3 DEF len
<1>6. CASE ring.out > ring.in /\ len > tail
  <2>1. ~(ring.out <= ring.in)
    BY <1>2, <1>6
  <2>2. tail \in 0..stored /\ len - tail \in Nat /\ tail + (len - tail) = len
    BY <1>2, <1>3, <1>6
  <2>3. first \in Rings(size) /\ first.out = Wrap(ring.out + tail, size)
    BY <2>2, ConsumedRing DEF RingOK
  <2>4. first.out = 0
    BY <2>3, <1>2 DEF Wrap
  <2>5. CopyOut(ring, tail) = DequeuedEach(ring, tail)
    <3>1. ring.out + tail <= size
      BY <1>2
    <3> QED
      BY <3>1, <1>1, <1>3, CopiedOut
  <2> HIDE DEF tail
  <2>6. CopyOut(first, len - tail) = DequeuedEach(first, len - tail)
    <3>1. first.out + (len - tail) <= size
      BY <2>2, <2>4, <1>3
    <3> HIDE DEF first, len
    <3> QED
      BY <3>1, <2>2, <2>3, CopiedOut
  <2>7. /\ DequeuedEach(ring, tail) \o DequeuedEach(first, len - tail) = DequeuedEach(ring, len)
        /\ Consumed(first, len - tail) = Consumed(ring, len)
    <3>1. len \in 0..(size - ring.space) /\ tail \in 0..len
      BY <2>2, <1>3
    <3> HIDE DEF len
    <3> QED
      BY <3>1, DequeuedTwice
  <2> HIDE DEF len, first
  <2>8. Dequeued(ring, n) = [ring |-> Consumed(first, len - tail),
                             data |-> CopyOut(ring, tail) \o CopyOut(first, len - tail)]
    BY <1>4, <1>6, <2>1, Zenon
  <2>9. Dequeued(ring, n) = [ring |-> Consumed(ring, len), data |-> DequeuedEach(ring, len)]
    BY <2>5, <2>6, <2>7, <2>8, Zenon
  <2> QED
    BY <2>9, <1>3 DEF len
<1>7. CASE ring.out > ring.in /\ ~(len > tail)
  <2>1. ~(ring.out <= ring.in)
    BY <1>2, <1>7
  <2>2. ring.out + len <= size
    BY <1>2, <1>3, <1>7
  <2>3. CopyOut(ring, len) = DequeuedEach(ring, len)
    BY <2>2, <1>1, <1>3, CopiedOut
  <2> HIDE DEF len, first, tail
  <2>4. Dequeued(ring, n) = [ring |-> Consumed(ring, len), data |-> CopyOut(ring, len)]
    BY <1>4, <1>7, <2>1, Zenon
  <2>5. Dequeued(ring, n) = [ring |-> Consumed(ring, len), data |-> DequeuedEach(ring, len)]
    BY <2>3, <2>4, Zenon
  <2> QED
    BY <2>5, <1>3 DEF len
<1>8. ring.out > ring.in \/ ring.out <= ring.in
  BY <1>2
<1> QED
  BY <1>5, <1>6, <1>7, <1>8

(* How far behind the in position a kept or a free cell lies.              *)
LEMMA Offset ==
  ASSUME NEW size \in Nat \ {0}, NEW out \in 0..(size - 1), NEW n \in 0..size, NEW i \in 1..size
  PROVE  Wrap(Wrap(out + i - 1, size) - Wrap(out + n, size) + size, size)
           = IF i <= n THEN size - n + i - 1 ELSE i - 1 - n
<1>1. CASE out + n < size /\ out + i - 1 < size
  BY <1>1 DEF Wrap
<1>2. CASE out + n < size /\ ~(out + i - 1 < size)
  BY <1>2 DEF Wrap
<1>3. CASE ~(out + n < size) /\ out + i - 1 < size
  BY <1>3 DEF Wrap
<1>4. CASE ~(out + n < size) /\ ~(out + i - 1 < size)
  BY <1>4 DEF Wrap
<1> QED
  BY <1>1, <1>2, <1>3, <1>4

(* What Uart_rx_buff_enq() does to a ring with room for the bytes.         *)
LEMMA EnqueuedRing ==
  ASSUME NEW size \in Nat \ {0}, NEW ring, RingOK(ring, size),
         NEW data \in Seq(Int), Len(data) <= ring.space
  PROVE  /\ RingOK(EnqueuedEach(ring, data), size)
         /\ EnqueuedEach(ring, data).out = ring.out
         /\ EnqueuedEach(ring, data).in = Wrap(ring.in + Len(data), size)
         /\ EnqueuedEach(ring, data).space = ring.space - Len(data)
         /\ \A i \in 0..(size - 1) :
              EnqueuedEach(ring, data).bytes[i] =
                IF Wrap(i - ring.in + size, size) < Len(data)
                THEN data[Wrap(i - ring.in + size, size) + 1] ELSE ring.bytes[i]
<1> DEFINE len == Len(data)
<1> DEFINE cell(i) == LET k == (i - ring.in + ring.size) % ring.size
                      IN  IF k < len THEN data[k + 1] ELSE ring.bytes[i]
<1> DEFINE bytes == [i \in 0..(size - 1) |-> cell(i)]
<1> DEFINE in == Wrap(ring.in + len, size)
<1> DEFINE space == ring.space - len
<1>1. ring \in Rings(size) /\ ring.in = Wrap(ring.out + (size - ring.space), size)
  BY DEF RingOK
<1>2. /\ ring.bytes \in [0..(size - 1) -> Int] /\ ring.in \in 0..(size - 1)
      /\ ring.out \in 0..(size - 1) /\ ring.space \in 0..size /\ ring.size = size
  BY <1>1, RingFields
<1>3. len \in Nat /\ len <= ring.space /\ data \in [1..len -> Int]
  BY LenProperties
<1> HIDE DEF len
<1>4. /\ ring.in \in Nat /\ ring.in < size /\ ring.out \in Nat /\ ring.out < size
      /\ ring.space \in Nat /\ ring.space <= size /\ len \in Nat /\ len <= ring.space
  BY <1>2, <1>3
<1>5. \A i \in 0..(size - 1) :
        /\ cell(i) = IF Wrap(i - ring.in + size, size) < len
                     THEN data[Wrap(i - ring.in + size, size) + 1] ELSE ring.bytes[i]
        /\ cell(i) \in Int
  <2> SUFFICES ASSUME NEW i \in 0..(size - 1)
               PROVE  /\ cell(i) = IF Wrap(i - ring.in + size, size) < len
                                   THEN data[Wrap(i - ring.in + size, size) + 1] ELSE ring.bytes[i]
                      /\ cell(i) \in Int
    OBVIOUS
  <2> DEFINE x == i - ring.in + size
  <2>1. x \in 0..(2 * size - 1)
    BY <1>4
  <2> HIDE DEF x
  <2>2. x % size = Wrap(x, size) /\ Wrap(x, size) \in 0..(size - 1)
    BY <2>1, Wraps
  <2>3. cell(i) = IF Wrap(x, size) < len THEN data[Wrap(x, size) + 1] ELSE ring.bytes[i]
    BY <2>2, <1>2 DEF x
  <2> HIDE DEF cell
  <2>4. cell(i) \in Int
    <3>1. CASE Wrap(x, size) < len
      <4>1. Wrap(x, size) + 1 \in 1..len
        BY <3>1, <2>2, <1>3
      <4> QED
        BY <3>1, <2>3, <4>1, <1>3
    <3>2. CASE ~(Wrap(x, size) < len)
      BY <3>2, <2>3, <1>2
    <3> QED
      BY <3>1, <3>2
  <2> QED
    BY <2>3, <2>4 DEF x
<1>6. ring.in + len \in 0..(2 * size - 1)
  BY <1>4
<1>7. (ring.in + len) % size = in /\ in \in 0..(size - 1)
  BY <1>6, Wraps
<1>8. space \in 0..size
  BY <1>4
<1>9. [i \in DOMAIN ring.bytes |-> cell(i)] = bytes
  BY <1>2
<1>10. EnqueuedEach(ring, data) = [ring EXCEPT !.bytes = bytes, !.in = in, !.space = space]
  BY <1>1, <1>2, <1>7, <1>9 DEF EnqueuedEach, Rings, len
<1>11. bytes \in [0..(size - 1) -> Int]
  BY <1>5
<1>12. \A i \in 0..(size - 1) : bytes[i] = cell(i)
  OBVIOUS
<1> HIDE DEF bytes, in, space, cell
<1>13. /\ EnqueuedEach(ring, data) \in Rings(size)
       /\ EnqueuedEach(ring, data).bytes = bytes
       /\ EnqueuedEach(ring, data).out = ring.out
       /\ EnqueuedEach(ring, data).in = in
       /\ EnqueuedEach(ring, data).space = space
  BY <1>1, <1>2, <1>7, <1>8, <1>10, <1>11 DEF Rings
<1>14. in = Wrap(ring.out + (size - space), size)
  <2> DEFINE n == size - ring.space
  <2>1. /\ n \in Nat /\ n + len <= size /\ size - space = n + len
        /\ ring.in = Wrap(ring.out + n, size)
    BY <1>1, <1>4 DEF space
  <2> HIDE DEF n
  <2>2. Wrap(Wrap(ring.out + n, size) + len, size) = Wrap(ring.out + (n + len), size)
    <3>1. CASE ring.out + n < size
      BY <2>1, <3>1, <1>4 DEF Wrap
    <3>2. CASE ~(ring.out + n < size)
      BY <2>1, <3>2, <1>4 DEF Wrap
    <3> QED
      BY <3>1, <3>2
  <2> QED
    BY <2>1, <2>2 DEF in
<1>15. RingOK(EnqueuedEach(ring, data), size)
  BY <1>13, <1>14 DEF RingOK
<1>16. \A i \in 0..(size - 1) :
         EnqueuedEach(ring, data).bytes[i] =
           IF Wrap(i - ring.in + size, size) < len
           THEN data[Wrap(i - ring.in + size, size) + 1] ELSE ring.bytes[i]
  BY <1>5, <1>12, <1>13
<1> QED
  BY <1>13, <1>15, <1>16 DEF in, space, len

(* It keeps what it had and the new bytes after it.                        *)
LEMMA Enqueuing ==
  ASSUME NEW size \in Nat \ {0}, NEW ring, RingOK(ring, size),
         NEW data \in Seq(Int), Len(data) <= ring.space
  PROVE  Stored(EnqueuedEach(ring, data)) = Stored(ring) \o data
<1> DEFINE more == EnqueuedEach(ring, data)
<1> DEFINE len == Len(data)
<1> DEFINE n == size - ring.space
<1>1. ring \in Rings(size) /\ ring.in = Wrap(ring.out + n, size)
  BY DEF RingOK
<1>2. /\ ring.bytes \in [0..(size - 1) -> Int] /\ ring.in \in 0..(size - 1)
      /\ ring.out \in 0..(size - 1) /\ ring.space \in 0..size /\ ring.size = size
  BY <1>1, RingFields
<1>3. len \in Nat /\ len <= ring.space /\ data \in [1..len -> Int]
  BY LenProperties
<1>4. /\ more \in Rings(size) /\ more.out = ring.out /\ more.space = ring.space - len
      /\ \A i \in 0..(size - 1) :
           more.bytes[i] =
             IF Wrap(i - ring.in + size, size) < len
             THEN data[Wrap(i - ring.in + size, size) + 1] ELSE ring.bytes[i]
  BY EnqueuedRing DEF RingOK
<1>5. more.size = size
  BY <1>4, RingFields
<1> HIDE DEF more
<1> HIDE DEF len
<1>6. /\ ring.in \in Nat /\ ring.in < size /\ ring.out \in Nat /\ ring.out < size
      /\ ring.space \in Nat /\ ring.space <= size /\ len \in Nat /\ len <= ring.space
  BY <1>2, <1>3
<1>7. n \in Nat /\ n \in 0..size /\ n + len \in 0..size /\ n + len \in Nat /\ n + len <= size
  BY <1>6, SMTT(20), ZenonT(40)
<1>8. Stored(ring) = DequeuedEach(ring, n)
  BY <1>2 DEF Stored
<1>9. size - more.space = n + len
  BY <1>6, <1>4
<1>10. Stored(more) = DequeuedEach(more, n + len)
  BY <1>5, <1>9 DEF Stored
<1> DEFINE old == DequeuedEach(ring, n)
<1> DEFINE all == DequeuedEach(more, n + len)
<1> HIDE DEF n
<1>11. /\ old \in Seq(Int) /\ Len(old) = n
      /\ \A i \in 1..n : old[i] = ring.bytes[Wrap(ring.out + i - 1, size)]
  BY <1>1, <1>7, Cells
<1>12. /\ all \in Seq(Int) /\ Len(all) = n + len
       /\ \A i \in 1..(n + len) : all[i] = more.bytes[Wrap(ring.out + i - 1, size)]
  <2>1. /\ all \in Seq(Int) /\ Len(all) = n + len
        /\ \A i \in 1..(n + len) : all[i] = more.bytes[Wrap(more.out + i - 1, size)]
    BY <1>4, <1>7, Cells
  <2> QED
    BY <2>1, <1>4
<1> HIDE DEF old, all
<1>13. /\ old \o data \in Seq(Int) /\ Len(old \o data) = n + len
       /\ \A i \in 1..(n + len) : (old \o data)[i] = IF i <= n THEN old[i] ELSE data[i - n]
  <2>1. old \in Seq(Int)
    BY <1>11
  <2>2. /\ old \o data \in Seq(Int) /\ Len(old \o data) = Len(old) + Len(data)
        /\ \A i \in 1..(Len(old) + Len(data)) :
             (old \o data)[i] = IF i <= Len(old) THEN old[i] ELSE data[i - Len(old)]
    BY <2>1, ConcatProperties
  <2>3. Len(old) = n /\ Len(data) = len
    BY <1>11 DEF len
  <2> QED
    BY <2>2, <2>3
<1>14. \A i \in 1..(n + len) : all[i] = (old \o data)[i]
  <2> SUFFICES ASSUME NEW i \in 1..(n + len)
               PROVE  all[i] = (old \o data)[i]
    OBVIOUS
  <2> DEFINE p == Wrap(ring.out + i - 1, size)
  <2>1. i \in Nat /\ i > 0 /\ i <= size
    BY <1>7
  <2>2. p \in 0..(size - 1)
    BY <2>1, <1>6 DEF Wrap
  <2>3. all[i] = more.bytes[p]
    BY <1>12
  <2>4. i \in 1..size
    BY <2>1
  <2>5. Wrap(p - ring.in + size, size) = IF i <= n THEN size - n + i - 1 ELSE i - 1 - n
    <3>1. ring.out \in 0..(size - 1) /\ n \in 0..size
      BY <1>2, <1>7
    <3>2. Wrap(Wrap(ring.out + i - 1, size) - Wrap(ring.out + n, size) + size, size)
            = IF i <= n THEN size - n + i - 1 ELSE i - 1 - n
      BY <2>4, <3>1, Offset, Zenon
    <3> QED
      BY <3>2, <1>1
  <2>6. CASE i <= n
    <3>1. Wrap(p - ring.in + size, size) = size - n + i - 1
      BY <2>5, <2>6
    <3>2. ~(size - n + i - 1 < len) /\ i \in 1..n
      BY <2>1, <2>6, <1>6, <1>7
    <3> HIDE DEF p
    <3>3. more.bytes[p] = ring.bytes[p]
      BY <3>1, <3>2, <2>2, <1>4
    <3> QED
      BY <3>2, <3>3, <2>3, <2>6, <1>11, <1>13 DEF p
  <2>7. CASE ~(i <= n)
    <3>1. Wrap(p - ring.in + size, size) = i - 1 - n
      BY <2>5, <2>7
    <3>2. i - 1 - n < len /\ (i - 1 - n) + 1 = i - n
      BY <2>1, <2>7, <1>6, <1>7
    <3> HIDE DEF p
    <3>3. more.bytes[p] = data[i - n]
      BY <3>1, <3>2, <2>2, <1>4
    <3> QED
      BY <3>3, <2>3, <2>7, <1>13
  <2> QED
    BY <2>6, <2>7
<1>15. all = old \o data
  BY <1>12, <1>13, <1>14, SeqEqual
<1> QED
  BY <1>8, <1>10, <1>15 DEF all, old, more

(* One memory copy, which ends before the end of the ring.                 *)
LEMMA CopiedPiece ==
  ASSUME NEW size \in Nat \ {0}, NEW ring \in Rings(size),
         NEW data \in Seq(Int), Len(data) <= ring.space, ring.in + Len(data) <= size
  PROVE  /\ CopyIn(ring, data) \in Rings(size)
         /\ CopyIn(ring, data).in = Wrap(ring.in + Len(data), size)
         /\ CopyIn(ring, data).out = ring.out
         /\ CopyIn(ring, data).space = ring.space - Len(data)
         /\ \A i \in 0..(size - 1) :
              CopyIn(ring, data).bytes[i] =
                IF i \in ring.in..(ring.in + Len(data) - 1)
                THEN data[i - ring.in + 1] ELSE ring.bytes[i]
<1> DEFINE len == Len(data)
<1> DEFINE cell(i) == IF i \in ring.in..(ring.in + len - 1)
                      THEN data[i - ring.in + 1] ELSE ring.bytes[i]
<1> DEFINE bytes == [i \in 0..(size - 1) |-> cell(i)]
<1> DEFINE in == Wrap(ring.in + len, size)
<1> DEFINE space == ring.space - len
<1>1. /\ ring.bytes \in [0..(size - 1) -> Int] /\ ring.in \in 0..(size - 1)
      /\ ring.out \in 0..(size - 1) /\ ring.space \in 0..size /\ ring.size = size
  BY RingFields
<1>2. len \in Nat /\ data \in [1..len -> Int] /\ len <= ring.space
  BY LenProperties
<1> HIDE DEF len
<1>3. /\ ring.in \in Nat /\ ring.in < size /\ ring.space \in Nat /\ ring.space <= size
      /\ len \in Nat /\ len <= ring.space /\ ring.in + len <= size
  BY <1>1, <1>2 DEF len
<1>4. ring.in + len \in 0..(2 * size - 1)
  BY <1>3
<1>5. (ring.in + len) % size = in /\ in \in 0..(size - 1)
  BY <1>4, Wraps
<1>6. space \in 0..size
  BY <1>3
<1>7. \A i \in 0..(size - 1) : cell(i) \in Int
  <2> SUFFICES ASSUME NEW i \in 0..(size - 1)
               PROVE  cell(i) \in Int
    OBVIOUS
  <2>1. CASE i \in ring.in..(ring.in + len - 1)
    <3>1. ring.in \in Nat /\ i \in Nat /\ ring.in <= i /\ i < ring.in + len /\ len \in Nat
      BY <2>1, <1>3
    <3>2. i - ring.in + 1 \in 1..len
      BY <3>1
    <3> QED
      BY <2>1, <3>2, <1>2
  <2>2. CASE ~(i \in ring.in..(ring.in + len - 1))
    BY <2>2, <1>1
  <2> QED
    BY <2>1, <2>2
<1>8. \A i \in 0..(size - 1) :
        cell(i) = IF i \in ring.in..(ring.in + len - 1)
                  THEN data[i - ring.in + 1] ELSE ring.bytes[i]
  OBVIOUS
<1> HIDE DEF cell
<1>9. bytes \in [0..(size - 1) -> Int] /\ \A i \in 0..(size - 1) : bytes[i] = cell(i)
  BY <1>7
<1>10. [i \in DOMAIN ring.bytes |-> cell(i)] = bytes
  BY <1>1
<1> HIDE DEF bytes
<1>11. CopyIn(ring, data) = [ring EXCEPT !.bytes = bytes, !.in = in, !.space = space]
  BY <1>1, <1>5, <1>10 DEF CopyIn, Rings, cell, len
<1> HIDE DEF in, space
<1>12. /\ CopyIn(ring, data) \in Rings(size) /\ CopyIn(ring, data).bytes = bytes
       /\ CopyIn(ring, data).in = in /\ CopyIn(ring, data).out = ring.out
       /\ CopyIn(ring, data).space = space
  BY <1>5, <1>6, <1>9, <1>11 DEF Rings
<1> QED
  BY <1>8, <1>9, <1>12 DEF in, space, len

(* UartBufCpy() copies in one piece or in two what fits, byte for byte.    *)
LEMMA CopiedRing ==
  ASSUME NEW size \in Nat \ {0}, NEW ring, RingOK(ring, size),
         NEW data \in Seq(Int), Len(data) <= ring.space
  PROVE  UartBufCpy(ring, data) = EnqueuedEach(ring, data)
<1> DEFINE len == Len(data)
<1> DEFINE tail == size - ring.in
<1> DEFINE each == EnqueuedEach(ring, data)
<1>1. ring \in Rings(size)
  BY DEF RingOK
<1>2. /\ ring.bytes \in [0..(size - 1) -> Int] /\ ring.in \in 0..(size - 1)
      /\ ring.out \in 0..(size - 1) /\ ring.space \in 0..size /\ ring.size = size
  BY <1>1, RingFields
<1>3. len \in Nat /\ len <= ring.space /\ data \in [1..len -> Int]
  BY LenProperties
<1>4. /\ each \in Rings(size) /\ each.out = ring.out /\ each.in = Wrap(ring.in + len, size)
      /\ each.space = ring.space - len
      /\ \A i \in 0..(size - 1) :
           each.bytes[i] =
             IF Wrap(i - ring.in + size, size) < len
             THEN data[Wrap(i - ring.in + size, size) + 1] ELSE ring.bytes[i]
  BY EnqueuedRing DEF RingOK
<1> HIDE DEF each
<1> HIDE DEF len
<1>5. /\ ring.in \in Nat /\ ring.in < size /\ ring.out \in Nat /\ ring.out < size
      /\ ring.space \in Nat /\ ring.space <= size /\ len \in Nat /\ len <= ring.space
  BY <1>2, <1>3
<1>6. ASSUME NEW copy \in Rings(size),
             copy.in = Wrap(ring.in + len, size), copy.out = ring.out,
             copy.space = ring.space - len,
             \A i \in 0..(size - 1) : copy.bytes[i] = each.bytes[i]
      PROVE  copy = each
  <2>1. copy.bytes \in [0..(size - 1) -> Int] /\ each.bytes \in [0..(size - 1) -> Int]
    BY <1>4, RingFields
  <2>2. copy.bytes = each.bytes
    <3>1. /\ copy.bytes = [i \in 0..(size - 1) |-> copy.bytes[i]]
          /\ each.bytes = [i \in 0..(size - 1) |-> each.bytes[i]]
      BY <2>1
    <3>2. [i \in 0..(size - 1) |-> copy.bytes[i]] = [i \in 0..(size - 1) |-> each.bytes[i]]
      BY <1>6
    <3> QED
      BY <3>1, <3>2
  <2> QED
    BY <2>2, <1>4, <1>6, SameRing
<1>7. CASE tail >= len
  <2> DEFINE copy == CopyIn(ring, data)
  <2>1. Len(data) <= ring.space /\ ring.in + Len(data) <= size
    BY <1>5, <1>7 DEF len
  <2>2. /\ copy \in Rings(size)
        /\ copy.in = Wrap(ring.in + len, size)
        /\ copy.out = ring.out
        /\ copy.space = ring.space - len
        /\ \A i \in 0..(size - 1) :
             copy.bytes[i] = IF i \in ring.in..(ring.in + len - 1) THEN data[i - ring.in + 1]
                                                                   ELSE ring.bytes[i]
    BY <2>1, <1>1, CopiedPiece DEF len
  <2> HIDE DEF copy
  <2>3. \A i \in 0..(size - 1) : copy.bytes[i] = each.bytes[i]
    <3> SUFFICES ASSUME NEW i \in 0..(size - 1)
                 PROVE  copy.bytes[i] = each.bytes[i]
      OBVIOUS
    <3>1. CASE i \in ring.in..(ring.in + len - 1)
      <4>1. Wrap(i - ring.in + size, size) = i - ring.in /\ i - ring.in < len
        BY <3>1, <1>5 DEF Wrap
      <4> QED
        BY <4>1, <3>1, <1>4, <2>2
    <3>2. CASE ~(i \in ring.in..(ring.in + len - 1))
      <4>1. ~(Wrap(i - ring.in + size, size) < len)
        BY <3>2, <1>5, <1>7 DEF Wrap
      <4> QED
        BY <4>1, <3>2, <1>4, <2>2
    <3> QED
      BY <3>1, <3>2
  <2>4. copy = each
    BY <2>2, <2>3, <1>6
  <2>5. UartBufCpy(ring, data) = copy
    BY <1>2, <1>7 DEF UartBufCpy, copy, len
  <2> QED
    BY <2>4, <2>5 DEF each
<1>8. CASE ~(tail >= len)
  <2> DEFINE front == Take(data, tail)
  <2> DEFINE back == Drop(data, tail)
  <2> DEFINE half == CopyIn(ring, front)
  <2> DEFINE copy == CopyIn(half, back)
  <2>1. /\ tail \in Nat /\ len \in Nat /\ ring.in \in Nat /\ ring.space \in Nat
        /\ tail + ring.in = size /\ 0 < tail /\ tail < len /\ len <= ring.space
        /\ ring.space <= size
    BY <1>5, <1>8
  <2>2. front = SubSeq(data, 1, tail) /\ back = SubSeq(data, tail + 1, len)
    BY <2>1, <1>3 DEF Take, Drop, Lesser, len
  <2>3. tail = size - ring.in
    OBVIOUS
  <2> HIDE DEF tail, front, back
  <2>4. /\ front \in Seq(Int) /\ Len(front) = tail
        /\ \A i \in 1..tail : front[i] = data[i]
    <3>1. 1 \in 1..(Len(data) + 1) /\ tail \in 0..Len(data) /\ 1 <= tail
      BY <2>1 DEF len
    <3>2. /\ SubSeq(data, 1, tail) \in Seq(Int) /\ Len(SubSeq(data, 1, tail)) = tail
          /\ \A i \in 1..tail : SubSeq(data, 1, tail)[i] = data[i]
      BY <3>1
    <3> QED
      BY <2>2, <3>2
  <2>5. /\ back \in Seq(Int) /\ Len(back) = len - tail
        /\ \A i \in 1..(len - tail) : back[i] = data[tail + i]
    <3>1. /\ SubSeq(data, tail + 1, len) \in Seq(Int)
          /\ Len(SubSeq(data, tail + 1, len)) = len - tail
          /\ \A i \in 1..(len - tail) : SubSeq(data, tail + 1, len)[i] = data[tail + i]
      BY <2>1 DEF len
    <3> QED
      BY <2>2, <3>1
  <2>6. Len(front) <= ring.space /\ ring.in + Len(front) <= size
    BY <2>1, <2>4
  <2>7. /\ half \in Rings(size)
        /\ half.in = Wrap(ring.in + Len(front), size)
        /\ half.out = ring.out
        /\ half.space = ring.space - Len(front)
        /\ \A i \in 0..(size - 1) :
             half.bytes[i] = IF i \in ring.in..(ring.in + Len(front) - 1)
                             THEN front[i - ring.in + 1] ELSE ring.bytes[i]
    BY <2>4, <2>6, <1>1, CopiedPiece
  <2> HIDE DEF half
  <2>8. half.in = 0 /\ half.space = ring.space - tail
    BY <2>1, <2>4, <2>7 DEF Wrap
  <2>9. Len(back) <= half.space /\ half.in + Len(back) <= size
    BY <2>1, <2>5, <2>8
  <2>10. Len(front) = tail /\ Len(back) = len - tail
    BY <2>4, <2>5
  <2>11. /\ copy \in Rings(size)
        /\ copy.in = Wrap(half.in + Len(back), size)
        /\ copy.out = half.out
        /\ copy.space = half.space - Len(back)
        /\ \A i \in 0..(size - 1) :
             copy.bytes[i] = IF i \in half.in..(half.in + Len(back) - 1) THEN back[i - half.in + 1]
                                                                         ELSE half.bytes[i]
    <3>1. half \in Rings(size) /\ back \in Seq(Int)
      BY <2>5, <2>7
    <3> HIDE DEF half
    <3> QED
      BY <3>1, <2>9, CopiedPiece
  <2> HIDE DEF copy
  <2>12. \A i \in 0..(size - 1) : copy.bytes[i] = each.bytes[i]
    <3> SUFFICES ASSUME NEW i \in 0..(size - 1)
                 PROVE  copy.bytes[i] = each.bytes[i]
      OBVIOUS
    <3>1. CASE i < len - tail
      <4>1. /\ Wrap(i - ring.in + size, size) = tail + i /\ tail + i < len
            /\ i \in half.in..(half.in + Len(back) - 1) /\ i - half.in + 1 = i + 1
        <5>1. Wrap(i - ring.in + size, size) = tail + i /\ tail + i < len
          <6> DEFINE in == ring.in
          <6>1. /\ in \in Int /\ i \in Int /\ tail \in Int /\ len \in Int /\ size \in Int
                /\ tail + in = size /\ i < len - tail /\ len <= size
            BY <3>1, <2>1
          <6>2. /\ i - in + size < size => i - in + size = tail + i
                /\ i - in + size < size /\ tail + i < len
            <7> HIDE DEF in
            <7> QED
              BY <6>1
          <6> QED
            BY <6>2 DEF Wrap
        <5>2. i \in 0..(len - tail - 1) /\ i - 0 + 1 = i + 1
          BY <3>1, <2>1
        <5> QED
          BY <5>1, <5>2, <2>8, <2>10
      <4>2. back[i + 1] = data[tail + i + 1]
        <5>1. i + 1 \in 1..(len - tail)
          BY <3>1, <2>1
        <5>2. back[i + 1] = data[tail + (i + 1)]
          BY <5>1, <2>5
        <5> QED
          BY <5>2, <2>1
      <4>3. copy.bytes[i] = back[i + 1]
        BY <4>1, <2>11
      <4>4. each.bytes[i] = data[tail + i + 1]
        BY <4>1, <1>4 DEF len
      <4> QED
        BY <4>2, <4>3, <4>4
    <3>2. CASE ~(i < len - tail) /\ i < ring.in
      <4>1. /\ ~(Wrap(i - ring.in + size, size) < len)
            /\ ~(i \in half.in..(half.in + Len(back) - 1))
            /\ ~(i \in ring.in..(ring.in + Len(front) - 1))
        <5>1. /\ ~(Wrap(i - ring.in + size, size) < len)
              /\ ~(i \in 0..(0 + (len - tail) - 1)) /\ ~(i \in ring.in..(ring.in + tail - 1))
          BY <3>2, <2>1 DEF Wrap
        <5> QED
          BY <5>1, <2>8, <2>10
      <4> QED
        BY <4>1, <1>4, <2>7, <2>11
    <3>3. CASE ~(i < len - tail) /\ ~(i < ring.in)
      <4>1. /\ Wrap(i - ring.in + size, size) = i - ring.in /\ i - ring.in < len
            /\ ~(i \in half.in..(half.in + Len(back) - 1))
            /\ i \in ring.in..(ring.in + Len(front) - 1)
            /\ i - ring.in + 1 \in 1..tail
        <5>1. /\ Wrap(i - ring.in + size, size) = i - ring.in /\ i - ring.in < len
              /\ ~(i \in 0..(0 + (len - tail) - 1)) /\ i \in ring.in..(ring.in + tail - 1)
              /\ i - ring.in + 1 \in 1..tail
          <6> DEFINE in == ring.in
          <6>1. /\ in \in Int /\ i \in Int /\ tail \in Int /\ len \in Int /\ size \in Int
                /\ tail + in = size /\ ~(i < len - tail) /\ ~(i < in) /\ len <= size /\ i < size
                /\ tail < len
            BY <3>3, <2>1
          <6>2. /\ ~(i - in + size < size) /\ (i - in + size) - size = i - in /\ i - in < len
                /\ ~(i \in 0..(0 + (len - tail) - 1)) /\ i \in in..(in + tail - 1)
                /\ i - in + 1 \in 1..tail
            <7> HIDE DEF in
            <7> QED
              BY <6>1
          <6>3. Wrap(i - ring.in + size, size) = i - ring.in
            BY <6>2, Zenon DEF Wrap
          <6> QED
            BY <6>2, <6>3, Zenon
        <5> QED
          BY <5>1, <2>8, <2>10
      <4>2. copy.bytes[i] = front[i - ring.in + 1]
        BY <4>1, <2>7, <2>11
      <4>3. each.bytes[i] = data[i - ring.in + 1]
        BY <4>1, <1>4 DEF len
      <4> QED
        BY <4>1, <4>2, <4>3, <2>4
    <3> QED
      BY <3>1, <3>2, <3>3
  <2>13. copy.in = Wrap(ring.in + len, size) /\ copy.out = ring.out /\ copy.space = ring.space - len
    <3>1. (ring.space - tail) - (len - tail) = ring.space - len
      BY <2>1
    <3>2. Wrap(ring.in + len, size) = Wrap(0 + (len - tail), size)
      BY <2>1 DEF Wrap
    <3> QED
      BY <3>1, <3>2, <2>7, <2>8, <2>10, <2>11
  <2>14. copy = each
    BY <2>11, <2>12, <2>13, <1>6 DEF len
  <2>15. UartBufCpy(ring, data) = copy
    BY <1>2, <1>8 DEF UartBufCpy, copy, half, front, back, tail, len
  <2> QED
    BY <2>14, <2>15 DEF each
<1> QED
  BY <1>7, <1>8

LEMMA StoredBytes ==
  ASSUME NEW size \in Nat \ {0}, NEW ring, RingOK(ring, size)
  PROVE  /\ Stored(ring) \in Seq(Int) /\ Len(Stored(ring)) = size - ring.space
         /\ Stored(ring) = <<>> <=> ring.space = size
         /\ ring.space \in 0..size /\ ring.space \in Nat /\ ring.size = size
<1> DEFINE n == size - ring.space
<1>1. ring \in Rings(size)
  BY DEF RingOK
<1>2. ring.space \in 0..size /\ ring.size = size /\ ring.space \in Nat
  BY <1>1, RingFields
<1>3. n \in 0..size
  BY <1>2
<1>4. Stored(ring) = DequeuedEach(ring, n)
  BY <1>2 DEF Stored
<1> HIDE DEF n
<1>5. Stored(ring) \in Seq(Int) /\ Len(Stored(ring)) = n
  BY <1>1, <1>3, <1>4, Cells
<1>6. Stored(ring) = <<>> <=> Len(Stored(ring)) = 0
  BY <1>5
<1>7. n = 0 <=> ring.space = size
  BY <1>2 DEF n
<1> QED
  BY <1>2, <1>5, <1>6, <1>7 DEF n

-------------------------------------------------------------------------------
(* Appending at the end, and moving the first of one sequence to another.  *)
LEMMA AppendedLast ==
  ASSUME NEW a \in Seq(Int), NEW b \in Seq(Int), NEW c \in Seq(Int), NEW x \in Int
  PROVE  a \o b \o Append(c, x) = Append(a \o b \o c, x)
<1>1. a \o b \in Seq(Int) /\ a \o b \o c \in Seq(Int) /\ <<x>> \in Seq(Int)
  OBVIOUS
<1>2. Append(c, x) = c \o <<x>> /\ Append(a \o b \o c, x) = (a \o b \o c) \o <<x>>
  BY <1>1, AppendIsConcat
<1>3. (a \o b) \o (c \o <<x>>) = ((a \o b) \o c) \o <<x>>
  BY <1>1, ConcatAssociative
<1> QED
  BY <1>2, <1>3

LEMMA MovedFirst ==
  ASSUME NEW a \in Seq(Int), NEW c \in Seq(Int), c # <<>>
  PROVE  /\ Append(a, Head(c)) \o Tail(c) = a \o c
         /\ Head(c) \in Int /\ Tail(c) \in Seq(Int) /\ Len(Tail(c)) = Len(c) - 1
         /\ Append(a, Head(c)) \in Seq(Int) /\ Len(Append(a, Head(c))) = Len(a) + 1
<1>1. /\ Head(c) \in Int /\ Tail(c) \in Seq(Int) /\ Len(Tail(c)) = Len(c) - 1
      /\ Append(a, Head(c)) \in Seq(Int) /\ Len(Append(a, Head(c))) = Len(a) + 1
  BY HeadTailProperties, AppendProperties
<1>2. <<Head(c)>> \o Tail(c) = c /\ <<Head(c)>> \in Seq(Int)
  BY <1>1
<1>3. Append(a, Head(c)) = a \o <<Head(c)>>
  BY <1>1, AppendIsConcat
<1>4. (a \o <<Head(c)>>) \o Tail(c) = a \o (<<Head(c)>> \o Tail(c))
  BY <1>1, <1>2, ConcatAssociative
<1> QED
  BY <1>1, <1>2, <1>3, <1>4

LEMMA Regrouped ==
  ASSUME NEW T, NEW a \in Seq(T), NEW b \in Seq(T), NEW c \in Seq(T)
  PROVE  a \o (b \o c) = a \o b \o c
<1> DEFINE left == a \o (b \o c)
<1> DEFINE right == a \o b \o c
<1>1. left \in Seq(T) /\ right \in Seq(T)
  OBVIOUS
<1>2. Len(left) = Len(right)
  OBVIOUS
<1>3. \A i \in 1..Len(left) : left[i] = right[i]
  OBVIOUS
<1> HIDE DEF left, right
<1>4. left = right
  BY <1>1, <1>2, <1>3, SeqEqual
<1> QED
  BY <1>4 DEF left, right

LEMMA Associative ==
  ASSUME NEW a \in Seq(Int), NEW b \in Seq(Int), NEW c \in Seq(Int)
  PROVE  a \o (b \o c) = a \o b \o c
BY Regrouped, SMTT(20), ZenonT(40)

-------------------------------------------------------------------------------
(* The driver of the serial port.                                          *)
UartTypeOK ==
  /\ buffered \in BOOLEAN
  /\ rxFifo \in Seq(Int) /\ Len(rxFifo) <= FIFO_LEN
  /\ txFifo \in Seq(Int) /\ Len(txFifo) <= FIFO_LEN
  /\ RingOK(rxRing, RX_SIZE) /\ RingOK(txRing, TX_SIZE)
  /\ events \in Nat /\ echo \in Int
  /\ came \in Seq(Int) /\ taken \in Seq(Int) /\ written \in Seq(Int) /\ wire \in Seq(Int)

(* The receive ring is never full, and the rings of a build without them   *)
(* stay empty.                                                             *)
RingsKept ==
  /\ rxRing.space > 0
  /\ ~buffered => rxRing.space = RX_SIZE /\ txRing.space = TX_SIZE

(* What is still to be echoed is in the FIFO, and its event is not over.   *)
EchoHasBytes == echo # NoEcho => ~buffered /\ events > 0 /\ echo <= Len(rxFifo)

UartIInv == UartTypeOK /\ RingsKept /\ EchoHasBytes /\ RxIntact /\ TxIntact /\ UartAwake

LEMMA Sizes ==
  /\ RX_SIZE \in Nat \ {0} /\ TX_SIZE \in Nat \ {0} /\ FIFO_LEN \in Nat /\ RX_SIZE > FIFO_LEN
  /\ EVENTS \in Nat \ {0} /\ TX_LIMIT \in Nat /\ TX_LIMIT <= FIFO_LEN
BY FifoAssumption, RingAssumption

LEMMA EmptyRing ==
  ASSUME NEW size \in Nat \ {0}
  PROVE  RingOK(UartBufInit(size), size) /\ UartBufInit(size).space = size
<1> DEFINE bytes == [i \in 0..(size - 1) |-> GARBAGE]
<1>1. bytes \in [0..(size - 1) -> Int]
  BY DEF GARBAGE
<1>2. UartBufInit(size) = [bytes |-> bytes, in |-> 0, out |-> 0, space |-> size, size |-> size]
  BY DEF UartBufInit
<1> HIDE DEF bytes
<1>3. Wrap(0 + (size - size), size) = 0
  BY DEF Wrap
<1> QED
  BY <1>1, <1>2, <1>3 DEF RingOK, Rings

LEMMA UartInitial == UartInit => UartIInv
<1> SUFFICES ASSUME UartInit
             PROVE  UartIInv
  OBVIOUS
<1> USE Sizes DEF UartInit
<1>1. /\ RingOK(rxRing, RX_SIZE) /\ rxRing.space = RX_SIZE
      /\ RingOK(txRing, TX_SIZE) /\ txRing.space = TX_SIZE
  BY EmptyRing
<1>2. Stored(rxRing) = <<>> /\ Stored(txRing) = <<>>
  BY <1>1, StoredBytes
<1>3. UartTypeOK /\ RingsKept /\ EchoHasBytes
  BY <1>1 DEF UartTypeOK, RingsKept, EchoHasBytes, NoEcho
<1>4. RxIntact /\ TxIntact
  BY <1>2 DEF RxIntact, TxIntact
<1>5. UartAwake
  BY <1>2 DEF UartAwake
<1> QED
  BY <1>3, <1>4, <1>5 DEF UartIInv

(* What the proofs of the actions need of the invariant.                   *)
LEMMA UartFacts ==
  ASSUME UartIInv
  PROVE  /\ UartTypeOK /\ RingsKept /\ EchoHasBytes /\ RxIntact /\ TxIntact /\ UartAwake
         /\ Stored(rxRing) \in Seq(Int) /\ (Stored(rxRing) = <<>> <=> rxRing.space = RX_SIZE)
         /\ Stored(txRing) \in Seq(Int) /\ (Stored(txRing) = <<>> <=> txRing.space = TX_SIZE)
         /\ rxRing.space \in 0..RX_SIZE /\ rxRing.space \in Nat /\ rxRing.size = RX_SIZE
         /\ txRing.space \in 0..TX_SIZE /\ txRing.space \in Nat /\ txRing.size = TX_SIZE
BY Sizes, StoredBytes DEF UartIInv, UartTypeOK

LEMMA ByteArrivesStep == UartIInv /\ ByteArrives => UartIInv'
<1> SUFFICES ASSUME UartIInv, ByteArrives
             PROVE  UartIInv'
  OBVIOUS
<1> USE Sizes
<1>1. NextByte \in Int
  BY UartFacts DEF UartTypeOK, NextByte
<1>2. UNCHANGED <<buffered, txFifo, txRing, written, wire, rxRing, ena, events, echo, taken>>
  BY DEF ByteArrives, uartTx
<1>3. CASE Len(rxFifo) < FIFO_LEN
  <2>1. rxFifo' = Append(rxFifo, NextByte) /\ came' = Append(came, NextByte)
    BY <1>3 DEF ByteArrives
  <2>2. rxFifo' \in Seq(Int) /\ came' \in Seq(Int) /\ Len(rxFifo') = Len(rxFifo) + 1
    BY <1>1, <2>1, UartFacts, AppendProperties DEF UartTypeOK
  <2>3. UartTypeOK'
    BY <1>2, <1>3, <2>2, UartFacts DEF UartTypeOK
  <2>4. EchoHasBytes'
    BY <1>2, <2>2 DEF UartIInv, EchoHasBytes, UartTypeOK
  <2>5. taken \o Stored(rxRing) \o Append(rxFifo, NextByte)
          = Append(taken \o Stored(rxRing) \o rxFifo, NextByte)
    <3>1. taken \in Seq(Int) /\ Stored(rxRing) \in Seq(Int) /\ rxFifo \in Seq(Int)
      BY UartFacts DEF UartTypeOK
    <3> QED
      BY <1>1, <3>1, AppendedLast, ZenonT(40)
  <2>6. RxIntact'
    BY <1>2, <2>1, <2>5, UartFacts DEF RxIntact
  <2> QED
    BY <1>2, <2>3, <2>4, <2>6, UartFacts DEF UartIInv, RingsKept, TxIntact, UartAwake
<1>4. CASE ~(Len(rxFifo) < FIFO_LEN)
  <2>1. rxFifo' = rxFifo /\ came' = came
    BY <1>4 DEF ByteArrives
  <2> QED
    BY <1>2, <2>1, UartFacts
    DEF UartIInv, UartTypeOK, RingsKept, EchoHasBytes, RxIntact, TxIntact, UartAwake
<1> QED
  BY <1>3, <1>4

LEMMA ByteLeavesStep == UartIInv /\ ByteLeaves => UartIInv'
<1> SUFFICES ASSUME UartIInv, ByteLeaves
             PROVE  UartIInv'
  OBVIOUS
<1>1. UNCHANGED <<buffered, rxFifo, rxRing, txRing, ena, events, echo, came, taken, written>>
  BY DEF ByteLeaves, uartRx
<1>2. txFifo # <<>> /\ txFifo' = Tail(txFifo) /\ wire' = Append(wire, Head(txFifo))
  BY DEF ByteLeaves
<1>3. /\ wire' \o txFifo' = wire \o txFifo
      /\ txFifo' \in Seq(Int) /\ Len(txFifo') = Len(txFifo) - 1 /\ wire' \in Seq(Int)
  BY <1>2, UartFacts, MovedFirst DEF UartTypeOK
<1>4. UartTypeOK'
  BY <1>1, <1>3, UartFacts, Sizes DEF UartTypeOK
<1>5. TxIntact'
  BY <1>1, <1>3, UartFacts DEF TxIntact
<1> QED
  BY <1>1, <1>4, <1>5, UartFacts DEF UartIInv, RingsKept, EchoHasBytes, RxIntact, UartAwake

(* Steps that change neither a FIFO nor a ring.                            *)
LEMMA RxInterruptStep == ASSUME NEW int \in RX_INTS
                         PROVE  UartIInv /\ RxInterrupt(int) => UartIInv'
<1> SUFFICES ASSUME UartIInv, RxInterrupt(int)
             PROVE  UartIInv'
  OBVIOUS
<1>1. /\ UNCHANGED <<buffered, txFifo, txRing, written, wire, rxFifo, rxRing, echo, came, taken>>
      /\ ena' = ena \ RX_INTS /\ events' = Lesser(events + 1, EVENTS)
  BY DEF RxInterrupt, uartTx
<1>2. events' \in Nat /\ events' > 0
  <2>1. events \in Nat /\ EVENTS \in Nat \ {0}
    BY Sizes, UartFacts DEF UartTypeOK
  <2>2. Lesser(events + 1, EVENTS) \in Nat /\ Lesser(events + 1, EVENTS) > 0
    BY <2>1 DEF Lesser
  <2> QED
    BY <1>1, <2>2
<1>3. "EMPTY" \in ena => "EMPTY" \in ena'
  BY <1>1 DEF RX_INTS
<1>4. UartTypeOK' /\ EchoHasBytes'
  BY <1>1, <1>2, UartFacts DEF UartTypeOK, EchoHasBytes
<1>5. UartAwake'
  BY <1>1, <1>2, <1>3, UartFacts DEF UartAwake
<1> QED
  BY <1>1, <1>4, <1>5, UartFacts DEF UartIInv, RingsKept, RxIntact, TxIntact

LEMMA QuietSteps ==
  /\ UartIInv
  /\ UNCHANGED <<buffered, txFifo, txRing, written, wire, rxFifo, rxRing, echo, came, taken, ena,
                 events>>
  => UartIInv'
<1> SUFFICES ASSUME UartIInv,
                    UNCHANGED <<buffered, txFifo, txRing, written, wire, rxFifo, rxRing, echo, came,
                                taken, ena, events>>
             PROVE  UartIInv'
  OBVIOUS
<1> QED
  BY UartFacts DEF UartIInv, UartTypeOK, RingsKept, EchoHasBytes, RxIntact, TxIntact, UartAwake

LEMMA TxEmptyStep == UartIInv /\ TxEmptyInterrupt => UartIInv'
<1> SUFFICES ASSUME UartIInv, TxEmptyInterrupt
             PROVE  UartIInv'
  OBVIOUS
<1> DEFINE room == FIFO_LEN - Len(txFifo)
<1> DEFINE stored == txRing.size - txRing.space
<1> DEFINE n == Lesser(stored, room)
<1> DEFINE sent == DequeuedEach(txRing, n)
<1> DEFINE rest == Stored(Consumed(txRing, n))
<1>1. /\ UNCHANGED <<buffered, rxFifo, rxRing, events, came, taken, echo, written, wire>>
      /\ txFifo' = txFifo \o sent /\ txRing' = Consumed(txRing, n)
      /\ ena' = IF stored > room THEN ena ELSE ena \ {"EMPTY"}
  BY DEF TxEmptyInterrupt, TxStart, uartRx
<1>2. /\ txFifo \in Seq(Int) /\ Len(txFifo) <= FIFO_LEN /\ wire \in Seq(Int)
      /\ RingOK(txRing, TX_SIZE) /\ txRing \in Rings(TX_SIZE)
  BY UartFacts DEF UartTypeOK, RingOK
<1>3. /\ txRing.space \in Nat /\ txRing.space <= TX_SIZE /\ txRing.size = TX_SIZE
      /\ stored = TX_SIZE - txRing.space /\ Len(txFifo) \in Nat
  BY <1>2, UartFacts
<1>4. /\ n \in 0..(TX_SIZE - txRing.space) /\ n \in 0..TX_SIZE /\ n \in Nat /\ n <= room
      /\ (~(stored > room) => n = TX_SIZE - txRing.space)
  <2>1. /\ room \in Nat /\ stored \in Nat /\ stored <= TX_SIZE /\ stored = TX_SIZE - txRing.space
        /\ TX_SIZE \in Nat
    BY <1>2, <1>3, Sizes
  <2> HIDE DEF room, stored
  <2>2. /\ n \in 0..stored /\ n \in 0..TX_SIZE /\ n \in Nat /\ n <= room
        /\ (~(stored > room) => n = stored)
    BY <2>1 DEF Lesser
  <2> HIDE DEF n
  <2> QED
    BY <2>1, <2>2
<1> HIDE DEF n
<1>5. /\ RingOK(txRing', TX_SIZE) /\ txRing'.space = txRing.space + n
  BY <1>1, <1>2, <1>4, Sizes, ConsumedRing
<1>6. sent \o rest = Stored(txRing)
  BY <1>2, <1>4, Sizes, Consuming
<1>7. sent \in Seq(Int) /\ Len(sent) = n
  BY <1>2, <1>4, Sizes, Cells
<1>8. Stored(txRing') = rest /\ rest \in Seq(Int) /\ (rest = <<>> <=> txRing'.space = TX_SIZE)
  BY <1>1, <1>5, Sizes, StoredBytes
<1> HIDE DEF sent, rest
<1>9. txFifo' \in Seq(Int) /\ Len(txFifo') = Len(txFifo) + n
  BY <1>1, <1>2, <1>7, ConcatProperties
<1>10. Len(txFifo') <= FIFO_LEN
  BY <1>3, <1>4, <1>9, Sizes
<1>11. UartTypeOK'
  BY <1>1, <1>5, <1>9, <1>10, UartFacts DEF UartTypeOK
<1>12. TxIntact'
  <2>1. wire \o (txFifo \o sent) \o rest = wire \o txFifo \o (sent \o rest)
    <3>1. wire \in Seq(Int) /\ txFifo \in Seq(Int) /\ sent \in Seq(Int) /\ rest \in Seq(Int)
      BY <1>2, <1>7, <1>8
    <3> DEFINE left == wire \o txFifo
    <3>2. wire \o (txFifo \o sent) = left \o sent
      BY <3>1, Associative, SMTT(20), ZenonT(40)
    <3>3. left \in Seq(Int)
      BY <3>1
    <3> HIDE DEF left
    <3>4. left \o (sent \o rest) = left \o sent \o rest
      BY <3>1, <3>3, Associative
    <3> QED
      BY <3>2, <3>4, Zenon DEF left
  <2>2. wire' \o txFifo' \o Stored(txRing') = wire \o txFifo \o Stored(txRing)
    BY <2>1, <1>1, <1>6, <1>8
  <2> QED
    BY <2>2, <1>1, UartFacts DEF TxIntact
<1>13. ~buffered => txRing'.space = TX_SIZE
  BY <1>3, <1>4, <1>5, UartFacts DEF RingsKept
<1>14. stored > room \/ Stored(txRing') = <<>>
  <2>1. CASE ~(stored > room)
    <3>1. txRing'.space = TX_SIZE
      BY <2>1, <1>3, <1>4, <1>5, Sizes
    <3> QED
      BY <3>1, <1>8
  <2> QED
    BY <2>1
<1>15. RX_INTS \subseteq ena => RX_INTS \subseteq ena'
  BY <1>1 DEF RX_INTS
<1>16. Stored(txRing') # <<>> => Stored(txRing) # <<>>
  <2>1. txRing'.space # TX_SIZE => txRing.space # TX_SIZE
    BY <1>3, <1>4, <1>5
  <2> QED
    BY <2>1, <1>8, UartFacts
<1> HIDE DEF stored, room
<1>17. UartAwake'
  BY <1>1, <1>14, <1>15, <1>16, UartFacts DEF UartAwake
<1>18. RingsKept'
  BY <1>1, <1>13, UartFacts DEF RingsKept
<1> QED
  BY <1>1, <1>11, <1>12, <1>17, <1>18, UartFacts DEF UartIInv, EchoHasBytes, RxIntact

LEMMA RxBuffEnqStep == UartIInv /\ RxBuffEnq => UartIInv'
<1> SUFFICES ASSUME UartIInv, RxBuffEnq
             PROVE  UartIInv'
  OBVIOUS
<1>1. /\ UNCHANGED <<buffered, txFifo, txRing, written, wire, echo, came, taken>>
      /\ buffered /\ events > 0 /\ events' = events - 1
  BY DEF RxBuffEnq, uartTx
<1>2. events' \in Nat /\ rxFifo \in Seq(Int) /\ Len(rxFifo) \in Nat /\ Len(rxFifo) <= FIFO_LEN
      /\ RingOK(rxRing, RX_SIZE) /\ taken \in Seq(Int)
  BY <1>1 DEF UartIInv, UartTypeOK
<1>3. echo = NoEcho
  BY <1>1, UartFacts DEF EchoHasBytes
<1>4. CASE Len(rxFifo) >= rxRing.space
  <2>1. UNCHANGED <<rxFifo, rxRing, ena>>
    BY <1>4 DEF RxBuffEnq
  <2>2. rxRing.space # RX_SIZE
    BY <1>2, <1>4, Sizes, UartFacts
  <2>3. UartTypeOK' /\ EchoHasBytes'
    BY <1>1, <1>2, <1>3, <2>1, UartFacts DEF UartTypeOK, EchoHasBytes
  <2>4. UartAwake'
    BY <1>1, <2>1, <2>2, UartFacts DEF UartAwake
  <2> QED
    BY <1>1, <2>1, <2>3, <2>4, UartFacts DEF UartIInv, RingsKept, RxIntact, TxIntact
<1>5. CASE ~(Len(rxFifo) >= rxRing.space)
  <2>1. /\ rxRing' = EnqueuedEach(rxRing, rxFifo) /\ rxFifo' = <<>>
        /\ ena' = IF rxRing'.space >= FIFO_LEN THEN ena \cup RX_INTS ELSE ena
    BY <1>5 DEF RxBuffEnq
  <2>2. Len(rxFifo) <= rxRing.space
    BY <1>2, <1>5, UartFacts
  <2>3. /\ RingOK(rxRing', RX_SIZE) /\ rxRing'.space = rxRing.space - Len(rxFifo)
        /\ Stored(rxRing') = Stored(rxRing) \o rxFifo
    <3>1. /\ RingOK(EnqueuedEach(rxRing, rxFifo), RX_SIZE)
          /\ EnqueuedEach(rxRing, rxFifo).space = rxRing.space - Len(rxFifo)
      BY <1>2, <2>2, Sizes, EnqueuedRing
    <3>2. Stored(EnqueuedEach(rxRing, rxFifo)) = Stored(rxRing) \o rxFifo
      BY <1>2, <2>2, Sizes, Enqueuing
    <3> QED
      BY <2>1, <3>1, <3>2
  <2>4. rxRing'.space > 0
    BY <1>2, <1>5, <2>3, UartFacts
  <2>5. UartTypeOK'
    BY <1>1, <1>2, <2>1, <2>3, Sizes, UartFacts DEF UartTypeOK
  <2>6. RxIntact'
    <3> DEFINE old == Stored(rxRing)
    <3>1. old \in Seq(Int) /\ taken \in Seq(Int) /\ rxFifo \in Seq(Int)
      BY <1>2, UartFacts
    <3>2. Stored(rxRing') \o rxFifo' = Stored(rxRing')
      BY <2>1, <2>3, <3>1
    <3>3. taken' \o Stored(rxRing') \in Seq(Int)
      BY <1>1, <2>3, <3>1
    <3>4. taken' \o Stored(rxRing') \o rxFifo' = taken' \o Stored(rxRing')
      BY <2>1, <3>3
    <3>5. taken \o (old \o rxFifo) = taken \o old \o rxFifo
      BY <3>1, Associative
    <3> QED
      BY <1>1, <2>3, <3>4, <3>5, UartFacts DEF RxIntact
  <2>7. UartAwake'
    <3>1. CASE rxRing'.space >= FIFO_LEN
      BY <1>1, <2>1, <3>1, UartFacts DEF UartAwake
    <3>2. CASE ~(rxRing'.space >= FIFO_LEN)
      <4>1. rxRing'.space # RX_SIZE
        BY <1>2, <2>3, <3>2, Sizes, UartFacts
      <4>2. Stored(rxRing') # <<>>
        BY <2>3, <4>1, Sizes, StoredBytes
      <4> QED
        BY <1>1, <2>1, <3>2, <4>2, UartFacts DEF UartAwake
    <3> QED
      BY <3>1, <3>2
  <2>8. RingsKept' /\ EchoHasBytes'
    BY <1>1, <1>3, <2>4, UartFacts DEF RingsKept, EchoHasBytes
  <2> QED
    BY <1>1, <2>5, <2>6, <2>7, <2>8, UartFacts DEF UartIInv, TxIntact
<1> QED
  BY <1>4, <1>5

(* The task without rings.                                                 *)
LEMMA EchoBeginsStep == UartIInv /\ EchoBegins => UartIInv'
<1> SUFFICES ASSUME UartIInv, EchoBegins
             PROVE  UartIInv'
  OBVIOUS
<1>1. /\ UNCHANGED <<buffered, txFifo, txRing, written, wire, rxFifo, rxRing, events, came, taken,
                     ena>>
      /\ ~buffered /\ events > 0 /\ echo' = Len(rxFifo)
  BY DEF EchoBegins, uartTx, uartRx
<1>2. UartTypeOK' /\ EchoHasBytes'
  BY <1>1, UartFacts DEF UartTypeOK, EchoHasBytes
<1> QED
  BY <1>1, <1>2, UartFacts DEF UartIInv, RingsKept, RxIntact, TxIntact, UartAwake

LEMMA EchoByteStep == UartIInv /\ EchoByte => UartIInv'
<1> SUFFICES ASSUME UartIInv, EchoByte
             PROVE  UartIInv'
  OBVIOUS
<1>1. /\ UNCHANGED <<buffered, rxRing, txRing, ena, events, came, wire>>
      /\ echo > 0 /\ Len(txFifo) < TX_LIMIT /\ echo' = echo - 1
      /\ rxFifo' = Tail(rxFifo) /\ taken' = Append(taken, Head(rxFifo))
      /\ txFifo' = Append(txFifo, Head(rxFifo)) /\ written' = Append(written, Head(rxFifo))
  BY DEF EchoByte
<1>2. ~buffered /\ events > 0 /\ echo <= Len(rxFifo) /\ echo \in Int
  BY <1>1, UartFacts DEF EchoHasBytes, NoEcho, UartTypeOK
<1>3. /\ rxFifo \in Seq(Int) /\ txFifo \in Seq(Int) /\ taken \in Seq(Int) /\ written \in Seq(Int)
      /\ wire \in Seq(Int) /\ Len(rxFifo) \in Nat /\ Len(rxFifo) <= FIFO_LEN /\ Len(txFifo) \in Nat
  BY DEF UartIInv, UartTypeOK
<1>4. rxFifo # <<>>
  BY <1>1, <1>2, <1>3
<1>5. /\ Head(rxFifo) \in Int /\ rxFifo' \in Seq(Int) /\ Len(rxFifo') = Len(rxFifo) - 1
      /\ taken' \o rxFifo' = taken \o rxFifo /\ taken' \in Seq(Int)
  BY <1>1, <1>3, <1>4, MovedFirst
<1>6. txFifo' \in Seq(Int) /\ Len(txFifo') = Len(txFifo) + 1 /\ written' \in Seq(Int)
  BY <1>1, <1>3, <1>5, AppendProperties
<1>7. UartTypeOK'
  <2>1. Len(rxFifo') <= FIFO_LEN /\ Len(txFifo') <= FIFO_LEN /\ echo' \in Int
    <3>1. FIFO_LEN \in Nat /\ TX_LIMIT \in Nat /\ TX_LIMIT <= FIFO_LEN
      BY Sizes
    <3> QED
      BY <3>1, <1>1, <1>2, <1>3, <1>5, <1>6
  <2> QED
    BY <2>1, <1>1, <1>2, <1>5, <1>6, UartFacts DEF UartTypeOK
<1>8. Stored(rxRing) = <<>> /\ Stored(txRing) = <<>>
  BY <1>2, UartFacts DEF RingsKept
<1>9. RxIntact'
  <2>1. taken \o Stored(rxRing) = taken /\ taken' \o Stored(rxRing') = taken'
    BY <1>1, <1>3, <1>5, <1>8
  <2> QED
    BY <2>1, <1>1, <1>5, UartFacts DEF RxIntact
<1>10. TxIntact'
  <2>1. wire \o <<>> \o Append(txFifo, Head(rxFifo)) = Append(wire \o <<>> \o txFifo, Head(rxFifo))
    <3>1. wire \in Seq(Int) /\ <<>> \in Seq(Int) /\ txFifo \in Seq(Int) /\ Head(rxFifo) \in Int
      BY <1>3, <1>5
    <3> QED
      BY <3>1, AppendedLast, Zenon
  <2>2. wire \o <<>> = wire
    BY <1>3
  <2>3. wire' \o txFifo' = Append(wire \o txFifo, Head(rxFifo))
    BY <1>1, <2>1, <2>2
  <2>4. wire \o txFifo \in Seq(Int) /\ wire' \o txFifo' \in Seq(Int)
    BY <1>1, <1>3, <1>6
  <2>5. /\ wire \o txFifo \o Stored(txRing) = wire \o txFifo
        /\ wire' \o txFifo' \o Stored(txRing') = wire' \o txFifo'
    BY <1>1, <1>8, <2>4
  <2> QED
    BY <1>1, <2>3, <2>5, UartFacts DEF TxIntact
<1>11. EchoHasBytes'
  BY <1>1, <1>2, <1>3, <1>5 DEF EchoHasBytes
<1> QED
  BY <1>1, <1>2, <1>7, <1>9, <1>10, <1>11, UartFacts DEF UartIInv, RingsKept, UartAwake

LEMMA EchoEndsStep == UartIInv /\ EchoEnds => UartIInv'
<1> SUFFICES ASSUME UartIInv, EchoEnds
             PROVE  UartIInv'
  OBVIOUS
<1>1. /\ UNCHANGED <<buffered, txFifo, txRing, written, wire, rxFifo, rxRing, came, taken>>
      /\ echo = 0 /\ echo' = NoEcho /\ events' = events - 1
  BY DEF EchoEnds, uartTx
<1>2. ~buffered /\ events > 0
  BY <1>1, UartFacts DEF EchoHasBytes, NoEcho
<1>3. UartTypeOK'
  BY <1>1, <1>2 DEF UartIInv, UartTypeOK, NoEcho
<1> QED
  BY <1>1, <1>2, <1>3, UartFacts
  DEF UartIInv, EchoHasBytes, RingsKept, RxIntact, TxIntact, UartAwake

(* The application.                                                        *)
LEMMA RxBuffDeqStep == ASSUME NEW m \in 1..RX_SIZE
                       PROVE  UartIInv /\ RxBuffDeq(m) => UartIInv'
<1> SUFFICES ASSUME UartIInv, RxBuffDeq(m)
             PROVE  UartIInv'
  OBVIOUS
<1> DEFINE n == Lesser(m, RX_SIZE - rxRing.space)
<1> DEFINE read == DequeuedEach(rxRing, n)
<1> DEFINE rest == Stored(Consumed(rxRing, n))
<1>1. /\ RingOK(rxRing, RX_SIZE) /\ rxRing \in Rings(RX_SIZE) /\ rxRing.space > 0
      /\ rxRing.space \in Nat /\ rxRing.space <= RX_SIZE
      /\ taken \in Seq(Int) /\ rxFifo \in Seq(Int)
  <2>1. RingOK(rxRing, RX_SIZE) /\ rxRing.space > 0 /\ taken \in Seq(Int) /\ rxFifo \in Seq(Int)
    BY DEF UartIInv, UartTypeOK, RingsKept
  <2>2. rxRing \in Rings(RX_SIZE)
    BY <2>1 DEF RingOK
  <2>3. rxRing.space \in Nat /\ rxRing.space <= RX_SIZE
    <3>1. rxRing.space \in 0..RX_SIZE /\ RX_SIZE \in Nat
      BY <2>1, Sizes, StoredBytes
    <3> QED
      BY <3>1
  <2> QED
    BY <2>1, <2>2, <2>3
<1>2. m \in Nat
  BY Sizes
<1>3. /\ n \in 0..(RX_SIZE - rxRing.space)
      /\ Dequeued(rxRing, m).ring = Consumed(rxRing, n)
      /\ Dequeued(rxRing, m).data = read
  BY <1>1, <1>2, Sizes, DequeuedInOrder
<1> HIDE DEF n
<1>4. n \in Nat /\ n \in 0..RX_SIZE /\ rxRing.space + n <= RX_SIZE
  BY <1>1, <1>3, Sizes
<1>5. /\ UNCHANGED <<buffered, txFifo, txRing, written, wire, rxFifo, events, echo, came>>
      /\ buffered /\ rxRing' = Consumed(rxRing, n) /\ taken' = taken \o read
      /\ ena' = IF rxRing'.space >= FIFO_LEN THEN ena \cup RX_INTS ELSE ena
  BY <1>3 DEF RxBuffDeq, uartTx
<1>6. RingOK(rxRing', RX_SIZE) /\ rxRing'.space = rxRing.space + n
  BY <1>1, <1>3, <1>5, Sizes, ConsumedRing
<1>7. read \o rest = Stored(rxRing)
  BY <1>1, <1>3, Sizes, Consuming
<1>8. read \in Seq(Int)
  BY <1>1, <1>4, Sizes, Cells
<1>9. Stored(rxRing') = rest /\ rest \in Seq(Int) /\ (rest = <<>> <=> rxRing'.space = RX_SIZE)
  BY <1>5, <1>6, Sizes, StoredBytes
<1> HIDE DEF read, rest
<1>10. taken' \in Seq(Int)
  BY <1>1, <1>5, <1>8
<1>11. UartTypeOK'
  BY <1>5, <1>6, <1>10, UartFacts DEF UartTypeOK
<1>12. RxIntact'
  <2>1. (taken \o read) \o rest = taken \o (read \o rest)
    <3>1. taken \in Seq(Int) /\ read \in Seq(Int) /\ rest \in Seq(Int)
      BY <1>1, <1>8, <1>9
    <3> QED
      BY <3>1, Associative
  <2> QED
    BY <2>1, <1>5, <1>7, <1>9, UartFacts DEF RxIntact
<1>13. rxRing'.space > 0
  BY <1>1, <1>4, <1>6
<1>14. UartAwake'
  <2>1. CASE rxRing'.space >= FIFO_LEN
    BY <2>1, <1>5, UartFacts DEF UartAwake
  <2>2. CASE ~(rxRing'.space >= FIFO_LEN)
    <3>1. rxRing'.space # RX_SIZE
      BY <1>1, <1>4, <1>6, <2>2, Sizes
    <3> QED
      BY <3>1, <2>2, <1>5, <1>9, UartFacts DEF UartAwake
  <2> QED
    BY <2>1, <2>2
<1> QED
  BY <1>5, <1>11, <1>12, <1>13, <1>14, UartFacts DEF UartIInv, RingsKept, EchoHasBytes, TxIntact

LEMMA TxBuffEnqStep == ASSUME NEW n \in 1..TX_SIZE
                       PROVE  UartIInv /\ TxBuffEnq(n) => UartIInv'
<1> SUFFICES ASSUME UartIInv, TxBuffEnq(n)
             PROVE  UartIInv'
  OBVIOUS
<1> DEFINE data == [i \in 1..n |-> NextByte + i - 1]
<1>1. /\ UNCHANGED <<buffered, rxFifo, rxRing, events, came, taken, txFifo, wire, echo>>
      /\ buffered /\ ena' = ena \cup {"EMPTY"}
      /\ IF n <= txRing.space
         THEN txRing' = UartBufCpy(txRing, data) /\ written' = written \o data
         ELSE UNCHANGED <<txRing, written>>
  BY DEF TxBuffEnq, uartRx
<1>2. NextByte \in Int /\ n \in Nat
  BY UartFacts, Sizes DEF UartTypeOK, NextByte
<1>3. data \in [1..n -> Int]
  BY <1>2
<1>4. data \in Seq(Int) /\ Len(data) = n
  BY <1>2, <1>3
<1> HIDE DEF data
<1>5. UartAwake'
  BY <1>1, UartFacts DEF UartAwake
<1>6. CASE n <= txRing.space
  <2>1. RingOK(txRing, TX_SIZE) /\ Len(data) <= txRing.space
    BY <1>4, <1>6, UartFacts DEF UartTypeOK
  <2>2. txRing' = EnqueuedEach(txRing, data) /\ written' = written \o data
    BY <1>1, <1>4, <1>6, <2>1, Sizes, CopiedRing
  <2>3. RingOK(txRing', TX_SIZE) /\ Stored(txRing') = Stored(txRing) \o data
    BY <1>4, <2>1, <2>2, Sizes, EnqueuedRing, Enqueuing
  <2>4. /\ written \in Seq(Int) /\ wire \in Seq(Int) /\ txFifo \in Seq(Int)
        /\ Stored(txRing) \in Seq(Int) /\ wire \o txFifo \in Seq(Int)
    BY UartFacts DEF UartTypeOK
  <2>5. UartTypeOK'
    <3>1. written' \in Seq(Int)
      BY <1>4, <2>2, <2>4
    <3> QED
      BY <3>1, <1>1, <2>3, UartFacts DEF UartTypeOK
  <2>6. TxIntact'
    <3>1. (wire \o txFifo) \o (Stored(txRing) \o data) = (wire \o txFifo) \o Stored(txRing) \o data
      <4> DEFINE sent == wire \o txFifo
      <4>1. sent \in Seq(Int) /\ Stored(txRing) \in Seq(Int) /\ data \in Seq(Int)
        BY <1>4, <2>4
      <4> HIDE DEF sent
      <4>2. sent \o (Stored(txRing) \o data) = sent \o Stored(txRing) \o data
        BY <4>1, Associative
      <4> QED
        BY <4>2 DEF sent
    <3> QED
      BY <3>1, <1>1, <2>2, <2>3, UartFacts DEF TxIntact
  <2> QED
    BY <1>1, <1>5, <2>5, <2>6, UartFacts DEF UartIInv, RingsKept, EchoHasBytes, RxIntact
<1>7. CASE ~(n <= txRing.space)
  <2>1. UNCHANGED <<txRing, written>>
    BY <1>1, <1>7
  <2> QED
    BY <2>1, <1>1, <1>5, UartFacts
    DEF UartIInv, UartTypeOK, RingsKept, EchoHasBytes, RxIntact, TxIntact
<1> QED
  BY <1>6, <1>7

LEMMA TxOneCharStep == UartIInv /\ TxOneCharNoWait => UartIInv'
<1> SUFFICES ASSUME UartIInv, TxOneCharNoWait
             PROVE  UartIInv'
  OBVIOUS
<1>1. /\ UNCHANGED <<buffered, rxFifo, rxRing, events, came, taken, txRing, ena, wire, echo>>
      /\ ~buffered
  BY DEF TxOneCharNoWait, uartRx
<1>2. NextByte \in Int
  BY UartFacts DEF UartTypeOK, NextByte
<1>3. CASE Len(txFifo) < TX_LIMIT
  <2>1. txFifo' = Append(txFifo, NextByte) /\ written' = Append(written, NextByte)
    BY <1>3 DEF TxOneCharNoWait
  <2>2. /\ written \in Seq(Int) /\ wire \in Seq(Int) /\ txFifo \in Seq(Int) /\ Len(txFifo) \in Nat
        /\ Stored(txRing) = <<>> /\ wire \o txFifo \in Seq(Int)
    BY <1>1, UartFacts DEF UartTypeOK, RingsKept
  <2>3. txFifo' \in Seq(Int) /\ Len(txFifo') = Len(txFifo) + 1 /\ written' \in Seq(Int)
    BY <1>2, <2>1, <2>2, AppendProperties
  <2>4. UartTypeOK'
    <3>1. Len(txFifo') <= FIFO_LEN
      BY <1>3, <2>2, <2>3, Sizes
    <3> QED
      BY <3>1, <1>1, <2>3, UartFacts DEF UartTypeOK
  <2>5. TxIntact'
    <3>1. wire \in Seq(Int) /\ <<>> \in Seq(Int) /\ txFifo \in Seq(Int)
      BY <2>2
    <3>2. wire \o <<>> \o Append(txFifo, NextByte) = Append(wire \o <<>> \o txFifo, NextByte)
      BY <1>2, <3>1, AppendedLast, Zenon
    <3>3. wire \o <<>> = wire
      BY <2>2
    <3>4. wire' \o txFifo' = Append(wire \o txFifo, NextByte)
      BY <1>1, <2>1, <3>2, <3>3
    <3>5. wire' \o txFifo' \in Seq(Int)
      BY <1>1, <2>2, <2>3
    <3>6. /\ wire \o txFifo \o Stored(txRing) = wire \o txFifo
          /\ wire' \o txFifo' \o Stored(txRing') = wire' \o txFifo'
      BY <1>1, <2>2, <3>5
    <3> QED
      BY <2>1, <3>4, <3>6, UartFacts DEF TxIntact
  <2> QED
    BY <1>1, <2>4, <2>5, UartFacts DEF UartIInv, RingsKept, EchoHasBytes, RxIntact, UartAwake
<1>4. CASE ~(Len(txFifo) < TX_LIMIT)
  <2>1. UNCHANGED <<txFifo, written>>
    BY <1>4 DEF TxOneCharNoWait
  <2> QED
    BY <2>1, <1>1, UartFacts
    DEF UartIInv, UartTypeOK, RingsKept, EchoHasBytes, RxIntact, TxIntact, UartAwake
<1> QED
  BY <1>3, <1>4

LEMMA UartStep == UartIInv /\ [UartNext]_uartVars => UartIInv'
<1> SUFFICES ASSUME UartIInv, [UartNext]_uartVars
             PROVE  UartIInv'
  OBVIOUS
<1>1. CASE LineIdle
  BY <1>1, QuietSteps DEF LineIdle, uartTx
<1>2. CASE FrameError
  BY <1>2, QuietSteps DEF FrameError, uartTx
<1>3. ASSUME NEW int \in {"OVF", "FRM_ERR"}, ErrorInterrupt(int)
      PROVE  UartIInv'
  BY <1>3, QuietSteps DEF ErrorInterrupt, uartTx
<1>4. CASE UNCHANGED uartVars
  BY <1>4, QuietSteps DEF uartVars
<1> QED
  BY <1>1, <1>2, <1>3, <1>4, ByteArrivesStep, ByteLeavesStep, RxInterruptStep, TxEmptyStep,
     RxBuffEnqStep, EchoBeginsStep, EchoByteStep, EchoEndsStep, RxBuffDeqStep, TxBuffEnqStep,
     TxOneCharStep
  DEF UartNext

(* Whatever the sizes of the FIFOs and the rings, whenever the interrupts, *)
(* the task and the application run: every byte that found room arrives,   *)
(* once and in order, and the interrupts that are needed are on (uart.c:   *)
(* uart0_rx_intr_handler(), uart_recvTask(), the ring buffers).            *)
THEOREM UartCorrect == UartSpec => []UartLossless
<1>1. UartIInv => UartLossless
  BY DEF UartIInv, UartLossless
<1> QED
  BY <1>1, UartInitial, UartStep, PTL DEF UartSpec
-------------------------------------------------------------------------------
(* The SDIO slave.  All buffers in one order: those that wait for the      *)
(* host, then those that may be filled.                                    *)
NUM == RX_BUFFER_NUM
Positions == 1..NUM
Orders == {p \in [Positions -> Buffers] :
             /\ \A i, j \in Positions : p[i] = p[j] => i = j
             /\ \A b \in Buffers : \E i \in Positions : p[i] = b}

BufferOrNil == Buffers \cup {NIL}
Ends == [head : BufferOrNil, tail : BufferOrNil]

Shaped(q) ==
  q = [link |-> q.link, filled |-> q.filled, toSend |-> q.toSend, sended |-> q.sended,
       has_read |-> q.has_read, rxQue |-> q.rxQue, status |-> q.status]

(* The first k buffers of the order p wait, the others may be filled.      *)
Linked(q, p, k) ==
  /\ \A i \in Positions : q.link[p[i]] = IF i = k \/ i = NUM THEN NIL ELSE p[i + 1]
  /\ q.toSend.head = IF k = 0 THEN NIL ELSE p[1]
  /\ q.sended.head = IF k = NUM THEN NIL ELSE p[k + 1]
  /\ k # 0 => q.toSend.tail = p[k]
  /\ k # NUM => q.sended.tail = p[NUM]

Ordered(q, p, k) ==
  /\ Shaped(q) /\ q.link \in [Buffers -> BufferOrNil] /\ q.toSend \in Ends /\ q.sended \in Ends
  /\ Linked(q, p, k)

(* Between the pieces of a load, the lists are as before it but for them.  *)
Lists(p, k) ==
  /\ ~Moving => Ordered(Now, p, k)
  /\ Moving => k # NUM /\ \E q : /\ Ordered(q, p, k)
                                 /\ load.at = "next" => Now = LinkTail(q)
                                 /\ load.at = "end" => Now = NextSended(LinkTail(q))

(* What the host may read, or has read without having been answered, is    *)
(* the first of the buffers that wait: there is one.                       *)
OneIsOffered ==
  /\ status.rx_available \/ "rx_eof" \in InHand => toSend.head # NIL
  /\ ~("rx_eof" \in pending /\ "rx_eof" \in isr.serves)

SdioShapes ==
  /\ "rx_available" \in DOMAIN status
  /\ isr = [at |-> isr.at, serves |-> isr.serves]
  /\ load = [at |-> load.at, left |-> load.left, last |-> load.last,
             inCallback |-> load.inCallback]

SdioIInv == SdioShapes /\ OneIsOffered /\ \E p \in Orders, k \in 0..NUM : Lists(p, k)

LEMMA Places == /\ NUM \in Nat /\ NUM >= 2 /\ 1 \in Positions /\ NUM \in Positions
                /\ NIL \notin Buffers
                /\ \A i : i \in Positions <=> i \in Nat /\ 1 <= i /\ i <= NUM
BY SdioAssumption DEF NUM, Positions, Buffers, NIL

LEMMA Placed ==
  ASSUME NEW p \in Orders
  PROVE  /\ p \in [Positions -> Buffers]
         /\ \A i \in Positions : p[i] \in Buffers /\ p[i] # NIL
         /\ \A i, j \in Positions : p[i] = p[j] => i = j
         /\ \A c \in Buffers : \E i \in Positions : p[i] = c
<1>1. /\ p \in [Positions -> Buffers]
      /\ \A i, j \in Positions : p[i] = p[j] => i = j
      /\ \A c \in Buffers : \E i \in Positions : p[i] = c
  BY Zenon DEF Orders
<1>2. ASSUME NEW i \in Positions
      PROVE  p[i] \in Buffers /\ p[i] # NIL
  <2>1. p[i] \in Buffers
    BY <1>1, Zenon
  <2> QED
    BY <2>1, Places, Zenon
<1> QED
  BY <1>1, <1>2, Zenon

LEMMA QueueFields ==
  ASSUME NEW q, NEW p, NEW k, Ordered(q, p, k)
  PROVE  /\ Shaped(q) /\ Linked(q, p, k)
         /\ q.link \in [Buffers -> BufferOrNil] /\ q.toSend \in Ends /\ q.sended \in Ends
         /\ q.toSend.head \in BufferOrNil /\ q.toSend.tail \in BufferOrNil
         /\ q.sended.head \in BufferOrNil /\ q.sended.tail \in BufferOrNil
         /\ q.toSend = [head |-> q.toSend.head, tail |-> q.toSend.tail]
         /\ q.sended = [head |-> q.sended.head, tail |-> q.sended.tail]
BY DEF Ordered, Ends

(* The heads say how many wait.                                            *)
LEMMA HeadsTell ==
  ASSUME NEW q, NEW p \in Orders, NEW k \in 0..NUM, Ordered(q, p, k)
  PROVE  (q.toSend.head = NIL <=> k = 0) /\ (q.sended.head = NIL <=> k = NUM)
<1>1. p[1] # NIL /\ (k # NUM => k + 1 \in Positions /\ p[k + 1] # NIL)
  BY Places, Placed
<1> QED
  BY <1>1 DEF Ordered, Linked

(* What a step of the driver changes beside the lists leaves them.         *)
LEMMA SameLists ==
  ASSUME NEW q, NEW r, NEW p, NEW k, Ordered(q, p, k), Shaped(r),
         r.link = q.link, r.toSend = q.toSend, r.sended = q.sended
  PROVE  Ordered(r, p, k)
BY DEF Ordered, Linked

(* The pieces of a load, one after the other.                              *)
LEMMA Pieces ==
  ASSUME NEW q, Shaped(q)
  PROVE  LET b == q.sended.head
             linked == IF q.toSend.head = NIL THEN q.link
                       ELSE [q.link EXCEPT ![q.toSend.tail] = b]
         IN  /\ LinkTail(q) =
                  [link |-> linked, filled |-> q.filled,
                   toSend |-> IF q.toSend.head = NIL THEN [head |-> b, tail |-> b]
                              ELSE [q.toSend EXCEPT !.tail = b],
                   sended |-> q.sended, has_read |-> q.has_read,
                   rxQue |-> q.rxQue, status |-> q.status]
             /\ NextSended(q) =
                  [link |-> q.link, filled |-> q.filled, toSend |-> q.toSend,
                   sended |-> [q.sended EXCEPT !.head = q.link[b]],
                   has_read |-> q.has_read, rxQue |-> q.rxQue, status |-> q.status]
             /\ EndToSend(q) =
                  [link |-> [q.link EXCEPT ![q.toSend.tail] = NIL], filled |-> q.filled,
                   toSend |-> q.toSend, sended |-> q.sended, has_read |-> q.has_read,
                   rxQue |-> q.rxQue, status |-> q.status]
             /\ Shaped(LinkTail(q)) /\ Shaped(NextSended(q)) /\ Shaped(EndToSend(q))
<1> DEFINE b == q.sended.head
<1>1. LinkTail(q) =
        [link |-> IF q.toSend.head = NIL THEN q.link ELSE [q.link EXCEPT ![q.toSend.tail] = b],
         filled |-> q.filled,
         toSend |-> IF q.toSend.head = NIL THEN [head |-> b, tail |-> b]
                    ELSE [q.toSend EXCEPT !.tail = b],
         sended |-> q.sended, has_read |-> q.has_read, rxQue |-> q.rxQue, status |-> q.status]
  BY DEF LinkTail, Shaped
<1>2. NextSended(q) =
        [link |-> q.link, filled |-> q.filled, toSend |-> q.toSend,
         sended |-> [q.sended EXCEPT !.head = q.link[b]],
         has_read |-> q.has_read, rxQue |-> q.rxQue, status |-> q.status]
  BY DEF NextSended, Shaped
<1>3. EndToSend(q) =
        [link |-> [q.link EXCEPT ![q.toSend.tail] = NIL], filled |-> q.filled,
         toSend |-> q.toSend, sended |-> q.sended, has_read |-> q.has_read,
         rxQue |-> q.rxQue, status |-> q.status]
  BY DEF EndToSend, Shaped
<1>4. Shaped(LinkTail(q)) /\ Shaped(NextSended(q)) /\ Shaped(EndToSend(q))
  BY <1>1, <1>2, <1>3 DEF Shaped
<1> QED
  BY <1>1, <1>2, <1>3, <1>4

(* A load moves the first of the buffers that may be filled.               *)
LEMMA PutMoves ==
  ASSUME NEW p \in Orders, NEW k \in 0..NUM, k # NUM, NEW q, Ordered(q, p, k)
  PROVE  /\ Ordered(PutToSend(q), p, k + 1)
         /\ LinkTail(q).toSend.head # NIL /\ LinkTail(q).status = q.status
         /\ NextSended(LinkTail(q)).toSend = LinkTail(q).toSend
         /\ NextSended(LinkTail(q)).status = q.status
         /\ PutToSend(q).status = q.status
         /\ Shaped(LinkTail(q)) /\ Shaped(NextSended(LinkTail(q)))
<1> DEFINE b == p[k + 1]
<1> DEFINE linked == IF k = 0 THEN q.link ELSE [q.link EXCEPT ![p[k]] = b]
<1> DEFINE link1 == [linked EXCEPT ![b] = NIL]
<1> DEFINE ends == [head |-> IF k = 0 THEN b ELSE q.toSend.head, tail |-> b]
<1> DEFINE u == LinkTail(q)
<1> DEFINE v == NextSended(u)
<1> DEFINE r == EndToSend(v)
<1>1. Shaped(q) /\ Linked(q, p, k)
  BY QueueFields
<1>2. k + 1 \in Positions /\ b \in Buffers /\ b # NIL /\ (k # 0 => k \in Positions /\ p[k] # b)
  <2>1. k + 1 \in Positions /\ (k # 0 => k \in Positions)
    BY Places
  <2>2. b \in Buffers /\ b # NIL
    BY <2>1, Placed
  <2>3. ASSUME k # 0 PROVE p[k] # b
    <3>1. k # k + 1
      OBVIOUS
    <3> QED
      BY <2>1, <2>3, <3>1, Placed
  <2> QED
    BY <2>1, <2>2, <2>3
<1>3. q.sended.head = b /\ (q.toSend.head = NIL <=> k = 0) /\ (k # 0 => q.toSend.tail = p[k])
  BY <1>1, HeadsTell DEF Linked
<1> HIDE DEF b
<1>4. /\ u = [link |-> linked, filled |-> q.filled, toSend |-> ends, sended |-> q.sended,
              has_read |-> q.has_read, rxQue |-> q.rxQue, status |-> q.status]
      /\ Shaped(u)
  <2>1. q.toSend = [head |-> q.toSend.head, tail |-> q.toSend.tail]
    BY QueueFields
  <2>2. (IF q.toSend.head = NIL THEN [head |-> b, tail |-> b] ELSE [q.toSend EXCEPT !.tail = b])
          = ends
    BY <1>3, <2>1
  <2>3. (IF q.toSend.head = NIL THEN q.link ELSE [q.link EXCEPT ![q.toSend.tail] = b]) = linked
    BY <1>3
  <2> HIDE DEF ends, linked
  <2> QED
    BY <1>1, <1>3, <2>2, <2>3, Pieces
<1> HIDE DEF u
<1>5. /\ v = [link |-> linked, filled |-> q.filled, toSend |-> ends,
              sended |-> [head |-> linked[b], tail |-> q.sended.tail],
              has_read |-> q.has_read, rxQue |-> q.rxQue, status |-> q.status]
      /\ Shaped(v)
  <2>1. q.sended = [head |-> q.sended.head, tail |-> q.sended.tail]
    BY QueueFields
  <2>2. /\ u.link = linked /\ u.filled = q.filled /\ u.toSend = ends /\ u.sended = q.sended
        /\ u.has_read = q.has_read /\ u.rxQue = q.rxQue /\ u.status = q.status
    BY <1>4
  <2>3. [u.sended EXCEPT !.head = linked[b]] = [head |-> linked[b], tail |-> q.sended.tail]
    BY <2>1, <2>2
  <2>4. /\ v = [link |-> u.link, filled |-> u.filled, toSend |-> u.toSend,
                sended |-> [u.sended EXCEPT !.head = u.link[u.sended.head]],
                has_read |-> u.has_read, rxQue |-> u.rxQue, status |-> u.status]
        /\ Shaped(v)
    BY <1>4, Pieces
  <2>5. u.sended.head = b
    BY <1>3, <2>2
  <2> HIDE DEF ends, linked, v
  <2> QED
    BY <2>2, <2>3, <2>4, <2>5
<1> HIDE DEF v
<1>6. /\ r = [link |-> link1, filled |-> q.filled, toSend |-> ends,
              sended |-> [head |-> linked[b], tail |-> q.sended.tail],
              has_read |-> q.has_read, rxQue |-> q.rxQue, status |-> q.status]
      /\ Shaped(r)
  <2>1. v.toSend = ends /\ ends.tail = b /\ v.link = linked
    BY <1>5
  <2>2. /\ r = [link |-> [v.link EXCEPT ![v.toSend.tail] = NIL], filled |-> v.filled,
                toSend |-> v.toSend, sended |-> v.sended, has_read |-> v.has_read,
                rxQue |-> v.rxQue, status |-> v.status]
        /\ Shaped(r)
    BY <1>5, Pieces
  <2>3. /\ v.filled = q.filled /\ v.sended = [head |-> linked[b], tail |-> q.sended.tail]
        /\ v.has_read = q.has_read /\ v.rxQue = q.rxQue /\ v.status = q.status
    BY <1>5
  <2> HIDE DEF ends, linked, r
  <2> QED
    BY <2>1, <2>2, <2>3
<1>7. q.link \in [Buffers -> BufferOrNil]
  BY QueueFields
<1>8. linked \in [Buffers -> BufferOrNil] /\ link1 \in [Buffers -> BufferOrNil]
  BY <1>2, <1>7, Places DEF BufferOrNil
<1>9. /\ \A i \in Positions : link1[p[i]] = IF i = k + 1 \/ i = NUM THEN NIL ELSE p[i + 1]
      /\ linked[b] = IF k + 1 = NUM THEN NIL ELSE p[k + 2]
  <2>1. ASSUME NEW i \in Positions, i # k, i # k + 1
        PROVE  link1[p[i]] = q.link[p[i]]
    <3>1. p[i] # b /\ (k # 0 => p[i] # p[k]) /\ p[i] \in Buffers
      BY <1>2, <2>1, Placed DEF b
    <3> QED
      BY <1>2, <1>7, <3>1
  <2>2. link1[b] = NIL /\ linked[b] = q.link[b]
    BY <1>2, <1>7, Places
  <2>3. ASSUME k # 0 PROVE link1[p[k]] = b
    <3>1. p[k] \in Buffers /\ p[k] # b
      BY <1>2, <2>3, Placed
    <3>2. linked = [q.link EXCEPT ![p[k]] = b]
      BY <2>3
    <3> QED
      BY <1>7, <1>8, <3>1, <3>2
  <2>4. q.link[b] = IF k + 1 = NUM THEN NIL ELSE p[k + 2]
    BY <1>1, <1>2, Places DEF Linked, b
  <2> HIDE DEF link1, linked
  <2>5. ASSUME NEW i \in Positions
        PROVE  link1[p[i]] = IF i = k + 1 \/ i = NUM THEN NIL ELSE p[i + 1]
    <3>1. CASE i = k + 1
      BY <2>2, <3>1 DEF b
    <3>2. CASE i = k
      BY <1>2, <2>3, <3>2, Places DEF b
    <3>3. CASE i # k /\ i # k + 1
      BY <1>1, <2>1, <3>3 DEF Linked
    <3> QED
      BY <3>1, <3>2, <3>3
  <2> QED
    BY <2>2, <2>4, <2>5
<1> HIDE DEF link1, linked
<1>10. r.toSend \in Ends /\ r.sended \in Ends /\ r.link = link1
  <2>1. r.toSend = ends /\ r.sended = [head |-> linked[b], tail |-> q.sended.tail] /\ r.link = link1
    <3> HIDE DEF ends, linked, link1, r
    <3> QED
      BY <1>6
  <2>2. b \in BufferOrNil /\ linked[b] \in BufferOrNil
    BY <1>2, <1>8 DEF BufferOrNil
  <2>3. q.toSend.head \in BufferOrNil /\ q.sended.tail \in BufferOrNil
    BY QueueFields
  <2> HIDE DEF linked, link1, r
  <2> QED
    BY <2>1, <2>2, <2>3 DEF Ends
<1> HIDE DEF r
<1>11. Linked(r, p, k + 1)
  <2>1. k + 1 # 0
    OBVIOUS
  <2>2. r.toSend.head = p[1]
    BY <1>1, <1>6 DEF Linked, b
  <2>3. r.toSend.tail = p[k + 1]
    BY <1>6 DEF b
  <2>4. r.sended.head = IF k + 1 = NUM THEN NIL ELSE p[(k + 1) + 1]
    BY <1>6, <1>9
  <2>5. k + 1 # NUM => r.sended.tail = p[NUM]
    BY <1>1, <1>6 DEF Linked
  <2>6. \A i \in Positions : r.link[p[i]] = IF i = k + 1 \/ i = NUM THEN NIL ELSE p[i + 1]
    BY <1>6, <1>9
  <2> QED
    BY <2>1, <2>2, <2>3, <2>4, <2>5, <2>6 DEF Linked
<1>12. Ordered(r, p, k + 1)
  BY <1>6, <1>8, <1>10, <1>11 DEF Ordered
<1>13. PutToSend(q) = r
  BY DEF PutToSend, r, v, u
<1>14. u.toSend.head # NIL /\ v.toSend = u.toSend
  BY <1>2, <1>3, <1>4, <1>5
<1> QED
  BY <1>4, <1>5, <1>6, <1>12, <1>13, <1>14 DEF v, u
-------------------------------------------------------------------------------
(* Recycle() moves the first of those that wait to the end.                *)
Rotated(p) == [i \in Positions |-> IF i = NUM THEN p[1] ELSE p[i + 1]]

LEMMA RotatedOrder ==
  ASSUME NEW p \in Orders
  PROVE  /\ Rotated(p) \in Orders /\ Rotated(p)[NUM] = p[1]
         /\ \A i \in Positions : i # NUM => i + 1 \in Positions /\ Rotated(p)[i] = p[i + 1]
<1> DEFINE t == Rotated(p)
<1> DEFINE Next1(i) == IF i = NUM THEN 1 ELSE i + 1
<1>1. \A i \in Positions : Next1(i) \in Positions /\ t[i] = p[Next1(i)]
  BY Places DEF Rotated
<1>2. t \in [Positions -> Buffers]
  BY Places, Placed DEF Rotated
<1>3. ASSUME NEW i \in Positions, NEW j \in Positions, t[i] = t[j] PROVE i = j
  <2>1. Next1(i) = Next1(j)
    <3> HIDE DEF Next1, t
    <3> QED
      BY <1>1, <1>3, Placed
  <2> QED
    BY <2>1, Places
<1>4. ASSUME NEW b \in Buffers PROVE \E i \in Positions : t[i] = b
  <2>1. PICK j \in Positions : p[j] = b
    BY Placed
  <2>2. CASE j = 1
    BY <1>1, <2>1, <2>2, Places
  <2>3. CASE j # 1
    <3>1. j - 1 \in Positions /\ j - 1 # NUM /\ (j - 1) + 1 = j
      BY <2>3, Places
    <3>2. t[j - 1] = p[j]
      BY <1>1, <3>1
    <3> QED
      BY <2>1, <3>1, <3>2
  <2> QED
    BY <2>2, <2>3
<1>5. t[NUM] = p[1] /\ \A i \in Positions : i # NUM => i + 1 \in Positions /\ t[i] = p[i + 1]
  BY <1>1, Places
<1> HIDE DEF t
<1>6. t \in Orders
  BY <1>2, <1>3, <1>4 DEF Orders
<1> QED
  BY <1>5, <1>6 DEF t

LEMMA RecycleMoves ==
  ASSUME NEW p \in Orders, NEW k \in 0..NUM, k # 0, NEW q, Ordered(q, p, k)
  PROVE  Ordered(Recycle(q), Rotated(p), k - 1) /\ Recycle(q).status = q.status
<1> DEFINE t == Rotated(p)
<1> DEFINE b == p[1]
<1> DEFINE linked == IF k = NUM THEN q.link ELSE [q.link EXCEPT ![p[NUM]] = b]
<1> DEFINE link1 == [linked EXCEPT ![b] = NIL]
<1> DEFINE filled1 == [q.filled EXCEPT ![b] = <<>>]
<1> DEFINE r == Recycle(q)
<1>1. Shaped(q) /\ Linked(q, p, k)
  BY QueueFields
<1>2. /\ 1 \in Positions /\ NUM \in Positions /\ k \in Positions /\ NUM # 1
      /\ b \in Buffers /\ p[NUM] \in Buffers /\ p[NUM] # b
  BY Places, Placed
<1>3. /\ q.toSend.head = b /\ (q.sended.head = NIL <=> k = NUM)
      /\ (k # NUM => q.sended.tail = p[NUM])
  BY <1>1, HeadsTell DEF Linked
<1>4. /\ t \in Orders /\ t[NUM] = b
      /\ \A i \in Positions : i # NUM => i + 1 \in Positions /\ t[i] = p[i + 1]
  BY RotatedOrder
<1> HIDE DEF t
<1>5. /\ r.link = link1 /\ r.filled = filled1 /\ r.has_read = q.has_read
      /\ r.rxQue = q.rxQue /\ r.status = q.status
      /\ r.sended = [head |-> IF k = NUM THEN b ELSE q.sended.head, tail |-> b]
      /\ r.toSend = [head |-> linked[b], tail |-> q.toSend.tail]
      /\ r = [link |-> link1, filled |-> filled1, toSend |-> r.toSend, sended |-> r.sended,
              has_read |-> q.has_read, rxQue |-> q.rxQue, status |-> q.status]
  <2> HIDE DEF b
  <2>1. linked = IF q.sended.head = NIL THEN q.link ELSE [q.link EXCEPT ![q.sended.tail] = b]
    BY <1>3
  <2>2. r = [q EXCEPT !.filled[b] = <<>>,
                      !.sended = [head |-> IF q.sended.head = NIL THEN b ELSE q.sended.head,
                                  tail |-> b],
                      !.toSend.head = linked[b], !.link = link1]
    BY <1>3, <2>1, Zenon DEF Recycle
  <2> HIDE DEF r, linked, link1
  <2>3. q.toSend = [head |-> q.toSend.head, tail |-> q.toSend.tail]
    BY QueueFields
  <2> QED
    BY <1>1, <1>3, <2>2, <2>3 DEF Shaped
<1>6. q.link \in [Buffers -> BufferOrNil]
  BY QueueFields
<1>7. linked \in [Buffers -> BufferOrNil] /\ link1 \in [Buffers -> BufferOrNil]
  BY <1>2, <1>6 DEF BufferOrNil
<1>9. linked[b] = IF k = 1 THEN NIL ELSE p[2]
  <2>1. linked[b] = q.link[b]
    BY <1>2, <1>6
  <2> QED
    BY <1>1, <1>2, <2>1 DEF Linked
<1>10. ASSUME NEW i \in Positions
       PROVE  link1[t[i]] = IF i = k - 1 \/ i = NUM THEN NIL ELSE t[i + 1]
  <2>1. CASE i = NUM
    BY <1>2, <1>4, <1>7, <2>1
  <2>2. CASE i # NUM
    <3>1. i + 1 \in Positions /\ t[i] = p[i + 1] /\ p[i + 1] \in Buffers /\ p[i + 1] # b
      <4>1. i + 1 \in Positions /\ t[i] = p[i + 1] /\ i + 1 # 1
        BY <1>4, <2>2, Places
      <4> QED
        BY <1>2, <4>1, Placed
    <3>2. link1[t[i]] = linked[p[i + 1]]
      BY <1>2, <1>7, <3>1
    <3> HIDE DEF link1
    <3>3. CASE i + 1 = NUM
      <4>1. linked[p[NUM]] = IF k = NUM THEN q.link[p[NUM]] ELSE b
        BY <1>2, <1>6
      <4>2. q.link[p[NUM]] = NIL
        BY <1>1, <1>2 DEF Linked
      <4>3. t[i + 1] = b
        BY <1>4, <3>3
      <4>4. k = NUM <=> i = k - 1
        BY <3>3, Places
      <4> QED
        BY <2>2, <3>2, <3>3, <4>1, <4>2, <4>3, <4>4
    <3>4. CASE i + 1 # NUM
      <4>1. p[i + 1] # p[NUM]
        BY <1>2, <3>1, <3>4, Placed
      <4>2. linked[p[i + 1]] = q.link[p[i + 1]]
        BY <1>2, <1>6, <3>1, <4>1
      <4>3. q.link[p[i + 1]] = IF i + 1 = k \/ i + 1 = NUM THEN NIL ELSE p[(i + 1) + 1]
        BY <1>1, <3>1 DEF Linked
      <4>4. t[i + 1] = p[(i + 1) + 1]
        BY <1>4, <3>1, <3>4
      <4>5. i + 1 = k <=> i = k - 1
        BY Places
      <4> QED
        BY <2>2, <3>2, <3>4, <4>2, <4>3, <4>4, <4>5
    <3> QED
      BY <3>3, <3>4
  <2> QED
    BY <2>1, <2>2
<1> HIDE DEF link1, linked
<1>11. Shaped(r) /\ r.link \in [Buffers -> BufferOrNil] /\ r.toSend \in Ends /\ r.sended \in Ends
  <2>1. linked[b] \in BufferOrNil /\ b \in BufferOrNil
    BY <1>2, <1>7 DEF BufferOrNil
  <2>2. q.toSend.tail \in BufferOrNil /\ q.sended.head \in BufferOrNil
    BY QueueFields
  <2>3. Shaped(r)
    <3> HIDE DEF r
    <3> QED
      BY <1>5 DEF Shaped
  <2>4. r.link = link1 /\ r.toSend = [head |-> linked[b], tail |-> q.toSend.tail]
        /\ r.sended = [head |-> IF k = NUM THEN b ELSE q.sended.head, tail |-> b]
    BY <1>5
  <2> HIDE DEF r, b
  <2> QED
    BY <1>7, <2>1, <2>2, <2>3, <2>4 DEF Ends
<1> HIDE DEF r, filled1
<1>12. Linked(r, t, k - 1)
  <2>1. \A i \in Positions : r.link[t[i]] = IF i = k - 1 \/ i = NUM THEN NIL ELSE t[i + 1]
    BY <1>5, <1>10
  <2>2. r.toSend.head = IF k - 1 = 0 THEN NIL ELSE t[1]
    <3>1. t[1] = p[2] /\ (k - 1 = 0 <=> k = 1)
      BY <1>2, <1>4
    <3> QED
      BY <1>5, <1>9, <3>1
  <2>3. r.sended.head = t[(k - 1) + 1] /\ k - 1 # NUM
    <3>1. (k - 1) + 1 = k /\ k - 1 # NUM
      BY Places
    <3>2. CASE k = NUM
      BY <1>4, <1>5, <3>1, <3>2
    <3>3. CASE k # NUM
      <4>1. q.sended.head = p[k + 1] /\ t[k] = p[k + 1]
        BY <1>1, <1>2, <1>4, <3>3 DEF Linked
      <4> QED
        BY <1>5, <3>1, <3>3, <4>1
    <3> QED
      BY <3>2, <3>3
  <2>4. k - 1 # 0 => r.toSend.tail = t[k - 1]
    <3> SUFFICES ASSUME k - 1 # 0 PROVE r.toSend.tail = t[k - 1]
      OBVIOUS
    <3>1. k - 1 \in Positions /\ k - 1 # NUM /\ (k - 1) + 1 = k
      BY <1>2, Places
    <3>2. t[k - 1] = p[k]
      BY <1>4, <3>1
    <3> QED
      BY <1>1, <1>5, <3>2 DEF Linked
  <2>5. r.sended.tail = t[NUM]
    BY <1>4, <1>5
  <2> QED
    BY <2>1, <2>2, <2>3, <2>4, <2>5 DEF Linked
<1> QED
  BY <1>5, <1>11, <1>12 DEF Ordered, r, t
-------------------------------------------------------------------------------
(* What holds at 0 and is passed on holds for every number.               *)
LEMMA Ascending ==
  ASSUME NEW S, 0 \in S, \A n \in Nat : n \in S => n + 1 \in S
  PROVE  Nat \subseteq S
<1> SUFFICES ASSUME NEW k \in Nat, k \notin S PROVE FALSE
  OBVIOUS
<1> DEFINE T == {n \in Nat : n \notin S}
<1> DEFINE R == OpToRel(<, Nat)
<1>1. PICK m \in T : \A n \in T : <<n, m>> \notin R
  <2>1. IsWellFoundedOn(R, Nat)
    BY NatLessThanWellFounded
  <2>2. T \subseteq Nat /\ T # {}
    OBVIOUS
  <2> HIDE DEF R, T
  <2> QED
    BY <2>1, <2>2, WFMin
<1>2. m \in Nat /\ m # 0 /\ m - 1 \in Nat
  OBVIOUS
<1>3. <<m - 1, m>> \in R
  BY <1>2 DEF OpToRel
<1>4. m - 1 \in S
  BY <1>1, <1>2, <1>3
<1>5. (m - 1) + 1 \in S
  BY <1>2, <1>4
<1> QED
  BY <1>2, <1>5

(* The lists as the property sees them.                                    *)
(* A list is its buffers c[1], ..., c[l].                                  *)
IsList(b0, c, l) ==
  /\ l \in 0..NUM /\ c \in [1..l -> Buffers]
  /\ b0 = IF l = 0 THEN NIL ELSE c[1]
  /\ \A i \in 1..l : link[c[i]] = IF i = l THEN NIL ELSE c[i + 1]

LEMMA Beginning ==
  ASSUME NEW T, NEW n \in Nat, NEW c, \A i \in 1..n : c[i] \in T
  PROVE  LET s == [i \in 1..n |-> c[i]]
         IN  s \in Seq(T) /\ Len(s) = n /\ \A i \in 1..n : s[i] = c[i]
OBVIOUS

LEMMA ChainIsList ==
  ASSUME NEW b0, NEW l, NEW c, IsList(b0, c, l)
  PROVE  Chain(b0) = [i \in 1..l |-> c[i]]
<1> DEFINE s0 == [at |-> b0, seen |-> <<>>]
<1> DEFINE Round(s) == IF s.at = NIL THEN s ELSE [at |-> link[s.at], seen |-> Append(s.seen, s.at)]
<1> DEFINE Step(f, n) == IF n = 0 THEN s0 ELSE Round(f[n - 1])
<1> DEFINE Upto(f) == f = [n \in 0..NUM |-> Step(f, n)]
<1> DEFINE Short(n) == IF n < l THEN n ELSE l
<1> DEFINE Seen(n) == [i \in 1..Short(n) |-> c[i]]
<1> DEFINE State(n) == [at |-> IF n < l THEN c[n + 1] ELSE NIL, seen |-> Seen(n)]
<1> DEFINE loop == CHOOSE f : Upto(f)
<1>1. /\ l \in 0..NUM /\ c \in [1..l -> Buffers] /\ NUM \in Nat /\ l \in Nat
      /\ b0 = IF l = 0 THEN NIL ELSE c[1]
      /\ \A i \in 1..l : link[c[i]] = IF i = l THEN NIL ELSE c[i + 1]
      /\ \A i \in 1..l : c[i] # NIL
  BY Places DEF IsList
<1>2. State(0) = s0
  <2>1. Seen(0) = <<>>
    BY <1>1
  <2>2. (IF 0 < l THEN c[0 + 1] ELSE NIL) = b0
    BY <1>1
  <2> QED
    BY <2>1, <2>2
<1>3. ASSUME NEW n \in 1..NUM PROVE State(n) = Round(State(n - 1))
  <2>1. CASE n - 1 < l
    <3>1. n \in 1..l /\ (n - 1) + 1 = n /\ Short(n - 1) = n - 1 /\ Short(n) = n
      BY <1>1, <2>1
    <3>2. State(n - 1) = [at |-> c[n], seen |-> Seen(n - 1)]
      BY <2>1, <3>1
    <3>3. Append(Seen(n - 1), c[n]) = Seen(n)
      <4>1. Seen(n - 1) = [i \in 1..(n - 1) |-> c[i]] /\ Seen(n) = [i \in 1..n |-> c[i]]
        BY <3>1
      <4>2. Seen(n - 1) \in Seq(Buffers) /\ Len(Seen(n - 1)) = n - 1
        <5>1. n - 1 \in Nat /\ \A i \in 1..(n - 1) : c[i] \in Buffers
          BY <1>1, <3>1
        <5>2. /\ [i \in 1..(n - 1) |-> c[i]] \in Seq(Buffers)
              /\ Len([i \in 1..(n - 1) |-> c[i]]) = n - 1
          BY <5>1, Beginning
        <5> QED
          BY <4>1, <5>2, Zenon
      <4> DEFINE u == Seen(n - 1)
      <4> DEFINE v == [i \in 1..n |-> c[i]]
      <4>3. \A i \in 1..(n - 1) : u[i] = c[i]
        BY <4>1
      <4>4. v \in Seq(Buffers) /\ Len(v) = n /\ \A i \in 1..n : v[i] = c[i]
        <5>1. n \in Nat /\ \A i \in 1..n : c[i] \in Buffers
          BY <1>1, <3>1
        <5> QED
          BY <5>1, Beginning
      <4>5. c[n] \in Buffers
        BY <1>1, <3>1
      <4> HIDE DEF Seen, u, v
      <4>6. u \in Seq(Buffers) /\ Len(u) = n - 1
        BY <4>2 DEF u
      <4>7. /\ Append(u, c[n]) \in Seq(Buffers) /\ Len(Append(u, c[n])) = n
            /\ \A i \in 1..n : Append(u, c[n])[i] = v[i]
        BY <3>1, <4>3, <4>4, <4>5, <4>6
      <4>8. Append(u, c[n]) = v
        BY <4>4, <4>7, SeqEqual
      <4> QED
        BY <4>1, <4>8 DEF u, v
    <3>4. link[c[n]] = IF n < l THEN c[n + 1] ELSE NIL
      BY <1>1, <3>1
    <3>5. c[n] # NIL
      BY <1>1, <3>1
    <3> HIDE DEF Seen
    <3> QED
      BY <3>2, <3>3, <3>4, <3>5
  <2>2. CASE ~(n - 1 < l)
    <3>1. ~(n < l) /\ Short(n - 1) = l /\ Short(n) = l
      BY <1>1, <2>2
    <3>2. /\ State(n - 1) = [at |-> NIL, seen |-> Seen(n - 1)]
          /\ State(n) = [at |-> NIL, seen |-> Seen(n)]
      BY <2>2, <3>1
    <3>3. Seen(n - 1) = Seen(n)
      BY <3>1
    <3> HIDE DEF Seen
    <3> QED
      BY <3>2, <3>3
  <2> QED
    BY <2>1, <2>2
<1> HIDE DEF Round, s0, State
<1>4. Upto(loop)
  <2> DEFINE f == [n \in 0..NUM |-> State(n)]
  <2>1. ASSUME NEW n \in 0..NUM PROVE State(n) = Step(f, n)
    <3>1. CASE n = 0
      BY <1>2, <3>1
    <3>2. CASE n # 0
      <4>1. n \in 1..NUM /\ n - 1 \in 0..NUM
        BY <1>1, <3>2
      <4> QED
        BY <1>3, <3>2, <4>1
    <3> QED
      BY <3>1, <3>2
  <2>2. Upto(f)
    <3> HIDE DEF Step
    <3>1. [n \in 0..NUM |-> State(n)] = [n \in 0..NUM |-> Step(f, n)]
      <4> HIDE DEF f
      <4> QED
        BY <2>1
    <3> QED
      BY <3>1
  <2> HIDE DEF Upto
  <2> QED
    BY <2>2
<1>5. Chain(b0) = loop[NUM].seen
  BY Zenon DEF Chain, NUM, Round, s0
<1> HIDE DEF loop
<1>6. \A n \in 0..NUM : loop[n] = Step(loop, n)
  <2> HIDE DEF Step
  <2> QED
    BY <1>4, Zenon
<1> DEFINE T == {n \in Nat : n <= NUM => loop[n] = State(n)}
<1>7. 0 \in T
  <2>1. 0 \in 0..NUM
    BY <1>1
  <2>2. loop[0] = s0
    BY <1>6, <2>1, Zenon
  <2> QED
    BY <1>2, <2>2
<1>8. ASSUME NEW n \in Nat, n \in T PROVE n + 1 \in T
  <2> SUFFICES ASSUME n + 1 <= NUM PROVE loop[n + 1] = State(n + 1)
    OBVIOUS
  <2>1. n + 1 \in 0..NUM /\ n + 1 \in 1..NUM /\ n + 1 # 0 /\ (n + 1) - 1 = n
    BY <1>1
  <2>2. loop[n + 1] = Round(loop[(n + 1) - 1])
    BY <1>6, <2>1, Zenon
  <2>3. State(n + 1) = Round(State((n + 1) - 1))
    BY <1>3, <2>1, Zenon
  <2>4. loop[n] = State(n)
    BY <1>1, <1>8
  <2> QED
    BY <2>1, <2>2, <2>3, <2>4
<1>9. NUM \in T
  <2> HIDE DEF T
  <2> QED
    BY <1>1, <1>7, <1>8, Ascending
<1>10. loop[NUM] = State(NUM)
  BY <1>1, <1>9
<1>11. State(NUM).seen = [i \in 1..l |-> c[i]]
  <2>1. Short(NUM) = l
    BY <1>1
  <2>2. State(NUM).seen = Seen(NUM)
    BY DEF State
  <2> QED
    BY <2>1, <2>2
<1> QED
  BY <1>5, <1>10, <1>11

(* The two lists are the two parts of the order.                           *)
LEMMA BothLists ==
  ASSUME NEW p \in Orders, NEW k \in 0..NUM, Linked(Now, p, k)
  PROVE  /\ Chain(toSend.head) = [i \in 1..k |-> p[i]]
         /\ Chain(sended.head) = [i \in 1..(NUM - k) |-> p[k + i]]
<1>1. /\ \A i \in Positions : link[p[i]] = IF i = k \/ i = NUM THEN NIL ELSE p[i + 1]
      /\ toSend.head = IF k = 0 THEN NIL ELSE p[1]
      /\ sended.head = IF k = NUM THEN NIL ELSE p[k + 1]
  BY DEF Linked, Now
<1>2. /\ NUM \in Nat /\ k \in Nat /\ k <= NUM
      /\ \A i : i \in Positions <=> i \in Nat /\ 1 <= i /\ i <= NUM
  BY Places
<1>3. \A i \in Positions : p[i] \in Buffers
  BY Placed
<1>4. Chain(toSend.head) = [i \in 1..k |-> p[i]]
  <2> DEFINE c == [i \in 1..k |-> p[i]]
  <2>1. c \in [1..k -> Buffers]
    BY <1>2, <1>3
  <2>2. toSend.head = IF k = 0 THEN NIL ELSE c[1]
    BY <1>1, <1>2
  <2>3. \A i \in 1..k : link[c[i]] = IF i = k THEN NIL ELSE c[i + 1]
    BY <1>1, <1>2
  <2>4. IsList(toSend.head, c, k)
    <3> HIDE DEF c
    <3> QED
      BY <2>1, <2>2, <2>3, Zenon DEF IsList
  <2>5. [i \in 1..k |-> c[i]] = c
    OBVIOUS
  <2> HIDE DEF c
  <2>6. Chain(toSend.head) = [i \in 1..k |-> c[i]]
    BY <2>4, ChainIsList
  <2> QED
    BY <2>5, <2>6 DEF c
<1>5. Chain(sended.head) = [i \in 1..(NUM - k) |-> p[k + i]]
  <2> DEFINE l == NUM - k
  <2> DEFINE c == [i \in 1..l |-> p[k + i]]
  <2>1. l \in 0..NUM /\ \A i \in 1..l : k + i \in Positions /\ k + i # k /\ (k + i = NUM <=> i = l)
    BY <1>2
  <2>2. c \in [1..l -> Buffers]
    BY <1>3, <2>1
  <2>3. sended.head = IF l = 0 THEN NIL ELSE c[1]
    BY <1>1, <1>2
  <2>4. ASSUME NEW i \in 1..l PROVE link[c[i]] = IF i = l THEN NIL ELSE c[i + 1]
    <3>1. c[i] = p[k + i] /\ (i # l => c[i + 1] = p[(k + i) + 1])
      BY <1>2, <2>1
    <3> QED
      BY <1>1, <2>1, <3>1
  <2>5. IsList(sended.head, c, l)
    <3> HIDE DEF c, l
    <3> QED
      BY <2>1, <2>2, <2>3, <2>4, Zenon DEF IsList
  <2>6. [i \in 1..l |-> c[i]] = c
    OBVIOUS
  <2> HIDE DEF c, l
  <2>7. Chain(sended.head) = [i \in 1..l |-> c[i]]
    <3>1. ASSUME NEW b0, NEW s, NEW m, IsList(b0, s, m) PROVE Chain(b0) = [i \in 1..m |-> s[i]]
      BY <3>1, ChainIsList
    <3> QED
      BY <2>5, <3>1, Zenon
  <2> QED
    BY <2>6, <2>7 DEF c, l
<1> QED
  BY <1>4, <1>5

LEMMA EveryBufferIsListed == SdioIInv => BuffersOnOneList
<1> SUFFICES ASSUME SdioIInv, ~Moving PROVE BuffersOnOneList
  BY DEF BuffersOnOneList
<1>1. PICK p \in Orders, k \in 0..NUM : Linked(Now, p, k)
  BY DEF SdioIInv, Lists, Ordered
<1> DEFINE waiting == Chain(toSend.head)
<1> DEFINE free == Chain(sended.head)
<1>2. waiting = [i \in 1..k |-> p[i]] /\ free = [i \in 1..(NUM - k) |-> p[k + i]]
  BY <1>1, BothLists
<1>3. /\ NUM \in Nat /\ k \in Nat /\ k <= NUM
      /\ \A i : i \in Positions <=> i \in Nat /\ 1 <= i /\ i <= NUM
  BY Places
<1>4. (\A i \in Positions : p[i] \in Buffers) /\ \A b \in Buffers : \E i \in Positions : p[i] = b
  BY Placed
<1>5. (k # 0 => toSend.tail = p[k]) /\ (k # NUM => sended.tail = p[NUM])
  BY <1>1 DEF Linked, Now
<1> HIDE DEF waiting, free
<1>6. Len(waiting) = k /\ Len(free) = NUM - k /\ DOMAIN waiting = 1..k /\ DOMAIN free = 1..(NUM - k)
  BY <1>2, <1>3
<1>7. SeqSet(waiting) \cup SeqSet(free) = Buffers
  <2>1. ASSUME NEW b \in SeqSet(waiting) \cup SeqSet(free) PROVE b \in Buffers
    <3>1. ASSUME NEW i \in 1..k PROVE waiting[i] \in Buffers
      BY <1>2, <1>3, <1>4
    <3>2. ASSUME NEW i \in 1..(NUM - k) PROVE free[i] \in Buffers
      <4>1. k + i \in Positions /\ free[i] = p[k + i]
        BY <1>2, <1>3
      <4> QED
        BY <1>4, <4>1
    <3> QED
      BY <1>6, <2>1, <3>1, <3>2 DEF SeqSet
  <2>2. ASSUME NEW b \in Buffers PROVE b \in SeqSet(waiting) \cup SeqSet(free)
    <3>1. PICK i \in Positions : p[i] = b
      BY <1>4
    <3>2. CASE i <= k
      <4>1. i \in DOMAIN waiting /\ waiting[i] = b
        BY <1>2, <1>3, <1>6, <3>1, <3>2
      <4> QED
        BY <4>1, Zenon DEF SeqSet
    <3>3. CASE ~(i <= k)
      <4>1. i - k \in 1..(NUM - k) /\ k + (i - k) = i
        BY <1>3, <3>3
      <4>2. i - k \in DOMAIN free /\ free[i - k] = b
        BY <1>2, <1>6, <3>1, <4>1
      <4> QED
        BY <4>2, Zenon DEF SeqSet
    <3> QED
      BY <3>2, <3>3
  <2> QED
    BY <2>1, <2>2
<1>8. waiting # <<>> => toSend.tail = waiting[Len(waiting)]
  BY <1>2, <1>3, <1>5, <1>6
<1>9. free # <<>> => sended.tail = free[Len(free)]
  BY <1>2, <1>3, <1>5, <1>6
<1>10. Len(waiting) + Len(free) = RX_BUFFER_NUM
  BY <1>3, <1>6 DEF NUM
<1> QED
  BY <1>7, <1>8, <1>9, <1>10 DEF BuffersOnOneList, waiting, free

(* What the functions that do not move buffers leave as it is.             *)
LEMMA FlagKeeps ==
  ASSUME NEW q, Shaped(q), NEW b, NEW r, r = [q EXCEPT !.has_read = b]
  PROVE  /\ r.link = q.link /\ r.toSend = q.toSend /\ r.sended = q.sended
         /\ r.status = q.status /\ Shaped(r)
<1>1. r = [link |-> q.link, filled |-> q.filled, toSend |-> q.toSend, sended |-> q.sended,
           has_read |-> b, rxQue |-> q.rxQue, status |-> q.status]
  BY DEF Shaped
<1> QED
  BY <1>1 DEF Shaped

LEMMA OfferKeeps ==
  ASSUME NEW q, NEW p, NEW k, Ordered(q, p, k), "rx_available" \in DOMAIN q.status
  PROVE  /\ Ordered(Offer(q), p, k) /\ "rx_available" \in DOMAIN Offer(q).status
         /\ Ordered([q EXCEPT !.has_read = TRUE], p, k)
         /\ [q EXCEPT !.has_read = TRUE].status = q.status
<1> DEFINE data == q.filled[q.toSend.head]
<1> DEFINE told == [q.status EXCEPT !.rd_empty = FALSE, !.rx_available = TRUE,
                                    !.rx_length = Len(data)]
<1> DEFINE u == RxBuffLoadDone(q)
<1> DEFINE r == Offer(q)
<1>1. Shaped(q)
  BY QueueFields
<1>2. /\ u.link = q.link /\ u.toSend = q.toSend /\ u.sended = q.sended /\ Shaped(u)
      /\ "rx_available" \in DOMAIN u.status
  <2>1. CASE data = <<>>
    BY <1>1, <2>1, Zenon DEF RxBuffLoadDone
  <2>2. CASE data # <<>>
    <3>1. "rx_available" \in DOMAIN told
      OBVIOUS
    <3>2. u = [q EXCEPT !.rxQue = data, !.status = told]
      BY <2>2, Zenon DEF RxBuffLoadDone
    <3> HIDE DEF u, data, told
    <3>3. u = [link |-> q.link, filled |-> q.filled, toSend |-> q.toSend, sended |-> q.sended,
               has_read |-> q.has_read, rxQue |-> data, status |-> told]
      BY <1>1, <3>2 DEF Shaped
    <3> QED
      BY <3>1, <3>3 DEF Shaped
  <2> QED
    BY <2>1, <2>2
<1> HIDE DEF u
<1>3. /\ r.link = u.link /\ r.toSend = u.toSend /\ r.sended = u.sended
      /\ r.status = u.status /\ Shaped(r)
  <2>1. r = [u EXCEPT !.has_read = FALSE]
    BY DEF Offer, u
  <2> QED
    BY <1>2, <2>1, FlagKeeps
<1> HIDE DEF r
<1>4. Ordered(r, p, k)
  BY <1>2, <1>3, SameLists
<1> DEFINE s == [q EXCEPT !.has_read = TRUE]
<1>5. /\ s.link = q.link /\ s.toSend = q.toSend /\ s.sended = q.sended
      /\ s.status = q.status /\ Shaped(s)
  BY <1>1, FlagKeeps
<1> HIDE DEF s
<1>6. Ordered(s, p, k)
  BY <1>5, SameLists
<1> QED
  BY <1>2, <1>3, <1>4, <1>5, <1>6 DEF r, s

LEMMA StatusKeeps ==
  ASSUME NEW q, NEW p, NEW k, Ordered(q, p, k), "rx_available" \in DOMAIN q.status,
         NEW r, r \in {RxBuffReadDone(q), TxBuffWriteDone(q), TxBuffHandleDone(q)}
  PROVE  /\ Ordered(r, p, k) /\ "rx_available" \in DOMAIN r.status
         /\ r.status.rx_available => q.status.rx_available
         /\ r = RxBuffReadDone(q) => ~r.status.rx_available
<1>1. Shaped(q)
  BY QueueFields
<1>2. /\ r = [link |-> q.link, filled |-> q.filled, toSend |-> q.toSend, sended |-> q.sended,
              has_read |-> q.has_read, rxQue |-> q.rxQue, status |-> r.status]
      /\ \/ r.status = [q.status EXCEPT !.comm_cnt = Count(q.status), !.rd_empty = TRUE,
                                        !.rx_length = 0, !.rx_available = FALSE]
         \/ /\ r # RxBuffReadDone(q)
            /\ \/ r.status = [q.status EXCEPT !.comm_cnt = Count(q.status), !.wr_busy = TRUE,
                                              !.tx_available = FALSE]
               \/ r.status = [q.status EXCEPT !.wr_busy = FALSE, !.tx_available = TRUE]
  <2>1. CASE r = RxBuffReadDone(q)
    BY <1>1, <2>1 DEF RxBuffReadDone, Shaped
  <2>2. CASE r = TxBuffWriteDone(q) /\ r # RxBuffReadDone(q)
    BY <1>1, <2>2 DEF TxBuffWriteDone, Shaped
  <2>3. CASE r = TxBuffHandleDone(q) /\ r # RxBuffReadDone(q)
    BY <1>1, <2>3 DEF TxBuffHandleDone, Shaped
  <2> QED
    BY <2>1, <2>2, <2>3
<1>3. /\ "rx_available" \in DOMAIN r.status
      /\ r.status.rx_available => q.status.rx_available
      /\ r = RxBuffReadDone(q) => ~r.status.rx_available
  BY <1>2
<1>4. Ordered(r, p, k)
  BY <1>2, SameLists DEF Shaped
<1> QED
  BY <1>3, <1>4

LEMMA ProcessKeeps ==
  ASSUME NEW p \in Orders, NEW k \in 0..NUM, k # 0, NEW q, Ordered(q, p, k),
         "rx_available" \in DOMAIN q.status, ~q.status.rx_available
  PROVE  LET r == SdioReadDoneProcess(q)
         IN  /\ "rx_available" \in DOMAIN r.status
             /\ r.status.rx_available => r.toSend.head # NIL
             /\ \E p1 \in Orders, k1 \in 0..NUM : Ordered(r, p1, k1)
<1> DEFINE s == [q EXCEPT !.has_read = TRUE]
<1> DEFINE t == Recycle(s)
<1> DEFINE r == SdioReadDoneProcess(q)
<1> DEFINE p1 == Rotated(p)
<1>1. Ordered(s, p, k) /\ s.status = q.status
  BY OfferKeeps
<1> HIDE DEF s
<1>2. /\ Ordered(t, p1, k - 1) /\ t.status = q.status /\ p1 \in Orders
      /\ k - 1 \in 0..NUM /\ k - 1 # NUM
  <2>1. Ordered(t, p1, k - 1) /\ t.status = s.status
    BY <1>1, RecycleMoves
  <2>2. k - 1 \in 0..NUM /\ k - 1 # NUM
    BY Places
  <2> QED
    BY <1>1, <2>1, <2>2, RotatedOrder
<1>3. r = CASE t.toSend.head # NIL -> Offer(t)
            [] t.toSend.head = NIL /\ t.filled[t.sended.head] # <<>> -> Offer(PutToSend(t))
            [] OTHER -> t
  BY DEF SdioReadDoneProcess, s
<1> HIDE DEF t, p1, r
<1>4. CASE t.toSend.head # NIL
  <2>1. r = Offer(t)
    BY <1>3, <1>4
  <2>2. Ordered(r, p1, k - 1) /\ "rx_available" \in DOMAIN r.status
    BY <1>2, <2>1, OfferKeeps
  <2>3. r.toSend.head # NIL
    BY <1>2, <1>4, <2>2, HeadsTell
  <2> QED
    BY <1>2, <2>2, <2>3 DEF r
<1>5. CASE t.toSend.head = NIL /\ t.filled[t.sended.head] # <<>>
  <2>1. r = Offer(PutToSend(t))
    BY <1>3, <1>5
  <2>2. Ordered(PutToSend(t), p1, (k - 1) + 1) /\ PutToSend(t).status = q.status
    BY <1>2, PutMoves
  <2>3. (k - 1) + 1 = k
    BY Places
  <2>4. Ordered(r, p1, k) /\ "rx_available" \in DOMAIN r.status
    BY <2>1, <2>2, <2>3, OfferKeeps
  <2>5. r.toSend.head # NIL
    BY <1>2, <2>4, HeadsTell
  <2> QED
    BY <1>2, <2>4, <2>5 DEF r
<1>6. CASE t.toSend.head = NIL /\ t.filled[t.sended.head] = <<>>
  <2>1. r = t
    BY <1>3, <1>6
  <2> QED
    BY <1>2, <2>1 DEF r
<1> QED
  BY <1>4, <1>5, <1>6
-------------------------------------------------------------------------------
(* The steps.                                                              *)
LEMMA NowBecomes ==
  ASSUME NEW q, Shaped(q), Becomes(q)
  PROVE  Now' = q /\ toSend' = q.toSend /\ status' = q.status
BY DEF Becomes, Now, Shaped

LEMMA NowFields == /\ Shaped(Now) /\ Now.toSend = toSend /\ Now.sended = sended
                   /\ Now.status = status /\ Now.has_read = has_read
BY DEF Now, Shaped

(* A step that leaves the lists whole, or does not touch them, goes on.    *)
LEMMA WholeNext ==
  ASSUME NEW q, Now' = q, NEW p \in Orders, NEW k \in 0..NUM, Ordered(q, p, k), ~Moving',
         SdioShapes', OneIsOffered'
  PROVE  SdioIInv'
BY DEF SdioIInv, Lists

LEMMA NothingMoves ==
  ASSUME SdioIInv, UNCHANGED sdioQueues, load' = load \/ (~Moving /\ ~Moving'),
         SdioShapes', OneIsOffered'
  PROVE  SdioIInv'
<1>1. Now' = Now
  BY DEF sdioQueues, Now
<1>2. PICK p \in Orders, k \in 0..NUM : Lists(p, k)
  BY DEF SdioIInv
<1>3. Lists(p, k)'
  <2>1. CASE load' = load
    BY <1>1, <1>2, <2>1 DEF Lists, Moving
  <2>2. CASE ~Moving /\ ~Moving'
    BY <1>1, <1>2, <2>2 DEF Lists
  <2> QED
    BY <2>1, <2>2
<1> QED
  BY <1>3 DEF SdioIInv

LEMMA SdioInitial == SdioInit => SdioIInv
<1> SUFFICES ASSUME SdioInit PROVE SdioIInv
  OBVIOUS
<1> DEFINE p == [i \in Positions |-> i]
<1>1. Now.link = link /\ Now.toSend = toSend /\ Now.sended = sended
  BY DEF Now
<1>2. p \in Orders /\ Buffers = Positions /\ \A i \in Positions : p[i] = i
  BY DEF Orders, Positions, Buffers, NUM
<1>3. link \in [Buffers -> BufferOrNil]
  BY <1>2, Places DEF SdioInit, BufferOrNil, Buffers, NUM
<1>4. toSend \in Ends /\ sended \in Ends
  BY <1>2, Places DEF SdioInit, Ends, BufferOrNil, NUM
<1>5. Linked(Now, p, 0)
  <2>1. ASSUME NEW i \in Positions
        PROVE  Now.link[p[i]] = IF i = 0 \/ i = NUM THEN NIL ELSE p[i + 1]
    <3>1. link[i] = IF i < NUM THEN i + 1 ELSE NIL
      BY <1>2 DEF SdioInit, NUM
    <3> QED
      BY <1>1, <1>2, <3>1, Places
  <2>2. /\ Now.sended.head = 1 /\ Now.sended.tail = NUM /\ Now.toSend.head = NIL
        /\ p[0 + 1] = 1 /\ p[NUM] = NUM
    BY <1>1, <1>2, Places DEF SdioInit, NUM
  <2> HIDE DEF p
  <2> QED
    BY <2>1, <2>2, Places DEF Linked
<1>6. Ordered(Now, p, 0)
  BY <1>1, <1>3, <1>4, <1>5, NowFields DEF Ordered
<1>7. SdioShapes /\ OneIsOffered /\ ~Moving
  BY DEF SdioInit, SdioShapes, OneIsOffered, InHand, Moving
<1> HIDE DEF p
<1> QED
  BY <1>2, <1>6, <1>7, Places DEF SdioIInv, Lists

LEMMA FillStep == SdioIInv /\ FillBuffer => SdioIInv'
<1> SUFFICES ASSUME SdioIInv, FillBuffer PROVE SdioIInv'
  OBVIOUS
<1> DEFINE q == [Now EXCEPT !.filled = filled']
<1>1. load.at = "fill" /\ SdioShapes /\ OneIsOffered /\ UNCHANGED <<isr, pending>>
  BY DEF FillBuffer, Loads, SdioIInv
<1>2. /\ link' = link /\ toSend' = toSend /\ sended' = sended
      /\ has_read' = has_read /\ rxQue' = rxQue /\ status' = status
  BY DEF FillBuffer, Becomes, Now
<1>3. PICK p \in Orders, k \in 0..NUM : Ordered(Now, p, k)
  BY <1>1 DEF SdioIInv, Lists, Moving
<1>4. Ordered(Now', p, k)
  <2>1. Shaped(Now') /\ Now'.link = Now.link /\ Now'.toSend = Now.toSend /\ Now'.sended = Now.sended
    BY <1>2 DEF Now, Shaped
  <2> HIDE DEF Now
  <2> QED
    BY <1>3, <2>1, SameLists
<1>5. PICK n, at : load' = [load EXCEPT !.left = n, !.at = at] /\ at \in {"test", "link"}
  BY Zenon DEF FillBuffer
<1>6. load'.at \in {"test", "link"} /\ SdioShapes'
  BY <1>1, <1>2, <1>5 DEF SdioShapes
<1>7. ~Moving' /\ OneIsOffered'
  BY <1>1, <1>2, <1>6 DEF Moving, OneIsOffered, InHand
<1> QED
  BY <1>3, <1>4, <1>6, <1>7, WholeNext

(* The pieces that move a buffer.                                          *)
LEMMA PieceFacts ==
  ASSUME NEW at, NEW q, NEW next, SdioIInv, Piece(at, q, next), Shaped(q), q.status = status,
         "rx_eof" \in InHand \/ status.rx_available => q.toSend.head # NIL
  PROVE  /\ Now' = q /\ load.at = at /\ load'.at = next
         /\ SdioShapes' /\ OneIsOffered'
<1>1. Becomes(q) /\ load.at = at /\ load' = [load EXCEPT !.at = next] /\ UNCHANGED <<isr, pending>>
  BY DEF Piece, Loads
<1>2. Now' = q /\ toSend' = q.toSend /\ status' = q.status
  BY <1>1, NowBecomes
<1>3. SdioShapes /\ OneIsOffered
  BY DEF SdioIInv
<1>4. load'.at = next /\ SdioShapes'
  BY <1>1, <1>2, <1>3 DEF SdioShapes
<1>5. OneIsOffered'
  BY <1>1, <1>2, <1>3 DEF OneIsOffered, InHand
<1> QED
  BY <1>1, <1>2, <1>4, <1>5

LEMMA LinkStep == SdioIInv /\ LoadLinks => SdioIInv'
<1> SUFFICES ASSUME SdioIInv, LoadLinks PROVE SdioIInv'
  OBVIOUS
<1>1. sended.head # NIL /\ Piece("link", LinkTail(Now), "next") /\ load.at = "link"
  BY DEF LoadLinks, Piece, Loads
<1>2. PICK p \in Orders, k \in 0..NUM : Ordered(Now, p, k)
  BY <1>1 DEF SdioIInv, Lists, Moving
<1>3. k # NUM
  BY <1>1, <1>2, HeadsTell, NowFields
<1> HIDE DEF Now
<1>4. /\ LinkTail(Now).toSend.head # NIL /\ LinkTail(Now).status = status
      /\ Shaped(LinkTail(Now))
  BY <1>2, <1>3, PutMoves, NowFields
<1>5. Now' = LinkTail(Now) /\ load'.at = "next" /\ SdioShapes' /\ OneIsOffered'
  BY <1>1, <1>4, PieceFacts
<1>6. Lists(p, k)'
  <2>1. Moving' /\ load'.at # "end"
    BY <1>5 DEF Moving
  <2> QED
    BY <1>2, <1>3, <1>5, <2>1 DEF Lists
<1> QED
  BY <1>5, <1>6 DEF SdioIInv

LEMMA NextStep == SdioIInv /\ LoadNext => SdioIInv'
<1> SUFFICES ASSUME SdioIInv, LoadNext PROVE SdioIInv'
  OBVIOUS
<1>1. Piece("next", NextSended(Now), "end") /\ load.at = "next" /\ Moving
  BY DEF LoadNext, Piece, Loads, Moving
<1>2. PICK p \in Orders, k \in 0..NUM : Lists(p, k)
  BY DEF SdioIInv
<1>3. k # NUM /\ \E q : Ordered(q, p, k) /\ Now = LinkTail(q)
  BY <1>1, <1>2, Zenon DEF Lists
<1>4. PICK q : Ordered(q, p, k) /\ Now = LinkTail(q)
  BY <1>3
<1> HIDE DEF Now
<1>5. /\ NextSended(Now).toSend.head # NIL /\ NextSended(Now).status = status
      /\ Shaped(NextSended(Now))
  BY <1>3, <1>4, PutMoves, NowFields
<1>6. Now' = NextSended(Now) /\ load'.at = "end" /\ SdioShapes' /\ OneIsOffered'
  BY <1>1, <1>5, PieceFacts
<1>7. Lists(p, k)'
  <2>1. Moving' /\ load'.at # "next"
    BY <1>6 DEF Moving
  <2> QED
    BY <1>3, <1>4, <1>6, <2>1 DEF Lists
<1> QED
  BY <1>6, <1>7 DEF SdioIInv

LEMMA EndStep == SdioIInv /\ LoadEnds => SdioIInv'
<1> SUFFICES ASSUME SdioIInv, LoadEnds PROVE SdioIInv'
  OBVIOUS
<1>1. Piece("end", EndToSend(Now), AfterEnd) /\ load.at = "end" /\ Moving
  BY DEF LoadEnds, Piece, Loads, Moving
<1>2. PICK p \in Orders, k \in 0..NUM : Lists(p, k)
  BY DEF SdioIInv
<1>3. k # NUM /\ \E q : Ordered(q, p, k) /\ Now = NextSended(LinkTail(q))
  BY <1>1, <1>2, Zenon DEF Lists
<1>4. PICK q : Ordered(q, p, k) /\ Now = NextSended(LinkTail(q))
  BY <1>3
<1> HIDE DEF Now
<1>5. EndToSend(Now) = PutToSend(q)
  BY <1>4 DEF PutToSend
<1>6. /\ Ordered(EndToSend(Now), p, k + 1) /\ EndToSend(Now).status = status
      /\ k + 1 \in 0..NUM /\ k + 1 # 0
  <2>1. Ordered(PutToSend(q), p, k + 1) /\ PutToSend(q).status = q.status /\ Now.status = q.status
    BY <1>3, <1>4, PutMoves
  <2> QED
    BY <1>3, <1>5, <2>1, NowFields, Places
<1>7. EndToSend(Now).toSend.head # NIL /\ Shaped(EndToSend(Now))
  BY <1>6, HeadsTell, QueueFields
<1>8. Now' = EndToSend(Now) /\ load'.at = AfterEnd /\ SdioShapes' /\ OneIsOffered'
  BY <1>1, <1>6, <1>7, PieceFacts
<1>9. ~Moving'
  BY <1>8 DEF Moving, AfterEnd
<1> QED
  BY <1>6, <1>8, <1>9, WholeNext

LEMMA OffersStep == SdioIInv /\ LoadOffers => SdioIInv'
<1> SUFFICES ASSUME SdioIInv, LoadOffers PROVE SdioIInv'
  OBVIOUS
<1> DEFINE q == SdioTryToLoad(Now)
<1>1. Piece("offer", q, "idle") /\ load.at = "offer"
  BY DEF LoadOffers, Piece, Loads
<1>2. PICK p \in Orders, k \in 0..NUM : Ordered(Now, p, k)
  BY <1>1 DEF SdioIInv, Lists, Moving
<1>3. SdioShapes /\ OneIsOffered
  BY DEF SdioIInv
<1> HIDE DEF Now
<1>4. q = Now \/ (toSend.head # NIL /\ q = Offer(Now))
  BY NowFields DEF SdioTryToLoad
<1>5. Ordered(q, p, k) /\ "rx_available" \in DOMAIN q.status
  <2>1. "rx_available" \in DOMAIN Now.status
    BY <1>3, NowFields DEF SdioShapes
  <2>2. /\ Ordered(Offer(Now), p, k)
        /\ "rx_available" \in DOMAIN Offer(Now).status
    BY <1>2, <2>1, OfferKeeps
  <2> HIDE DEF q
  <2> QED
    BY <1>2, <1>4, <2>1, <2>2
<1>6. q.toSend.head = toSend.head
  <2>1. q.toSend.head = IF k = 0 THEN NIL ELSE p[1]
    BY <1>5 DEF Ordered, Linked
  <2>2. Now.toSend.head = IF k = 0 THEN NIL ELSE p[1]
    BY <1>2 DEF Ordered, Linked
  <2> QED
    BY <2>1, <2>2, NowFields
<1>7. Becomes(q) /\ load' = [load EXCEPT !.at = "idle"] /\ UNCHANGED <<isr, pending>>
  BY <1>1 DEF Piece
<1>8. Now' = q /\ toSend' = q.toSend /\ status' = q.status
  BY <1>5, <1>7, NowBecomes, QueueFields
<1> HIDE DEF q
<1>9. SdioShapes' /\ ~Moving'
  BY <1>3, <1>5, <1>7, <1>8 DEF SdioShapes, Moving
<1>10. OneIsOffered'
  <2>1. (status'.rx_available => toSend'.head # NIL) /\ toSend'.head = toSend.head
    BY <1>3, <1>4, <1>6, <1>8, NowFields DEF OneIsOffered
  <2> QED
    BY <1>3, <1>7, <2>1 DEF OneIsOffered, InHand
<1> QED
  BY <1>5, <1>8, <1>9, <1>10, WholeNext

(* Steps that leave the buffers alone.                                     *)
LEMMA QuietStep ==
  ASSUME SdioIInv,
         \/ \E len \in LoadSizes : SdioLoadData(len)
         \/ LoadTests \/ SdioSlaveIsr \/ IsrClears \/ HostReads \/ HostWrites
         \/ UNCHANGED sdioVars
  PROVE  SdioIInv'
<1>1. SdioShapes /\ OneIsOffered
  BY DEF SdioIInv
<1>2. UNCHANGED <<sdioQueues, toSend, status>>
  BY DEF SdioLoadData, LoadTests, SdioSlaveIsr, IsrClears, HostReads, HostWrites, sdioVars,
         sdioQueues
<1>3. CASE \E len \in LoadSizes : SdioLoadData(len)
  <2>1. PICK len \in LoadSizes : SdioLoadData(len)
    BY <1>3
  <2>2. /\ UNCHANGED <<isr, pending>> /\ load.at = "idle" /\ load'.at \in {"test", "fill"}
        /\ load' = [at |-> load'.at, left |-> load'.left, last |-> load'.last,
                    inCallback |-> load'.inCallback]
    BY <2>1 DEF SdioLoadData
  <2>3. SdioShapes' /\ OneIsOffered'
    BY <1>1, <1>2, <2>2 DEF SdioShapes, OneIsOffered, InHand
  <2>4. ~Moving /\ ~Moving'
    BY <2>2 DEF Moving
  <2> QED
    BY <1>2, <2>3, <2>4, NothingMoves
<1>4. CASE LoadTests
  <2>1. /\ UNCHANGED <<isr, pending>> /\ load.at = "test"
        /\ \/ load' = [load EXCEPT !.at = "link", !.last = TRUE]
           \/ load' = [load EXCEPT !.at = "idle"]
    BY <1>4 DEF LoadTests, Loads
  <2>2. SdioShapes' /\ OneIsOffered'
    BY <1>1, <1>2, <2>1 DEF SdioShapes, OneIsOffered, InHand
  <2>3. load'.at \in {"link", "idle"}
    BY <1>1, <2>1 DEF SdioShapes
  <2>4. ~Moving /\ ~Moving'
    BY <2>1, <2>3 DEF Moving
  <2> QED
    BY <1>2, <2>2, <2>4, NothingMoves
<1>5. CASE SdioSlaveIsr
  <2>1. load' = load /\ pending' = {} /\ isr' = [at |-> "read", serves |-> pending]
    BY <1>5 DEF SdioSlaveIsr
  <2>2. SdioShapes' /\ OneIsOffered'
    BY <1>1, <1>2, <2>1 DEF SdioShapes, OneIsOffered, InHand
  <2> QED
    BY <1>2, <2>1, <2>2, NothingMoves
<1>6. CASE IsrClears
  <2>1. load' = load /\ pending' = {} /\ isr' = [isr EXCEPT !.at = "idle"]
    BY <1>6 DEF IsrClears
  <2>2. SdioShapes' /\ OneIsOffered'
    BY <1>1, <1>2, <2>1 DEF SdioShapes, OneIsOffered, InHand
  <2> QED
    BY <1>2, <2>1, <2>2, NothingMoves
<1>7. CASE HostReads
  <2>1. /\ load' = load /\ isr' = isr /\ pending' = pending \cup {"rx_eof"}
        /\ status.rx_available /\ "rx_eof" \notin InHand
    BY <1>7 DEF HostReads
  <2>2. SdioShapes' /\ OneIsOffered'
    BY <1>1, <1>2, <2>1 DEF SdioShapes, OneIsOffered, InHand
  <2> QED
    BY <1>2, <2>1, <2>2, NothingMoves
<1>8. CASE HostWrites
  <2>1. load' = load /\ isr' = isr /\ pending' = pending \cup {"tx_eof"}
    BY <1>8 DEF HostWrites
  <2>2. SdioShapes' /\ OneIsOffered'
    BY <1>1, <1>2, <2>1 DEF SdioShapes, OneIsOffered, InHand
  <2> QED
    BY <1>2, <2>1, <2>2, NothingMoves
<1>9. CASE UNCHANGED sdioVars
  <2>1. load' = load /\ isr' = isr /\ pending' = pending
    BY <1>9 DEF sdioVars
  <2>2. SdioShapes' /\ OneIsOffered'
    BY <1>1, <1>2, <2>1 DEF SdioShapes, OneIsOffered, InHand
  <2> QED
    BY <1>2, <2>1, <2>2, NothingMoves
<1> QED
  BY <1>3, <1>4, <1>5, <1>6, <1>7, <1>8, <1>9

(* The handler runs when no load does.                                     *)
LEMMA ReadStep ==
  ASSUME LoadsMasked, SdioIInv, IsrRead
  PROVE  SdioIInv'
<1>1. /\ load.at = "idle" /\ load' = load /\ pending' = pending
      /\ isr' = [at |-> "write", serves |-> isr.serves \ {"rx_eof"}]
  BY DEF IsrRead, Handles
<1>2. SdioShapes /\ OneIsOffered /\ ~Moving /\ ~Moving'
  BY <1>1 DEF SdioIInv, Moving
<1>3. CASE "rx_eof" \notin isr.serves
  <2>1. UNCHANGED <<sdioQueues, toSend, status>>
    BY <1>3 DEF IsrRead, sdioQueues
  <2>2. SdioShapes' /\ OneIsOffered'
    BY <1>1, <1>2, <2>1 DEF SdioShapes, OneIsOffered, InHand
  <2> QED
    BY <1>2, <2>1, <2>2, NothingMoves
<1>4. CASE "rx_eof" \in isr.serves
  <2> DEFINE q == RxBuffReadDone(Now)
  <2> DEFINE r == ToHostDone(Now)
  <2>1. toSend.head # NIL /\ Becomes(r)
    BY <1>4 DEF IsrRead
  <2>2. PICK p \in Orders, k \in 0..NUM : Ordered(Now, p, k)
    BY <1>2 DEF SdioIInv, Lists
  <2>3. k # 0
    BY <2>1, <2>2, HeadsTell, NowFields
  <2> HIDE DEF Now
  <2>4. Ordered(q, p, k) /\ "rx_available" \in DOMAIN q.status /\ ~q.status.rx_available
    BY <1>2, <2>2, StatusKeeps, NowFields DEF SdioShapes
  <2>5. r = SdioReadDoneProcess(q)
    BY DEF ToHostDone
  <2> HIDE DEF q, r
  <2>6. /\ "rx_available" \in DOMAIN r.status
        /\ r.status.rx_available => r.toSend.head # NIL
        /\ \E p1 \in Orders, k1 \in 0..NUM : Ordered(r, p1, k1)
    BY <2>3, <2>4, <2>5, ProcessKeeps
  <2>7. PICK p1 \in Orders, k1 \in 0..NUM : Ordered(r, p1, k1)
    BY <2>6
  <2>8. Now' = r /\ toSend' = r.toSend /\ status' = r.status
    BY <2>1, <2>7, NowBecomes, QueueFields
  <2>9. SdioShapes' /\ OneIsOffered'
    BY <1>1, <1>2, <1>4, <2>6, <2>8 DEF SdioShapes, OneIsOffered, InHand
  <2> QED
    BY <1>2, <2>7, <2>8, <2>9, WholeNext
<1> QED
  BY <1>3, <1>4

LEMMA WriteStep ==
  ASSUME LoadsMasked, SdioIInv, IsrWrite \/ IsrHandled
  PROVE  SdioIInv'
<1>1. /\ load.at = "idle" /\ load' = load /\ pending' = pending
      /\ isr' = [isr EXCEPT !.at = "clear"] \/ \E at : isr' = [at |-> at, serves |-> {}]
  BY Zenon DEF IsrWrite, IsrHandled, Handles
<1>2. SdioShapes /\ OneIsOffered /\ ~Moving /\ ~Moving'
  BY <1>1 DEF SdioIInv, Moving
<1>3. PICK r : /\ r = Now \/ r \in {TxBuffWriteDone(Now), TxBuffHandleDone(Now)}
               /\ Becomes(r)
  <2>1. UNCHANGED sdioQueues => Becomes(Now)
    BY DEF sdioQueues, Becomes, Now
  <2> QED
    BY <2>1, Zenon DEF IsrWrite, IsrHandled
<1>4. PICK p \in Orders, k \in 0..NUM : Ordered(Now, p, k)
  BY <1>2 DEF SdioIInv, Lists
<1> HIDE DEF Now
<1>5. /\ Ordered(r, p, k) /\ "rx_available" \in DOMAIN r.status
      /\ r.status.rx_available => status.rx_available
  BY <1>2, <1>3, <1>4, StatusKeeps, NowFields DEF SdioShapes
<1>6. r.toSend.head = toSend.head
  <2>1. r.toSend.head = IF k = 0 THEN NIL ELSE p[1]
    BY <1>5 DEF Ordered, Linked
  <2>2. Now.toSend.head = IF k = 0 THEN NIL ELSE p[1]
    BY <1>4 DEF Ordered, Linked
  <2> QED
    BY <2>1, <2>2, NowFields
<1>7. Now' = r /\ toSend' = r.toSend /\ status' = r.status
  BY <1>3, <1>5, NowBecomes, QueueFields
<1>8. SdioShapes' /\ isr'.serves \subseteq isr.serves
  BY <1>1, <1>2, <1>5, <1>7 DEF SdioShapes
<1>9. OneIsOffered'
  BY <1>1, <1>2, <1>5, <1>6, <1>7, <1>8 DEF OneIsOffered, InHand
<1> QED
  BY <1>2, <1>5, <1>7, <1>8, <1>9, WholeNext

LEMMA SdioStep ==
  ASSUME LoadsMasked
  PROVE  SdioIInv /\ [SdioNext]_sdioVars => SdioIInv'
BY FillStep, LinkStep, NextStep, EndStep, OffersStep, QuietStep, ReadStep, WriteStep DEF SdioNext

(* If the application loads with the interrupt of the slave off, or from   *)
(* its callback: in whatever order loads, reads of the host and handlers   *)
(* come, even if the handler clears an interrupt that it has not served,   *)
(* and for any number and size of buffers, every buffer is on exactly one  *)
(* of the two lists, and the tails are the ends (sdio_load_data(),         *)
(* sdio_read_done_process(), sdio_slave_isr()).                            *)
THEOREM SdioLinked == LoadsMasked => (SdioSpec => []BuffersOnOneList)
<1> SUFFICES ASSUME LoadsMasked PROVE SdioSpec => []BuffersOnOneList
  OBVIOUS
<1>1. SdioIInv /\ [SdioNext]_sdioVars => SdioIInv'
  BY SdioStep
<1> QED
  BY <1>1, EveryBufferIsListed, SdioInitial, PTL DEF SdioSpec

-------------------------------------------------------------------------------
(* joined[m] are the first m of the sequences g, one behind the other.     *)
Joins(g, n, joined) ==
  joined = [m \in 0..n |-> IF m = 0 THEN <<>> ELSE joined[m - 1] \o g[m]]

LEMMA JoinExists ==
  ASSUME NEW g, NEW n \in Nat
  PROVE  \E joined : Joins(g, n, joined)
<1> DEFINE Step(f, m) == IF m = 0 THEN <<>> ELSE f[m - 1] \o g[m]
<1> DEFINE S == {k \in Nat : \E f : f = [m \in 0..k |-> Step(f, m)]}
<1>1. 0 \in S
  <2>1. [m \in 0..0 |-> <<>>] = [m \in 0..0 |-> Step([m1 \in 0..0 |-> <<>>], m)]
    OBVIOUS
  <2> QED
    BY <2>1
<1>2. ASSUME NEW k \in Nat, k \in S PROVE k + 1 \in S
  <2>1. PICK f : f = [m \in 0..k |-> Step(f, m)]
    BY <1>2
  <2> DEFINE e == [m \in 0..(k + 1) |-> IF m = k + 1 THEN Step(f, m) ELSE f[m]]
  <2>2. \A m \in 0..k : f[m] = Step(f, m)
    BY <2>1
  <2>3. \A m \in 0..(k + 1) : e[m] = Step(f, m)
    BY <2>2
  <2>4. \A m \in 0..k : e[m] = f[m]
    OBVIOUS
  <2>5. \A m \in 0..(k + 1) : Step(e, m) = Step(f, m)
    BY <2>4
  <2>6. e = [m \in 0..(k + 1) |-> e[m]]
    OBVIOUS
  <2> HIDE DEF e, Step
  <2>7. e = [m \in 0..(k + 1) |-> Step(e, m)]
    BY <2>3, <2>5, <2>6
  <2> QED
    BY <2>7
<1>3. n \in S
  <2> HIDE DEF S
  <2> QED
    BY <1>1, <1>2, Ascending
<1> QED
  BY <1>3 DEF Joins

LEMMA JoinSteps ==
  ASSUME NEW n \in Nat, NEW g, NEW joined, Joins(g, n, joined)
  PROVE  joined[0] = <<>> /\ \A m \in 1..n : joined[m] = joined[m - 1] \o g[m]
<1> DEFINE step(m) == IF m = 0 THEN <<>> ELSE joined[m - 1] \o g[m]
<1>1. joined = [m \in 0..n |-> step(m)]
  BY Zenon DEF Joins
<1>2. \A m \in 0..n : joined[m] = step(m)
  <2> HIDE DEF step
  <2> QED
    BY <1>1
<1>3. 0 \in 0..n /\ \A m \in 1..n : m \in 0..n /\ m # 0
  OBVIOUS
<1> QED
  BY <1>2, <1>3, Zenon

LEMMA JoinOf ==
  ASSUME NEW T, NEW n \in Nat, NEW g, \A i \in 1..n : g[i] \in Seq(T),
         NEW joined, Joins(g, n, joined)
  PROVE  \A m \in 0..n : joined[m] \in Seq(T)
<1>1. joined[0] = <<>> /\ \A m \in 1..n : joined[m] = joined[m - 1] \o g[m]
  BY JoinSteps, Zenon
<1> DEFINE S == {k \in Nat : k <= n => joined[k] \in Seq(T)}
<1>2. 0 \in S
  <2>1. joined[0] = <<>> /\ <<>> \in Seq(T)
    BY <1>1, EmptySeq, Zenon
  <2>2. joined[0] \in Seq(T)
    BY <2>1, Zenon
  <2> QED
    BY <2>2
<1>3. ASSUME NEW k \in Nat, k \in S PROVE k + 1 \in S
  <2> SUFFICES ASSUME k + 1 <= n PROVE joined[k + 1] \in Seq(T)
    OBVIOUS
  <2>1. joined[k] \in Seq(T) /\ k + 1 \in 1..n /\ (k + 1) - 1 = k
    BY <1>3
  <2>2. joined[k + 1] = joined[(k + 1) - 1] \o g[k + 1]
    BY <1>1, <2>1, Zenon
  <2>3. g[k + 1] \in Seq(T)
    BY <2>1
  <2> QED
    BY <2>1, <2>2, <2>3, ConcatProperties
<1>4. Nat \subseteq S
  <2> HIDE DEF S
  <2> QED
    BY <1>2, <1>3, Ascending
<1> QED
  BY <1>4

(* The I2C master.  A listener goes from one state to the next with each   *)
(* level; what it has heard after a sequence of them is a state, too.      *)
BusLevels == [sda : {0, 1}, scl : {0, 1}, slave : {0, 1}]

Ear(e, m) == [events |-> e, moved |-> m]

(* A listener that starts while the clock is high has missed the bit.      *)
First(a) == Ear(<<>>, a.scl = 1)

Noted(h, a, b) ==
  LET fell == a.scl = 1 /\ b.scl = 0
      moved == a.scl = 1 /\ b.scl = 1 /\ Sda(a) # Sda(b)
  IN  CASE fell /\ ~h.moved -> <<Sda(a)>>
        [] moved /\ Sda(b) = 0 -> <<START>>
        [] moved /\ Sda(b) = 1 -> <<STOP>>
        [] OTHER -> <<>>

Moved(h, a, b) ==
  (h.moved \/ (a.scl = 1 /\ b.scl = 1 /\ Sda(a) # Sda(b))) /\ b.scl = 1

Hears(h, a, b) == [events |-> h.events \o Noted(h, a, b), moved |-> Moved(h, a, b)]

At(a, s, n) == IF n = 0 THEN a ELSE s[n]

Recorded(h, a, s, f) ==
  f = [n \in 0..Len(s) |-> IF n = 0 THEN h ELSE Hears(f[n - 1], At(a, s, n - 1), At(a, s, n))]

Stepwise(h, a, s, f) ==
  f[0] = h /\ \A n \in 1..Len(s) : f[n] = Hears(f[n - 1], At(a, s, n - 1), At(a, s, n))

(* After level a and in state h, the levels s lead to state g and level b. *)
Speaks(h, a, s, g, b) ==
  /\ s \in Seq(BusLevels) /\ s # <<>> /\ s[Len(s)] = b
  /\ \E f : Recorded(h, a, s, f) /\ f[Len(s)] = g

LEMMA RecordSteps ==
  ASSUME NEW h, NEW a, NEW s \in Seq(BusLevels), NEW f, Recorded(h, a, s, f)
  PROVE  Stepwise(h, a, s, f)
<1> DEFINE step(n) == IF n = 0 THEN h ELSE Hears(f[n - 1], At(a, s, n - 1), At(a, s, n))
<1>1. f = [n \in 0..Len(s) |-> step(n)]
  BY DEF Recorded
<1>2. \A n \in 0..Len(s) : f[n] = step(n)
  <2> HIDE DEF step
  <2> QED
    BY <1>1
<1>3. Len(s) \in Nat
  OBVIOUS
<1>4. 0 \in 0..Len(s) /\ \A n \in 1..Len(s) : n \in 0..Len(s) /\ n # 0
  BY <1>3
<1> QED
  BY <1>2, <1>4, Zenon DEF Stepwise

LEMMA RecordOf ==
  ASSUME NEW h, NEW a, NEW s \in Seq(BusLevels), NEW e,
         e = [n \in 0..Len(s) |-> e[n]], Stepwise(h, a, s, e)
  PROVE  Recorded(h, a, s, e)
<1> DEFINE step(n) == IF n = 0 THEN h ELSE Hears(e[n - 1], At(a, s, n - 1), At(a, s, n))
<1>1. Len(s) \in Nat
  OBVIOUS
<1>2. \A n \in 0..Len(s) : n = 0 \/ n \in 1..Len(s)
  BY <1>1
<1>3. \A n \in 0..Len(s) : e[n] = step(n)
  BY <1>2, Zenon DEF Stepwise
<1> HIDE DEF step
<1>4. e = [n \in 0..Len(s) |-> step(n)]
  BY <1>3
<1> QED
  BY <1>4 DEF step, Recorded

LEMMA RecordUnique ==
  ASSUME NEW h, NEW a, NEW s \in Seq(BusLevels), NEW f, NEW e,
         Recorded(h, a, s, f), Recorded(h, a, s, e)
  PROVE  f = e
<1> DEFINE S == {n \in Nat : n \in 0..Len(s) => f[n] = e[n]}
<1>1. Len(s) \in Nat
  OBVIOUS
<1>7. Stepwise(h, a, s, f) /\ Stepwise(h, a, s, e)
  BY RecordSteps
<1>2. 0 \in S
  BY <1>7 DEF Stepwise
<1>3. ASSUME NEW n \in Nat, n \in S PROVE n + 1 \in S
  <2> SUFFICES ASSUME n + 1 \in 0..Len(s) PROVE f[n + 1] = e[n + 1]
    OBVIOUS
  <2>1. n \in 0..Len(s) /\ n + 1 \in 1..Len(s) /\ (n + 1) - 1 = n
    BY <1>1
  <2>2. f[n] = e[n]
    BY <1>3, <2>1
  <2>3. /\ f[n + 1] = Hears(f[n], At(a, s, n), At(a, s, n + 1))
        /\ e[n + 1] = Hears(e[n], At(a, s, n), At(a, s, n + 1))
    BY <1>7, <2>1 DEF Stepwise
  <2> QED
    BY <2>2, <2>3
<1>4. Nat \subseteq S
  <2> HIDE DEF S
  <2> QED
    BY <1>2, <1>3, Ascending
<1>5. \A n \in 0..Len(s) : f[n] = e[n]
  BY <1>1, <1>4
<1>6. f = [n \in 0..Len(s) |-> f[n]] /\ e = [n \in 0..Len(s) |-> e[n]]
  BY DEF Recorded
<1> QED
  BY <1>5, <1>6

LEMMA Listened ==
  ASSUME NEW a, NEW s, NEW g, NEW b, Speaks(First(a), a, s, g, b)
  PROVE  Listen(a, s) = g.events
<1> DEFINE h == First(a)
           hear == CHOOSE f : Recorded(h, a, s, f)
<1>1. PICK f : Recorded(h, a, s, f) /\ f[Len(s)] = g
  BY DEF Speaks
<1>2. s \in Seq(BusLevels)
  BY DEF Speaks
<1>3. Recorded(h, a, s, hear)
  BY <1>1
<1>4. hear = f
  <2> HIDE DEF hear, h
  <2> QED
    BY <1>1, <1>2, <1>3, RecordUnique
<1>5. Listen(a, s) = hear[Len(s)].events
  BY DEF Listen, Recorded, Hears, Noted, Moved, At, First, Ear
<1> QED
  BY <1>1, <1>4, <1>5

LEMMA SpeaksOne ==
  ASSUME NEW h, NEW a, NEW b \in BusLevels
  PROVE  Speaks(h, a, <<b>>, Hears(h, a, b), b)
<1> DEFINE s == <<b>>
           e == [n \in 0..1 |-> IF n = 0 THEN h ELSE Hears(h, a, b)]
<1>1. s \in Seq(BusLevels) /\ Len(s) = 1 /\ s[1] = b /\ s # <<>>
  OBVIOUS
<1>2. e[0] = h /\ e[1] = Hears(h, a, b)
  OBVIOUS
<1>3. e = [n \in 0..Len(s) |-> e[n]]
  BY <1>1
<1>4. At(a, s, 0) = a /\ At(a, s, 1) = b
  BY <1>1 DEF At
<1> HIDE DEF e, s
<1>5. Stepwise(h, a, s, e)
  <2> SUFFICES e[1] = Hears(e[1 - 1], At(a, s, 1 - 1), At(a, s, 1))
    BY <1>1, <1>2 DEF Stepwise
  <2> QED
    BY <1>2, <1>4
<1>6. Recorded(h, a, s, e)
  BY <1>1, <1>2, <1>3, <1>5, RecordOf
<1>7. Speaks(h, a, s, Hears(h, a, b), b)
  BY <1>1, <1>2, <1>6 DEF Speaks
<1> QED
  BY <1>7 DEF s

LEMMA SpeaksOn ==
  ASSUME NEW h, NEW a, NEW s, NEW g, NEW b, NEW t, NEW k, NEW c,
         Speaks(h, a, s, g, b), Speaks(g, b, t, k, c)
  PROVE  Speaks(h, a, s \o t, k, c)
<1> DEFINE all == s \o t
<1>1. PICK f : Recorded(h, a, s, f) /\ f[Len(s)] = g
  BY DEF Speaks
<1>2. PICK e : Recorded(g, b, t, e) /\ e[Len(t)] = k
  BY DEF Speaks
<1>3. /\ s \in Seq(BusLevels) /\ s # <<>> /\ s[Len(s)] = b
      /\ t \in Seq(BusLevels) /\ t # <<>> /\ t[Len(t)] = c
  BY DEF Speaks
<1>4. /\ Len(s) \in Nat \ {0} /\ Len(t) \in Nat \ {0}
      /\ Len(all) = Len(s) + Len(t) /\ all \in Seq(BusLevels) /\ all # <<>>
      /\ \A n \in 1..Len(s) : all[n] = s[n]
      /\ \A n \in 1..Len(t) : all[Len(s) + n] = t[n]
  BY <1>3
<1> HIDE DEF all
<1> DEFINE w == [n \in 0..Len(all) |-> IF n <= Len(s) THEN f[n] ELSE e[n - Len(s)]]
<1>5. Stepwise(h, a, s, f)
  BY <1>1, <1>3, RecordSteps
<1>6. Stepwise(g, b, t, e)
  BY <1>2, <1>3, RecordSteps
<1>7. /\ \A n \in 0..Len(s) : w[n] = f[n]
      /\ \A n \in 0..Len(t) : w[Len(s) + n] = e[n]
  <2>1. \A n \in 0..Len(s) : w[n] = f[n]
    BY <1>4
  <2>2. ASSUME NEW n \in 0..Len(t), n # 0 PROVE w[Len(s) + n] = e[n]
    <3>1. Len(s) + n \in 0..Len(all) /\ ~(Len(s) + n <= Len(s)) /\ (Len(s) + n) - Len(s) = n
      BY <1>4, <2>2
    <3> QED
      BY <3>1
  <2>3. w[Len(s) + 0] = e[0]
    BY <1>1, <1>4, <1>6, <2>1 DEF Stepwise
  <2> QED
    BY <2>1, <2>2, <2>3
<1>8. /\ \A n \in 0..Len(s) : At(a, all, n) = At(a, s, n)
      /\ \A n \in 0..Len(t) : At(a, all, Len(s) + n) = At(b, t, n)
  BY <1>3, <1>4 DEF At
<1>9. w = [n \in 0..Len(all) |-> w[n]]
  OBVIOUS
<1> HIDE DEF w
<1>10. ASSUME NEW n \in 1..Len(all)
       PROVE  w[n] = Hears(w[n - 1], At(a, all, n - 1), At(a, all, n))
  <2>1. CASE n <= Len(s)
    <3>1. n \in 1..Len(s) /\ n \in 0..Len(s) /\ n - 1 \in 0..Len(s)
      BY <1>4, <2>1
    <3> QED
      BY <1>5, <1>7, <1>8, <3>1 DEF Stepwise
  <2>2. CASE ~(n <= Len(s))
    <3>1. PICK m \in 1..Len(t) : n = Len(s) + m
      <4>1. n - Len(s) \in 1..Len(t) /\ n = Len(s) + (n - Len(s))
        BY <1>4, <2>2
      <4> QED
        BY <4>1
    <3>2. m \in 0..Len(t) /\ m - 1 \in 0..Len(t) /\ n - 1 = Len(s) + (m - 1)
      BY <1>4, <3>1
    <3>3. /\ w[n] = e[m] /\ w[n - 1] = e[m - 1]
          /\ At(a, all, n) = At(b, t, m) /\ At(a, all, n - 1) = At(b, t, m - 1)
      BY <1>7, <1>8, <3>1, <3>2
    <3> QED
      BY <1>6, <3>1, <3>3 DEF Stepwise
  <2> QED
    BY <2>1, <2>2
<1>11. Recorded(h, a, all, w)
  <2>1. w[0] = h
    BY <1>4, <1>5, <1>7 DEF Stepwise
  <2>2. Stepwise(h, a, all, w)
    BY <1>10, <2>1 DEF Stepwise
  <2> QED
    BY <1>4, <1>9, <2>2, RecordOf
<1>12. w[Len(all)] = k /\ all[Len(all)] = c
  BY <1>2, <1>3, <1>4, <1>7
<1>13. Speaks(h, a, all, k, c)
  BY <1>4, <1>11, <1>12 DEF Speaks
<1> QED
  BY <1>13 DEF all

LEMMA SpeaksMore ==
  ASSUME NEW h, NEW a, NEW s, NEW g, NEW b, NEW c \in BusLevels, Speaks(h, a, s, g, b)
  PROVE  Speaks(h, a, s \o <<c>>, Hears(g, b, c), c)
BY SpeaksOne, SpeaksOn

(* What is heard in a step; Telling adds the bit that is on the lines.     *)
LEMMA HearsRules ==
  ASSUME NEW e \in Seq(Int), NEW m \in BOOLEAN, NEW a \in BusLevels, NEW b \in BusLevels
  PROVE  LET h == Hears(Ear(e, m), a, b)
             up == a.scl = 1 /\ b.scl = 1
         IN  /\ a.scl = 0 /\ ~m => h = Ear(e, FALSE)
             /\ a.scl = 1 /\ b.scl = 0 /\ m => h = Ear(e, FALSE)
             /\ a.scl = 1 /\ b.scl = 0 /\ ~m => h = Ear(Append(e, Sda(a)), FALSE)
             /\ up /\ Sda(a) = Sda(b) => h = Ear(e, m)
             /\ up /\ Sda(a) = 1 /\ Sda(b) = 0 => h = Ear(Append(e, START), TRUE)
             /\ up /\ Sda(a) = 0 /\ Sda(b) = 1 => h = Ear(Append(e, STOP), TRUE)
<1>1. e \o <<>> = e
  OBVIOUS
<1>2. /\ e \o <<Sda(a)>> = Append(e, Sda(a)) /\ e \o <<START>> = Append(e, START)
      /\ e \o <<STOP>> = Append(e, STOP)
  <2>1. \A x \in Int : e \o <<x>> = Append(e, x)
    OBVIOUS
  <2>2. Sda(a) \in Int /\ START \in Int /\ STOP \in Int
    BY DEF Sda, Lesser, BusLevels, START, STOP
  <2> QED
    BY <2>1, <2>2
<1>3. a.scl \in {0, 1} /\ b.scl \in {0, 1}
  BY DEF BusLevels
<1> DEFINE was == Ear(e, m)
<1>4. was.events = e /\ was.moved = m
  BY DEF Ear
<1> HIDE DEF was
<1>5. ASSUME NEW told, NEW moved, Noted(was, a, b) = told, Moved(was, a, b) = moved
      PROVE  Hears(was, a, b) = Ear(e \o told, moved)
  BY <1>4, <1>5 DEF Hears, Ear
<1>6. ASSUME a.scl = 0, ~m PROVE Hears(was, a, b) = Ear(e, FALSE)
  <2>1. Noted(was, a, b) = <<>>
    BY <1>6 DEF Noted
  <2>2. Moved(was, a, b) = FALSE
    BY <1>4, <1>6 DEF Moved
  <2> QED
    BY <1>1, <1>5, <2>1, <2>2
<1>7. ASSUME a.scl = 1, b.scl = 0
      PROVE  /\ m => Hears(was, a, b) = Ear(e, FALSE)
             /\ ~m => Hears(was, a, b) = Ear(Append(e, Sda(a)), FALSE)
  <2>1. Noted(was, a, b) = IF m THEN <<>> ELSE <<Sda(a)>>
    BY <1>4, <1>7 DEF Noted
  <2>2. Moved(was, a, b) = FALSE
    BY <1>7 DEF Moved
  <2> QED
    BY <1>1, <1>2, <1>5, <2>1, <2>2
<1>8. ASSUME a.scl = 1, b.scl = 1, Sda(a) = Sda(b) PROVE Hears(was, a, b) = Ear(e, m)
  <2>1. Noted(was, a, b) = <<>>
    BY <1>8 DEF Noted
  <2>2. Moved(was, a, b) = m
    BY <1>4, <1>8 DEF Moved
  <2> QED
    BY <1>1, <1>5, <2>1, <2>2
<1>9. ASSUME a.scl = 1, b.scl = 1, Sda(a) # Sda(b)
      PROVE  /\ Sda(b) = 0 => Hears(was, a, b) = Ear(Append(e, START), TRUE)
             /\ Sda(b) = 1 => Hears(was, a, b) = Ear(Append(e, STOP), TRUE)
  <2>1. Moved(was, a, b) = TRUE
    BY <1>9 DEF Moved
  <2>2. Sda(b) = 0 => Noted(was, a, b) = <<START>>
    BY <1>9 DEF Noted
  <2>3. Sda(b) = 1 => Noted(was, a, b) = <<STOP>>
    BY <1>9 DEF Noted
  <2> QED
    BY <1>2, <1>5, <2>1, <2>2, <2>3
<1>10. /\ Sda(a) = 1 /\ Sda(b) = 0 => Sda(a) # Sda(b)
       /\ Sda(a) = 0 /\ Sda(b) = 1 => Sda(a) # Sda(b)
  OBVIOUS
<1> QED
  BY <1>6, <1>7, <1>8, <1>9, <1>10, Zenon DEF was

Telling(e, b) == IF b.scl = 1 THEN Append(e, Sda(b)) ELSE e

(* From any state between two bits, and any level, the levels s tell bit,  *)
(* and leave the clock at up.                                              *)
Tells(s, bit, up) ==
  \A e \in Seq(Int), b \in BusLevels :
      \E k \in Seq(Int), c \in BusLevels :
        /\ Speaks(Ear(e, FALSE), b, s, Ear(k, FALSE), c)
        /\ Telling(k, c) = Append(Telling(e, b), bit) /\ c.scl = up

LEMMA LevelFields ==
  ASSUME NEW x \in {0, 1}, NEW y \in {0, 1}
  PROVE  /\ Level(x, y) \in BusLevels /\ Level(x, y).scl = y /\ Sda(Level(x, y)) = x
         /\ Level(x, y).sda = x
         /\ \A z \in {0, 1} :
              LET d == [Level(x, y) EXCEPT !.slave = z]
              IN  d \in BusLevels /\ d.scl = y /\ Sda(d) = Lesser(x, z) /\ d.sda = x
BY DEF Level, BusLevels, Sda, Lesser

(* When the clock is low, or falls, the bit on the lines is heard.         *)
LEMMA FallTells ==
  ASSUME NEW e \in Seq(Int), NEW b \in BusLevels, NEW l \in BusLevels, l.scl = 0
  PROVE  /\ Hears(Ear(e, FALSE), b, l) = Ear(Telling(e, b), FALSE)
         /\ Telling(e, b) \in Seq(Int)
<1>1. b.scl \in {0, 1} /\ Sda(b) \in Int
  BY DEF BusLevels, Sda, Lesser
<1>2. CASE b.scl = 0
  <2>1. Hears(Ear(e, FALSE), b, l) = Ear(e, FALSE)
    BY <1>2, HearsRules
  <2>2. Telling(e, b) = e
    BY <1>2 DEF Telling
  <2> QED
    BY <2>1, <2>2
<1>3. CASE b.scl = 1
  <2>1. Hears(Ear(e, FALSE), b, l) = Ear(Append(e, Sda(b)), FALSE)
    BY <1>3, HearsRules
  <2>2. Telling(e, b) = Append(e, Sda(b))
    BY <1>3 DEF Telling
  <2>3. Append(e, Sda(b)) \in Seq(Int)
    BY <1>1
  <2> QED
    BY <2>1, <2>2, <2>3, Zenon
<1> QED
  BY <1>1, <1>2, <1>3

LEMMA RiseSilent ==
  ASSUME NEW e \in Seq(Int), NEW l \in BusLevels, NEW u \in BusLevels, l.scl = 0
  PROVE  Hears(Ear(e, FALSE), l, u) = Ear(e, FALSE)
BY HearsRules

LEMMA MovedSilent ==
  ASSUME NEW e \in Seq(Int), NEW a \in BusLevels, NEW b \in BusLevels, a.scl = 1, b.scl = 0
  PROVE  Hears(Ear(e, TRUE), a, b) = Ear(e, FALSE)
BY HearsRules

(* A line that is pulled low before a byte tells nothing.                  *)
LEMMA FallSilent ==
  ASSUME NEW a \in BusLevels, NEW b \in BusLevels, b.scl = 0
  PROVE  Speaks(First(a), a, <<b>>, Ear(<<>>, FALSE), b)
<1> DEFINE e == <<>>
<1>1. e \in Seq(Int) /\ a.scl \in {0, 1}
  BY DEF BusLevels
<1> HIDE DEF e
<1>2. Hears(First(a), a, b) = Ear(e, FALSE)
  <2>1. CASE a.scl = 0
    <3>1. First(a) = Ear(e, FALSE)
      <4>1. FALSE = (a.scl = 1)
        BY <2>1
      <4> QED
        BY <4>1, Zenon DEF First, e
    <3> QED
      BY <1>1, <2>1, <3>1, RiseSilent
  <2>2. CASE a.scl = 1
    <3>1. First(a) = Ear(e, TRUE)
      <4>1. TRUE = (a.scl = 1)
        BY <2>2
      <4> QED
        BY <4>1, Zenon DEF First, e
    <3> QED
      BY <1>1, <2>2, <3>1, MovedSilent
  <2> QED
    BY <1>1, <2>1, <2>2
<1> QED
  BY <1>2, SpeaksOne DEF e

LEMMA WriteBitTells ==
  ASSUME NEW bit \in {0, 1}
  PROVE  Tells(WriteBit(bit), bit, 0)
<1> SUFFICES ASSUME NEW e \in Seq(Int), NEW b \in BusLevels
             PROVE  \E k \in Seq(Int), c \in BusLevels :
                      /\ Speaks(Ear(e, FALSE), b, WriteBit(bit), Ear(k, FALSE), c)
                      /\ Telling(k, c) = Append(Telling(e, b), bit) /\ c.scl = 0
  BY DEF Tells
<1> DEFINE l == Level(bit, 0)
           u == Level(bit, 1)
           t == Telling(e, b)
<1>1. l \in BusLevels /\ u \in BusLevels /\ l.scl = 0 /\ u.scl = 1 /\ Sda(u) = bit
  BY LevelFields
<1>2. t \in Seq(Int) /\ Append(t, bit) \in Seq(Int) /\ b.scl \in {0, 1}
  BY DEF Telling, Sda, Lesser, BusLevels
<1> HIDE DEF l, u, t
<1>3. Hears(Ear(e, FALSE), b, l) = Ear(t, FALSE)
  BY <1>1, FallTells DEF t
<1>4. Hears(Ear(t, FALSE), l, u) = Ear(t, FALSE)
  BY <1>1, <1>2, RiseSilent
<1>5. Hears(Ear(t, FALSE), u, l) = Ear(Append(t, bit), FALSE)
  BY <1>1, <1>2, FallTells DEF Telling
<1>6. Speaks(Ear(e, FALSE), b, <<l>>, Ear(t, FALSE), l)
  BY <1>1, <1>3, SpeaksOne
<1>7. Speaks(Ear(e, FALSE), b, <<l>> \o <<u>>, Ear(t, FALSE), u)
  BY <1>1, <1>4, <1>6, SpeaksMore
<1>8. Speaks(Ear(e, FALSE), b, <<l>> \o <<u>> \o <<l>>, Ear(Append(t, bit), FALSE), l)
  BY <1>1, <1>5, <1>7, SpeaksMore
<1>9. WriteBit(bit) = <<l>> \o <<u>> \o <<l>>
  BY <1>1 DEF WriteBit, l, u
<1>10. Telling(Append(t, bit), l) = Append(t, bit)
  BY <1>1 DEF Telling
<1> QED
  BY <1>1, <1>2, <1>8, <1>9, <1>10 DEF t

(* In i2c_master_readByte() the slave drives the line; the bit is still on *)
(* the lines at the end.                                                   *)
ReadBit(bit) == Driven(<<Level(1, 0), Level(1, 1)>>, bit)

LEMMA ReadBitTells ==
  ASSUME NEW bit \in {0, 1}
  PROVE  Tells(ReadBit(bit), bit, 1)
<1> SUFFICES ASSUME NEW e \in Seq(Int), NEW b \in BusLevels
             PROVE  \E k \in Seq(Int), c \in BusLevels :
                      /\ Speaks(Ear(e, FALSE), b, ReadBit(bit), Ear(k, FALSE), c)
                      /\ Telling(k, c) = Append(Telling(e, b), bit) /\ c.scl = 1
  BY DEF Tells
<1> DEFINE l == [Level(1, 0) EXCEPT !.slave = bit]
           u == [Level(1, 1) EXCEPT !.slave = bit]
           t == Telling(e, b)
<1>1. l \in BusLevels /\ u \in BusLevels /\ l.scl = 0 /\ u.scl = 1 /\ Sda(u) = bit
  BY DEF Level, BusLevels, Sda, Lesser
<1>2. t \in Seq(Int) /\ b.scl \in {0, 1}
  BY DEF Telling, Sda, Lesser, BusLevels
<1>9. ReadBit(bit) = <<l>> \o <<u>>
  <2> DEFINE two == <<Level(1, 0), Level(1, 1)>>
  <2>1. DOMAIN two = 1..2 /\ two[1] = Level(1, 0) /\ two[2] = Level(1, 1)
    OBVIOUS
  <2>2. ReadBit(bit) = [i \in 1..2 |-> [two[i] EXCEPT !.slave = bit]]
    BY <2>1 DEF ReadBit, Driven
  <2>3. [two[1] EXCEPT !.slave = bit] = l /\ [two[2] EXCEPT !.slave = bit] = u
    BY <2>1
  <2> DEFINE d == [i \in 1..2 |-> [two[i] EXCEPT !.slave = bit]]
  <2> HIDE DEF l, u, two
  <2>4. d[1] = l /\ d[2] = u /\ d = [i \in 1..2 |-> d[i]]
    BY <2>3
  <2> HIDE DEF d
  <2>5. d \in Seq(BusLevels) /\ Len(d) = 2
    BY <1>1, <2>4
  <2> DEFINE w == <<l>> \o <<u>>
  <2>6. w \in Seq(BusLevels) /\ Len(w) = 2 /\ w[1] = l /\ w[2] = u
    BY <1>1
  <2> HIDE DEF w
  <2>7. d = w
    BY <2>4, <2>5, <2>6, SeqEqual
  <2> QED
    BY <2>2, <2>7 DEF d, w
<1> HIDE DEF l, u, t
<1>3. Hears(Ear(e, FALSE), b, l) = Ear(t, FALSE)
  BY <1>1, FallTells DEF t
<1>4. Hears(Ear(t, FALSE), l, u) = Ear(t, FALSE)
  BY <1>1, <1>2, RiseSilent
<1>6. Speaks(Ear(e, FALSE), b, <<l>>, Ear(t, FALSE), l)
  BY <1>1, <1>3, SpeaksOne
<1>7. Speaks(Ear(e, FALSE), b, <<l>> \o <<u>>, Ear(t, FALSE), u)
  BY <1>1, <1>4, <1>6, SpeaksMore
<1>10. Telling(t, u) = Append(t, bit)
  BY <1>1 DEF Telling
<1> QED
  BY <1>1, <1>2, <1>7, <1>9, <1>10 DEF t

(* Sequences one behind the other, of anything.                            *)
LEMMA Concatenated ==
  ASSUME NEW g, Len(g) \in Nat
  PROVE  \E joined : Joins(g, Len(g), joined) /\ Concat(g) = joined[Len(g)]
<1> DEFINE all == CHOOSE joined : Joins(g, Len(g), joined)
<1>1. Joins(g, Len(g), all)
  BY JoinExists
<1>2. Concat(g) = all[Len(g)]
  BY DEF Concat, Joins
<1> QED
  BY <1>1, <1>2

JoinedAll(T, g, joined) ==
  /\ Concat(g) = joined[Len(g)]
  /\ joined[0] = <<>>
  /\ \A m \in 1..Len(g) : joined[m] = joined[m - 1] \o g[m]
  /\ \A m \in 0..Len(g) : joined[m] \in Seq(T)

LEMMA ConcatSteps ==
  ASSUME NEW T, NEW g \in Seq(Seq(T))
  PROVE  \E joined : JoinedAll(T, g, joined)
<1>1. Len(g) \in Nat /\ \A i \in 1..Len(g) : g[i] \in Seq(T)
  OBVIOUS
<1>2. PICK joined : Joins(g, Len(g), joined) /\ Concat(g) = joined[Len(g)]
  BY <1>1, Concatenated
<1>3. joined[0] = <<>> /\ \A m \in 1..Len(g) : joined[m] = joined[m - 1] \o g[m]
  BY <1>1, <1>2, JoinSteps, Zenon
<1>4. \A m \in 0..Len(g) : joined[m] \in Seq(T)
  BY <1>1, <1>2, JoinOf
<1> QED
  BY <1>2, <1>3, <1>4 DEF JoinedAll

LEMMA ConcatTyped ==
  ASSUME NEW T, NEW g \in Seq(Seq(T))
  PROVE  Concat(g) \in Seq(T)
<1>1. Len(g) \in 0..Len(g)
  OBVIOUS
<1>2. PICK joined : JoinedAll(T, g, joined)
  BY ConcatSteps
<1> QED
  BY <1>1, <1>2 DEF JoinedAll

LEMMA PairAppended ==
  ASSUME NEW T, NEW s \in Seq(T), NEW t \in Seq(T), NEW m \in Nat, Len(s) = 2 * m, Len(t) = 2
  PROVE  /\ Len(s \o t) = 2 * (m + 1)
         /\ (s \o t)[2 * (m + 1)] = t[2]
         /\ \A i \in 1..m : (s \o t)[2 * i] = s[2 * i]
<1>1. \A i \in 1..m : 2 * i \in 1..Len(s)
  OBVIOUS
<1>2. 2 * (m + 1) = Len(s) + 2 /\ 2 \in 1..Len(t)
  OBVIOUS
<1>3. Len(s \o t) = Len(s) + Len(t)
  BY ConcatProperties
<1>4. \A i \in 1..Len(s) : (s \o t)[i] = s[i]
  OBVIOUS
<1>5. (s \o t)[Len(s) + 2] = t[2]
  <2>1. \A i \in 1..(Len(s) + Len(t)) :
          (s \o t)[i] = IF i <= Len(s) THEN s[i] ELSE t[i - Len(s)]
    BY ConcatProperties
  <2>2. /\ Len(s) + 2 \in 1..(Len(s) + Len(t)) /\ ~(Len(s) + 2 <= Len(s))
        /\ (Len(s) + 2) - Len(s) = 2
    OBVIOUS
  <2> QED
    BY <2>1, <2>2
<1> QED
  BY <1>1, <1>2, <1>3, <1>4, <1>5

(* Of pairs, the second of each is in an even place.                       *)
LEMMA ConcatPairs ==
  ASSUME NEW T, NEW g \in Seq(Seq(T)), \A i \in 1..Len(g) : Len(g[i]) = 2
  PROVE  /\ Len(Concat(g)) = 2 * Len(g)
         /\ \A i \in 1..Len(g) : Concat(g)[2 * i] = g[i][2]
<1>1. Len(g) \in Nat /\ \A i \in 1..Len(g) : g[i] \in Seq(T)
  OBVIOUS
<1>2. PICK joined : JoinedAll(T, g, joined)
  BY ConcatSteps
<1> DEFINE P(m) == /\ Len(joined[m]) = 2 * m
                   /\ \A i \in 1..m : joined[m][2 * i] = g[i][2]
           S == {m \in Nat : m <= Len(g) => P(m)}
<1>3. P(0)
  <2>1. joined[0] = <<>>
    BY <1>2 DEF JoinedAll
  <2> QED
    BY <2>1
<1>4. ASSUME NEW m \in Nat, m + 1 <= Len(g), P(m) PROVE P(m + 1)
  <2>1. m + 1 \in 1..Len(g) /\ (m + 1) - 1 = m /\ m \in 0..Len(g)
    BY <1>1, <1>4
  <2>2. joined[m + 1] = joined[m] \o g[m + 1] /\ joined[m] \in Seq(T)
    BY <1>2, <2>1 DEF JoinedAll
  <2>3. g[m + 1] \in Seq(T) /\ Len(g[m + 1]) = 2
    BY <1>1, <2>1
  <2>4. /\ Len(joined[m + 1]) = 2 * (m + 1)
        /\ joined[m + 1][2 * (m + 1)] = g[m + 1][2]
        /\ \A i \in 1..m : joined[m + 1][2 * i] = joined[m][2 * i]
    <3> DEFINE all == joined[m] \o g[m + 1]
    <3>1. Len(joined[m]) = 2 * m
      BY <1>4
    <3>2. /\ Len(all) = 2 * (m + 1)
          /\ all[2 * (m + 1)] = g[m + 1][2]
          /\ \A i \in 1..m : all[2 * i] = joined[m][2 * i]
      <4> HIDE DEF P, S
      <4> QED
        BY <2>2, <2>3, <3>1, PairAppended
    <3> HIDE DEF all
    <3>3. joined[m + 1] = all
      BY <2>2 DEF all
    <3> QED
      BY <3>2, <3>3
  <2>5. \A i \in 1..(m + 1) : i \in 1..m \/ i = m + 1
    OBVIOUS
  <2> QED
    BY <1>4, <2>4, <2>5
<1> HIDE DEF P
<1>5. Nat \subseteq S
  <2>1. 0 \in S
    BY <1>3
  <2>2. \A m \in Nat : m \in S => m + 1 \in S
    BY <1>1, <1>4
  <2> HIDE DEF S
  <2> QED
    BY <2>1, <2>2, Ascending
<1>6. P(Len(g))
  BY <1>1, <1>5
<1> QED
  BY <1>2, <1>6 DEF P, JoinedAll

(* One bit after the other, from a low clock on; up is where it ends.      *)
SpeaksOpen(h, a, s) == \E b \in BusLevels : b.scl = 0 /\ Speaks(h, a, s, Ear(<<>>, FALSE), b)

AllTell(g, bits, up) == Len(g) = Len(bits) /\ \A i \in 1..Len(g) : Tells(g[i], bits[i], up)

Reached(h, a, s, bits, up) ==
  \E k \in Seq(Int), c \in BusLevels :
    /\ Speaks(h, a, s, Ear(k, FALSE), c)
    /\ Telling(k, c) = bits
    /\ Len(bits) > 0 => c.scl = up

LEMMA BitsTold ==
  ASSUME NEW g \in Seq(Seq(BusLevels)), NEW bits \in Seq(Int), NEW up, AllTell(g, bits, up),
         NEW h, NEW a, NEW s, SpeaksOpen(h, a, s)
  PROVE  Reached(h, a, s \o Concat(g), bits, up)
<1>12. Len(g) = Len(bits) /\ \A i \in 1..Len(g) : Tells(g[i], bits[i], up)
  BY DEF AllTell
<1>13. PICK b \in BusLevels : b.scl = 0 /\ Speaks(h, a, s, Ear(<<>>, FALSE), b)
  BY DEF SpeaksOpen
<1>1. Len(g) \in Nat /\ \A i \in 1..Len(g) : g[i] \in Seq(BusLevels)
  OBVIOUS
<1>2. PICK joined : JoinedAll(BusLevels, g, joined)
  BY ConcatSteps
<1>3. s \in Seq(BusLevels)
  BY <1>13 DEF Speaks
<1>11. \A x, y \in Seq(BusLevels) : s \o (x \o y) = (s \o x) \o y
  BY <1>3, Regrouped, SMTT(20), ZenonT(40)
<1> DEFINE Q(m, k, c) == /\ k \in Seq(Int) /\ c \in BusLevels
                         /\ Speaks(h, a, s \o joined[m], Ear(k, FALSE), c)
                         /\ Telling(k, c) = SubSeq(bits, 1, m)
                         /\ m > 0 => c.scl = up
           P(m) == \E k, c : Q(m, k, c)
           S == {m \in Nat : m <= Len(g) => P(m)}
<1>4. P(0)
  <2>1. s \o <<>> = s /\ SubSeq(bits, 1, 0) = <<>> /\ <<>> \in Seq(Int)
    BY <1>3
  <2>2. Telling(<<>>, b) = <<>>
    BY <1>13 DEF Telling
  <2>3. joined[0] = <<>>
    BY <1>2 DEF JoinedAll
  <2>4. Speaks(h, a, s \o joined[0], Ear(<<>>, FALSE), b)
    <3>1. s \o joined[0] = s
      BY <2>1, <2>3, Zenon
    <3> QED
      BY <1>13, <3>1, Zenon
  <2>5. Telling(<<>>, b) = SubSeq(bits, 1, 0)
    BY <2>1, <2>2, Zenon
  <2>6. Q(0, <<>>, b)
    <3>1. 0 > 0 => b.scl = up
      OBVIOUS
    <3> QED
      BY <2>1, <2>4, <2>5, <3>1, Zenon
  <2> QED
    BY <2>6
<1>5. ASSUME NEW m \in Nat, m + 1 <= Len(g), P(m) PROVE P(m + 1)
  <2>1. m + 1 \in 1..Len(g) /\ (m + 1) - 1 = m /\ m \in 0..Len(g)
    BY <1>1, <1>5
  <2>2. PICK k, c : Q(m, k, c)
    BY <1>5
  <2>3. Tells(g[m + 1], bits[m + 1], up)
    BY <1>12, <2>1
  <2>4. PICK n \in Seq(Int), d \in BusLevels :
          /\ Speaks(Ear(k, FALSE), c, g[m + 1], Ear(n, FALSE), d)
          /\ Telling(n, d) = Append(Telling(k, c), bits[m + 1]) /\ d.scl = up
    BY <2>2, <2>3 DEF Tells
  <2>5. s \o joined[m + 1] = (s \o joined[m]) \o g[m + 1]
    <3>1. joined[m] \in Seq(BusLevels) /\ joined[m + 1] = joined[m] \o g[m + 1]
      BY <1>2, <2>1 DEF JoinedAll
    <3>2. g[m + 1] \in Seq(BusLevels)
      BY <1>1, <2>1
    <3> QED
      BY <1>11, <3>1, <3>2, Zenon
  <2>6. Speaks(h, a, s \o joined[m + 1], Ear(n, FALSE), d)
    <3>1. Speaks(h, a, s \o joined[m], Ear(k, FALSE), c)
      BY <2>2
    <3>2. Speaks(h, a, (s \o joined[m]) \o g[m + 1], Ear(n, FALSE), d)
      <4>1. Speaks(Ear(k, FALSE), c, g[m + 1], Ear(n, FALSE), d)
        BY <2>4
      <4> DEFINE x == s \o joined[m]
                 y == g[m + 1]
                 eark == Ear(k, FALSE)
                 earn == Ear(n, FALSE)
      <4>2. Speaks(h, a, x, eark, c) /\ Speaks(eark, c, y, earn, d)
        BY <3>1, <4>1
      <4> HIDE DEF Q, P, S, x, y, eark, earn
      <4>3. Speaks(h, a, x \o y, earn, d)
        BY <4>2, SpeaksOn
      <4> QED
        BY <4>3 DEF x, y, earn
    <3> QED
      BY <2>5, <3>2, Zenon
  <2>7. Append(SubSeq(bits, 1, m), bits[m + 1]) = SubSeq(bits, 1, m + 1)
    <3>1. m + 1 \in 1..Len(bits)
      BY <1>12, <2>1
    <3> QED
      BY <3>1
  <2>8. Q(m + 1, n, d)
    <3>1. Telling(k, c) = SubSeq(bits, 1, m)
      BY <2>2
    <3> QED
      BY <2>4, <2>6, <2>7, <3>1
  <2> QED
    BY <2>8
<1> HIDE DEF P
<1>6. Nat \subseteq S
  <2>1. 0 \in S
    BY <1>4
  <2>2. \A m \in Nat : m \in S => m + 1 \in S
    BY <1>1, <1>5
  <2> HIDE DEF S
  <2> QED
    BY <2>1, <2>2, Ascending
<1>7. P(Len(g))
  BY <1>1, <1>6
<1>8. SubSeq(bits, 1, Len(g)) = bits
  BY <1>12
<1>9. Concat(g) = joined[Len(g)]
  BY <1>2 DEF JoinedAll
<1>10. PICK k, c : Q(Len(g), k, c)
  BY <1>7 DEF P
<1> QED
  BY <1>8, <1>9, <1>10, <1>12 DEF Reached

LEMMA ValueSteps ==
  ASSUME NEW bits, Len(bits) \in Nat
  PROVE  \E v : /\ ValueOf(bits) = v[Len(bits)] /\ v[0] = 0
                /\ \A n \in 1..Len(bits) : v[n] = 2 * v[n - 1] + bits[n]
<1> DEFINE Step(f, m) == IF m = 0 THEN 0 ELSE 2 * f[m - 1] + bits[m]
           S == {k \in Nat : \E f : f = [m \in 0..k |-> Step(f, m)]}
<1>1. 0 \in S
  <2>1. [m \in 0..0 |-> 0] = [m \in 0..0 |-> Step([m1 \in 0..0 |-> 0], m)]
    OBVIOUS
  <2> QED
    BY <2>1
<1>2. ASSUME NEW k \in Nat, k \in S PROVE k + 1 \in S
  <2>1. PICK f : f = [m \in 0..k |-> Step(f, m)]
    BY <1>2
  <2> DEFINE e == [m \in 0..(k + 1) |-> IF m = k + 1 THEN Step(f, m) ELSE f[m]]
  <2>2. \A m \in 0..k : f[m] = Step(f, m)
    BY <2>1
  <2>3. \A m \in 0..(k + 1) : e[m] = Step(f, m)
    BY <2>2
  <2>4. \A m \in 0..k : e[m] = f[m]
    OBVIOUS
  <2>5. \A m \in 0..(k + 1) : Step(e, m) = Step(f, m)
    BY <2>4
  <2>6. e = [m \in 0..(k + 1) |-> e[m]]
    OBVIOUS
  <2> HIDE DEF e, Step
  <2>7. e = [m \in 0..(k + 1) |-> Step(e, m)]
    BY <2>3, <2>5, <2>6
  <2> QED
    BY <2>7
<1>3. Len(bits) \in S
  <2> HIDE DEF S
  <2> QED
    BY <1>1, <1>2, Ascending
<1> DEFINE v == CHOOSE f : f = [n \in 0..Len(bits) |-> IF n = 0 THEN 0 ELSE 2 * f[n - 1] + bits[n]]
<1>4. v = [n \in 0..Len(bits) |-> Step(v, n)]
  BY <1>3
<1>5. ValueOf(bits) = v[Len(bits)]
  BY DEF ValueOf
<1> HIDE DEF v
<1>6. \A n \in 0..Len(bits) : v[n] = Step(v, n)
  <2> HIDE DEF Step
  <2> QED
    BY <1>4
<1>7. v[0] = 0 /\ \A n \in 1..Len(bits) : v[n] = 2 * v[n - 1] + bits[n]
  <2>1. 0 \in 0..Len(bits) /\ \A n \in 1..Len(bits) : n \in 0..Len(bits) /\ n # 0
    OBVIOUS
  <2> QED
    BY <1>6, <2>1, Zenon
<1> QED
  BY <1>5, <1>7

LEMMA ByteBits ==
  ASSUME NEW byte \in 0..255
  PROVE  /\ Bits(byte, 8) \in Seq({0, 1}) /\ Len(Bits(byte, 8)) = 8
         /\ ValueOf(Bits(byte, 8)) = byte
<1> DEFINE bits == Bits(byte, 8)
<1>1. bits = [i \in 1..8 |-> (byte \div 2^(8 - i)) % 2]
  BY DEF Bits
<1>2. /\ bits[1] = (byte \div 128) % 2 /\ bits[2] = (byte \div 64) % 2
      /\ bits[3] = (byte \div 32) % 2 /\ bits[4] = (byte \div 16) % 2
      /\ bits[5] = (byte \div 8) % 2 /\ bits[6] = (byte \div 4) % 2
      /\ bits[7] = (byte \div 2) % 2 /\ bits[8] = byte % 2
  <2>1. /\ 2^(8 - 1) = 128 /\ 2^(8 - 2) = 64 /\ 2^(8 - 3) = 32 /\ 2^(8 - 4) = 16
        /\ 2^(8 - 5) = 8 /\ 2^(8 - 6) = 4 /\ 2^(8 - 7) = 2 /\ 2^(8 - 8) = 1
    OBVIOUS
  <2>2. byte \div 1 = byte
    OBVIOUS
  <2> HIDE DEF bits
  <2> QED
    BY <1>1, <2>1, <2>2
<1>3. bits = [i \in 1..8 |-> bits[i]] /\ \A i \in 1..8 : bits[i] \in {0, 1}
  <2>1. bits = [i \in 1..8 |-> bits[i]]
    BY <1>1
  <2> HIDE DEF bits
  <2>2. \A i \in 1..8 : i = 1 \/ i = 2 \/ i = 3 \/ i = 4 \/ i = 5 \/ i = 6 \/ i = 7 \/ i = 8
    OBVIOUS
  <2>3. \A x \in Nat : x % 2 \in {0, 1}
    OBVIOUS
  <2>4. /\ byte \div 128 \in Nat /\ byte \div 64 \in Nat /\ byte \div 32 \in Nat
        /\ byte \div 16 \in Nat /\ byte \div 8 \in Nat /\ byte \div 4 \in Nat
        /\ byte \div 2 \in Nat /\ byte \in Nat
    OBVIOUS
  <2>5. /\ bits[1] \in {0, 1} /\ bits[2] \in {0, 1} /\ bits[3] \in {0, 1} /\ bits[4] \in {0, 1}
        /\ bits[5] \in {0, 1} /\ bits[6] \in {0, 1} /\ bits[7] \in {0, 1} /\ bits[8] \in {0, 1}
    BY <1>2, <2>3, <2>4
  <2> QED
    BY <2>1, <2>2, <2>5
<1> HIDE DEF bits
<1>4. bits \in Seq({0, 1}) /\ Len(bits) = 8
  BY <1>3
<1>15. PICK v : /\ ValueOf(bits) = v[Len(bits)] /\ v[0] = 0
                /\ \A n \in 1..Len(bits) : v[n] = 2 * v[n - 1] + bits[n]
  <2>1. Len(bits) \in Nat
    BY <1>4
  <2> QED
    BY <2>1, ValueSteps
<1>5. /\ ValueOf(bits) = v[8] /\ v[0] = 0
      /\ \A n \in 1..8 : v[n] = 2 * v[n - 1] + bits[n]
  BY <1>4, <1>15
<1>6. /\ v[1] = 2 * v[0] + bits[1] /\ v[2] = 2 * v[1] + bits[2] /\ v[3] = 2 * v[2] + bits[3]
      /\ v[4] = 2 * v[3] + bits[4] /\ v[5] = 2 * v[4] + bits[5] /\ v[6] = 2 * v[5] + bits[6]
      /\ v[7] = 2 * v[6] + bits[7] /\ v[8] = 2 * v[7] + bits[8]
  BY <1>5
<1>7. v[1] = byte \div 128
  BY <1>2, <1>5, <1>6
<1>8. v[2] = byte \div 64
  BY <1>2, <1>6, <1>7
<1>9. v[3] = byte \div 32
  BY <1>2, <1>6, <1>8
<1>10. v[4] = byte \div 16
  BY <1>2, <1>6, <1>9
<1>11. v[5] = byte \div 8
  BY <1>2, <1>6, <1>10
<1>12. v[6] = byte \div 4
  BY <1>2, <1>6, <1>11
<1>13. v[7] = byte \div 2
  BY <1>2, <1>6, <1>12
<1>14. v[8] = byte
  BY <1>2, <1>6, <1>13
<1> QED
  BY <1>4, <1>5, <1>14 DEF bits

(* Levels one by one.                                                      *)
LEMMA OneMore ==
  ASSUME NEW s \in Seq(BusLevels), NEW t \in Seq(BusLevels), NEW c \in BusLevels,
         Len(t) = Len(s) + 1, \A i \in 1..Len(s) : t[i] = s[i], t[Len(t)] = c
  PROVE  t = s \o <<c>>
<1> DEFINE all == s \o <<c>>
<1>1. all \in Seq(BusLevels) /\ Len(all) = Len(s) + 1
  OBVIOUS
<1>2. \A i \in 1..Len(t) : t[i] = all[i]
  OBVIOUS
<1> HIDE DEF all
<1>3. t = all
  BY <1>1, <1>2
<1> QED
  BY <1>3 DEF all

LEMMA LastLevel ==
  ASSUME NEW h, NEW a, NEW s, NEW g, NEW b, NEW t \in Seq(BusLevels), NEW c \in BusLevels,
         Speaks(h, a, s, g, b), Len(t) = Len(s) + 1, \A i \in 1..Len(s) : t[i] = s[i],
         t[Len(t)] = c, NEW k, Hears(g, b, c) = k
  PROVE  Speaks(h, a, t, k, c)
<1>1. s \in Seq(BusLevels)
  BY DEF Speaks
<1>2. t = s \o <<c>>
  BY <1>1, OneMore
<1>3. Speaks(h, a, s \o <<c>>, Hears(g, b, c), c)
  BY SpeaksMore
<1> QED
  BY <1>2, <1>3, Zenon

LEMMA ThreeLevels ==
  ASSUME NEW h, NEW a, NEW x \in BusLevels, NEW y \in BusLevels, NEW z \in BusLevels,
         NEW g, NEW k, NEW n, Hears(h, a, x) = g, Hears(g, x, y) = k, Hears(k, y, z) = n
  PROVE  Speaks(h, a, <<x, y, z>>, n, z)
<1> DEFINE r == <<x>>
           s == <<x, y>>
           t == <<x, y, z>>
<1>1. /\ s \in Seq(BusLevels) /\ Len(r) = 1 /\ Len(s) = 2 /\ s[2] = y
      /\ t \in Seq(BusLevels) /\ Len(t) = 3 /\ t[3] = z
  OBVIOUS
<1>2. s[1] = r[1] /\ t[1] = s[1] /\ t[2] = s[2]
  OBVIOUS
<1>3. Speaks(h, a, r, g, x)
  BY SpeaksOne
<1> HIDE DEF r, s, t
<1>4. Speaks(h, a, s, k, y)
  <2>1. Len(s) = Len(r) + 1 /\ s[Len(s)] = y /\ \A j \in 1..Len(r) : s[j] = r[j]
    BY <1>1, <1>2
  <2> QED
    BY <1>1, <1>3, <2>1, LastLevel
<1>5. Speaks(h, a, t, n, z)
  <2>1. Len(t) = Len(s) + 1 /\ t[Len(t)] = z /\ \A j \in 1..Len(s) : t[j] = s[j]
    BY <1>1, <1>2
  <2> QED
    BY <1>1, <1>4, <2>1, LastLevel, SMTT(20), ZenonT(40)
<1> QED
  BY <1>5 DEF t

LEMMA FourLevels ==
  ASSUME NEW h, NEW a, NEW x \in BusLevels, NEW y \in BusLevels, NEW z \in BusLevels,
         NEW w \in BusLevels, NEW n, NEW i,
         Speaks(h, a, <<x, y, z>>, n, z), Hears(n, z, w) = i
  PROVE  Speaks(h, a, <<x, y, z, w>>, i, w)
<1> DEFINE s == <<x, y, z>>
           t == <<x, y, z, w>>
<1>1. /\ t \in Seq(BusLevels) /\ Len(t) = Len(s) + 1 /\ t[Len(t)] = w
  OBVIOUS
<1>2. t[1] = s[1] /\ t[2] = s[2] /\ t[3] = s[3]
  OBVIOUS
<1>3. Speaks(h, a, s, n, z)
  OBVIOUS
<1> HIDE DEF s, t
<1>4. \A j \in 1..Len(s) : t[j] = s[j]
  <2>1. Len(s) = 3
    BY DEF s
  <2> QED
    BY <1>2, <2>1
<1>5. Speaks(h, a, t, i, w)
  <2>1. Hears(n, z, w) = i
    OBVIOUS
  <2>2. Len(t) = Len(s) + 1 /\ t[Len(t)] = w /\ \A j \in 1..Len(s) : t[j] = s[j]
    BY <1>1, <1>4
  <2> QED
    BY <1>1, <1>3, <2>1, <2>2, LastLevel
<1> QED
  BY <1>5 DEF t

LEMMA FiveLevels ==
  ASSUME NEW h, NEW a, NEW x \in BusLevels, NEW y \in BusLevels, NEW z \in BusLevels,
         NEW w \in BusLevels, NEW v \in BusLevels, NEW n, NEW i,
         Speaks(h, a, <<x, y, z, w>>, n, w), Hears(n, w, v) = i
  PROVE  Speaks(h, a, <<x, y, z, w, v>>, i, v)
<1> DEFINE s == <<x, y, z, w>>
           t == <<x, y, z, w, v>>
<1>1. /\ t \in Seq(BusLevels) /\ Len(t) = Len(s) + 1 /\ t[Len(t)] = v
  OBVIOUS
<1>2. t[1] = s[1] /\ t[2] = s[2] /\ t[3] = s[3] /\ t[4] = s[4]
  OBVIOUS
<1>3. Speaks(h, a, s, n, w)
  OBVIOUS
<1> HIDE DEF s, t
<1>4. \A j \in 1..Len(s) : t[j] = s[j]
  <2>1. Len(s) = 4
    BY DEF s
  <2> QED
    BY <1>2, <2>1
<1>5. Speaks(h, a, t, i, v)
  <2>1. Hears(n, w, v) = i
    OBVIOUS
  <2>2. Len(t) = Len(s) + 1 /\ t[Len(t)] = v /\ \A j \in 1..Len(s) : t[j] = s[j]
    BY <1>1, <1>4
  <2> QED
    BY <1>1, <1>3, <2>1, <2>2, LastLevel
<1> QED
  BY <1>5 DEF t

LEMMA StillSilent ==
  ASSUME NEW e \in Seq(Int), NEW m \in BOOLEAN, NEW a \in BusLevels, NEW b \in BusLevels,
         a.scl = 1, b.scl = 1, Sda(a) = Sda(b)
  PROVE  Hears(Ear(e, m), a, b) = Ear(e, m)
BY HearsRules

LEMMA StartHeard ==
  ASSUME NEW e \in Seq(Int), NEW m \in BOOLEAN, NEW a \in BusLevels, NEW b \in BusLevels,
         a.scl = 1, b.scl = 1, Sda(a) = 1, Sda(b) = 0
  PROVE  Hears(Ear(e, m), a, b) = Ear(Append(e, START), TRUE)
BY HearsRules

LEMMA StopHeard ==
  ASSUME NEW e \in Seq(Int), NEW m \in BOOLEAN, NEW a \in BusLevels, NEW b \in BusLevels,
         a.scl = 1, b.scl = 1, Sda(a) = 0, Sda(b) = 1
  PROVE  Hears(Ear(e, m), a, b) = Ear(Append(e, STOP), TRUE)
BY HearsRules

(* What a call means to the listener, and the level it leaves.             *)
Meant(levels, means, last) == Listen(lines, levels) = means /\ levels[Len(levels)] = last

LEMMA MeantAny ==
  ASSUME NEW s, NEW e, NEW m, NEW b, Speaks(First(lines), lines, s, Ear(e, m), b)
  PROVE  Meant(s, e, b)
<1> DEFINE g == Ear(e, m)
<1>1. Speaks(First(lines), lines, s, g, b)
  OBVIOUS
<1>2. g.events = e
  BY DEF Ear
<1>3. s[Len(s)] = b
  BY DEF Speaks
<1> HIDE DEF g
<1>4. Listen(lines, s) = g.events
  BY <1>1, Listened
<1> QED
  BY <1>2, <1>3, <1>4, Zenon DEF Meant

LEMMA MeantLow ==
  ASSUME NEW s, NEW e, NEW m, NEW b, lines.scl = 0,
         Speaks(Ear(<<>>, FALSE), lines, s, Ear(e, m), b)
  PROVE  Meant(s, e, b)
<1>1. FALSE = (lines.scl = 1)
  OBVIOUS
<1>2. First(lines) = Ear(<<>>, FALSE)
  BY <1>1, Zenon DEF First
<1>3. Speaks(First(lines), lines, s, Ear(e, m), b)
  BY <1>2, Zenon
<1> QED
  BY <1>3, MeantAny, Zenon

LEMMA MeantHigh ==
  ASSUME NEW s, NEW e, NEW m, NEW b, lines.scl = 1,
         Speaks(Ear(<<>>, TRUE), lines, s, Ear(e, m), b)
  PROVE  Meant(s, e, b)
<1>1. TRUE = (lines.scl = 1)
  OBVIOUS
<1>2. First(lines) = Ear(<<>>, TRUE)
  BY <1>1, Zenon DEF First
<1>3. Speaks(First(lines), lines, s, Ear(e, m), b)
  BY <1>2, Zenon
<1> QED
  BY <1>3, MeantAny, Zenon

LEMMA StartMeans ==
  ASSUME lines \in BusLevels, lines = Level(1, 1) \/ lines.scl = 0
  PROVE  Meant(StartLevels, <<START>>, Level(0, 1))
<1> DEFINE x == Level(1, lines.scl)
           y == Level(1, 1)
           z == Level(0, 1)
           e == <<>>
           n == <<START>>
<1>1. /\ x \in BusLevels /\ y \in BusLevels /\ z \in BusLevels
      /\ x.scl = lines.scl /\ y.scl = 1 /\ z.scl = 1
      /\ Sda(x) = 1 /\ Sda(y) = 1 /\ Sda(z) = 0
  <2>1. lines.scl \in {0, 1}
    BY DEF BusLevels
  <2> QED
    BY <2>1, LevelFields
<1>2. StartLevels = <<x, y, z>>
  BY DEF StartLevels
<1>3. lines.scl = 1 => Sda(lines) = 1
  BY LevelFields
<1>4. lines.scl = 0 \/ lines.scl = 1
  BY DEF BusLevels
<1>5. e \in Seq(Int) /\ Append(e, START) = n
  OBVIOUS
<1>6. e = <<>>
  OBVIOUS
<1> HIDE DEF x, y, z, e, n
<1>7. \A m \in BOOLEAN : Hears(Ear(e, m), y, z) = Ear(n, TRUE)
  BY <1>1, <1>5, StartHeard
<1>8. CASE lines.scl = 0
  <2>1. Hears(Ear(e, FALSE), lines, x) = Ear(e, FALSE) /\ Hears(Ear(e, FALSE), x, y) = Ear(e, FALSE)
    BY <1>1, <1>5, <1>8, RiseSilent
  <2>2. Speaks(Ear(e, FALSE), lines, <<x, y, z>>, Ear(n, TRUE), z)
    BY <1>1, <1>7, <2>1, ThreeLevels
  <2> QED
    BY <1>2, <1>6, <1>8, <2>2, MeantLow, Zenon DEF n, z
<1>9. CASE lines.scl = 1
  <2>1. Hears(Ear(e, TRUE), lines, x) = Ear(e, TRUE) /\ Hears(Ear(e, TRUE), x, y) = Ear(e, TRUE)
    BY <1>1, <1>3, <1>5, <1>9, StillSilent
  <2>2. Speaks(Ear(e, TRUE), lines, <<x, y, z>>, Ear(n, TRUE), z)
    BY <1>1, <1>7, <2>1, ThreeLevels
  <2> QED
    BY <1>2, <1>6, <1>9, <2>2, MeantHigh, Zenon DEF n, z
<1> QED
  BY <1>4, <1>8, <1>9

LEMMA StopMeans ==
  ASSUME lines \in BusLevels, lines = Level(0, 1) \/ lines.scl = 0
  PROVE  Meant(StopLevels(lines.scl), <<STOP>>, Level(1, 1))
<1> DEFINE x == Level(0, lines.scl)
           y == Level(0, 1)
           z == Level(1, 1)
           e == <<>>
           n == <<STOP>>
<1>1. /\ x \in BusLevels /\ y \in BusLevels /\ z \in BusLevels
      /\ x.scl = lines.scl /\ y.scl = 1 /\ z.scl = 1
      /\ Sda(x) = 0 /\ Sda(y) = 0 /\ Sda(z) = 1
  <2>1. lines.scl \in {0, 1}
    BY DEF BusLevels
  <2> QED
    BY <2>1, LevelFields
<1>2. StopLevels(lines.scl) = <<x, y, z>>
  BY DEF StopLevels
<1>3. lines.scl = 1 => Sda(lines) = 0
  BY LevelFields
<1>4. lines.scl = 0 \/ lines.scl = 1
  BY DEF BusLevels
<1>5. e \in Seq(Int) /\ Append(e, STOP) = n
  OBVIOUS
<1>6. e = <<>>
  OBVIOUS
<1> HIDE DEF x, y, z, e, n
<1>7. \A m \in BOOLEAN : Hears(Ear(e, m), y, z) = Ear(n, TRUE)
  BY <1>1, <1>5, StopHeard
<1>8. CASE lines.scl = 0
  <2>1. Hears(Ear(e, FALSE), lines, x) = Ear(e, FALSE) /\ Hears(Ear(e, FALSE), x, y) = Ear(e, FALSE)
    BY <1>1, <1>5, <1>8, RiseSilent
  <2>2. Speaks(Ear(e, FALSE), lines, <<x, y, z>>, Ear(n, TRUE), z)
    BY <1>1, <1>7, <2>1, ThreeLevels
  <2> QED
    BY <1>2, <1>6, <1>8, <2>2, MeantLow, Zenon DEF n, z
<1>9. CASE lines.scl = 1
  <2>1. Hears(Ear(e, TRUE), lines, x) = Ear(e, TRUE) /\ Hears(Ear(e, TRUE), x, y) = Ear(e, TRUE)
    BY <1>1, <1>3, <1>5, <1>9, StillSilent
  <2>2. Speaks(Ear(e, TRUE), lines, <<x, y, z>>, Ear(n, TRUE), z)
    BY <1>1, <1>7, <2>1, ThreeLevels
  <2> QED
    BY <1>2, <1>6, <1>9, <2>2, MeantHigh, Zenon DEF n, z
<1> QED
  BY <1>4, <1>8, <1>9

LEMMA SetAckMeans ==
  ASSUME lines \in BusLevels, lines.scl = 0, NEW level \in {0, 1}
  PROVE  Meant(SetAck(level), <<level>>, Level(1, 0))
<1> DEFINE x == Level(lines.sda, 0)
           y == Level(level, 0)
           z == Level(level, 1)
           v == Level(1, 0)
           e == <<>>
           n == <<level>>
<1>1. /\ x \in BusLevels /\ y \in BusLevels /\ z \in BusLevels /\ v \in BusLevels
      /\ x.scl = 0 /\ y.scl = 0 /\ z.scl = 1 /\ v.scl = 0 /\ Sda(z) = level
  <2>1. lines.sda \in {0, 1}
    BY DEF BusLevels
  <2> QED
    BY <2>1, LevelFields
<1>2. SetAck(level) = <<x, y, z, y, v>>
  BY DEF SetAck
<1>3. e \in Seq(Int) /\ n \in Seq(Int) /\ Append(e, level) = n
  OBVIOUS
<1>4. Telling(e, z) = n
  BY <1>1, <1>3 DEF Telling
<1>5. e = <<>>
  OBVIOUS
<1> HIDE DEF x, y, z, v, e, n
<1>6. /\ Hears(Ear(e, FALSE), lines, x) = Ear(e, FALSE)
      /\ Hears(Ear(e, FALSE), x, y) = Ear(e, FALSE)
      /\ Hears(Ear(e, FALSE), y, z) = Ear(e, FALSE)
      /\ Hears(Ear(n, FALSE), y, v) = Ear(n, FALSE)
  BY <1>1, <1>3, RiseSilent
<1>7. Hears(Ear(e, FALSE), z, y) = Ear(n, FALSE)
  BY <1>1, <1>3, <1>4, FallTells, SMTT(20), ZenonT(40)
<1>8. Speaks(Ear(e, FALSE), lines, <<x, y, z>>, Ear(e, FALSE), z)
  BY <1>1, <1>6, ThreeLevels
<1>9. Speaks(Ear(e, FALSE), lines, <<x, y, z, y>>, Ear(n, FALSE), y)
  BY <1>1, <1>7, <1>8, FourLevels
<1>10. Speaks(Ear(e, FALSE), lines, <<x, y, z, y, v>>, Ear(n, FALSE), v)
  BY <1>1, <1>6, <1>9, FiveLevels
<1> QED
  BY <1>2, <1>5, <1>10, MeantLow, Zenon DEF n, v

LEMMA DrivenLevels ==
  ASSUME NEW x \in BusLevels, NEW y \in BusLevels, NEW z \in BusLevels, NEW w \in BusLevels,
         NEW levels, DOMAIN levels = 1..4, NEW slave,
         x = [levels[1] EXCEPT !.slave = slave], y = [levels[2] EXCEPT !.slave = slave],
         z = [levels[3] EXCEPT !.slave = slave], w = [levels[4] EXCEPT !.slave = slave]
  PROVE  Driven(levels, slave) = <<x, y, z, w>>
<1> DEFINE d == [i \in 1..4 |-> [levels[i] EXCEPT !.slave = slave]]
           t == <<x, y, z, w>>
<1>1. Driven(levels, slave) = d
  BY DEF Driven
<1>2. d[1] = x /\ d[2] = y /\ d[3] = z /\ d[4] = w /\ d = [i \in 1..4 |-> d[i]]
  OBVIOUS
<1>3. t \in Seq(BusLevels) /\ Len(t) = 4 /\ t[1] = x /\ t[2] = y /\ t[3] = z /\ t[4] = w
  OBVIOUS
<1> HIDE DEF d, t
<1>4. d \in Seq(BusLevels) /\ Len(d) = 4
  BY <1>2
<1>5. d = t
  <2>1. \A i \in 1..4 : i = 1 \/ i = 2 \/ i = 3 \/ i = 4
    OBVIOUS
  <2>2. \A i \in 1..Len(d) : d[i] = t[i]
    BY <1>2, <1>3, <1>4, <2>1
  <2> QED
    BY <1>3, <1>4, <2>2, SeqEqual
<1> QED
  BY <1>1, <1>5 DEF t

LEMMA ValueOfOne ==
  ASSUME NEW s, Len(s) = 1, s[1] \in Int
  PROVE  ValueOf(s) = s[1]
<1>1. PICK v : /\ ValueOf(s) = v[Len(s)] /\ v[0] = 0
               /\ \A n \in 1..Len(s) : v[n] = 2 * v[n - 1] + s[n]
  BY ValueSteps
<1> QED
  BY <1>1

LEMMA GetAckMeans ==
  ASSUME lines \in BusLevels, lines.scl = 0, NEW answer \in {0, 1}
  PROVE  \E last \in BusLevels :
           /\ Meant(GetAck(answer), <<answer>>, last) /\ last.scl = 0 /\ last.sda = 1
           /\ Sampled(GetAck(answer), <<3>>) = answer
<1> DEFINE four == <<Level(lines.sda, 0), Level(1, 0), Level(1, 1), Level(1, 0)>>
           x == [four[1] EXCEPT !.slave = answer]
           y == [four[2] EXCEPT !.slave = answer]
           z == [four[3] EXCEPT !.slave = answer]
           w == [four[4] EXCEPT !.slave = answer]
           e == <<>>
           n == <<answer>>
<1>1. /\ x \in BusLevels /\ y \in BusLevels /\ z \in BusLevels /\ w \in BusLevels
      /\ x.scl = 0 /\ y.scl = 0 /\ z.scl = 1 /\ w.scl = 0
      /\ Sda(z) = answer /\ w.sda = 1
  <2>1. lines.sda \in {0, 1}
    BY DEF BusLevels
  <2>2. Lesser(1, answer) = answer
    BY DEF Lesser
  <2> QED
    BY <2>1, <2>2, LevelFields
<1>2. GetAck(answer) = <<x, y, z, w>>
  <2>1. GetAck(answer) = Driven(four, answer)
    BY DEF GetAck
  <2>2. DOMAIN four = 1..4
    OBVIOUS
  <2> HIDE DEF four
  <2>3. Driven(four, answer) = <<x, y, z, w>>
    BY <1>1, <2>2, DrivenLevels, SMTT(20), ZenonT(40)
  <2> QED
    BY <2>1, <2>3
<1>3. e \in Seq(Int) /\ n \in Seq(Int) /\ Append(e, answer) = n
  OBVIOUS
<1>5. e = <<>>
  OBVIOUS
<1> HIDE DEF x, y, z, w, e, n
<1>4. Telling(e, z) = n
  BY <1>1, <1>3 DEF Telling
<1>6. /\ Hears(Ear(e, FALSE), lines, x) = Ear(e, FALSE)
      /\ Hears(Ear(e, FALSE), x, y) = Ear(e, FALSE)
      /\ Hears(Ear(e, FALSE), y, z) = Ear(e, FALSE)
  BY <1>1, <1>3, RiseSilent
<1>7. Hears(Ear(e, FALSE), z, w) = Ear(n, FALSE)
  BY <1>1, <1>3, <1>4, FallTells, SMTT(20), ZenonT(40)
<1>8. Speaks(Ear(e, FALSE), lines, <<x, y, z>>, Ear(e, FALSE), z)
  BY <1>1, <1>6, ThreeLevels
<1>9. Speaks(Ear(e, FALSE), lines, <<x, y, z, w>>, Ear(n, FALSE), w)
  BY <1>1, <1>7, <1>8, FourLevels
<1>10. Meant(GetAck(answer), <<answer>>, w)
  BY <1>2, <1>5, <1>9, MeantLow, Zenon DEF n
<1>11. Sampled(GetAck(answer), <<3>>) = answer
  <2> DEFINE s == [i \in DOMAIN <<3>> |-> Sda(GetAck(answer)[<<3>>[i]])]
  <2>1. Sampled(GetAck(answer), <<3>>) = ValueOf(s)
    BY DEF Sampled
  <2>2. DOMAIN <<3>> = 1..1 /\ <<3>>[1] = 3
    OBVIOUS
  <2>3. GetAck(answer)[3] = z
    BY <1>2
  <2>4. Len(s) = 1 /\ s[1] = answer
    BY <1>1, <2>2, <2>3
  <2> HIDE DEF s
  <2> QED
    BY <2>1, <2>4, ValueOfOne
<1> QED
  BY <1>1, <1>10, <1>11

BitsSent(bits) == [i \in 1..8 |-> WriteBit(bits[i])]
BitsRead(bits) == [i \in 1..8 |-> ReadBit(bits[i])]

LEMMA BitLevels ==
  ASSUME NEW bit \in {0, 1}
  PROVE  /\ WriteBit(bit) \in Seq(BusLevels)
         /\ ReadBit(bit) \in Seq(BusLevels) /\ Len(ReadBit(bit)) = 2
         /\ Sda(ReadBit(bit)[2]) = bit
<1> DEFINE x == Level(bit, 0)
           y == Level(bit, 1)
           two == <<Level(1, 0), Level(1, 1)>>
           d == [i \in 1..2 |-> [two[i] EXCEPT !.slave = bit]]
<1>1. x \in BusLevels /\ y \in BusLevels
  BY LevelFields
<1>2. WriteBit(bit) = <<x, y, x>>
  BY DEF WriteBit
<1>3. WriteBit(bit) \in Seq(BusLevels)
  <2> HIDE DEF x, y
  <2> QED
    BY <1>1, <1>2
<1>4. ReadBit(bit) = d
  BY DEF ReadBit, Driven
<1>5. Lesser(1, bit) = bit
  BY DEF Lesser
<1>6. two[1] = Level(1, 0) /\ two[2] = Level(1, 1)
  OBVIOUS
<1>7. [two[1] EXCEPT !.slave = bit] \in BusLevels /\ [two[2] EXCEPT !.slave = bit] \in BusLevels
  <2> HIDE DEF two
  <2> QED
    BY <1>6, LevelFields
<1>8. Sda([two[2] EXCEPT !.slave = bit]) = bit
  <2> HIDE DEF two
  <2> QED
    BY <1>5, <1>6, LevelFields
<1> HIDE DEF two
<1>9. d[1] \in BusLevels /\ d[2] \in BusLevels /\ Sda(d[2]) = bit /\ d = [i \in 1..2 |-> d[i]]
  BY <1>7, <1>8
<1> HIDE DEF d
<1>10. d \in Seq(BusLevels) /\ Len(d) = 2
  BY <1>9
<1> QED
  BY <1>3, <1>4, <1>9, <1>10

LEMMA BitsFit ==
  ASSUME NEW bits \in Seq({0, 1}), Len(bits) = 8
  PROVE  /\ BitsSent(bits) \in Seq(Seq(BusLevels)) /\ Len(BitsSent(bits)) = 8
         /\ \A i \in 1..8 : BitsSent(bits)[i] = WriteBit(bits[i])
         /\ BitsRead(bits) \in Seq(Seq(BusLevels)) /\ Len(BitsRead(bits)) = 8
         /\ \A i \in 1..8 : BitsRead(bits)[i] = ReadBit(bits[i])
<1>1. \A i \in 1..8 : bits[i] \in {0, 1}
  BY ElementOfSeq
<1>2. \A i \in 1..8 : WriteBit(bits[i]) \in Seq(BusLevels) /\ ReadBit(bits[i]) \in Seq(BusLevels)
  BY <1>1, BitLevels
<1> QED
  BY <1>2 DEF BitsSent, BitsRead

LEMMA WriteByteMeans ==
  ASSUME lines \in BusLevels, NEW byte \in 0..255
  PROVE  \E last \in BusLevels : Meant(WriteByte(byte), Bits(byte, 8), last) /\ last.scl = 0
<1> DEFINE bits == Bits(byte, 8)
           g == BitsSent(bits)
           b == Level(lines.sda, 0)
           s == <<b>>
<1>1. bits \in Seq({0, 1}) /\ Len(bits) = 8
  BY ByteBits
<1>2. b \in BusLevels /\ b.scl = 0
  <2>1. lines.sda \in {0, 1}
    BY DEF BusLevels
  <2> QED
    BY <2>1, LevelFields
<1>3. WriteByte(byte) = s \o Concat(g)
  BY DEF WriteByte, BitsSent
<1>4. SpeaksOpen(First(lines), lines, s)
  BY <1>2, FallSilent DEF SpeaksOpen
<1> HIDE DEF bits, b
<1>5. g \in Seq(Seq(BusLevels)) /\ Len(g) = 8 /\ \A i \in 1..8 : g[i] = WriteBit(bits[i])
  BY <1>1, BitsFit
<1> HIDE DEF g, s
<1>6. AllTell(g, bits, 0)
  <2>1. \A i \in 1..8 : bits[i] \in {0, 1}
    BY <1>1, ElementOfSeq
  <2> QED
    BY <1>1, <1>5, <2>1, WriteBitTells DEF AllTell
<1>7. bits \in Seq(Int)
  BY <1>1
<1>11. Reached(First(lines), lines, s \o Concat(g), bits, 0)
  BY <1>4, <1>5, <1>6, <1>7, BitsTold
<1>8. PICK k \in Seq(Int), c \in BusLevels :
        /\ Speaks(First(lines), lines, s \o Concat(g), Ear(k, FALSE), c)
        /\ Telling(k, c) = bits
        /\ Len(bits) > 0 => c.scl = 0
  BY <1>11 DEF Reached
<1>12. c.scl = 0
  BY <1>1, <1>8
<1>9. k = bits
  BY <1>8, <1>12 DEF Telling
<1>10. Meant(WriteByte(byte), bits, c)
  <2>1. Speaks(First(lines), lines, WriteByte(byte), Ear(bits, FALSE), c)
    BY <1>3, <1>8, <1>9, Zenon
  <2> QED
    BY <2>1, MeantAny
<1> QED
  BY <1>10, <1>12 DEF bits

LEMMA Kept ==
  ASSUME NEW t \in Seq(BusLevels), NEW u \in Seq(BusLevels)
  PROVE  \A j \in 1..Len(t) : (t \o u)[j] = t[j]
OBVIOUS

LEMMA ByteBehind ==
  ASSUME NEW s \in Seq(BusLevels), Len(s) = 1, NEW all \in Seq(BusLevels), Len(all) = 16
  PROVE  /\ s \o all \in Seq(BusLevels) /\ Len(s \o all) = 17
         /\ \A j \in 1..16 : (s \o all)[1 + j] = all[j]
<1> DEFINE n == Len(s)
           m == Len(all)
<1>4. n = 1 /\ m = 16
  OBVIOUS
<1> HIDE DEF n, m
<1>1. /\ s \o all \in Seq(BusLevels) /\ Len(s \o all) = n + m
      /\ \A j \in 1..(n + m) : (s \o all)[j] = IF j <= n THEN s[j] ELSE all[j - n]
  BY ConcatProperties DEF n, m
<1>2. \A j \in 1..16 :
        1 + j \in 1..(n + m) /\ ~(1 + j <= n) /\ (1 + j) - n = j
  BY <1>4
<1>3. \A j \in 1..16 : (s \o all)[1 + j] = all[j]
  BY <1>1, <1>2
<1>5. n + m = 17
  BY <1>4
<1> QED
  BY <1>1, <1>3, <1>5, Zenon

LEMMA ReadByteMeans ==
  ASSUME lines \in BusLevels, NEW byte \in 0..255
  PROVE  \E last \in BusLevels :
           /\ Meant(ReadByte(byte), Bits(byte, 8), last) /\ last.scl = 0
           /\ Sampled(ReadByte(byte), [i \in 1..8 |-> 2 * i + 1]) = byte
<1> DEFINE bits == Bits(byte, 8)
           g == BitsRead(bits)
           b == Level(lines.sda, 0)
           s == <<b>>
           all == Concat(g)
           w == [Level(1, 0) EXCEPT !.slave = bits[8]]
<1>1. bits \in Seq({0, 1}) /\ Len(bits) = 8 /\ ValueOf(bits) = byte
  BY ByteBits
<1>2. b \in BusLevels /\ b.scl = 0
  <2>1. lines.sda \in {0, 1}
    BY DEF BusLevels
  <2> QED
    BY <2>1, LevelFields
<1>3. w \in BusLevels /\ w.scl = 0
  <2>1. bits[8] \in {0, 1}
    BY <1>1
  <2> HIDE DEF bits
  <2> QED
    BY <2>1, LevelFields
<1>4. ReadByte(byte) = s \o all \o <<w>>
  BY DEF ReadByte, BitsRead, ReadBit
<1>5. SpeaksOpen(First(lines), lines, s)
  BY <1>2, FallSilent DEF SpeaksOpen
<1> HIDE DEF bits, b
<1>6. g \in Seq(Seq(BusLevels)) /\ Len(g) = 8 /\ \A i \in 1..8 : g[i] = ReadBit(bits[i])
  BY <1>1, BitsFit
<1>7. \A i \in 1..8 : bits[i] \in {0, 1}
  BY <1>1, ElementOfSeq
<1>8. s \in Seq(BusLevels) /\ Len(s) = 1
  BY <1>2
<1> HIDE DEF g, s, w
<1>9. AllTell(g, bits, 1)
  BY <1>1, <1>6, <1>7, ReadBitTells DEF AllTell
<1>10. bits \in Seq(Int)
  BY <1>1
<1>19. Reached(First(lines), lines, s \o all, bits, 1)
  BY <1>5, <1>6, <1>9, <1>10, BitsTold
<1>11. PICK k \in Seq(Int), c \in BusLevels :
         /\ Speaks(First(lines), lines, s \o all, Ear(k, FALSE), c)
         /\ Telling(k, c) = bits
  BY <1>19 DEF Reached
<1> DEFINE levels == s \o all \o <<w>>
<1>12. Speaks(First(lines), lines, levels, Ear(bits, FALSE), w)
  <2> DEFINE t == s \o all
             h == Ear(k, FALSE)
             f == First(lines)
  <2>1. Hears(h, c, w) = Ear(bits, FALSE)
    BY <1>3, <1>11, FallTells
  <2>2. Speaks(f, lines, t, h, c)
    BY <1>11
  <2> HIDE DEF t, h, f
  <2>3. Speaks(f, lines, t \o <<w>>, Hears(h, c, w), w)
    BY <1>3, <2>2, SpeaksMore
  <2> QED
    BY <2>1, <2>3, Zenon DEF t, f
<1>13. Meant(ReadByte(byte), bits, w)
  <2>1. Speaks(First(lines), lines, ReadByte(byte), Ear(bits, FALSE), w)
    BY <1>4, <1>12, Zenon
  <2> QED
    BY <2>1, MeantAny
<1>14. all \in Seq(BusLevels)
  BY <1>6, ConcatTyped
<1>15. Len(all) = 16 /\ \A i \in 1..8 : all[2 * i] = ReadBit(bits[i])[2]
  <2>1. \A i \in 1..Len(g) : Len(g[i]) = 2
    BY <1>6, <1>7, BitLevels, SMTT(20), ZenonT(40)
  <2>2. Len(Concat(g)) = 2 * Len(g) /\ \A i \in 1..Len(g) : Concat(g)[2 * i] = g[i][2]
    BY <1>6, <2>1, ConcatPairs
  <2>3. \A i \in 1..8 : g[i][2] = ReadBit(bits[i])[2]
    BY <1>6, Zenon
  <2>4. Len(Concat(g)) = 16
    BY <1>6, <2>2
  <2>5. \A i \in 1..8 : Concat(g)[2 * i] = g[i][2]
    BY <1>6, <2>2
  <2> QED
    BY <2>3, <2>4, <2>5, Zenon
<1> HIDE DEF all
<1>16. \A i \in 1..8 : levels[2 * i + 1] = all[2 * i]
  <2> DEFINE t == s \o all
             u == <<w>>
  <2>1. t \in Seq(BusLevels) /\ Len(t) = 17 /\ \A j \in 1..16 : t[1 + j] = all[j]
    BY <1>8, <1>14, <1>15, ByteBehind
  <2>4. u \in Seq(BusLevels) /\ Len(u) = 1
    BY <1>3
  <2> HIDE DEF t, u
  <2>5. \A j \in 1..Len(t) : (t \o u)[j] = t[j]
    BY <2>1, <2>4, Kept
  <2>2. \A j \in 1..17 : (t \o u)[j] = t[j]
    BY <2>1, <2>5
  <2>3. \A i \in 1..8 : 2 * i \in 1..16 /\ 2 * i + 1 \in 1..17 /\ 2 * i + 1 = 1 + 2 * i
    OBVIOUS
  <2> QED
    BY <2>1, <2>2, <2>3 DEF t, u
<1>17. \A i \in 1..8 : Sda(levels[2 * i + 1]) = bits[i]
  BY <1>7, <1>15, <1>16, BitLevels
<1> HIDE DEF levels
<1>18. Sampled(levels, [i \in 1..8 |-> 2 * i + 1]) = byte
  <2> DEFINE steps == [i \in 1..8 |-> 2 * i + 1]
             r == [i \in DOMAIN steps |-> Sda(levels[steps[i]])]
  <2>1. r = [i \in 1..8 |-> bits[i]]
    BY <1>17
  <2>2. bits = [i \in 1..8 |-> bits[i]]
    BY <1>1
  <2>3. Sampled(levels, steps) = ValueOf(r)
    BY DEF Sampled
  <2> HIDE DEF r, steps
  <2> QED
    BY <1>1, <2>1, <2>2, <2>3, Zenon DEF steps
<1> QED
  BY <1>3, <1>4, <1>13, <1>18, Zenon DEF bits, levels

LEMMA LastOf ==
  ASSUME NEW s \in Seq(BusLevels), NEW t \in Seq(BusLevels), Len(t) = 3
  PROVE  (s \o t)[Len(s \o t)] = t[3]
<1>1. /\ Len(s \o t) = Len(s) + Len(t)
      /\ \A i \in 1..(Len(s) + Len(t)) :
           (s \o t)[i] = IF i <= Len(s) THEN s[i] ELSE t[i - Len(s)]
  BY ConcatProperties
<1>2. /\ Len(s) + 3 \in 1..(Len(s) + Len(t)) /\ ~(Len(s) + 3 <= Len(s))
      /\ (Len(s) + 3) - Len(s) = 3
  OBVIOUS
<1> QED
  BY <1>1, <1>2

LEMMA InitLeaves == InitLevels[Len(InitLevels)] = Level(1, 1)
<1> DEFINE pair == <<Level(1, 0), Level(1, 1)>>
           g == [i \in 1..28 |-> pair]
           first == <<Level(1, 1), Level(1, 0), Level(0, 0), Level(1, 0)>>
           last == StopLevels(1)
           all == Concat(g)
<1>1. /\ Level(1, 1) \in BusLevels /\ Level(1, 0) \in BusLevels
      /\ Level(0, 0) \in BusLevels /\ Level(0, 1) \in BusLevels
  BY LevelFields
<1>2. pair \in Seq(BusLevels) /\ first \in Seq(BusLevels) /\ last \in Seq(BusLevels)
  BY <1>1 DEF StopLevels
<1>3. Len(last) = 3 /\ last[3] = Level(1, 1)
  BY DEF StopLevels
<1>4. InitLevels = first \o all \o last
  BY DEF InitLevels
<1> HIDE DEF pair, first, last
<1>5. g \in Seq(Seq(BusLevels))
  BY <1>2
<1>6. all \in Seq(BusLevels)
  <2> HIDE DEF g
  <2> QED
    BY <1>5, ConcatTyped
<1> HIDE DEF all
<1> DEFINE most == first \o all
<1>7. most \in Seq(BusLevels)
  BY <1>2, <1>6
<1> HIDE DEF most
<1>8. (most \o last)[Len(most \o last)] = last[3]
  BY <1>2, <1>3, <1>7, LastOf
<1> QED
  BY <1>3, <1>4, <1>8, Zenon DEF most

(* Between transfers both lines are high; after a start the data line is   *)
(* low; and every call tells the listener what it means.                   *)
I2cIInv ==
  /\ lines \in BusLevels
  /\ phase \in {"off", "free", "started", "getAck", "setAck", "byte"}
  /\ phase = "started" => lines = Level(0, 1)
  /\ BusKept

(* A call that tells what it means keeps what was heard as it was asked.   *)
LEMMA CallTells ==
  ASSUME heard = asked, NEW levels, NEW means, NEW last, Meant(levels, means, last),
         NEW r, r[1] = r[2], Call(levels, means, r)
  PROVE  heard' = asked' /\ got'[1] = got'[2] /\ lines' = last
BY DEF Call, Meant

LEMMA I2cInit_I2cIInv == I2cInit => I2cIInv
<1>1. Level(1, 1) \in BusLevels
  BY LevelFields
<1> QED
  BY <1>1 DEF I2cInit, I2cIInv, BusKept, HeardAsAsked, BusLeftRight

LEMMA I2cIInv_Step ==
  ASSUME I2cIInv, [I2cNext]_i2cVars
  PROVE  I2cIInv'
<1> USE DEF I2cIInv
<1>1. heard = asked /\ got[1] = got[2]
  BY DEF BusKept, HeardAsAsked
<1>2. /\ phase = "free" => lines = Level(1, 1)
      /\ phase \in {"getAck", "setAck", "byte"} => lines.scl = 0
  BY DEF BusKept, BusLeftRight
<1>3. /\ Level(1, 1) \in BusLevels /\ Level(0, 1) \in BusLevels
      /\ Level(1, 0) \in BusLevels /\ Level(1, 0).scl = 0 /\ Level(1, 0).sda = 1
  BY LevelFields
<1>4. \A x, y : <<x, y>>[1] = x /\ <<x, y>>[2] = y
  OBVIOUS
<1>5. ASSUME heard' = asked', got'[1] = got'[2], lines' \in BusLevels,
             phase' \in {"free", "started", "getAck", "setAck", "byte"},
             phase' = "free" => lines' = Level(1, 1),
             phase' = "started" => lines' = Level(0, 1),
             phase' \in {"getAck", "setAck", "byte"} => lines'.scl = 0,
             phase' = "byte" => lines'.sda = 1
      PROVE  I2cIInv'
  BY <1>5 DEF BusKept, HeardAsAsked, BusLeftRight, Level
<1>6. CASE I2cMasterInit
  <2>1. Meant(InitLevels, Listen(lines, InitLevels), Level(1, 1))
    BY InitLeaves DEF Meant
  <2>2. Call(InitLevels, Listen(lines, InitLevels), <<0, 0>>) /\ phase' = "free"
    BY <1>6 DEF I2cMasterInit
  <2>3. heard' = asked' /\ got'[1] = got'[2] /\ lines' = Level(1, 1)
    BY <1>1, <1>4, <2>1, <2>2, CallTells
  <2> QED
    BY <1>3, <1>5, <2>2, <2>3
<1>7. CASE I2cMasterStart
  <2>1. Meant(StartLevels, <<START>>, Level(0, 1))
    BY <1>2, <1>7, StartMeans DEF I2cMasterStart
  <2>2. Call(StartLevels, <<START>>, <<0, 0>>) /\ phase' = "started"
    BY <1>7 DEF I2cMasterStart
  <2>3. heard' = asked' /\ got'[1] = got'[2] /\ lines' = Level(0, 1)
    BY <1>1, <1>4, <2>1, <2>2, CallTells
  <2> QED
    BY <1>3, <1>5, <2>2, <2>3
<1>8. CASE I2cMasterStop
  <2>1. Meant(StopLevels(lines.scl), <<STOP>>, Level(1, 1))
    BY <1>2, <1>8, StopMeans DEF I2cMasterStop
  <2>2. Call(StopLevels(lines.scl), <<STOP>>, <<0, 0>>) /\ phase' = "free"
    BY <1>8 DEF I2cMasterStop
  <2>3. heard' = asked' /\ got'[1] = got'[2] /\ lines' = Level(1, 1)
    BY <1>1, <1>4, <2>1, <2>2, CallTells
  <2> QED
    BY <1>3, <1>5, <2>2, <2>3
<1>9. ASSUME NEW byte \in WriteBytes, I2cMasterWriteByte(byte) PROVE I2cIInv'
  <2>1. byte \in 0..255
    BY BytesAssumption
  <2>2. PICK last \in BusLevels : Meant(WriteByte(byte), Bits(byte, 8), last) /\ last.scl = 0
    BY <2>1, WriteByteMeans
  <2>3. Call(WriteByte(byte), Bits(byte, 8), <<0, 0>>) /\ phase' = "getAck"
    BY <1>9 DEF I2cMasterWriteByte
  <2>4. heard' = asked' /\ got'[1] = got'[2] /\ lines' = last
    BY <1>1, <1>4, <2>2, <2>3, CallTells
  <2> QED
    BY <1>5, <2>2, <2>3, <2>4
<1>10. ASSUME NEW byte \in ReadBytes, I2cMasterReadByte(byte) PROVE I2cIInv'
  <2> DEFINE steps == [i \in 1..8 |-> 2 * i + 1]
             r == <<Sampled(ReadByte(byte), steps), byte>>
  <2>1. byte \in 0..255
    BY BytesAssumption
  <2>2. PICK last \in BusLevels :
          /\ Meant(ReadByte(byte), Bits(byte, 8), last) /\ last.scl = 0
          /\ Sampled(ReadByte(byte), steps) = byte
    BY <2>1, ReadByteMeans
  <2>3. Call(ReadByte(byte), Bits(byte, 8), r) /\ phase' = "setAck"
    BY <1>10 DEF I2cMasterReadByte
  <2>4. r[1] = r[2]
    <3> HIDE DEF steps
    <3> QED
      BY <1>4, <2>2
  <2> HIDE DEF r
  <2>5. heard' = asked' /\ got'[1] = got'[2] /\ lines' = last
    BY <1>1, <2>2, <2>3, <2>4, CallTells
  <2> QED
    BY <1>5, <2>2, <2>3, <2>5
<1>11. ASSUME NEW bit \in {0, 1}, I2cMasterGetAck(bit) PROVE I2cIInv'
  <2> DEFINE r == <<Sampled(GetAck(bit), <<3>>), bit>>
  <2>1. lines.scl = 0
    BY <1>2, <1>11 DEF I2cMasterGetAck
  <2>2. PICK last \in BusLevels :
          /\ Meant(GetAck(bit), <<bit>>, last) /\ last.scl = 0 /\ last.sda = 1
          /\ Sampled(GetAck(bit), <<3>>) = bit
    BY <2>1, GetAckMeans
  <2>3. Call(GetAck(bit), <<bit>>, r) /\ phase' = "byte"
    BY <1>11 DEF I2cMasterGetAck
  <2>4. r[1] = r[2]
    BY <1>4, <2>2
  <2> HIDE DEF r
  <2>5. heard' = asked' /\ got'[1] = got'[2] /\ lines' = last
    BY <1>1, <2>2, <2>3, <2>4, CallTells
  <2> QED
    BY <1>5, <2>2, <2>3, <2>5
<1>12. ASSUME NEW bit \in {0, 1}, I2cMasterSetAck(bit) PROVE I2cIInv'
  <2>1. lines.scl = 0
    BY <1>2, <1>12 DEF I2cMasterSetAck
  <2>2. Meant(SetAck(bit), <<bit>>, Level(1, 0))
    BY <2>1, SetAckMeans
  <2>3. Call(SetAck(bit), <<bit>>, <<0, 0>>) /\ phase' = "byte"
    BY <1>12 DEF I2cMasterSetAck
  <2>4. heard' = asked' /\ got'[1] = got'[2] /\ lines' = Level(1, 0)
    BY <1>1, <1>4, <2>2, <2>3, CallTells
  <2> QED
    BY <1>3, <1>5, <2>3, <2>4
<1>13. CASE UNCHANGED i2cVars
  BY <1>13 DEF i2cVars, BusKept, HeardAsAsked, BusLeftRight
<1> QED
  BY <1>6, <1>7, <1>8, <1>9, <1>10, <1>11, <1>12, <1>13 DEF I2cNext

(* The I2C master, for any bytes in any order of calls that the protocol   *)
(* allows: a listener hears the conditions and bits that were asked for,   *)
(* and no other, the code reads what the slave sent, and the functions of  *)
(* i2c_master.c leave the lines as the next one expects them.              *)
THEOREM BusCorrect == I2cSpec => []BusKept
<1>1. I2cInit => I2cIInv
  BY I2cInit_I2cIInv
<1>2. I2cIInv /\ [I2cNext]_i2cVars => I2cIInv'
  BY I2cIInv_Step
<1>3. I2cIInv => BusKept
  BY DEF I2cIInv
<1> QED
  BY <1>1, <1>2, <1>3, PTL DEF I2cSpec
===============================================================================
