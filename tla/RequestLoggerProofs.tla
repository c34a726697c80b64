-------------------------- MODULE RequestLoggerProofs --------------------------
(***************************************************************************)
(* For every limit, initial capacity, set of requests and number of calls: *)
(* the DEBUG logs of a process.  Their LimitQueue is a BoundedFifo, through *)
(* every doubling and wrap-around, and what is taken out of it and out of  *)
(* the lists of the requests is what was put in, once and in order.        *)
(***************************************************************************)
EXTENDS RequestLogger, SequenceTheorems, FiniteSetTheorems, TLAPS

\* The array a of n slots holds the sequence s from slot f on, and nothing else.
Holds(a, n, f, len, s) ==
  /\ n \in Nat \ {0} /\ len \in 0 .. n /\ f \in 0 .. n - 1
  /\ a \in [0 .. n - 1 -> Values \cup {Hole}]
  /\ s \in Seq(Values) /\ Len(s) = len
  /\ \A k \in 0 .. len - 1 : a[Wrap(f + k, n)] = s[k + 1]
  /\ \A i \in 0 .. n - 1 : (\A k \in 0 .. len - 1 : i # Wrap(f + k, n)) => a[i] = Hole

QueueInv == /\ \E s : Holds(array, capacity, front, length, s)
            /\ CapacityIsBounded
            /\ length <= maxSize

-----------------------------------------------------------------------------
LEMMA WrapFacts ==
  ASSUME NEW n \in Nat \ {0}, NEW f \in 0 .. n - 1, NEW k \in 0 .. n
  PROVE  /\ Wrap(f + k, n) = IF f + k < n THEN f + k ELSE f + k - n
         /\ Wrap(f + k, n) \in 0 .. n - 1
<1>1. \A i \in Nat : i < n => i % n = i
  OBVIOUS
<1>2. \A i \in Nat : n <= i /\ i < n + n => i % n = i - n
  OBVIOUS
<1> QED BY <1>1, <1>2 DEF Wrap

LEMMA SlotsAreDistinct ==
  ASSUME NEW n \in Nat \ {0}, NEW f \in 0 .. n - 1,
         NEW j \in 0 .. n - 1, NEW k \in 0 .. n - 1, Wrap(f + j, n) = Wrap(f + k, n)
  PROVE  j = k
<1>1. j \in 0 .. n /\ k \in 0 .. n
  OBVIOUS
<1>2. /\ Wrap(f + j, n) = IF f + j < n THEN f + j ELSE f + j - n
      /\ Wrap(f + k, n) = IF f + k < n THEN f + k ELSE f + k - n
  BY <1>1, WrapFacts
<1> QED BY <1>2

LEMMA CapacityIs ==
  ASSUME NEW n \in Nat, NEW a, DOMAIN a = 0 .. n - 1
  PROVE  Cardinality(DOMAIN a) = n
<1>1. 0 \in Int /\ n - 1 \in Int /\ ~ (0 > n - 1 /\ n # 0)
  OBVIOUS
<1>2. Cardinality(0 .. n - 1) = IF 0 > n - 1 THEN 0 ELSE (n - 1) - 0 + 1
  BY <1>1, FS_Interval
<1> QED BY <1>2

\* The array is doubled when it is full.
LEMMA HoldsGrown ==
  ASSUME NEW a, NEW n, NEW f, NEW s, Holds(a, n, f, n, s)
  PROVE  Holds(Grown(a, n, f), 2 * n, f, n, s)
<1>0. /\ n \in Nat \ {0} /\ f \in 0 .. n - 1 /\ a \in [0 .. n - 1 -> Values \cup {Hole}]
      /\ s \in Seq(Values) /\ Len(s) = n
      /\ \A k \in 0 .. n - 1 : a[Wrap(f + k, n)] = s[k + 1]
  BY DEF Holds
<1> DEFINE g == Grown(a, n, f)
<1>1. /\ DOMAIN g = 0 .. 2 * n - 1
      /\ \A i \in 0 .. 2 * n - 1 :
           /\ i < f => g[i] = Hole
           /\ f <= i /\ i < n => g[i] = a[i]
           /\ n <= i /\ i - n < f => g[i] = a[i - n]
           /\ n <= i /\ f <= i - n => g[i] = Hole
  BY <1>0 DEF Grown
<1>2. g = [i \in 0 .. 2 * n - 1 |-> g[i]]
  BY DEF Grown
<1> HIDE DEF g
<1>3. g \in [0 .. 2 * n - 1 -> Values \cup {Hole}]
  <2>1. ASSUME NEW i \in 0 .. 2 * n - 1 PROVE g[i] \in Values \cup {Hole}
    <3>1. \/ i < f \/ (f <= i /\ i < n) \/ (n <= i /\ i - n < f) \/ (n <= i /\ f <= i - n)
      BY <1>0
    <3>2. f <= i /\ i < n => i \in 0 .. n - 1
      BY <1>0
    <3>3. n <= i /\ i - n < f => i - n \in 0 .. n - 1
      BY <1>0
    <3> QED BY <1>0, <1>1, <3>1, <3>2, <3>3
  <2> QED BY <1>2, <2>1
<1>4. ASSUME NEW k \in 0 .. n - 1
      PROVE  Wrap(f + k, 2 * n) = f + k /\ g[f + k] = s[k + 1]
  <2>1. /\ 2 * n \in Nat \ {0} /\ f \in 0 .. 2 * n - 1 /\ k \in 0 .. 2 * n /\ k \in 0 .. n
        /\ f + k < 2 * n /\ f + k \in 0 .. 2 * n - 1
    BY <1>0
  <2>2. Wrap(f + k, 2 * n) = f + k
    BY <2>1, WrapFacts
  <2>3. a[Wrap(f + k, n)] = s[k + 1]
    BY <1>0
  <2>4. Wrap(f + k, n) = IF f + k < n THEN f + k ELSE f + k - n
    BY <1>0, <2>1, WrapFacts
  <2>5. CASE f + k < n
    BY <1>0, <1>1, <2>1, <2>2, <2>3, <2>4, <2>5
  <2>6. CASE ~ (f + k < n)
    <3>1. n <= f + k /\ (f + k) - n < f /\ f + k - n = (f + k) - n
      BY <1>0, <2>6
    <3>2. g[f + k] = a[(f + k) - n]
      BY <1>1, <2>1, <3>1
    <3>3. a[(f + k) - n] = s[k + 1]
      BY <2>3, <2>4, <2>6, <3>1
    <3> QED BY <2>2, <3>2, <3>3
  <2> QED BY <2>5, <2>6
<1>5. ASSUME NEW i \in 0 .. 2 * n - 1, \A k \in 0 .. n - 1 : i # Wrap(f + k, 2 * n)
      PROVE  g[i] = Hole
  <2>1. (i < f) \/ (n <= i /\ f <= i - n) \/ (i - f \in 0 .. n - 1)
    BY <1>0
  <2>2. CASE i - f \in 0 .. n - 1
    <3>1. f + (i - f) = i
      BY <1>0
    <3> QED BY <1>4, <1>5, <2>2, <3>1
  <2> QED BY <1>1, <2>1, <2>2
<1>6. 2 * n \in Nat \ {0} /\ n \in 0 .. 2 * n /\ f \in 0 .. 2 * n - 1
  BY <1>0
<1> QED BY <1>0, <1>3, <1>4, <1>5, <1>6 DEF Holds, g

\* An element is stored behind the last one.
LEMMA HoldsFilled ==
  ASSUME NEW a, NEW n, NEW f, NEW len, NEW s, Holds(a, n, f, len, s), len < n,
         NEW v \in Values
  PROVE  Holds([a EXCEPT ![Wrap(f + len, n)] = v], n, f, len + 1, Append(s, v))
<1>0. /\ n \in Nat \ {0} /\ len \in 0 .. n /\ len \in 0 .. n - 1 /\ len \in Nat /\ f \in 0 .. n - 1
      /\ a \in [0 .. n - 1 -> Values \cup {Hole}]
      /\ s \in Seq(Values) /\ Len(s) = len
      /\ \A k \in 0 .. len - 1 : a[Wrap(f + k, n)] = s[k + 1]
      /\ \A i \in 0 .. n - 1 : (\A k \in 0 .. len - 1 : i # Wrap(f + k, n)) => a[i] = Hole
  BY DEF Holds
<1> DEFINE back == Wrap(f + len, n)
           b == [a EXCEPT ![back] = v]
           t == Append(s, v)
<1>1. back \in 0 .. n - 1
  BY <1>0, WrapFacts
<1>2. /\ t \in Seq(Values) /\ Len(t) = len + 1 /\ t[len + 1] = v
      /\ \A k \in 1 .. len : t[k] = s[k]
  BY <1>0
<1>3. ASSUME NEW k \in 0 .. (len + 1) - 1 PROVE b[Wrap(f + k, n)] = t[k + 1]
  <2>1. k \in 0 .. n - 1 /\ k \in 0 .. n /\ (k = len \/ k \in 0 .. len - 1)
    BY <1>0
  <2>2. Wrap(f + k, n) \in 0 .. n - 1
    BY <1>0, <2>1, WrapFacts
  <2>3. CASE k = len
    BY <1>0, <1>1, <1>2, <2>3
  <2>4. CASE k \in 0 .. len - 1
    <3>1. k # len /\ k + 1 \in 1 .. len
      BY <1>0, <2>4
    <3>2. Wrap(f + k, n) # back
      BY <1>0, <2>1, <3>1, SlotsAreDistinct
    <3> HIDE DEF back
    <3> QED BY <1>0, <1>1, <1>2, <2>2, <2>4, <3>1, <3>2
  <2> QED BY <2>1, <2>3, <2>4
<1>4. ASSUME NEW i \in 0 .. n - 1, \A k \in 0 .. (len + 1) - 1 : i # Wrap(f + k, n)
      PROVE  b[i] = Hole
  <2>1. len \in 0 .. (len + 1) - 1 /\ \A k \in 0 .. len - 1 : k \in 0 .. (len + 1) - 1
    BY <1>0
  <2> QED BY <1>0, <1>4, <2>1
<1>5. b \in [0 .. n - 1 -> Values \cup {Hole}]
  BY <1>0
<1>6. len + 1 \in 0 .. n
  BY <1>0
<1> HIDE DEF b, t
<1>7. Holds(b, n, f, len + 1, t)
  BY <1>0, <1>2, <1>3, <1>4, <1>5, <1>6 DEF Holds
<1> QED BY <1>7 DEF b, t

\* The first element is taken out.
LEMMA HoldsShifted ==
  ASSUME NEW a, NEW n, NEW f, NEW len, NEW s, Holds(a, n, f, len, s), len > 0
  PROVE  /\ Holds([a EXCEPT ![f] = Hole], n, Wrap(f + 1, n), len - 1, Tail(s))
         /\ s # <<>> /\ a[f] = Head(s)
<1>0. /\ n \in Nat \ {0} /\ len \in 0 .. n /\ len \in Nat \ {0} /\ f \in 0 .. n - 1
      /\ a \in [0 .. n - 1 -> Values \cup {Hole}]
      /\ s \in Seq(Values) /\ Len(s) = len
      /\ \A k \in 0 .. len - 1 : a[Wrap(f + k, n)] = s[k + 1]
      /\ \A i \in 0 .. n - 1 : (\A k \in 0 .. len - 1 : i # Wrap(f + k, n)) => a[i] = Hole
  BY DEF Holds
<1> DEFINE b == [a EXCEPT ![f] = Hole]
           g == Wrap(f + 1, n)
           t == Tail(s)
<1>1. g = (IF f + 1 < n THEN f + 1 ELSE f + 1 - n) /\ g \in 0 .. n - 1
  <2>1. 1 \in 0 .. n
    BY <1>0
  <2> QED BY <1>0, <2>1, WrapFacts
<1>2. /\ s # <<>> /\ t \in Seq(Values) /\ Len(t) = len - 1 /\ Head(s) = s[1]
      /\ \A k \in 1 .. len - 1 : t[k] = s[k + 1]
  BY <1>0
<1>3. a[f] = Head(s) /\ Wrap(f + 0, n) = f
  <2>1. 0 \in 0 .. n /\ 0 \in 0 .. len - 1 /\ f + 0 = f /\ f < n
    BY <1>0
  <2>2. Wrap(f + 0, n) = f
    BY <1>0, <2>1, WrapFacts
  <2>3. a[Wrap(f + 0, n)] = s[0 + 1]
    BY <1>0, <2>1
  <2> QED BY <1>2, <2>2, <2>3
<1>4. ASSUME NEW k \in 0 .. (len - 1) - 1
      PROVE  Wrap(g + k, n) = Wrap(f + (k + 1), n) /\ k + 1 \in 0 .. len - 1 /\ k + 1 \in 0 .. n - 1
  <2>1. k \in 0 .. n /\ k + 1 \in 0 .. n /\ k + 1 \in 0 .. len - 1 /\ k + 1 \in 0 .. n - 1
    BY <1>0
  <2>2. /\ Wrap(g + k, n) = IF g + k < n THEN g + k ELSE g + k - n
        /\ Wrap(f + (k + 1), n) = IF f + (k + 1) < n THEN f + (k + 1) ELSE f + (k + 1) - n
    <3> HIDE DEF g
    <3> QED BY <1>0, <1>1, <2>1, WrapFacts
  <2> HIDE DEF g
  <2> QED BY <1>0, <1>1, <2>1, <2>2
<1>5. ASSUME NEW k \in 0 .. (len - 1) - 1 PROVE b[Wrap(g + k, n)] = t[k + 1]
  <2>1. a[Wrap(f + (k + 1), n)] = s[(k + 1) + 1] /\ t[k + 1] = s[(k + 1) + 1]
    <3>1. k + 1 \in 1 .. len - 1
      BY <1>0
    <3> QED BY <1>0, <1>2, <1>4, <3>1
  <2>2. Wrap(f + (k + 1), n) # f
    <3>1. 0 \in 0 .. n - 1 /\ k + 1 # 0
      BY <1>0
    <3> QED BY <1>0, <1>3, <1>4, <3>1, SlotsAreDistinct
  <2>3. Wrap(f + (k + 1), n) \in 0 .. n - 1
    <3>1. k + 1 \in 0 .. n
      BY <1>0
    <3> QED BY <1>0, <3>1, WrapFacts
  <2> QED BY <1>0, <1>4, <2>1, <2>2, <2>3
<1>6. ASSUME NEW i \in 0 .. n - 1, \A k \in 0 .. (len - 1) - 1 : i # Wrap(g + k, n)
      PROVE  b[i] = Hole
  <2>1. CASE i = f
    BY <1>0, <2>1
  <2>2. CASE i # f
    <3>1. ASSUME NEW k \in 0 .. len - 1 PROVE i # Wrap(f + k, n)
      <4>1. CASE k = 0
        BY <1>3, <2>2, <4>1
      <4>2. CASE k # 0
        <5>1. k - 1 \in 0 .. (len - 1) - 1 /\ (k - 1) + 1 = k
          BY <1>0, <4>2
        <5>2. Wrap(g + (k - 1), n) = Wrap(f + ((k - 1) + 1), n)
          BY <1>4, <5>1
        <5> QED BY <1>6, <5>1, <5>2
      <4> QED BY <4>1, <4>2
    <3> QED BY <1>0, <2>2, <3>1
  <2> QED BY <2>1, <2>2
<1>7. b \in [0 .. n - 1 -> Values \cup {Hole}] /\ len - 1 \in 0 .. n
  BY <1>0
<1> HIDE DEF b, t, g
<1>8. Holds(b, n, g, len - 1, t)
  BY <1>0, <1>1, <1>2, <1>5, <1>6, <1>7 DEF Holds
<1> QED BY <1>2, <1>3, <1>8 DEF b, t, g

\* All are taken out.
LEMMA HoldsDrained ==
  ASSUME NEW a, NEW n, NEW f, NEW len, NEW s, Holds(a, n, f, len, s)
  PROVE  Holds([i \in DOMAIN a |-> Hole], n, Wrap(f + len, n), 0, <<>>)
<1>1. /\ n \in Nat \ {0} /\ len \in 0 .. n /\ f \in 0 .. n - 1 /\ DOMAIN a = 0 .. n - 1
  BY DEF Holds
<1>2. Wrap(f + len, n) \in 0 .. n - 1
  BY <1>1, WrapFacts
<1>3. <<>> \in Seq(Values) /\ Len(<<>>) = 0 /\ 0 \in 0 .. n /\ 0 .. 0 - 1 = {}
  BY <1>1
<1> QED BY <1>1, <1>2, <1>3 DEF Holds

\* What the array holds, read from slot f on, is the sequence.
LEMMA HoldsRead ==
  ASSUME NEW a, NEW n, NEW f, NEW len, NEW s, Holds(a, n, f, len, s)
  PROVE  [i \in 1 .. len |-> a[Wrap(f + i - 1, n)]] = s
<1>1. /\ s \in Seq(Values) /\ Len(s) = len /\ len \in Nat /\ f \in Nat
      /\ \A k \in 0 .. len - 1 : a[Wrap(f + k, n)] = s[k + 1]
  BY DEF Holds
<1>2. ASSUME NEW i \in 1 .. len PROVE a[Wrap(f + i - 1, n)] = s[i]
  <2>1. i - 1 \in 0 .. len - 1 /\ (i - 1) + 1 = i /\ f + (i - 1) = f + i - 1
    BY <1>1
  <2>2. a[Wrap(f + (i - 1), n)] = s[(i - 1) + 1]
    BY <1>1, <2>1
  <2> QED BY <2>1, <2>2
<1>3. s = [i \in 1 .. len |-> s[i]]
  BY <1>1
<1> QED BY <1>2, <1>3

LEMMA HoldsContents ==
  ASSUME NEW s
  PROVE  /\ Holds(array, capacity, front, length, s) => Contents = s
         /\ Holds(array', capacity', front', length', s) => Contents' = s
BY HoldsRead DEF Contents

LEMMA HoldsTypeOK ==
  ASSUME NEW s, Holds(array, capacity, front, length, s)
  PROVE  TypeOK
<1>1. /\ capacity \in Nat \ {0} /\ length \in 0 .. capacity /\ front \in 0 .. capacity - 1
      /\ array \in [0 .. capacity - 1 -> Values \cup {Hole}]
      /\ s \in Seq(Values) /\ Len(s) = length
      /\ \A k \in 0 .. length - 1 : array[Wrap(front + k, capacity)] = s[k + 1]
      /\ \A i \in 0 .. capacity - 1 :
           (\A k \in 0 .. length - 1 : i # Wrap(front + k, capacity)) => array[i] = Hole
  BY DEF Holds
<1>2. ASSUME NEW k \in 0 .. length - 1 PROVE array[Wrap(front + k, capacity)] # Hole
  <2>1. s[k + 1] \in Values
    <3>1. k + 1 \in 1 .. Len(s)
      BY <1>1
    <3> QED BY <1>1, <3>1
  <2> QED BY <1>1, <2>1, LimitQueueAssumption
<1> QED BY <1>1, <1>2 DEF TypeOK

-----------------------------------------------------------------------------
(* The operations of the queue.                                             *)

LEMMA CapacityAfter ==
  ASSUME NEW n, NEW f, NEW len, NEW s, Holds(array', n, f, len, s)
  PROVE  capacity' = n /\ n \in Nat \ {0}
<1>1. DOMAIN array' = 0 .. n - 1 /\ n \in Nat /\ n \in Nat \ {0}
  BY DEF Holds
<1> QED BY <1>1, CapacityIs DEF capacity

LEMMA PushHolds ==
  ASSUME NEW s, Holds(array, capacity, front, length, s), CapacityIsBounded,
         length <= maxSize, NEW v \in Values, push(v)
  PROVE  /\ Holds(array', capacity', front', length',
                 IF Len(Append(s, v)) > maxSize THEN Tail(Append(s, v)) ELSE Append(s, v))
         /\ CapacityIsBounded' /\ length' <= maxSize /\ result' = <<>>
<1> DEFINE n == capacity
           m == IF Full THEN 2 * n ELSE n
           back == Wrap(front + length, m)
           filled == [Room EXCEPT ![back] = v]
           longer == Append(s, v)
<1>0. n \in Nat \ {0} /\ length \in 0 .. n /\ length \in Nat /\ Len(s) = length
      /\ s \in Seq(Values) /\ maxSize \in Nat /\ InitialCapacity \in Nat
  BY LimitQueueAssumption DEF Holds
<1>1. /\ m \in Nat \ {0} /\ length < m /\ (m = n \/ m <= 2 * maxSize)
      /\ (m = n \/ m = 2 * n)
  BY <1>0 DEF Full
<1>2. Holds(Room, m, front, length, s)
  <2>1. CASE Full
    <3>1. length = n
      BY <2>1 DEF Full
    <3>2. Holds(array, n, front, n, s)
      BY <3>1
    <3>3. Holds(Grown(array, n, front), 2 * n, front, n, s)
      BY <3>2, HoldsGrown
    <3> QED BY <2>1, <3>1, <3>3 DEF Room
  <2>2. CASE ~ Full
    BY <2>2 DEF Room
  <2> QED BY <2>1, <2>2
<1>3. Cardinality(DOMAIN Room) = m
  BY <1>1, <1>2, CapacityIs DEF Holds
<1>4. Holds(filled, m, front, length + 1, longer)
  BY <1>1, <1>2, HoldsFilled
<1>5. Len(longer) = length + 1
  BY <1>0
<1>6. /\ result' = <<>>
      /\ length + 1 > maxSize => ShiftFrom(filled, length + 1)
      /\ ~ (length + 1 > maxSize) =>
           array' = filled /\ length' = length + 1 /\ front' = front
  BY <1>3 DEF push
<1> HIDE DEF filled, m, longer
<1>7. CASE length + 1 > maxSize
  <2>1. /\ array' = [filled EXCEPT ![front] = Hole]
        /\ front' = Wrap(front + 1, Cardinality(DOMAIN filled))
        /\ length' = (length + 1) - 1
    BY <1>6, <1>7 DEF ShiftFrom
  <2>2. Cardinality(DOMAIN filled) = m
    BY <1>1, <1>4, CapacityIs DEF Holds
  <2>3. length + 1 > 0
    BY <1>0
  <2>4. Holds([filled EXCEPT ![front] = Hole], m, Wrap(front + 1, m), (length + 1) - 1, Tail(longer))
    BY <1>4, <2>3, HoldsShifted
  <2>5. Holds(array', m, front', length', Tail(longer))
    BY <2>1, <2>2, <2>4
  <2>6. capacity' = m
    BY <2>5, CapacityAfter
  <2>7. CapacityIsBounded' /\ length' <= maxSize
    BY <1>0, <1>1, <2>1, <2>6 DEF CapacityIsBounded
  <2>8. Len(longer) > maxSize
    BY <1>5, <1>7
  <2> QED BY <1>6, <2>5, <2>6, <2>7, <2>8 DEF longer
<1>8. CASE ~ (length + 1 > maxSize)
  <2>1. Holds(array', m, front', length', longer)
    BY <1>4, <1>6, <1>8
  <2>2. capacity' = m
    BY <2>1, CapacityAfter
  <2>3. length' <= maxSize
    BY <1>0, <1>6, <1>8
  <2>4. CapacityIsBounded'
    BY <1>0, <1>1, <2>2 DEF CapacityIsBounded
  <2>5. ~ (Len(longer) > maxSize)
    BY <1>5, <1>8
  <2> QED BY <1>6, <2>1, <2>2, <2>3, <2>4, <2>5 DEF longer
<1> QED BY <1>7, <1>8

LEMMA DrainHolds ==
  ASSUME NEW s, Holds(array, capacity, front, length, s), CapacityIsBounded, drain
  PROVE  /\ Holds(array', capacity', front', length', <<>>)
         /\ CapacityIsBounded' /\ length' = 0 /\ result' = s
<1>1. Holds([i \in DOMAIN array |-> Hole], capacity, Wrap(front + length, capacity), 0, <<>>)
  BY HoldsDrained
<1>2. Holds(array', capacity, front', length', <<>>)
  BY <1>1 DEF drain
<1>3. capacity' = capacity
  BY <1>2, CapacityAfter
<1>4. result' = s
  BY HoldsContents DEF drain
<1> QED BY <1>2, <1>3, <1>4 DEF drain, CapacityIsBounded

LEMMA ShiftHolds ==
  ASSUME NEW s, Holds(array, capacity, front, length, s), CapacityIsBounded,
         length <= maxSize, shift
  PROVE  /\ Holds(array', capacity', front', length', IF s = <<>> THEN s ELSE Tail(s))
         /\ CapacityIsBounded' /\ length' <= maxSize
         /\ result' = IF s = <<>> THEN <<>> ELSE <<Head(s)>>
<1>0. length \in Nat /\ s \in Seq(Values) /\ Len(s) = length /\ capacity \in Nat \ {0}
  BY DEF Holds
<1>1. CASE length = 0
  <2>1. s = <<>> /\ UNCHANGED <<array, length, front>> /\ result' = <<>>
    BY <1>0, <1>1 DEF shift
  <2>2. capacity' = capacity
    BY <2>1 DEF capacity
  <2> QED BY <2>1, <2>2 DEF CapacityIsBounded
<1>2. CASE length # 0
  <2>1. /\ array' = [array EXCEPT ![front] = Hole] /\ front' = Wrap(front + 1, capacity)
        /\ length' = length - 1 /\ result' = <<array[front]>>
    BY <1>2 DEF shift, ShiftFrom, capacity
  <2>2. /\ Holds([array EXCEPT ![front] = Hole], capacity, Wrap(front + 1, capacity), length - 1, Tail(s))
        /\ s # <<>> /\ array[front] = Head(s)
    <3>1. length > 0
      BY <1>0, <1>2
    <3> QED BY <3>1, HoldsShifted
  <2>3. Holds(array', capacity, front', length', Tail(s))
    BY <2>1, <2>2
  <2>4. capacity' = capacity
    BY <2>3, CapacityAfter
  <2>5. length - 1 <= maxSize
    BY <1>0, LimitQueueAssumption
  <2> QED BY <2>1, <2>2, <2>3, <2>4, <2>5 DEF CapacityIsBounded
<1> QED BY <1>1, <1>2

\* Each operation of the queue keeps its invariant and is one of the BoundedFifo.
LEMMA PushStep ==
  ASSUME QueueInv, NEW v \in Values, push(v)
  PROVE  QueueInv' /\ Fifo!FifoPush(v)
<1>1. PICK s : Holds(array, capacity, front, length, s)
  BY DEF QueueInv
<1>2. Contents = s
  BY <1>1, HoldsContents
<1> DEFINE t == IF Len(Append(s, v)) > maxSize THEN Tail(Append(s, v)) ELSE Append(s, v)
<1>3. /\ Holds(array', capacity', front', length', t)
      /\ CapacityIsBounded' /\ length' <= maxSize /\ result' = <<>>
  BY <1>1, PushHolds DEF QueueInv
<1>4. Contents' = t
  <2> HIDE DEF t
  <2> QED BY <1>3, HoldsContents
<1>5. Fifo!FifoPush(v)
  BY <1>2, <1>3, <1>4 DEF Fifo!FifoPush
<1> QED BY <1>3, <1>5 DEF QueueInv

LEMMA ShiftStep == ASSUME QueueInv, shift PROVE QueueInv' /\ Fifo!FifoShift
<1>1. PICK s : Holds(array, capacity, front, length, s)
  BY DEF QueueInv
<1>2. Contents = s
  BY <1>1, HoldsContents
<1> DEFINE t == IF s = <<>> THEN s ELSE Tail(s)
<1>3. /\ Holds(array', capacity', front', length', t)
      /\ CapacityIsBounded' /\ length' <= maxSize
      /\ result' = IF s = <<>> THEN <<>> ELSE <<Head(s)>>
  BY <1>1, ShiftHolds DEF QueueInv
<1>4. Contents' = t
  <2> HIDE DEF t
  <2> QED BY <1>3, HoldsContents
<1>5. Fifo!FifoShift
  BY <1>2, <1>3, <1>4 DEF Fifo!FifoShift
<1> QED BY <1>3, <1>5 DEF QueueInv

LEMMA DrainStep ==
  ASSUME QueueInv, drain
  PROVE  QueueInv' /\ Fifo!FifoDrain /\ length' = 0
<1>1. PICK s : Holds(array, capacity, front, length, s)
  BY DEF QueueInv
<1>2. /\ Holds(array', capacity', front', length', <<>>)
      /\ CapacityIsBounded' /\ length' = 0 /\ result' = s
  BY <1>1, DrainHolds DEF QueueInv
<1>3. Contents = s /\ Contents' = <<>>
  BY <1>1, <1>2, HoldsContents
<1> QED BY <1>2, <1>3, LimitQueueAssumption DEF QueueInv, Fifo!FifoDrain

LEMMA QueueInit == Init => QueueInv /\ Fifo!FifoInit
<1> SUFFICES ASSUME Init PROVE QueueInv /\ Fifo!FifoInit
  OBVIOUS
<1>0. InitialCapacity \in Nat \ {0} /\ maxSize \in Nat
  BY LimitQueueAssumption
<1>1. /\ array = [i \in 0 .. InitialCapacity - 1 |-> Hole] /\ length = 0 /\ front = 0
      /\ result = <<>> /\ DOMAIN array = 0 .. InitialCapacity - 1
  BY DEF Init
<1>2. capacity = InitialCapacity
  BY <1>0, <1>1, CapacityIs DEF capacity
<1>3. Holds(array, capacity, front, length, <<>>)
  <2>1. <<>> \in Seq(Values) /\ Len(<<>>) = 0 /\ 0 .. 0 - 1 = {} /\ 0 \in 0 .. capacity
        /\ 0 \in 0 .. capacity - 1
    BY <1>0, <1>2
  <2> QED BY <1>0, <1>1, <1>2, <2>1 DEF Holds
<1>4. Contents = <<>>
  BY <1>3, HoldsContents
<1>5. QueueInv
  BY <1>0, <1>1, <1>2, <1>3 DEF QueueInv, CapacityIsBounded
<1> QED BY <1>1, <1>4, <1>5 DEF Fifo!FifoInit

-----------------------------------------------------------------------------
(* The logs of the worker and of the requests.                              *)

\* The queue holds what the worker has logged last, as DEBUG logs.
WorkerHolds ==
  /\ length = IF maxSize <= count[TheWorker] - taken THEN maxSize
              ELSE count[TheWorker] - taken
  /\ IsRun(Contents, TheWorker, count[TheWorker] - length, count[TheWorker])
  /\ \A i \in DOMAIN Contents : Contents[i] \in DebugLog

RequestsHold == \A r \in Requests : IsRun(written[r] \o debugLogs[r], r, 0, count[r])

WorkerWrote ==
  LET logs == written[TheWorker] IN
    /\ \A i \in DOMAIN logs : logs[i].by = TheWorker /\ logs[i].id <= taken
    /\ \A i, j \in DOMAIN logs : i < j => logs[i].id < logs[j].id

ListsTypeOK ==
  /\ debugLogs \in [Requests -> Seq(DebugLog)]
  /\ closed \in BOOLEAN
  /\ count \in [Owners -> Nat]
  /\ taken \in 0 .. count[TheWorker]
  /\ written \in [Owners -> Seq(DebugLog)]

LoggersInv == QueueInv /\ ListsTypeOK /\ WorkerHolds /\ RequestsHold /\ WorkerWrote

LEMMA MinOfTwo ==
  ASSUME NEW a \in Nat, NEW b \in Nat
  PROVE  Min({a, b}) = IF a <= b THEN a ELSE b
<1>1. CASE a <= b
  <2>1. \A x \in {a, b} : (\A y \in {a, b} : x <= y) <=> x = a
    BY <1>1
  <2>2. Min({a, b}) = a
    BY <2>1 DEF Min
  <2> QED BY <1>1, <2>2
<1>2. CASE ~ (a <= b)
  <2>1. \A x \in {a, b} : (\A y \in {a, b} : x <= y) <=> x = b
    BY <1>2
  <2>2. Min({a, b}) = b
    BY <2>1 DEF Min
  <2> QED BY <1>2, <2>2
<1> QED BY <1>1, <1>2

LEMMA QueueLength ==
  /\ QueueInv => Len(Contents) = length /\ length \in Nat /\ Contents \in Seq(Values)
  /\ QueueInv' => Len(Contents') = length' /\ length' \in Nat /\ Contents' \in Seq(Values)
<1>1. ASSUME QueueInv PROVE Len(Contents) = length /\ length \in Nat /\ Contents \in Seq(Values)
  <2>1. PICK s : Holds(array, capacity, front, length, s)
    BY <1>1 DEF QueueInv
  <2>2. Contents = s
    BY <2>1, HoldsContents
  <2> QED BY <2>1, <2>2 DEF Holds
<1>2. ASSUME QueueInv' PROVE Len(Contents') = length' /\ length' \in Nat /\ Contents' \in Seq(Values)
  <2>1. PICK s : Holds(array', capacity', front', length', s)
    BY <1>2 DEF QueueInv
  <2>2. Contents' = s
    BY <2>1, HoldsContents
  <2> QED BY <2>1, <2>2 DEF Holds
<1> QED BY <1>1, <1>2

LEMMA LoggersInvImplies == LoggersInv => /\ LoggersTypeOK /\ CapacityIsBounded /\ DebugLogsHaveOneHome
<1> SUFFICES ASSUME LoggersInv PROVE LoggersTypeOK /\ CapacityIsBounded /\ DebugLogsHaveOneHome
  OBVIOUS
<1>1. TypeOK /\ CapacityIsBounded
  BY HoldsTypeOK DEF LoggersInv, QueueInv
<1>2. Min({maxSize, count[TheWorker] - taken}) = length
  <2>1. count[TheWorker] - taken \in Nat /\ maxSize \in Nat
    BY LimitQueueAssumption DEF LoggersInv, ListsTypeOK, Owners
  <2> QED BY <2>1, MinOfTwo DEF LoggersInv, WorkerHolds
<1>3. DebugLogsHaveOneHome
  BY <1>2 DEF DebugLogsHaveOneHome, LoggersInv, WorkerHolds, RequestsHold, WorkerWrote
<1> QED BY <1>1, <1>3 DEF LoggersTypeOK, LoggersInv, ListsTypeOK

LEMMA LoggersInitInv == LoggersInit => LoggersInv
<1> SUFFICES ASSUME LoggersInit PROVE LoggersInv
  OBVIOUS
<1>1. QueueInv /\ Contents = <<>> /\ length = 0
  BY QueueInit DEF LoggersInit, Fifo!FifoInit, Init
<1>2. ListsTypeOK
  <2>1. <<>> \in Seq(DebugLog) /\ TheWorker \in Owners
    BY DEF Owners
  <2>2. /\ debugLogs \in [Requests -> Seq(DebugLog)] /\ written \in [Owners -> Seq(DebugLog)]
    BY <2>1 DEF LoggersInit
  <2>3. count \in [Owners -> Nat] /\ count[TheWorker] = 0 /\ closed \in BOOLEAN
    BY <2>1 DEF LoggersInit
  <2>4. taken \in 0 .. count[TheWorker]
    BY <2>3 DEF LoggersInit
  <2> QED BY <2>2, <2>3, <2>4 DEF ListsTypeOK
<1>3. TheWorker \in Owners /\ Requests \subseteq Owners
  BY DEF Owners
<1>4. /\ count[TheWorker] = 0 /\ taken = 0 /\ written[TheWorker] = <<>>
      /\ \A r \in Requests : count[r] = 0 /\ written[r] = <<>> /\ debugLogs[r] = <<>>
  BY <1>3 DEF LoggersInit
<1>5. /\ WorkerHolds
  BY <1>1, <1>4, LimitQueueAssumption DEF WorkerHolds, IsRun
<1>6. RequestsHold
  <2>1. <<>> \o <<>> = <<>> /\ Len(<<>>) = 0 - 0
    OBVIOUS
  <2>2. \A r \in Requests : written[r] \o debugLogs[r] = <<>> /\ count[r] = 0
    BY <1>4, <2>1
  <2>3. IsRun(<<>>, 0, 0, 0) /\ \A o : IsRun(<<>>, o, 0, 0)
    BY DEF IsRun
  <2> QED BY <2>2, <2>3 DEF RequestsHold
<1>7. WorkerWrote
  BY <1>4 DEF WorkerWrote
<1> QED BY <1>1, <1>2, <1>5, <1>6, <1>7 DEF LoggersInv

LEMMA ConcatAppend ==
  ASSUME NEW S, NEW s \in Seq(S), NEW t \in Seq(S), NEW e \in S
  PROVE  s \o Append(t, e) = Append(s \o t, e) /\ s \o t \in Seq(S)
OBVIOUS

LEMMA LoggedFacts ==
  ASSUME ListsTypeOK, NEW o \in Owners, NEW valid \in BOOLEAN
  PROVE  /\ Logged(o, valid) \in DebugLog
         /\ Logged(o, valid).by = o /\ Logged(o, valid).id = count[o] + 1
         /\ count[o] \in Nat
BY DEF ListsTypeOK, Logged, DebugLog

LEMMA debugKeeps == ASSUME LoggersInv, NEW valid \in BOOLEAN, debug(valid) PROVE LoggersInv'
<1> DEFINE v == Logged(TheWorker, valid)
           n == count[TheWorker]
           t == IF Len(Append(Contents, v)) > maxSize THEN Tail(Append(Contents, v))
                ELSE Append(Contents, v)
<1>1. TheWorker \in Owners /\ QueueInv /\ ListsTypeOK /\ WorkerHolds
  BY DEF Owners, LoggersInv
<1>2. /\ push(v) /\ count' = [count EXCEPT ![TheWorker] = @ + 1]
      /\ UNCHANGED <<debugLogs, closed, taken, written>> /\ n < MaxDebug[TheWorker]
  BY DEF debug
<1>3. n \in Nat /\ v \in DebugLog /\ v.by = TheWorker /\ v.id = n + 1
  BY <1>1, LoggedFacts
<1>4. v \in Values
  <2>1. v \in [by : {TheWorker}, id : 1 .. MaxDebug[TheWorker], valid : BOOLEAN]
    <3>1. n + 1 \in 1 .. MaxDebug[TheWorker]
      BY <1>1, <1>2, <1>3, RequestAssumption
    <3> QED BY <3>1 DEF Logged
  <2> QED BY <2>1, RequestAssumption
<1>5. QueueInv' /\ Fifo!FifoPush(v)
  BY <1>1, <1>2, <1>4, PushStep
<1>6. count'[TheWorker] = n + 1 /\ \A r \in Requests : count'[r] = count[r]
  BY <1>1, <1>2, RequestAssumption DEF ListsTypeOK, Owners
<1>7. ListsTypeOK'
  <2>1. count' \in [Owners -> Nat]
    BY <1>1, <1>2, <1>3 DEF ListsTypeOK
  <2>2. taken' \in 0 .. count'[TheWorker]
    BY <1>1, <1>2, <1>3, <1>6 DEF ListsTypeOK
  <2> QED BY <1>1, <1>2, <2>1, <2>2 DEF ListsTypeOK
<1>8. WorkerHolds'
  <2>1. /\ Len(Contents) = length /\ length \in Nat /\ Contents \in Seq(Values)
        /\ Len(Contents') = length'
    BY <1>1, <1>5, QueueLength
  <2>2. Contents' = t
    BY <1>5 DEF Fifo!FifoPush
  <2>3. /\ Len(Append(Contents, v)) = length + 1 /\ Append(Contents, v)[length + 1] = v
        /\ \A i \in 1 .. length : Append(Contents, v)[i] = Contents[i]
        /\ Append(Contents, v) \in Seq(Values)
    BY <1>4, <2>1
  <2> DEFINE longer == Append(Contents, v)
  <2>4. ASSUME NEW i \in 1 .. length + 1
        PROVE  longer[i].by = TheWorker /\ longer[i].id = (n - length) + i /\ longer[i] \in DebugLog
    <3>1. CASE i = length + 1
      <4>1. longer[i] = v /\ (n - length) + i = n + 1
        BY <1>3, <2>1, <2>3, <3>1
      <4> QED BY <1>3, <4>1
    <3>2. CASE i # length + 1
      <4>1. i \in 1 .. length /\ i \in DOMAIN Contents /\ longer[i] = Contents[i]
        BY <2>1, <2>3, <3>2
      <4> HIDE DEF longer
      <4> QED BY <1>1, <4>1 DEF WorkerHolds, IsRun
    <3> QED BY <3>1, <3>2
  <2>5. /\ taken \in 0 .. n /\ maxSize \in Nat /\ taken' = taken
        /\ length = IF maxSize <= n - taken THEN maxSize ELSE n - taken
    BY <1>1, <1>2, LimitQueueAssumption DEF ListsTypeOK, WorkerHolds
  <2> HIDE DEF longer
  <2>6. CASE length + 1 > maxSize
    <3>0. Contents' = Tail(longer) /\ longer \in Seq(Values) /\ Len(longer) = length + 1
      BY <2>2, <2>3, <2>6 DEF longer
    <3>1. /\ Contents' = Tail(longer) /\ longer # <<>> /\ Len(Tail(longer)) = length
          /\ \A i \in 1 .. length : Tail(longer)[i] = longer[i + 1]
          /\ DOMAIN Tail(longer) = 1 .. length
      BY <2>1, <3>0
    <3>2. length' = length /\ length = maxSize
      BY <1>3, <2>1, <2>5, <2>6, <3>1
    <3>3. \A i \in 1 .. length : /\ i + 1 \in 1 .. length + 1
                                 /\ (n - length) + (i + 1) = ((n + 1) - length) + i
      BY <1>3, <2>1
    <3>4. \A i \in DOMAIN Contents' :
            /\ Contents'[i].by = TheWorker /\ Contents'[i].id = ((n + 1) - length) + i
            /\ Contents'[i] \in DebugLog
      BY <2>4, <3>1, <3>3
    <3>5. Len(Contents') = (n + 1) - ((n + 1) - length)
      BY <1>3, <2>1, <3>1
    <3>6. length' = IF maxSize <= (n + 1) - taken' THEN maxSize ELSE (n + 1) - taken'
      BY <1>3, <2>5, <3>2
    <3> QED BY <1>6, <3>2, <3>4, <3>5, <3>6 DEF WorkerHolds, IsRun
  <2>7. CASE ~ (length + 1 > maxSize)
    <3>1. Contents' = longer /\ Len(longer) = length + 1 /\ DOMAIN longer = 1 .. length + 1
      BY <2>2, <2>3, <2>7 DEF longer
    <3>2. length' = length + 1 /\ (n + 1) - length' = n - length
      BY <1>3, <2>1, <3>1
    <3>3. Len(Contents') = (n + 1) - (n - length)
      BY <1>3, <2>1, <3>1
    <3>4. length' = IF maxSize <= (n + 1) - taken' THEN maxSize ELSE (n + 1) - taken'
      BY <1>3, <2>1, <2>5, <2>7, <3>2
    <3> QED BY <1>6, <2>4, <3>1, <3>2, <3>3, <3>4 DEF WorkerHolds, IsRun
  <2> QED BY <2>6, <2>7
<1>9. RequestsHold'
  BY <1>2, <1>6 DEF LoggersInv, RequestsHold
<1>10. WorkerWrote'
  BY <1>2 DEF LoggersInv, WorkerWrote
<1> QED BY <1>5, <1>7, <1>8, <1>9, <1>10 DEF LoggersInv

LEMMA UNCAUGHT_EXCEPTIONKeeps ==
  ASSUME LoggersInv, NEW error \in BOOLEAN, UNCAUGHT_EXCEPTION(error) PROVE LoggersInv'
<1> DEFINE n == count[TheWorker]
           w == written[TheWorker]
           c == Contents
<1>1. TheWorker \in Owners /\ QueueInv /\ ListsTypeOK /\ WorkerHolds /\ WorkerWrote
      /\ TheWorker \notin Requests
  BY RequestAssumption DEF Owners, LoggersInv
<1>2. /\ drain /\ taken' = n /\ UNCHANGED <<debugLogs, closed, count>>
      /\ \/ written' = [written EXCEPT ![TheWorker] = w \o c]
         \/ written' = written
  BY DEF UNCAUGHT_EXCEPTION
<1>3. QueueInv' /\ length' = 0 /\ Contents' = <<>>
  BY <1>1, <1>2, DrainStep DEF Fifo!FifoDrain
<1>4. /\ n \in Nat /\ taken \in 0 .. n /\ w \in Seq(DebugLog) /\ length \in Nat
      /\ Len(c) = length /\ length <= n - taken /\ c \in Seq(DebugLog)
  <2>1. n \in Nat /\ taken \in 0 .. n /\ w \in Seq(DebugLog)
    BY <1>1 DEF ListsTypeOK
  <2>2. length \in Nat /\ Len(c) = length /\ c \in Seq(Values)
    BY <1>1, QueueLength
  <2>3. length <= n - taken
    BY <1>1, <2>1, LimitQueueAssumption DEF WorkerHolds
  <2>4. c \in Seq(DebugLog)
    <3>1. \A i \in 1 .. Len(c) : c[i] \in DebugLog
      BY <1>1, <2>2 DEF WorkerHolds
    <3> HIDE DEF c
    <3> QED BY <2>2, <3>1, ElementOfSeq, SeqDef
  <2> QED BY <2>1, <2>2, <2>3, <2>4
<1>10. \A i \in DOMAIN w : w[i].id \in Nat
  <2>1. \A i \in DOMAIN w : w[i] \in DebugLog
    <3> HIDE DEF w
    <3> QED BY <1>4
  <2> QED BY <2>1 DEF DebugLog
<1>11. \A i \in DOMAIN w : w[i].by = TheWorker /\ w[i].id <= taken
  BY <1>1 DEF WorkerWrote
<1>5. /\ Len(w \o c) = Len(w) + Len(c) /\ w \o c \in Seq(DebugLog)
      /\ \A i \in 1 .. Len(w) : (w \o c)[i] = w[i]
      /\ \A i \in Len(w) + 1 .. Len(w) + Len(c) : (w \o c)[i] = c[i - Len(w)]
  BY <1>4
<1>6. ListsTypeOK'
  <2>1. taken' \in 0 .. count'[TheWorker]
    BY <1>2, <1>4
  <2>2. written' \in [Owners -> Seq(DebugLog)]
    BY <1>1, <1>2, <1>5 DEF ListsTypeOK
  <2> QED BY <1>1, <1>2, <2>1, <2>2 DEF ListsTypeOK
<1>7. WorkerHolds'
  <2>1. 0 = (IF maxSize <= n - n THEN maxSize ELSE n - n) /\ Len(<<>>) = n - (n - 0)
    BY <1>4, LimitQueueAssumption
  <2> QED BY <1>2, <1>3, <2>1 DEF WorkerHolds, IsRun
<1>8. RequestsHold'
  <2>1. \A r \in Requests : written'[r] = written[r]
    BY <1>1, <1>2 DEF ListsTypeOK, Owners
  <2> QED BY <1>2, <2>1 DEF LoggersInv, RequestsHold
<1>9. WorkerWrote'
  <2>1. CASE written' = written
    <3>1. \A i \in DOMAIN w : w[i].by = TheWorker /\ w[i].id <= n
      <4> HIDE DEF w, n
      <4> QED BY <1>4, <1>10, <1>11
    <3> QED BY <1>1, <1>2, <2>1, <3>1 DEF WorkerWrote
  <2>2. CASE written' = [written EXCEPT ![TheWorker] = w \o c]
    <3>1. written'[TheWorker] = w \o c
      BY <1>1, <2>2 DEF ListsTypeOK
    <3>2. /\ \A i \in 1 .. Len(w) : w[i].by = TheWorker /\ w[i].id <= taken /\ w[i].id \in Nat
          /\ \A i, j \in 1 .. Len(w) : i < j => w[i].id < w[j].id
      <4>1. \A i, j \in DOMAIN w : i < j => w[i].id < w[j].id
        BY <1>1 DEF WorkerWrote
      <4>2. DOMAIN w = 1 .. Len(w)
        BY <1>4
      <4> HIDE DEF w
      <4> QED BY <1>10, <1>11, <4>1, <4>2
    <3>3. \A i \in 1 .. Len(c) : c[i].by = TheWorker /\ c[i].id = (n - length) + i
      BY <1>1, <1>4 DEF WorkerHolds, IsRun
    <3> DEFINE all == w \o c
    <3>4. ASSUME NEW i \in 1 .. Len(all)
          PROVE  \/ i \in 1 .. Len(w) /\ all[i] = w[i]
                 \/ /\ i - Len(w) \in 1 .. Len(c) /\ all[i] = c[i - Len(w)] /\ ~ (i <= Len(w))
                    /\ all[i].id = (n - length) + (i - Len(w)) /\ all[i].by = TheWorker
      <4>1. CASE i <= Len(w)
        BY <1>4, <1>5, <4>1
      <4>2. CASE ~ (i <= Len(w))
        <5>1. i - Len(w) \in 1 .. Len(c) /\ i \in Len(w) + 1 .. Len(w) + Len(c)
          BY <1>4, <1>5, <4>2
        <5>2. all[i] = c[i - Len(w)]
          BY <1>5, <5>1
        <5> HIDE DEF all
        <5> QED BY <3>3, <4>2, <5>1, <5>2
      <4> QED BY <4>1, <4>2
    <3>5. Len(w) \in Nat /\ Len(c) \in Nat /\ Len(all) \in Nat
      BY <1>4, <1>5
    <3> HIDE DEF all, w, n, c
    <3>6. \A i \in 1 .. Len(all) : all[i].by = TheWorker /\ all[i].id <= n
      BY <1>4, <3>2, <3>4, <3>5
    <3>7. ASSUME NEW i \in 1 .. Len(all), NEW j \in 1 .. Len(all), i < j
          PROVE  all[i].id < all[j].id
      <4>1. CASE i <= Len(w) /\ j <= Len(w)
        BY <3>2, <3>4, <3>5, <3>7, <4>1
      <4>2. CASE i <= Len(w) /\ ~ (j <= Len(w))
        BY <1>4, <3>2, <3>4, <3>5, <3>7, <4>2, SMTT(30)
      <4>3. CASE ~ (i <= Len(w)) /\ ~ (j <= Len(w))
        BY <1>4, <3>4, <3>5, <3>7, <4>3
      <4> QED BY <3>5, <3>7, <4>1, <4>2, <4>3
    <3>8. DOMAIN all = 1 .. Len(all)
      BY <1>5 DEF all
    <3> QED BY <1>2, <3>1, <3>6, <3>7, <3>8 DEF WorkerWrote, all, n, w, c
  <2> QED BY <1>2, <2>1, <2>2
<1> QED BY <1>3, <1>6, <1>7, <1>8, <1>9 DEF LoggersInv

\* The queue and what concerns the worker stay as they are.
LEMMA WorkerUntouched ==
  ASSUME LoggersInv, UNCHANGED queue, taken' = taken,
         count'[TheWorker] = count[TheWorker], written'[TheWorker] = written[TheWorker]
  PROVE  QueueInv' /\ WorkerHolds' /\ WorkerWrote'
<1>1. /\ array' = array /\ length' = length /\ front' = front /\ result' = result
      /\ capacity' = capacity /\ Contents' = Contents
  BY DEF queue, capacity, Contents
<1> QED BY <1>1 DEF LoggersInv, QueueInv, CapacityIsBounded, WorkerHolds, WorkerWrote

LEMMA requestDebugKeeps ==
  ASSUME LoggersInv, NEW r \in Requests, NEW valid \in BOOLEAN, requestDebug(r, valid)
  PROVE  LoggersInv'
<1> DEFINE v == Logged(r, valid)
<1>1. /\ debugLogs' = [debugLogs EXCEPT ![r] = Append(@, v)]
      /\ count' = [count EXCEPT ![r] = @ + 1]
      /\ UNCHANGED <<queue, closed, taken, written>>
  BY DEF requestDebug
<1>2. r \in Owners /\ TheWorker \in Owners /\ TheWorker # r /\ ListsTypeOK /\ RequestsHold
  BY RequestAssumption DEF Owners, LoggersInv
<1>3. v \in DebugLog /\ v.by = r /\ v.id = count[r] + 1 /\ count[r] \in Nat
  BY <1>2, LoggedFacts
<1>4. /\ count'[TheWorker] = count[TheWorker] /\ count'[r] = count[r] + 1
      /\ \A q \in Requests : q # r => count'[q] = count[q]
      /\ debugLogs'[r] = Append(debugLogs[r], v)
      /\ \A q \in Requests : q # r => debugLogs'[q] = debugLogs[q]
  BY <1>1, <1>2 DEF ListsTypeOK, Owners
<1>5. ListsTypeOK'
  <2>1. Append(debugLogs[r], v) \in Seq(DebugLog)
    BY <1>2, <1>3, AppendProperties DEF ListsTypeOK
  <2>2. debugLogs' \in [Requests -> Seq(DebugLog)] /\ count' \in [Owners -> Nat]
    BY <1>1, <1>2, <1>3, <2>1 DEF ListsTypeOK
  <2> QED BY <1>1, <1>2, <1>4, <2>2 DEF ListsTypeOK
<1>6. QueueInv' /\ WorkerHolds' /\ WorkerWrote'
  BY <1>1, <1>4, WorkerUntouched
<1>7. RequestsHold'
  <2>1. ASSUME NEW q \in Requests PROVE IsRun(written'[q] \o debugLogs'[q], q, 0, count'[q])
    <3>1. CASE q # r
      BY <1>1, <1>2, <1>4, <3>1 DEF RequestsHold
    <3>2. CASE q = r
      <4> DEFINE old == written[r] \o debugLogs[r]
                 new == written[r] \o Append(debugLogs[r], v)
      <4>1. written[r] \in Seq(DebugLog) /\ debugLogs[r] \in Seq(DebugLog)
        BY <1>2 DEF ListsTypeOK
      <4>2. /\ new = Append(old, v) /\ old \in Seq(DebugLog)
        BY <1>3, <4>1, ConcatAppend
      <4>7. IsRun(old, r, 0, count[r])
        BY <1>2 DEF RequestsHold
      <4> HIDE DEF old, v
      <4>8. /\ Len(old) \in Nat /\ Len(new) = Len(old) + 1 /\ new[Len(old) + 1] = v
            /\ \A i \in 1 .. Len(old) : new[i] = old[i]
            /\ DOMAIN new = 1 .. Len(new) /\ DOMAIN old = 1 .. Len(old)
        <5> HIDE DEF new
        <5> QED BY <1>3, <4>2
      <4>3. Len(old) = count[r] /\ \A i \in 1 .. Len(old) : old[i].by = r /\ old[i].id = 0 + i
        BY <1>3, <4>7, <4>8 DEF IsRun
      <4> HIDE DEF new
      <4>4. ASSUME NEW i \in 1 .. Len(new) PROVE new[i].by = r /\ new[i].id = 0 + i
        <5>1. i \in 1 .. Len(old) \/ i = Len(old) + 1
          BY <4>8
        <5> QED BY <1>3, <4>8, <4>3, <5>1
      <4>5. Len(new) = (count[r] + 1) - 0
        BY <1>3, <4>8, <4>3
      <4>6. IsRun(new, r, 0, count[r] + 1)
        BY <4>8, <4>4, <4>5 DEF IsRun
      <4> QED BY <1>1, <1>4, <3>2, <4>6 DEF new
    <3> QED BY <3>1, <3>2
  <2> QED BY <2>1 DEF RequestsHold
<1> QED BY <1>5, <1>6, <1>7 DEF LoggersInv

LEMMA RESPONSEKeeps ==
  ASSUME LoggersInv, NEW r \in Requests, NEW error \in BOOLEAN, RESPONSE(r, error)
  PROVE  LoggersInv'
<1>1. /\ written' = [written EXCEPT ![r] = @ \o debugLogs[r]]
      /\ debugLogs' = [debugLogs EXCEPT ![r] = <<>>]
      /\ UNCHANGED <<queue, closed, count, taken>>
  BY DEF RESPONSE
<1>2. r \in Owners /\ TheWorker \in Owners /\ TheWorker # r /\ ListsTypeOK /\ RequestsHold
      /\ Requests \subseteq Owners
  BY RequestAssumption DEF Owners, LoggersInv
<1>3. /\ written'[TheWorker] = written[TheWorker]
      /\ written'[r] = written[r] \o debugLogs[r] /\ debugLogs'[r] = <<>>
      /\ \A q \in Requests : q # r => written'[q] = written[q] /\ debugLogs'[q] = debugLogs[q]
  BY <1>1, <1>2 DEF ListsTypeOK
<1>4. written[r] \in Seq(DebugLog) /\ debugLogs[r] \in Seq(DebugLog)
      /\ written[r] \o debugLogs[r] \in Seq(DebugLog) /\ <<>> \in Seq(DebugLog)
  BY <1>2 DEF ListsTypeOK
<1>5. ListsTypeOK'
  BY <1>1, <1>2, <1>4 DEF ListsTypeOK
<1>6. QueueInv' /\ WorkerHolds' /\ WorkerWrote'
  BY <1>1, <1>3, WorkerUntouched
<1>7. \A q \in Requests : written'[q] \o debugLogs'[q] = written[q] \o debugLogs[q]
  <2>1. (written[r] \o debugLogs[r]) \o <<>> = written[r] \o debugLogs[r]
    BY <1>4, ConcatEmptySeq
  <2> QED BY <1>3, <2>1
<1>8. RequestsHold'
  BY <1>1, <1>2, <1>7 DEF RequestsHold
<1> QED BY <1>5, <1>6, <1>8 DEF LoggersInv

LEMMA closeKeeps == ASSUME LoggersInv, close \/ UNCHANGED allVars PROVE LoggersInv'
<1>1. UNCHANGED <<queue, debugLogs, count, taken, written>> /\ closed' \in BOOLEAN
  BY DEF close, allVars, LoggersInv, ListsTypeOK
<1>2. QueueInv' /\ WorkerHolds' /\ WorkerWrote'
  BY <1>1, WorkerUntouched
<1>3. ListsTypeOK' /\ RequestsHold'
  BY <1>1 DEF LoggersInv, ListsTypeOK, RequestsHold
<1> QED BY <1>2, <1>3 DEF LoggersInv

LEMMA LoggersNextInv == LoggersInv /\ [LoggersNext]_allVars => LoggersInv'
BY debugKeeps, UNCAUGHT_EXCEPTIONKeeps, requestDebugKeeps, RESPONSEKeeps, closeKeeps
   DEF LoggersNext

-----------------------------------------------------------------------------
\* The invariants the run request_logger checks, for every queue limit and any
\* number of requests: no DEBUG log turns up twice, out of order or with
\* another owner (request-logger.js:61-101, 139-146; worker-logger.js:81-119),
\* and the queue's array keeps its type and its bound (limit-queue.js:21-44).
THEOREM DebugLogsAreSafe ==
  LoggersSpec => [](LoggersTypeOK /\ CapacityIsBounded /\ DebugLogsHaveOneHome)
<1>1. LoggersInit => LoggersInv
  BY LoggersInitInv
<1>2. LoggersInv /\ [LoggersNext]_allVars => LoggersInv'
  BY LoggersNextInv
<1>3. LoggersInv => LoggersTypeOK /\ CapacityIsBounded /\ DebugLogsHaveOneHome
  BY LoggersInvImplies
<1> QED BY <1>1, <1>2, <1>3, PTL DEF LoggersSpec

\* The queue of the process and the lists of its requests have their types.
THEOREM RequestLoggerTypes == LoggersSpec => []LoggersTypeOK
BY DebugLogsAreSafe, PTL

\* The array grows no further than its limit demands (limit-queue.js:21-44).
THEOREM CapacityStaysBounded == LoggersSpec => []CapacityIsBounded
BY DebugLogsAreSafe, PTL

\* Every DEBUG log stays with its owner, once and in order, whatever cannot be
\* serialised (request-logger.js:61-101, worker-logger.js:81-94).
THEOREM DebugLogsKeepTheirHome == LoggersSpec => []DebugLogsHaveOneHome
BY DebugLogsAreSafe, PTL

\* The queue of a process's DEBUG logs implements the BoundedFifo: pushing,
\* doubling, wrapping around and draining the array never lose, repeat or
\* reorder an element (limit-queue.js:21-64).
THEOREM DebugLogsAreFifo == LoggersSpec => FifoSpec
<1>1. LoggersInit => LoggersInv /\ Fifo!FifoInit
  BY LoggersInitInv, QueueInit DEF LoggersInit
<1>2. LoggersInv /\ [LoggersNext]_allVars => LoggersInv'
  BY LoggersNextInv
<1>3. LoggersInv /\ [LoggersNext]_allVars => [Fifo!FifoNext]_<<Contents, result>>
  <2> SUFFICES ASSUME LoggersInv, [LoggersNext]_allVars
               PROVE  Fifo!FifoNext \/ (Contents' = Contents /\ result' = result)
    OBVIOUS
  <2>1. ASSUME UNCHANGED queue PROVE Contents' = Contents /\ result' = result
    BY <2>1 DEF queue, Contents, capacity
  <2>2. ASSUME NEW valid \in BOOLEAN, debug(valid) PROVE Fifo!FifoNext
    <3>1. push(Logged(TheWorker, valid)) /\ Logged(TheWorker, valid) \in Values
      <4>1. count[TheWorker] \in Nat /\ count[TheWorker] < MaxDebug[TheWorker]
            /\ MaxDebug[TheWorker] \in Nat
        BY <2>2, RequestAssumption DEF debug, LoggersInv, ListsTypeOK, Owners
      <4>2. Logged(TheWorker, valid)
              \in [by : {TheWorker}, id : 1 .. MaxDebug[TheWorker], valid : BOOLEAN]
        BY <4>1 DEF Logged
      <4> QED BY <2>2, <4>2, RequestAssumption DEF debug
    <3> QED BY <3>1, PushStep DEF LoggersInv, Fifo!FifoNext
  <2>3. ASSUME NEW error \in BOOLEAN, UNCAUGHT_EXCEPTION(error) PROVE Fifo!FifoNext
    BY <2>3, DrainStep DEF LoggersInv, UNCAUGHT_EXCEPTION, Fifo!FifoNext
  <2>4. ASSUME NEW r \in Requests, NEW ok \in BOOLEAN, requestDebug(r, ok) \/ RESPONSE(r, ok)
        PROVE  UNCHANGED queue
    BY <2>4 DEF requestDebug, RESPONSE
  <2>5. ASSUME close \/ UNCHANGED allVars PROVE UNCHANGED queue
    BY <2>5 DEF close, allVars
  <2> QED BY <2>1, <2>2, <2>3, <2>4, <2>5 DEF LoggersNext
<1> QED BY <1>1, <1>2, <1>3, PTL DEF LoggersSpec, FifoSpec, Fifo!FifoSpec

\* So does the queue by itself, with shift() and whatever is pushed.
THEOREM LimitQueueIsFifo == Spec => FifoSpec /\ [](TypeOK /\ CapacityIsBounded)
<1>1. Init => QueueInv /\ Fifo!FifoInit
  BY QueueInit
<1>2. QueueInv /\ [Next]_vars => QueueInv' /\ [Fifo!FifoNext]_<<Contents, result>>
  <2> SUFFICES ASSUME QueueInv, [Next]_vars
               PROVE  /\ QueueInv'
                      /\ Fifo!FifoNext \/ (Contents' = Contents /\ result' = result)
    OBVIOUS
  <2>1. ASSUME UNCHANGED vars
        PROVE  QueueInv' /\ Contents' = Contents /\ result' = result
    <3>1. /\ array' = array /\ length' = length /\ front' = front /\ result' = result
          /\ capacity' = capacity /\ Contents' = Contents
      BY <2>1 DEF vars, capacity, Contents
    <3> QED BY <3>1 DEF QueueInv, CapacityIsBounded
  <2> QED BY <2>1, PushStep, ShiftStep, DrainStep DEF Next, Fifo!FifoNext
<1>3. QueueInv => TypeOK /\ CapacityIsBounded
  BY HoldsTypeOK DEF QueueInv
<1> QED BY <1>1, <1>2, <1>3, PTL DEF Spec, FifoSpec, Fifo!FifoSpec
=============================================================================
