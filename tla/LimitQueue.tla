------------------------------ MODULE LimitQueue ------------------------------
(***************************************************************************)
(* LimitQueue (src/nodejs/limit-queue.js), the circular buffer that keeps  *)
(* the last DEBUG logs of a process until its next uncaught exception.     *)
(* Slots are numbered from 0 as in the code.  The initial capacity, 16 in  *)
(* the code, is a parameter, so that small instances double it.            *)
(*                                                                         *)
(* shift() on an empty queue returns undefined: here <<>>.                 *)
(***************************************************************************)
EXTENDS Naturals, Sequences, FiniteSets

CONSTANTS Values, maxSize,
          InitialCapacity,  \* 16 in the code, "must be a power of 2"
          Hole              \* undefined

ASSUME LimitQueueAssumption ==
  /\ maxSize \in Nat
  /\ InitialCapacity \in Nat \ {0}
  /\ Hole \notin Values

VARIABLES array, length, front, result

vars == <<array, length, front, result>>

capacity == Cardinality(DOMAIN array)

Init == /\ array = [i \in 0 .. InitialCapacity - 1 |-> Hole]
        /\ length = 0
        /\ front = 0
        /\ result = <<>>

-----------------------------------------------------------------------------
\* i & (capacity - 1), for a capacity that is a power of 2
Wrap(i, size) == i % size

\* Fault: doubling the array without moving the part that had wrapped.
GrownInPlace(a, by, len) ==
  [i \in 0 .. 2 * by - 1 |-> IF i < by THEN a[i] ELSE Hole]

\* arr.length *= 2, then arrayMove(arr, by, len): the first len slots, which
\* hold the newest elements, move behind the old end.
Grown(a, by, len) ==
  [i \in 0 .. 2 * by - 1 |->
     IF i < len THEN Hole
     ELSE IF i < by THEN a[i]
     ELSE IF i - by < len THEN a[i - by]
     ELSE Hole]

\* Fault: one slot kept free.
FullButOne == length + 1 >= capacity

Full == length = capacity

\* The array that push() writes to.
Room == IF Full THEN Grown(array, capacity, front) ELSE array

\* Fault: the slot is not cleared.
ShiftFromKeeping(arr, len) ==
  /\ array' = arr
  /\ front' = Wrap(front + 1, Cardinality(DOMAIN arr))
  /\ length' = len - 1

\* shift() on an array with len elements, at least one.
ShiftFrom(arr, len) ==
  /\ array' = [arr EXCEPT ![front] = Hole]
  /\ front' = Wrap(front + 1, Cardinality(DOMAIN arr))
  /\ length' = len - 1

\* push() beyond maxSize calls shift().
push(value) ==
  LET back == Wrap(front + length, Cardinality(DOMAIN Room))
      filled == [Room EXCEPT ![back] = value]
  IN /\ IF length + 1 > maxSize
          THEN ShiftFrom(filled, length + 1)
          ELSE array' = filled /\ length' = length + 1 /\ UNCHANGED front
     /\ result' = <<>>

shift ==
  IF length = 0
    THEN result' = <<>> /\ UNCHANGED <<array, length, front>>
    ELSE ShiftFrom(array, length) /\ result' = <<array[front]>>

\* The elements in order.
Contents == [i \in 1 .. length |-> array[Wrap(front + i - 1, capacity)]]

\* drain(): shift() until it is empty.
drain ==
  /\ result' = Contents
  /\ array' = [i \in DOMAIN array |-> Hole]
  /\ front' = Wrap(front + length, capacity)
  /\ length' = 0

Next == (\E value \in Values : push(value)) \/ shift \/ drain

Spec == Init /\ [][Next]_vars

-----------------------------------------------------------------------------
\* Every variable keeps to its domain, and slots that are not in use hold
\* nothing, so that no log is kept from being collected (limit-queue.js:33-44).
TypeOK ==
  /\ array \in [0 .. capacity - 1 -> Values \cup {Hole}]
  /\ length \in 0 .. capacity
  /\ front \in 0 .. capacity - 1
  /\ \A i \in DOMAIN array :
       array[i] # Hole <=> \E j \in 0 .. length - 1 : i = Wrap(front + j, capacity)

\* The array, which is never shrunk, stays within twice the limit: it doubles
\* only when it is full (limit-queue.js:21-31).
CapacityIsBounded == capacity <= InitialCapacity \/ capacity <= 2 * maxSize

\* The buffer is a BoundedFifo through every doubling and wrap-around
\* (limit-queue.js:21-64).
Fifo == INSTANCE BoundedFifo WITH content <- Contents
FifoSpec == Fifo!FifoSpec
=============================================================================
