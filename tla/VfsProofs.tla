------------------------------ MODULE VfsProofs ------------------------------
(***************************************************************************)
(* For any set of callers, any sizes and any source: the lock of a Vfs     *)
(* keeps its calls apart and in their order, its cache holds pages of the  *)
(* source in a list in the order of their use, and its reads return the    *)
(* source.                                                                 *)
(***************************************************************************)
EXTENDS Vfs, FoldLemmas, SequenceTheorems, TLAPS

Ops == {"idle", "setup", "teardown", "size", "read"}

\* What is stored for a call says which one it is.
CallsAreKnown == /\ call = [c \in Callers |-> call[c]]
                 /\ \A c \in Callers : /\ call[c].op \in Ops
                                       /\ call[c] = Idle <=> call[c].op = "idle"

LockInv == /\ busy \in BOOLEAN
           /\ closed \in BOOLEAN
           /\ CallsAreKnown
           /\ CallsAreExclusive

\* A call that comes while the Vfs is not busy, and is legal for a Vfs that is
\* open or closed, takes the lock (the first lines of each method).
LEMMA TakingTheLock ==
  ASSUME LockInv, NEW c \in Callers, NEW request,
         ~busy, busy' = TRUE, closed' = closed,
         request.op \in Ops \ {"idle"}, request # Idle,
         closed <=> request.op = "setup",
         call' = [call EXCEPT ![c] = request]
  PROVE  LockInv'
<1>1. \A d \in Callers : call'[d] = IF d = c THEN request ELSE call[d]
  BY DEF LockInv, CallsAreKnown
<1>2. CallsAreKnown'
  BY <1>1 DEF LockInv, CallsAreKnown
<1>3. Pending = {}
  BY DEF LockInv, CallsAreExclusive
<1>4. Pending' = {c}
  BY <1>1, <1>3 DEF Pending
<1> QED
  BY <1>1, <1>2, <1>4 DEF LockInv, CallsAreExclusive

\* The finally of each method: the call that was with the source is the only
\* one there is.
LEMMA ReleasingTheLock ==
  ASSUME LockInv, NEW c \in Pending, End(c), closed' \in BOOLEAN
  PROVE  LockInv'
<1>1. \A d \in Callers : call'[d] = IF d = c THEN Idle ELSE call[d]
  BY DEF LockInv, CallsAreKnown, End, Pending
<1>2. CallsAreKnown'
  BY <1>1 DEF LockInv, CallsAreKnown, End, Idle, Ops
<1>3. Pending = {c}
  BY DEF LockInv, CallsAreExclusive
<1>4. Pending' = {}
  BY <1>1, <1>3 DEF Pending
<1> QED
  BY <1>2, <1>4 DEF LockInv, CallsAreExclusive, End

\* The lock holds at first.
LEMMA LockInit == Init => LockInv
<1> SUFFICES ASSUME Init
             PROVE  LockInv
  OBVIOUS
<1> DEFINE none == Idle
<1>1. call = [c \in Callers |-> none]
  BY DEF Init
<1>2. none.op = "idle" /\ none = Idle
  BY DEF Idle
<1> HIDE DEF none
<1>3. \A c \in Callers : call[c] = none
  BY <1>1
<1>4. call = [c \in Callers |-> call[c]]
  BY <1>1, <1>3, Zenon
<1>5. CallsAreKnown
  BY <1>2, <1>3, <1>4 DEF CallsAreKnown, Ops
<1>6. Pending = {}
  BY <1>2, <1>3 DEF Pending
<1> QED
  BY <1>5, <1>6 DEF LockInv, CallsAreExclusive, Init

\* No step breaks the lock.
LEMMA LockStep == LockInv /\ [Next]_vars => LockInv'
<1> SUFFICES ASSUME LockInv, [Next]_vars
             PROVE  LockInv'
  OBVIOUS
<1>1. ASSUME UNCHANGED <<busy, closed, call>>
      PROVE  LockInv'
  BY <1>1 DEF LockInv, CallsAreKnown, CallsAreExclusive, Pending
<1>2. ASSUME NEW c \in Callers, NEW op \in Ops \ {"idle"}, Begin(c, op),
             closed <=> op = "setup"
      PROVE  LockInv'
  <2> DEFINE request == [op |-> op]
  <2>1. request.op = op /\ request # Idle
    BY DEF Idle
  <2>2. /\ ~busy /\ busy' = TRUE /\ closed' = closed
        /\ call' = [call EXCEPT ![c] = request]
    BY <1>2 DEF Begin
  <2> HIDE DEF request
  <2> QED BY <1>2, <2>1, <2>2, TakingTheLock
<1>3. ASSUME NEW c \in Callers, NEW op \in Ops \ {"idle"}, InFlight(c, op),
             End(c), closed' \in BOOLEAN
      PROVE  LockInv'
  <2>1. c \in Pending
    BY <1>3 DEF InFlight, Pending, LockInv, CallsAreKnown
  <2> QED BY <1>3, <2>1, ReleasingTheLock
<1>4. CASE SourceGrows
  BY <1>1, <1>4 DEF SourceGrows
<1>5. ASSUME NEW c \in Callers, setup(c) PROVE LockInv'
  BY <1>2, <1>5 DEF setup, Ops
<1>6. ASSUME NEW c \in Callers, teardown(c) PROVE LockInv'
  BY <1>2, <1>6 DEF teardown, Ops
<1>7. ASSUME NEW c \in Callers, size(c) PROVE LockInv'
  BY <1>2, <1>7 DEF size, Ops
<1>8. ASSUME NEW c \in Callers, NEW offset, NEW length, read(c, offset, length)
      PROVE  LockInv'
  <2>1. CASE UNCHANGED <<busy, closed, call>>
    BY <1>1, <2>1
  <2>2. CASE ~UNCHANGED <<busy, closed, call>>
    <3>1. /\ ~busy /\ ~closed /\ closed' = closed /\ busy' = TRUE
          /\ \E front, back, readOffset, readLength :
               call' = [call EXCEPT ![c] =
                         [op |-> "read", offset |-> offset, length |-> length,
                          front |-> front, back |-> back,
                          readOffset |-> readOffset, readLength |-> readLength,
                          since |-> source]]
      BY <1>8, <2>2 DEF read
    <3>2. PICK front, back, readOffset, readLength :
            call' = [call EXCEPT ![c] =
                      [op |-> "read", offset |-> offset, length |-> length,
                       front |-> front, back |-> back,
                       readOffset |-> readOffset, readLength |-> readLength,
                       since |-> source]]
      BY <3>1
    <3> DEFINE request == [op |-> "read", offset |-> offset, length |-> length,
                           front |-> front, back |-> back,
                           readOffset |-> readOffset, readLength |-> readLength,
                           since |-> source]
    <3>3. request.op = "read" /\ request # Idle
      BY DEF Idle
    <3>4. call' = [call EXCEPT ![c] = request]
      BY <3>2
    <3> HIDE DEF request
    <3>5. request.op \in Ops \ {"idle"} /\ (closed <=> request.op = "setup")
      BY <3>1, <3>3 DEF Ops
    <3> QED BY <3>1, <3>3, <3>4, <3>5, TakingTheLock
  <2> QED BY <2>1, <2>2
<1>9. ASSUME NEW c \in Callers, NEW offset, NEW length, SourceSaves(c, offset, length)
      PROVE  LockInv'
  BY <1>1, <1>9 DEF SourceSaves
<1>10. ASSUME NEW c \in Callers, SetupDone(c) PROVE LockInv'
  BY <1>3, <1>10 DEF SetupDone, Ops
<1>11. ASSUME NEW c \in Callers, TeardownDone(c) PROVE LockInv'
  BY <1>3, <1>11 DEF TeardownDone, Ops
<1>12. ASSUME NEW c \in Callers, SizeDone(c) PROVE LockInv'
  BY <1>3, <1>12 DEF SizeDone, Ops, LockInv
<1>13. ASSUME NEW c \in Callers, ReadDone(c) PROVE LockInv'
  BY <1>3, <1>13 DEF ReadDone, Ops, LockInv
<1>14. ASSUME NEW c \in Callers, SourceThrows(c) PROVE LockInv'
  <2>1. c \in Pending /\ End(c) /\ closed' \in BOOLEAN
    BY <1>14 DEF SourceThrows, Pending, LockInv
  <2> QED BY <2>1, ReleasingTheLock
<1>15. CASE UNCHANGED vars
  BY <1>1, <1>15 DEF vars
<1> QED
  BY <1>4, <1>5, <1>6, <1>7, <1>8, <1>9, <1>10, <1>11, <1>12, <1>13, <1>14, <1>15
  DEF Next

\* At most one call is with the source, the Vfs is busy exactly then, and only
\* setup() reaches a source that is not set up, for any number of callers and
\* whenever the source throws (vfs.js:85-209).
THEOREM CallsStayExclusive == Spec => []CallsAreExclusive
<1>1. LockInv => CallsAreExclusive
  BY DEF LockInv
<1> QED
  BY <1>1, LockInit, LockStep, PTL DEF Spec

-----------------------------------------------------------------------------
(* Arithmetic of pages.                                                    *)

\* A page further is a page of bytes further.
LEMMA PageGrows ==
  ASSUME NEW p \in Nat \ {0}, NEW n \in Int
  PROVE  /\ n * p \in Int
         /\ (n + 1) * p = n * p + p
         /\ n >= 0 => n * p >= 0
OBVIOUS

\* The bytes of more pages, and of fewer.
LEMMA PagesAdd ==
  ASSUME NEW p \in Nat \ {0}, NEW m \in Int, NEW n \in Int
  PROVE  /\ (m + n) * p = m * p + n * p
         /\ (m - n) * p = m * p - n * p
OBVIOUS

\* Pages are in the order of their bytes.
LEMMA PagesInOrder ==
  ASSUME NEW p \in Nat \ {0}, NEW m \in Int, NEW n \in Int
  PROVE  /\ m <= n <=> m * p <= n * p
         /\ m < n <=> m * p < n * p
OBVIOUS

\* Where the page of a byte begins, and where the byte lies in it.
LEMMA PageOf ==
  ASSUME NEW p \in Nat \ {0}, NEW x \in Nat
  PROVE  /\ x \div p \in Nat
         /\ (x \div p) * p <= x
         /\ x < (x \div p) * p + p
         /\ x % p = x - (x \div p) * p
         /\ x % p \in Nat
OBVIOUS

-----------------------------------------------------------------------------
(* The linked list of UniqueQueue.                                         *)

Nodes(s) == {s[i] : i \in 1 .. Len(s)}

Distinct(s) == \A i, j \in 1 .. Len(s) : s[i] = s[j] => i = j

NextOf(s, i) == IF i = Len(s) THEN Null ELSE s[i + 1]
PrevOf(s, i) == IF i = 1 THEN Null ELSE s[i - 1]

FirstOf(s) == IF Len(s) = 0 THEN Null ELSE s[1]
LastOf(s) == IF Len(s) = 0 THEN Null ELSE s[Len(s)]

Linked(q, s) == \A i \in 1 .. Len(s) : /\ q.next[s[i]] = NextOf(s, i)
                                       /\ q.prev[s[i]] = PrevOf(s, i)

\* The list q holds s, whose elements are distinct.
Listed(q, s) == /\ s \in Seq(Nat)
                /\ Distinct(s)
                /\ DOMAIN q.next = Nodes(s) /\ DOMAIN q.prev = Nodes(s)
                /\ q.first = FirstOf(s) /\ q.last = LastOf(s)
                /\ Linked(q, s)

\* What a list that holds s says of it.
LEMMA ListedFacts ==
  ASSUME NEW q, NEW s, Listed(q, s)
  PROVE  /\ s \in Seq(Nat) /\ Len(s) \in Nat /\ DOMAIN s = 1 .. Len(s)
         /\ \A i \in 1 .. Len(s) : s[i] \in Nat /\ s[i] # Null /\ s[i] \in Nodes(s)
         /\ \A i, j \in 1 .. Len(s) : s[i] = s[j] => i = j
         /\ \A n \in Nodes(s) : n \in Nat /\ n # Null /\ \E i \in 1 .. Len(s) : n = s[i]
<1>1. s \in Seq(Nat) /\ Len(s) \in Nat /\ DOMAIN s = 1 .. Len(s)
  BY LenProperties DEF Listed
<1>2. \A i \in 1 .. Len(s) : s[i] \in Nat
  BY <1>1
<1> QED BY <1>1, <1>2 DEF Listed, Distinct, Nodes, Null

\* push() of a new value.
LEMMA PushListed ==
  ASSUME NEW q, NEW s, Listed(q, s), NEW n \in Nat, n \notin Nodes(s)
  PROVE  Listed(Push(q, n), Append(s, n)) /\ Nodes(Append(s, n)) = Nodes(s) \cup {n}
<1> DEFINE L == Len(s)
           t == Append(s, n)
           p == Push(q, n)
<1>1. /\ s \in Seq(Nat) /\ L \in Nat /\ DOMAIN s = 1 .. L
      /\ \A i \in 1 .. L : s[i] \in Nat /\ s[i] # Null /\ s[i] \in Nodes(s)
      /\ \A i, j \in 1 .. L : s[i] = s[j] => i = j
      /\ n # Null
  BY ListedFacts DEF Null
<1>2. /\ t \in Seq(Nat) /\ Len(t) = L + 1 /\ t[L + 1] = n
      /\ \A i \in 1 .. L : t[i] = s[i]
  BY <1>1, AppendProperties
<1>3. \A i \in 1 .. L + 1 : i \in 1 .. L \/ i = L + 1
  BY <1>1
<1> HIDE DEF t
<1>4. Nodes(t) = Nodes(s) \cup {n}
  <2>1. \A i \in 1 .. L : i \in 1 .. L + 1
    BY <1>1
  <2>2. L + 1 \in 1 .. L + 1
    BY <1>1
  <2> QED BY <1>2, <1>3, <2>1, <2>2 DEF Nodes
<1>5. Distinct(t)
  <2>1. \A i \in 1 .. L : t[i] # n
    BY <1>1, <1>2
  <2> QED BY <1>1, <1>2, <1>3, <2>1 DEF Distinct
<1>6. /\ DOMAIN q.next = Nodes(s) /\ DOMAIN q.prev = Nodes(s)
      /\ q.first = FirstOf(s) /\ q.last = LastOf(s)
      /\ \A i \in 1 .. L : q.next[s[i]] = NextOf(s, i) /\ q.prev[s[i]] = PrevOf(s, i)
  BY DEF Listed, Linked
<1>7. /\ p.next = [m \in Nodes(s) \cup {n} |->
                     IF m = n THEN Null ELSE IF m = q.last THEN n ELSE q.next[m]]
      /\ p.prev = [m \in Nodes(s) \cup {n} |-> IF m = n THEN q.last ELSE q.prev[m]]
      /\ p.first = IF q.last = Null THEN n ELSE q.first
      /\ p.last = n
  <2> DEFINE f == Link(q.next, q.last, n)
  <2>1. DOMAIN f = Nodes(s) /\ \A m \in Nodes(s) : f[m] = IF m = q.last THEN n ELSE q.next[m]
    BY <1>6 DEF Link
  <2> HIDE DEF f
  <2>2. WithNode(f, n, Null) = [m \in Nodes(s) \cup {n} |->
                     IF m = n THEN Null ELSE IF m = q.last THEN n ELSE q.next[m]]
    BY <1>1, <2>1 DEF WithNode
  <2>3. WithNode(q.prev, n, q.last) = [m \in Nodes(s) \cup {n} |-> IF m = n THEN q.last ELSE q.prev[m]]
    BY <1>6 DEF WithNode
  <2> QED BY <2>2, <2>3 DEF Push, f
<1> HIDE DEF p, L
<1>8. DOMAIN p.next = Nodes(t) /\ DOMAIN p.prev = Nodes(t)
  BY <1>4, <1>7
<1>9. p.first = FirstOf(t) /\ p.last = LastOf(t)
  <2>1. L = 0 => q.last = Null
    BY <1>6 DEF LastOf, L
  <2>2. L # 0 => q.last = s[L] /\ q.last # Null /\ q.first = s[1] /\ t[1] = s[1]
    BY <1>1, <1>2, <1>6 DEF LastOf, FirstOf, L
  <2> QED BY <1>1, <1>2, <1>7, <2>1, <2>2 DEF FirstOf, LastOf
<1>10. \A m \in Nodes(s) : m # n
  OBVIOUS
<1>11. ASSUME NEW i \in 1 .. L
       PROVE  p.next[t[i]] = NextOf(t, i) /\ p.prev[t[i]] = PrevOf(t, i)
  <2>1. /\ t[i] = s[i] /\ s[i] \in Nodes(s) /\ s[i] # n
        /\ q.next[s[i]] = NextOf(s, i) /\ q.prev[s[i]] = PrevOf(s, i)
        /\ q.last = s[L]
    BY <1>1, <1>2, <1>6, <1>10 DEF LastOf, L
  <2>2. p.next[t[i]] = IF s[i] = q.last THEN n ELSE q.next[s[i]]
    BY <1>7, <2>1
  <2>3. p.prev[t[i]] = PrevOf(t, i)
    <3>1. i # 1 => i - 1 \in 1 .. L
      BY <1>1
    <3> QED BY <1>2, <1>7, <2>1, <3>1 DEF PrevOf
  <2>4. CASE i = L
    BY <1>1, <1>2, <1>7, <2>1, <2>2, <2>3, <2>4 DEF NextOf
  <2>5. CASE i # L
    <3>1. s[i] # q.last /\ i + 1 \in 1 .. L /\ i # L + 1
      BY <1>1, <2>1, <2>5
    <3>2. q.next[s[i]] = s[i + 1] /\ t[i + 1] = s[i + 1]
      BY <1>2, <2>1, <2>5, <3>1 DEF NextOf, L
    <3> QED BY <1>2, <2>2, <2>3, <3>1, <3>2 DEF NextOf
  <2> QED BY <2>4, <2>5
<1>12. p.next[t[L + 1]] = NextOf(t, L + 1) /\ p.prev[t[L + 1]] = PrevOf(t, L + 1)
  <2>1. p.next[n] = Null /\ p.prev[n] = q.last
    BY <1>7
  <2>2. q.last = PrevOf(t, L + 1)
    <3>1. L = 0 => q.last = Null
      BY <1>6 DEF LastOf, L
    <3>2. L # 0 => q.last = s[L] /\ L \in 1 .. L /\ L + 1 # 1 /\ L + 1 - 1 = L
      BY <1>1, <1>6 DEF LastOf, L
    <3>3. L # 0 => t[L] = s[L]
      BY <1>2, <3>2
    <3> QED BY <3>1, <3>2, <3>3 DEF PrevOf
  <2> QED BY <1>2, <2>1, <2>2 DEF NextOf
<1>13. Linked(p, t)
  <2>1. \A i \in 1 .. Len(t) : i \in 1 .. L \/ i = L + 1
    BY <1>2, <1>3
  <2> QED BY <1>11, <1>12, <2>1 DEF Linked
<1> QED BY <1>2, <1>4, <1>5, <1>8, <1>9, <1>13 DEF Listed, p, t

\* One element taken out of a sequence.
LEMMA TakenOut ==
  ASSUME NEW s \in Seq(Nat), NEW k \in 1 .. Len(s)
  PROVE  LET t == RemoveAt(s, k) IN
         /\ t \in Seq(Nat) /\ Len(t) = Len(s) - 1
         /\ \A i \in 1 .. Len(s) - 1 : t[i] = IF i < k THEN s[i] ELSE s[i + 1]
<1> DEFINE L == Len(s)
           a == SubSeq(s, 1, k - 1)
           b == SubSeq(s, k + 1, L)
<1>1. L \in Nat /\ k \in Nat /\ 1 <= k /\ k <= L
  BY LenProperties
<1>2. /\ a \in Seq(Nat) /\ Len(a) = k - 1 /\ \A i \in 1 .. k - 1 : a[i] = s[i]
  <2>1. \A i \in 1 .. k - 1 : s[i] \in Nat
    BY <1>1, ElementOfSeq
  <2> QED BY <1>1, <2>1, SubSeqProperties
<1>3. /\ b \in Seq(Nat) /\ Len(b) = L - k /\ \A i \in 1 .. L - k : b[i] = s[k + i]
  <2>1. \A i \in k + 1 .. L : s[i] \in Nat
    BY <1>1, ElementOfSeq
  <2>2. /\ b \in Seq(Nat)
        /\ Len(b) = IF k + 1 <= L THEN L - (k + 1) + 1 ELSE 0
        /\ \A i \in 1 .. L - (k + 1) + 1 : b[i] = s[k + 1 + i - 1]
    BY <1>1, <2>1, SubSeqProperties
  <2>3. (IF k + 1 <= L THEN L - (k + 1) + 1 ELSE 0) = L - k /\ L - (k + 1) + 1 = L - k
    BY <1>1
  <2>4. \A i \in 1 .. L - k : k + 1 + i - 1 = k + i
    BY <1>1
  <2> HIDE DEF b, L
  <2> QED BY <2>2, <2>3, <2>4
<1> HIDE DEF a, b, L
<1>4. /\ a \o b \in Seq(Nat) /\ Len(a \o b) = Len(a) + Len(b)
      /\ \A i \in 1 .. Len(a) + Len(b) : (a \o b)[i] = IF i <= Len(a) THEN a[i] ELSE b[i - Len(a)]
  BY <1>2, <1>3, ConcatProperties
<1>5. Len(a) + Len(b) = L - 1
  BY <1>1, <1>2, <1>3
<1>6. ASSUME NEW i \in 1 .. L - 1
      PROVE  (a \o b)[i] = IF i < k THEN s[i] ELSE s[i + 1]
  <2>1. CASE i < k
    <3>1. i \in 1 .. k - 1 /\ i <= Len(a) /\ i \in 1 .. Len(a) + Len(b)
      BY <1>1, <1>2, <1>5, <1>6, <2>1
    <3> QED BY <1>2, <1>4, <2>1, <3>1
  <2>2. CASE ~ (i < k)
    <3>1. /\ ~ (i <= Len(a)) /\ i \in 1 .. Len(a) + Len(b) /\ i - Len(a) = i - k + 1
          /\ i - k + 1 \in 1 .. L - k /\ k + (i - k + 1) = i + 1
      BY <1>1, <1>2, <1>5, <1>6, <2>2
    <3>2. b[i - k + 1] = s[i + 1]
      BY <1>3, <3>1
    <3> QED BY <1>4, <2>2, <3>1, <3>2
  <2> QED BY <2>1, <2>2
<1> QED BY <1>4, <1>5, <1>6 DEF RemoveAt, a, b, L

\* delete() of a value that is there.
LEMMA DeleteListed ==
  ASSUME NEW q, NEW s, Listed(q, s), NEW k \in 1 .. Len(s)
  PROVE  /\ Listed(Delete(q, s[k]), RemoveAt(s, k))
         /\ Nodes(RemoveAt(s, k)) = Nodes(s) \ {s[k]}
<1> DEFINE L == Len(s)
           n == s[k]
           t == RemoveAt(s, k)
           p == Delete(q, n)
           before == q.prev[n]
           after == q.next[n]
<1>1. /\ s \in Seq(Nat) /\ L \in Nat
      /\ \A i \in 1 .. L : s[i] \in Nat /\ s[i] # Null /\ s[i] \in Nodes(s)
      /\ \A i, j \in 1 .. L : s[i] = s[j] => i = j
      /\ k \in Nat /\ k >= 1 /\ k <= L
  BY ListedFacts
<1>2. /\ t \in Seq(Nat) /\ Len(t) = L - 1
      /\ \A i \in 1 .. L - 1 : t[i] = IF i < k THEN s[i] ELSE s[i + 1]
  BY <1>1, TakenOut
<1>0. L \in Nat /\ k \in Nat /\ k >= 1 /\ k <= L
  BY <1>1
<1>3. \A i \in 1 .. L - 1 : i \in 1 .. L /\ i + 1 \in 1 .. L
  BY <1>0
<1>4. /\ DOMAIN q.next = Nodes(s) /\ DOMAIN q.prev = Nodes(s)
      /\ q.first = FirstOf(s) /\ q.last = LastOf(s)
      /\ \A i \in 1 .. L : q.next[s[i]] = NextOf(s, i) /\ q.prev[s[i]] = PrevOf(s, i)
  BY DEF Listed, Linked
<1>5. /\ before = PrevOf(s, k) /\ after = NextOf(s, k)
      /\ (k = 1 => before = Null) /\ (k # 1 => before = s[k - 1] /\ before # Null)
      /\ (k = L => after = Null) /\ (k # L => after = s[k + 1] /\ after # Null)
  <2>1. (k # 1 => k - 1 \in 1 .. L) /\ (k # L => k + 1 \in 1 .. L)
    BY <1>1
  <2>2. before = PrevOf(s, k) /\ after = NextOf(s, k)
    BY <1>1, <1>4
  <2> QED BY <1>1, <2>1, <2>2 DEF PrevOf, NextOf
<1> HIDE DEF t
<1>6. Nodes(t) = Nodes(s) \ {n}
  <2>1. ASSUME NEW i \in 1 .. L - 1 PROVE t[i] \in Nodes(s) \ {n}
    <3>1. CASE i < k
      <4>1. i \in 1 .. L /\ i # k /\ t[i] = s[i]
        BY <1>0, <1>2, <1>3, <3>1
      <4> QED BY <1>1, <4>1
    <3>2. CASE ~ (i < k)
      <4>1. i + 1 \in 1 .. L /\ i + 1 # k /\ t[i] = s[i + 1]
        BY <1>0, <1>2, <1>3, <3>2
      <4> QED BY <1>1, <4>1
    <3> QED BY <3>1, <3>2
  <2>2. ASSUME NEW j \in 1 .. L, s[j] # n PROVE \E i \in 1 .. L - 1 : t[i] = s[j]
    <3>1. CASE j < k
      <4>1. j \in 1 .. L - 1
        BY <1>1, <3>1
      <4> QED BY <1>2, <3>1, <4>1
    <3>2. CASE j > k
      <4>1. j - 1 \in 1 .. L - 1 /\ ~ (j - 1 < k) /\ j - 1 + 1 = j
        BY <1>1, <3>2
      <4> QED BY <1>2, <4>1
    <3> QED BY <1>1, <2>2, <3>1, <3>2
  <2>3. Nodes(t) = {t[i] : i \in 1 .. L - 1}
    BY <1>2 DEF Nodes
  <2>4. \A m \in Nodes(s) : \E j \in 1 .. L : m = s[j]
    BY DEF Nodes
  <2> HIDE DEF n, L
  <2> QED BY <2>1, <2>2, <2>3, <2>4
<1>7. Distinct(t)
  <2>1. ASSUME NEW i \in 1 .. L - 1, NEW j \in 1 .. L - 1, t[i] = t[j] PROVE i = j
    <3>1. /\ t[i] = IF i < k THEN s[i] ELSE s[i + 1]
          /\ t[j] = IF j < k THEN s[j] ELSE s[j + 1]
      BY <1>2
    <3>2. (IF i < k THEN i ELSE i + 1) = (IF j < k THEN j ELSE j + 1)
      BY <1>1, <1>3, <2>1, <3>1
    <3> QED BY <1>1, <3>2
  <2> QED BY <1>2, <2>1 DEF Distinct
<1>8. /\ p.next = [m \in Nodes(s) \ {n} |-> IF m = before THEN after ELSE q.next[m]]
      /\ p.prev = [m \in Nodes(s) \ {n} |-> IF m = after THEN before ELSE q.prev[m]]
      /\ p.first = IF before = Null THEN after ELSE q.first
      /\ p.last = IF after = Null THEN before ELSE q.last
  <2>1. Has(q, n)
    BY <1>1, <1>4 DEF Has
  <2> DEFINE f == Link(q.next, before, after)
             g == Link(q.prev, after, before)
  <2>2. /\ DOMAIN f = Nodes(s) /\ \A m \in Nodes(s) : f[m] = IF m = before THEN after ELSE q.next[m]
        /\ DOMAIN g = Nodes(s) /\ \A m \in Nodes(s) : g[m] = IF m = after THEN before ELSE q.prev[m]
    BY <1>4 DEF Link
  <2>3. /\ p.next = WithoutNode(f, n) /\ p.prev = WithoutNode(g, n)
        /\ p.first = IF before = Null THEN after ELSE q.first
        /\ p.last = IF after = Null THEN before ELSE q.last
    BY <2>1 DEF Delete
  <2> HIDE DEF f, g, p, n, before, after
  <2> QED BY <2>2, <2>3 DEF WithoutNode
<1> HIDE DEF p, before, after
<1>9. DOMAIN p.next = Nodes(t) /\ DOMAIN p.prev = Nodes(t)
  BY <1>6, <1>8
<1>10. p.first = FirstOf(t)
  <2>1. CASE k = 1
    <3>1. p.first = after /\ (L # 1 => after = s[2])
      BY <1>5, <1>8, <2>1
    <3>2. L # 1 => 1 \in 1 .. L - 1 /\ ~ (1 < k) /\ L - 1 # 0
      <4> HIDE DEF L
      <4> QED BY <1>0, <2>1
    <3>3. L # 1 => t[1] = s[2]
      BY <1>2, <3>2
    <3>4. L = 1 => L - 1 = 0 /\ k = L
      BY <2>1
    <3> QED BY <1>2, <1>5, <3>1, <3>2, <3>3, <3>4 DEF FirstOf
  <2>2. CASE k # 1
    <3>1. p.first = s[1]
      BY <1>1, <1>4, <1>5, <1>8, <2>2 DEF FirstOf
    <3>2. 1 \in 1 .. L - 1 /\ 1 < k /\ L - 1 # 0
      BY <1>1, <2>2
    <3> QED BY <1>2, <3>1, <3>2 DEF FirstOf
  <2> QED BY <2>1, <2>2
<1>11. p.last = LastOf(t)
  <2>1. CASE k = L
    <3>1. p.last = before /\ (L # 1 => before = s[L - 1])
      BY <1>5, <1>8, <2>1
    <3>2. L # 1 => L - 1 \in 1 .. L - 1 /\ L - 1 < k /\ L - 1 # 0
      BY <1>1, <2>1
    <3>3. L # 1 => t[L - 1] = s[L - 1]
      BY <1>2, <3>2
    <3>4. L = 1 => L - 1 = 0 /\ k = 1
      BY <2>1
    <3> QED BY <1>2, <1>5, <3>1, <3>2, <3>3, <3>4 DEF LastOf
  <2>2. CASE k # L
    <3>1. p.last = s[L]
      BY <1>1, <1>4, <1>5, <1>8, <2>2 DEF LastOf
    <3>2. L - 1 \in 1 .. L - 1 /\ ~ (L - 1 < k) /\ L - 1 # 0 /\ L - 1 + 1 = L
      BY <1>1, <2>2
    <3> QED BY <1>2, <3>1, <3>2 DEF LastOf
  <2> QED BY <2>1, <2>2
<1>12. ASSUME NEW i \in 1 .. L - 1
       PROVE  p.next[t[i]] = NextOf(t, i) /\ p.prev[t[i]] = PrevOf(t, i)
  <2> DEFINE j == IF i < k THEN i ELSE i + 1
  <2>1. /\ j \in 1 .. L /\ t[i] = s[j] /\ j # k
    <3>1. CASE i < k
      BY <1>1, <1>2, <3>1
    <3>2. CASE ~ (i < k)
      BY <1>1, <1>2, <3>2
    <3> QED BY <3>1, <3>2
  <2>2. s[j] \in Nodes(s) \ {n}
    BY <1>1, <2>1
  <2>3. /\ p.next[t[i]] = IF s[j] = before THEN after ELSE NextOf(s, j)
        /\ p.prev[t[i]] = IF s[j] = after THEN before ELSE PrevOf(s, j)
    BY <1>4, <1>8, <2>1, <2>2
  <2>4. /\ s[j] = before <=> j = k - 1
        /\ s[j] = after <=> j = k + 1
    <3> HIDE DEF j, n
    <3>1. k = 1 => (s[j] = before <=> j = k - 1)
      <4> HAVE k = 1
      <4>1. s[j] # before /\ j # k - 1
        BY <1>1, <1>5, <2>1
      <4> QED BY <4>1
    <3>2. k # 1 => (s[j] = before <=> j = k - 1)
      <4> HAVE k # 1
      <4>1. k - 1 \in 1 .. L /\ before = s[k - 1]
        BY <1>0, <1>5
      <4> QED BY <1>1, <2>1, <4>1
    <3>3. k = L => (s[j] = after <=> j = k + 1)
      <4> HAVE k = L
      <4>1. s[j] # after /\ j # k + 1
        BY <1>1, <1>5, <2>1
      <4> QED BY <4>1
    <3>4. k # L => (s[j] = after <=> j = k + 1)
      <4> HAVE k # L
      <4>1. k + 1 \in 1 .. L /\ after = s[k + 1]
        BY <1>0, <1>5
      <4> QED BY <1>1, <2>1, <4>1
    <3>5. s[j] = before <=> j = k - 1
      BY <3>1, <3>2
    <3>6. s[j] = after <=> j = k + 1
      BY <3>3, <3>4
    <3> QED BY <3>5, <3>6
  <2>5. p.next[t[i]] = NextOf(t, i)
    <3>1. CASE i = k - 1
      <4>1. j = k - 1 /\ i + 1 = k
        BY <1>1, <3>1
      <4>2. p.next[t[i]] = NextOf(s, k)
        BY <1>5, <2>3, <2>4, <4>1
      <4>3. CASE k = L
        BY <1>2, <3>1, <4>2, <4>3 DEF NextOf
      <4>4. CASE k # L
        <5>1. k \in 1 .. L - 1 /\ ~ (k < k) /\ i # L - 1
          BY <1>1, <3>1, <4>4
        <5> QED BY <1>2, <4>1, <4>2, <4>4, <5>1 DEF NextOf
      <4> QED BY <4>3, <4>4
    <3>2. CASE i < k - 1
      <4>1. j = i /\ j # k - 1 /\ i # L - 1 /\ i # L /\ i + 1 \in 1 .. L - 1 /\ i + 1 < k
        BY <1>1, <3>2
      <4> QED BY <1>2, <2>3, <2>4, <4>1 DEF NextOf
    <3>3. CASE i >= k
      <4>1. j = i + 1 /\ j # k - 1 /\ (j = L <=> i = L - 1)
            /\ (i # L - 1 => i + 1 \in 1 .. L - 1 /\ ~ (i + 1 < k))
        BY <1>1, <3>3
      <4> QED BY <1>2, <2>3, <2>4, <4>1 DEF NextOf
    <3> QED BY <1>1, <3>1, <3>2, <3>3
  <2>6. p.prev[t[i]] = PrevOf(t, i)
    <3>1. CASE i = k
      <4>1. j = k + 1 /\ (k # 1 => k - 1 \in 1 .. L - 1 /\ k - 1 < k)
        BY <1>1, <3>1
      <4>2. p.prev[t[i]] = PrevOf(s, k)
        BY <1>5, <2>3, <2>4, <4>1
      <4> QED BY <1>2, <3>1, <4>1, <4>2 DEF PrevOf
    <3>2. CASE i < k
      <4>1. j = i /\ j # k + 1 /\ (i # 1 => i - 1 \in 1 .. L - 1 /\ i - 1 < k)
        BY <1>1, <3>2
      <4> QED BY <1>2, <2>3, <2>4, <4>1 DEF PrevOf
    <3>3. CASE i > k
      <4>1. j = i + 1 /\ j # k + 1 /\ j # 1 /\ i # 1 /\ i - 1 \in 1 .. L - 1 /\ ~ (i - 1 < k)
            /\ i - 1 + 1 = i /\ j - 1 = i
        BY <1>1, <3>3
      <4> QED BY <1>2, <2>3, <2>4, <4>1 DEF PrevOf
    <3> QED BY <1>1, <3>1, <3>2, <3>3
  <2> QED BY <2>5, <2>6
<1>13. Linked(p, t)
  BY <1>2, <1>12 DEF Linked
<1> QED BY <1>2, <1>6, <1>7, <1>9, <1>10, <1>11, <1>13 DEF Listed, p, t

\* delete(), then push(): a page is at the end of the list.
LEMMA TouchListed ==
  ASSUME NEW q, NEW s, Listed(q, s), NEW n \in Nat
  PROVE  Listed(Touch(q, n), Use(s, n)) /\ Nodes(Use(s, n)) = Nodes(s) \cup {n}
<1>1. /\ s \in Seq(Nat) /\ Len(s) \in Nat
      /\ \A i, j \in 1 .. Len(s) : s[i] = s[j] => i = j
      /\ \A m \in Nodes(s) : \E i \in 1 .. Len(s) : m = s[i]
  BY ListedFacts
<1>2. CASE n \notin Nodes(s)
  <2>1. Delete(q, n) = q
    BY <1>2 DEF Delete, Has, Listed
  <2>2. RemoveFirst(s, n) = s
    BY <1>2 DEF RemoveFirst, Nodes
  <2> QED BY <1>2, <2>1, <2>2, PushListed DEF Touch, Use
<1>3. CASE n \in Nodes(s)
  <2>1. PICK k \in 1 .. Len(s) : n = s[k]
    BY <1>1, <1>3
  <2>2. RemoveFirst(s, n) = RemoveAt(s, k)
    <3>1. {i \in 1 .. Len(s) : s[i] = n} = {k}
      BY <1>1, <2>1
    <3>2. Min({k}) = k
      BY <2>1 DEF Min
    <3>3. SelectInSeq(s, LAMBDA v : v = n) = k
      BY <3>1, <3>2 DEF SelectInSeq
    <3> QED BY <2>1, <3>3 DEF RemoveFirst
  <2>3. /\ Listed(Delete(q, n), RemoveAt(s, k))
        /\ Nodes(RemoveAt(s, k)) = Nodes(s) \ {n}
    BY <2>1, DeleteListed
  <2> DEFINE p == Delete(q, n)
             t == RemoveAt(s, k)
  <2> HIDE DEF p, t
  <2>4. Listed(p, t) /\ n \notin Nodes(t) /\ Nodes(t) \cup {n} = Nodes(s) \cup {n}
    BY <2>3 DEF p, t
  <2>5. Listed(Push(p, n), Append(t, n)) /\ Nodes(Append(t, n)) = Nodes(t) \cup {n}
    BY <2>4, PushListed
  <2> QED BY <2>2, <2>4, <2>5 DEF Touch, Use, p, t
<1> QED BY <1>2, <1>3

\* What is left when the first elements have gone.
LEMMA DroppedProperties ==
  ASSUME NEW s \in Seq(Nat), NEW n \in 0 .. Len(s)
  PROVE  /\ Dropped(s, n) \in Seq(Nat) /\ Len(Dropped(s, n)) = Len(s) - n
         /\ \A i \in 1 .. Len(s) - n : Dropped(s, n)[i] = s[n + i]
<1>1. Len(s) \in Nat /\ n \in Nat /\ n <= Len(s)
  BY LenProperties
<1>2. \A i \in n + 1 .. Len(s) : s[i] \in Nat
  BY <1>1, ElementOfSeq
<1> DEFINE L == Len(s)
           b == SubSeq(s, n + 1, L)
<1>3. /\ b \in Seq(Nat)
      /\ Len(b) = IF n + 1 <= L THEN L - (n + 1) + 1 ELSE 0
      /\ \A i \in 1 .. L - (n + 1) + 1 : b[i] = s[n + 1 + i - 1]
  BY <1>1, <1>2, SubSeqProperties
<1>4. (IF n + 1 <= L THEN L - (n + 1) + 1 ELSE 0) = L - n /\ L - (n + 1) + 1 = L - n
  BY <1>1
<1>5. \A i \in 1 .. L - n : n + 1 + i - 1 = n + i
  BY <1>1
<1> HIDE DEF b, L
<1> QED BY <1>3, <1>4, <1>5 DEF Dropped, b, L

\* shift(): the page unused for longest goes.
LEMMA ShiftListed ==
  ASSUME NEW q, NEW s \in Seq(Nat), NEW n \in Nat, n < Len(s), Listed(q, Dropped(s, n))
  PROVE  Listed(Shift(q), Dropped(s, n + 1))
<1> DEFINE t == Dropped(s, n)
           u == Dropped(s, n + 1)
<1>0. Len(s) \in Nat /\ n \in 0 .. Len(s) /\ n + 1 \in 0 .. Len(s)
  BY LenProperties
<1>1. /\ t \in Seq(Nat) /\ Len(t) = Len(s) - n
      /\ \A i \in 1 .. Len(s) - n : t[i] = s[n + i]
  BY <1>0, DroppedProperties
<1>2. /\ u \in Seq(Nat) /\ Len(u) = Len(s) - (n + 1)
      /\ \A i \in 1 .. Len(s) - (n + 1) : u[i] = s[n + 1 + i]
  BY <1>0, DroppedProperties
<1> HIDE DEF t, u
<1>3. 1 \in 1 .. Len(t)
  BY <1>0, <1>1
<1>4. RemoveAt(t, 1) = u
  <2> DEFINE v == RemoveAt(t, 1)
  <2>1. /\ v \in Seq(Nat) /\ Len(v) = Len(t) - 1
        /\ \A i \in 1 .. Len(t) - 1 : v[i] = IF i < 1 THEN t[i] ELSE t[i + 1]
    BY <1>1, <1>3, TakenOut
  <2> HIDE DEF v
  <2>2. Len(v) = Len(u)
    BY <1>0, <1>1, <1>2, <2>1
  <2>3. ASSUME NEW i \in 1 .. Len(v) PROVE v[i] = u[i]
    <3>1. /\ i \in 1 .. Len(t) - 1 /\ ~ (i < 1) /\ i + 1 \in 1 .. Len(s) - n
          /\ i \in 1 .. Len(s) - (n + 1) /\ n + (i + 1) = n + 1 + i
      BY <1>0, <1>1, <2>1
    <3> QED BY <1>1, <1>2, <2>1, <3>1
  <2> QED BY <1>2, <2>1, <2>2, <2>3, SeqEqual DEF v
<1>5. Listed(Delete(q, t[1]), u)
  <2>1. Listed(q, t)
    BY DEF t
  <2> QED BY <1>3, <1>4, <2>1, DeleteListed
<1>6. Shift(q) = Delete(q, t[1])
  <2>1. Listed(q, t)
    BY DEF t
  <2>2. /\ q.first = t[1] /\ t[1] \in DOMAIN q.next /\ q.prev[t[1]] = Null
        /\ t[1] # Null /\ Null \notin DOMAIN q.next
    <3>1. t[1] # Null /\ t[1] \in Nodes(t) /\ Null \notin Nodes(t)
      BY <1>3, <2>1, ListedFacts
    <3>2. q.first = t[1] /\ q.prev[t[1]] = Null /\ DOMAIN q.next = Nodes(t)
      <4>1. Len(t) # 0 /\ 1 \in 1 .. Len(t)
        BY <1>3
      <4>2. q.first = FirstOf(t) /\ Linked(q, t) /\ DOMAIN q.next = Nodes(t)
        BY <2>1 DEF Listed
      <4>3. q.prev[t[1]] = PrevOf(t, 1)
        BY <4>1, <4>2 DEF Linked
      <4> QED BY <4>1, <4>2, <4>3 DEF FirstOf, PrevOf
    <3> QED BY <3>1, <3>2
  <2> DEFINE node == t[1]
             after == q.next[node]
  <2>3. WithoutNode(Link(q.next, Null, after), node) = WithoutNode(q.next, node)
    <3> HIDE DEF node, after
    <3>1. /\ DOMAIN Link(q.next, Null, after) = DOMAIN q.next
          /\ \A m \in DOMAIN q.next : Link(q.next, Null, after)[m] = q.next[m]
      BY <2>2 DEF Link
    <3> QED BY <3>1 DEF WithoutNode
  <2> HIDE DEF t
  <2>4. Has(q, node)
    BY <2>2 DEF Has
  <2> QED BY <2>2, <2>3, <2>4 DEF Shift, Delete
<1> QED BY <1>5, <1>6 DEF u

-----------------------------------------------------------------------------
(* The loops over pages, step by step: f[i] is the state after i of them.    *)

\* The queue.
Touched(q, numbers, n, f) ==
  f = [i \in 0 .. n |-> IF i = 0 THEN q ELSE Touch(f[i - 1], numbers[i])]

\* The loops are functions of the number of times they have run: the definitions
\* of TouchAll, UseAll and ShiftTimes choose one.
LEMMA TouchedExists ==
  ASSUME NEW q, NEW numbers, NEW n \in Nat
  PROVE  \E f : Touched(q, numbers, n, f)
<1> DEFINE T == {m \in Nat : ~ \E f : Touched(q, numbers, m, f)}
<1> SUFFICES ASSUME T # {} PROVE FALSE
  OBVIOUS
<1>1. PICK m \in T : \A k \in T : m <= k
  BY LeastNumber
<1>2. m \in Nat
  BY <1>1
<1>3. CASE m = 0
  <2> DEFINE f == [i \in 0 .. 0 |-> q]
  <2>1. Touched(q, numbers, 0, f)
    BY DEF Touched
  <2> QED BY <1>1, <1>3, <2>1
<1>4. CASE m # 0
  <2>1. m - 1 \in Nat /\ m - 1 \notin T
    BY <1>1, <1>2, <1>4
  <2>2. PICK f : Touched(q, numbers, m - 1, f)
    BY <2>1
  <2> DEFINE g == [i \in 0 .. m |-> IF i = m THEN Touch(f[m - 1], numbers[m]) ELSE f[i]]
  <2>3. ASSUME NEW i \in 0 .. m
        PROVE  g[i] = IF i = 0 THEN q ELSE Touch(g[i - 1], numbers[i])
    <3>1. CASE i = m
      <4>1. i # 0 /\ i - 1 \in 0 .. m /\ i - 1 # m /\ i - 1 = m - 1
        BY <1>2, <1>4, <3>1
      <4>2. g[i - 1] = f[m - 1]
        BY <4>1
      <4> QED BY <3>1, <4>1, <4>2
    <3>2. CASE i # m
      <4>1. i \in 0 .. m - 1 /\ (i # 0 => i - 1 \in 0 .. m /\ i - 1 # m)
        BY <1>2, <3>2
      <4>2. f[i] = IF i = 0 THEN q ELSE Touch(f[i - 1], numbers[i])
        BY <2>2, <4>1 DEF Touched
      <4>3. g[i] = f[i] /\ (i # 0 => g[i - 1] = f[i - 1])
        BY <3>2, <4>1
      <4> QED BY <4>2, <4>3
    <3> QED BY <3>1, <3>2
  <2>4. g = [i \in 0 .. m |-> g[i]]
    OBVIOUS
  <2> HIDE DEF g
  <2>5. Touched(q, numbers, m, g)
    BY <2>3, <2>4 DEF Touched
  <2> QED BY <1>1, <2>5
<1> QED BY <1>3, <1>4

\* The history.
UsedBy(s, numbers, n, f) ==
  f = [i \in 0 .. n |-> IF i = 0 THEN s ELSE Use(f[i - 1], numbers[i])]

\* So is the loop of the history.
LEMMA UsedExists ==
  ASSUME NEW s, NEW numbers, NEW n \in Nat
  PROVE  \E f : UsedBy(s, numbers, n, f)
<1> DEFINE T == {m \in Nat : ~ \E f : UsedBy(s, numbers, m, f)}
<1> SUFFICES ASSUME T # {} PROVE FALSE
  OBVIOUS
<1>1. PICK m \in T : \A k \in T : m <= k
  BY LeastNumber
<1>2. m \in Nat
  BY <1>1
<1>3. CASE m = 0
  <2> DEFINE f == [i \in 0 .. 0 |-> s]
  <2>1. UsedBy(s, numbers, 0, f)
    BY DEF UsedBy
  <2> QED BY <1>1, <1>3, <2>1
<1>4. CASE m # 0
  <2>1. m - 1 \in Nat /\ m - 1 \notin T
    BY <1>1, <1>2, <1>4
  <2>2. PICK f : UsedBy(s, numbers, m - 1, f)
    BY <2>1
  <2> DEFINE g == [i \in 0 .. m |-> IF i = m THEN Use(f[m - 1], numbers[m]) ELSE f[i]]
  <2>3. ASSUME NEW i \in 0 .. m
        PROVE  g[i] = IF i = 0 THEN s ELSE Use(g[i - 1], numbers[i])
    <3>1. CASE i = m
      <4>1. i # 0 /\ i - 1 \in 0 .. m /\ i - 1 # m /\ i - 1 = m - 1
        BY <1>2, <1>4, <3>1
      <4>2. g[i - 1] = f[m - 1]
        BY <4>1
      <4> QED BY <3>1, <4>1, <4>2
    <3>2. CASE i # m
      <4>1. i \in 0 .. m - 1 /\ (i # 0 => i - 1 \in 0 .. m /\ i - 1 # m)
        BY <1>2, <3>2
      <4>2. f[i] = IF i = 0 THEN s ELSE Use(f[i - 1], numbers[i])
        BY <2>2, <4>1 DEF UsedBy
      <4>3. g[i] = f[i] /\ (i # 0 => g[i - 1] = f[i - 1])
        BY <3>2, <4>1
      <4> QED BY <4>2, <4>3
    <3> QED BY <3>1, <3>2
  <2>4. g = [i \in 0 .. m |-> g[i]]
    OBVIOUS
  <2> HIDE DEF g
  <2>5. UsedBy(s, numbers, m, g)
    BY <2>3, <2>4 DEF UsedBy
  <2> QED BY <1>1, <2>5
<1> QED BY <1>3, <1>4

\* The queue from which pages go.
Shifted(q, n, f) ==
  f = [i \in 0 .. n |-> IF i = 0 THEN q ELSE Shift(f[i - 1])]

\* So is the loop that shifts.
LEMMA ShiftedExists ==
  ASSUME NEW q, NEW n \in Nat
  PROVE  \E f : Shifted(q, n, f)
<1> DEFINE T == {m \in Nat : ~ \E f : Shifted(q, m, f)}
<1> SUFFICES ASSUME T # {} PROVE FALSE
  OBVIOUS
<1>1. PICK m \in T : \A k \in T : m <= k
  BY LeastNumber
<1>2. m \in Nat
  BY <1>1
<1>3. CASE m = 0
  <2> DEFINE f == [i \in 0 .. 0 |-> q]
  <2>1. Shifted(q, 0, f)
    BY DEF Shifted
  <2> QED BY <1>1, <1>3, <2>1
<1>4. CASE m # 0
  <2>1. m - 1 \in Nat /\ m - 1 \notin T
    BY <1>1, <1>2, <1>4
  <2>2. PICK f : Shifted(q, m - 1, f)
    BY <2>1
  <2> DEFINE g == [i \in 0 .. m |-> IF i = m THEN Shift(f[m - 1]) ELSE f[i]]
  <2>3. ASSUME NEW i \in 0 .. m
        PROVE  g[i] = IF i = 0 THEN q ELSE Shift(g[i - 1])
    <3>1. CASE i = m
      <4>1. i # 0 /\ i - 1 \in 0 .. m /\ i - 1 # m /\ i - 1 = m - 1
        BY <1>2, <1>4, <3>1
      <4>2. g[i - 1] = f[m - 1]
        BY <4>1
      <4> QED BY <3>1, <4>1, <4>2
    <3>2. CASE i # m
      <4>1. i \in 0 .. m - 1 /\ (i # 0 => i - 1 \in 0 .. m /\ i - 1 # m)
        BY <1>2, <3>2
      <4>2. f[i] = IF i = 0 THEN q ELSE Shift(f[i - 1])
        BY <2>2, <4>1 DEF Shifted
      <4>3. g[i] = f[i] /\ (i # 0 => g[i - 1] = f[i - 1])
        BY <3>2, <4>1
      <4> QED BY <4>2, <4>3
    <3> QED BY <3>1, <3>2
  <2>4. g = [i \in 0 .. m |-> g[i]]
    OBVIOUS
  <2> HIDE DEF g
  <2>5. Shifted(q, m, g)
    BY <2>3, <2>4 DEF Shifted
  <2> QED BY <1>1, <2>5
<1> QED BY <1>3, <1>4

\* What TouchAll and UseAll return is where these functions end.
LEMMA LoopsUnfold ==
  ASSUME NEW q, NEW s, NEW numbers, Len(numbers) \in Nat
  PROVE  /\ \E f : Touched(q, numbers, Len(numbers), f) /\ TouchAll(q, numbers) = f[Len(numbers)]
         /\ \E f : UsedBy(s, numbers, Len(numbers), f) /\ UseAll(s, numbers) = f[Len(numbers)]
<1> DEFINE n == Len(numbers)
           f == CHOOSE x : Touched(q, numbers, n, x)
           g == CHOOSE x : UsedBy(s, numbers, n, x)
<1>1. TouchAll(q, numbers) = f[n] /\ UseAll(s, numbers) = g[n]
  BY DEF TouchAll, UseAll, Touched, UsedBy
<1>2. Touched(q, numbers, n, f)
  BY TouchedExists
<1>3. UsedBy(s, numbers, n, g)
  BY UsedExists
<1> HIDE DEF n, f, g
<1> QED BY <1>1, <1>2, <1>3 DEF n

\* What ShiftTimes returns is where its function ends.
LEMMA ShiftUnfold ==
  ASSUME NEW q, NEW n \in Nat
  PROVE  \E f : Shifted(q, n, f) /\ ShiftTimes(q, n) = f[n]
<1> DEFINE f == CHOOSE x : Shifted(q, n, x)
<1>1. ShiftTimes(q, n) = f[n]
  BY DEF ShiftTimes, Shifted
<1>2. Shifted(q, n, f)
  BY ShiftedExists
<1> HIDE DEF f
<1> QED BY <1>1, <1>2

\* Touching a list of pages: they are in the list, and it is in order.
LEMMA TouchAllListed ==
  ASSUME NEW q, NEW s, Listed(q, s), NEW numbers \in Seq(Nat)
  PROVE  /\ Listed(TouchAll(q, numbers), UseAll(s, numbers))
         /\ Nodes(UseAll(s, numbers)) = Nodes(s) \cup Nodes(numbers)
<1>0. PICK n \in Nat : n = Len(numbers)
  BY LenProperties
<1>1. PICK f : Touched(q, numbers, n, f) /\ TouchAll(q, numbers) = f[n]
  BY <1>0, LoopsUnfold
<1>2. PICK g : UsedBy(s, numbers, n, g) /\ UseAll(s, numbers) = g[n]
  BY <1>0, LoopsUnfold
<1>3. \A i \in 1 .. n : numbers[i] \in Nat
  BY <1>0, ElementOfSeq
<1> DEFINE Sound(i) == /\ Listed(f[i], g[i])
                       /\ Nodes(g[i]) = Nodes(s) \cup {numbers[j] : j \in 1 .. i}
<1>4. Sound(0)
  <2>1. f[0] = q /\ g[0] = s
    BY <1>0, <1>1, <1>2 DEF Touched, UsedBy
  <2> QED BY <2>1
<1>5. ASSUME NEW i \in 1 .. n, Sound(i - 1) PROVE Sound(i)
  <2>0. i \in 0 .. n /\ i # 0
    BY <1>0
  <2>a. f[i] = Touch(f[i - 1], numbers[i])
    BY <1>1, <2>0 DEF Touched
  <2>b. g[i] = Use(g[i - 1], numbers[i])
    BY <1>2, <2>0 DEF UsedBy
  <2>c. PICK k, d, e : k \in Nat /\ k = numbers[i] /\ d = f[i - 1] /\ e = g[i - 1]
    BY <1>3
  <2>1. Listed(d, e) /\ f[i] = Touch(d, k) /\ g[i] = Use(e, k)
    BY <1>5, <2>a, <2>b, <2>c
  <2>d. Listed(Touch(d, k), Use(e, k)) /\ Nodes(Use(e, k)) = Nodes(e) \cup {k}
    <3>1. k \in Nat
      BY <2>c
    <3>2. Listed(d, e)
      BY <2>1
    <3> QED BY <3>1, <3>2, TouchListed
  <2>2. /\ Listed(f[i], g[i])
        /\ Nodes(g[i]) = Nodes(g[i - 1]) \cup {numbers[i]}
    BY <2>1, <2>c, <2>d
  <2>3. 1 .. i = (1 .. i - 1) \cup {i}
    BY <1>0
  <2> QED BY <1>5, <2>2, <2>3
<1> HIDE DEF Sound
<1>6. Sound(n)
  <2> DEFINE T == {i \in 0 .. n : ~ Sound(i)}
  <2> SUFFICES ASSUME T # {} PROVE FALSE
    BY <1>0
  <2>1. PICK m \in T : \A k \in T : m <= k
    <3>1. T \subseteq Nat
      BY <1>0
    <3> QED BY <3>1, LeastNumber
  <2>2. m \in 1 .. n /\ m - 1 \in 0 .. n /\ m - 1 \notin T
    BY <1>0, <1>4, <2>1
  <2> QED BY <1>5, <2>1, <2>2
<1> QED BY <1>0, <1>1, <1>2, <1>6 DEF Sound, Nodes

\* Shifting so many pages out: those unused for longest have gone.
LEMMA ShiftTimesListed ==
  ASSUME NEW q, NEW s, Listed(q, s), NEW n \in 0 .. Len(s)
  PROVE  Listed(ShiftTimes(q, n), Dropped(s, n))
<1>0. s \in Seq(Nat) /\ Len(s) \in Nat /\ n \in Nat /\ n <= Len(s)
  BY LenProperties DEF Listed
<1>1. PICK f : Shifted(q, n, f) /\ ShiftTimes(q, n) = f[n]
  BY <1>0, ShiftUnfold
<1> DEFINE Sound(i) == Listed(f[i], Dropped(s, i))
<1>2. Sound(0)
  <2>1. f[0] = q
    BY <1>0, <1>1 DEF Shifted
  <2>2. Dropped(s, 0) = s
    <3>1. 0 \in 0 .. Len(s)
      BY <1>0
    <3>2. /\ Dropped(s, 0) \in Seq(Nat) /\ Len(Dropped(s, 0)) = Len(s)
          /\ \A i \in 1 .. Len(s) : Dropped(s, 0)[i] = s[i]
      <4>1. \A i \in 1 .. Len(s) : 0 + i = i
        BY <1>0
      <4>2. /\ Dropped(s, 0) \in Seq(Nat) /\ Len(Dropped(s, 0)) = Len(s) - 0
            /\ \A i \in 1 .. Len(s) - 0 : Dropped(s, 0)[i] = s[0 + i]
        BY <1>0, <3>1, DroppedProperties
      <4> QED BY <1>0, <4>1, <4>2
    <3> QED BY <1>0, <3>2, SeqEqual
  <2> QED BY <2>1, <2>2
<1>3. ASSUME NEW i \in 1 .. n, Sound(i - 1) PROVE Sound(i)
  <2>1. f[i] = Shift(f[i - 1])
    BY <1>0, <1>1 DEF Shifted
  <2>2. PICK j \in Nat : j = i - 1 /\ j < Len(s) /\ j + 1 = i
    BY <1>0
  <2>3. Listed(Shift(f[j]), Dropped(s, j + 1))
    BY <1>0, <1>3, <2>2, ShiftListed
  <2> QED BY <2>1, <2>2, <2>3
<1> HIDE DEF Sound
<1>4. Sound(n)
  <2> DEFINE T == {i \in 0 .. n : ~ Sound(i)}
  <2> SUFFICES ASSUME T # {} PROVE FALSE
    BY <1>0
  <2>1. PICK m \in T : \A k \in T : m <= k
    <3>1. T \subseteq Nat
      BY <1>0
    <3> QED BY <3>1, LeastNumber
  <2>2. m \in 1 .. n /\ m - 1 \in 0 .. n /\ m - 1 \notin T
    BY <1>0, <1>2, <2>1
  <2> QED BY <1>3, <2>1, <2>2
<1> QED BY <1>1, <1>4 DEF Sound

\* A list holds as many pages as it is long.
LEMMA NodesCounted ==
  ASSUME NEW s \in Seq(Nat), Distinct(s)
  PROVE  IsFiniteSet(Nodes(s)) /\ Cardinality(Nodes(s)) = Len(s)
<1> DEFINE L == Len(s)
<1>1. L \in Nat /\ DOMAIN s = 1 .. L /\ s = [i \in 1 .. L |-> s[i]]
  BY LenProperties
<1>2. s \in Surjection(1 .. L, Nodes(s))
  BY <1>1 DEF Surjection, Nodes
<1>3. s \in Injection(1 .. L, Nodes(s))
  BY <1>1 DEF Injection, IsInjective, Nodes, Distinct
<1> HIDE DEF L
<1>4. IsFiniteSet(1 .. L) /\ Cardinality(1 .. L) = L
  <2>1. 1 \in Int /\ L \in Int /\ L = IF 1 > L THEN 0 ELSE L - 1 + 1
    BY <1>1
  <2>2. IsFiniteSet(1 .. L) /\ Cardinality(1 .. L) = IF 1 > L THEN 0 ELSE L - 1 + 1
    BY <2>1, FS_Interval, Zenon
  <2> QED BY <2>1, <2>2
<1> QED BY <1>2, <1>3, <1>4, FS_Surjection DEF L

\* Listed is Lists, and says what the properties need.
LEMMA ListedLists ==
  ASSUME NEW q, NEW s, Listed(q, s)
  PROVE  Lists(q, s)
<1>1. /\ s \in Seq(Nat) /\ Len(s) \in Nat /\ DOMAIN s = 1 .. Len(s) /\ Distinct(s)
      /\ (s = <<>> <=> Len(s) = 0)
  BY LenProperties, EmptySeq DEF Listed
<1>2. Cardinality(Nodes(s)) = Len(s)
  BY <1>1, NodesCounted
<1>3. {s[i] : i \in DOMAIN s} = Nodes(s)
  BY <1>1 DEF Nodes
<1>4. \A i \in DOMAIN s : q.next[s[i]] = NextOf(s, i) /\ q.prev[s[i]] = PrevOf(s, i)
  BY <1>1 DEF Listed, Linked
<1>5. q.first = FirstOf(s) /\ q.last = LastOf(s) /\ DOMAIN q.next = Nodes(s) /\ DOMAIN q.prev = Nodes(s)
  BY DEF Listed
<1> QED BY <1>1, <1>2, <1>3, <1>4, <1>5 DEF Lists, NextOf, PrevOf, FirstOf, LastOf

-----------------------------------------------------------------------------
(* Bytes and pages.                                                        *)

\* Rounding up to a page adds less than a page.
LEMMA CeilOf ==
  ASSUME NEW x \in Nat
  PROVE  /\ Ceil(x) \in Nat /\ x <= Ceil(x) * PageSize /\ Ceil(x) * PageSize < x + PageSize
         /\ Ceil(x) * PageSize \in Nat
<1> DEFINE p == PageSize
           y == x + p - 1
<1>1. p \in Nat \ {0} /\ y \in Nat
  BY VfsAssumption
<1> HIDE DEF y, p
<1>2. y \div p \in Nat /\ (y \div p) * p <= y /\ y < (y \div p) * p + p
  BY <1>1, PageOf
<1>3. (y \div p) * p \in Nat
  BY <1>1, <1>2, PageGrows
<1>4. Ceil(x) = y \div p /\ y = x + p - 1
  BY DEF Ceil, y, p
<1> QED BY <1>1, <1>2, <1>3, <1>4 DEF p

\* The length of a stretch of bytes, and its bytes.
LEMMA BytesFacts ==
  ASSUME NEW a \in Nat, NEW b \in Nat
  PROVE  /\ Bytes(a, b) \in Seq(Nat)
         /\ Len(Bytes(a, b)) = IF b > a THEN b - a ELSE 0
         /\ \A i \in 1 .. b - a : Bytes(a, b)[i] = a + i - 1
         /\ b <= a => Bytes(a, b) = <<>>
<1> DEFINE n == IF b > a THEN b - a ELSE 0
           s == Bytes(a, b)
<1>1. n \in Nat /\ 1 .. n = 1 .. b - a
  OBVIOUS
<1>2. s = [i \in 1 .. n |-> a + i - 1]
  BY <1>1 DEF Bytes
<1>3. \A i \in 1 .. n : a + i - 1 \in Nat
  OBVIOUS
<1> HIDE DEF n, s
<1>4. s \in [1 .. n -> Nat]
  BY <1>2, <1>3
<1>5. s \in Seq(Nat) /\ Len(s) = n
  BY <1>1, <1>4, SeqDef
<1>6. n = 0 => s = <<>>
  BY <1>5, EmptySeq
<1> QED BY <1>1, <1>2, <1>5, <1>6 DEF n, s

\* The bytes from x to y are those of the chunk a to b from index m + 1 to n.
Inside(a, b, m, n, x, y) == /\ a \in Nat /\ b \in Nat /\ m \in Nat /\ n \in Nat
                            /\ x \in Nat /\ y \in Nat
                            /\ n <= b - a /\ x = a + m /\ y = a + n

\* A piece of a chunk is a stretch of bytes.
LEMMA SubBytes ==
  ASSUME NEW a, NEW b, NEW m, NEW n, NEW x, NEW y, Inside(a, b, m, n, x, y)
  PROVE  SubSeq(Bytes(a, b), m + 1, n) = Bytes(x, y)
<1> DEFINE s == Bytes(a, b)
           t == SubSeq(s, m + 1, n)
           u == Bytes(x, y)
<1>0. /\ a \in Nat /\ b \in Nat /\ m \in Nat /\ n \in Nat
      /\ x \in Nat /\ y \in Nat /\ n <= b - a /\ x = a + m /\ y = a + n
  BY DEF Inside
<1>1. s \in Seq(Nat) /\ \A i \in 1 .. b - a : s[i] = a + i - 1
  BY <1>0, BytesFacts
<1>2. /\ u \in Seq(Nat)
      /\ Len(u) = IF y > x THEN y - x ELSE 0
      /\ \A i \in 1 .. y - x : u[i] = x + i - 1
  BY <1>0, BytesFacts
<1>3. y - x = n - m /\ (y > x <=> n > m)
  BY <1>0
<1> HIDE DEF s, u
<1>4. \A i \in m + 1 .. n : s[i] \in Nat
  <2>1. \A i \in m + 1 .. n : i \in 1 .. b - a /\ a + i - 1 \in Nat
    BY <1>0
  <2> QED BY <1>1, <2>1
<1>5. /\ t \in Seq(Nat)
      /\ Len(t) = IF m + 1 <= n THEN n - (m + 1) + 1 ELSE 0
      /\ \A i \in 1 .. n - (m + 1) + 1 : t[i] = s[m + 1 + i - 1]
  BY <1>0, <1>4, SubSeqProperties
<1> HIDE DEF t
<1>6. Len(t) = Len(u)
  BY <1>0, <1>2, <1>3, <1>5
<1>7. ASSUME NEW i \in 1 .. Len(t) PROVE t[i] = u[i]
  <2>1. i \in 1 .. n - m /\ i \in 1 .. n - (m + 1) + 1 /\ m + 1 + i - 1 = m + i /\ m + i \in 1 .. b - a
    BY <1>0, <1>5
  <2>2. t[i] = a + (m + i) - 1
    BY <1>1, <1>5, <2>1
  <2>3. u[i] = a + m + i - 1
    BY <1>0, <1>2, <1>3, <2>1
  <2> QED BY <1>0, <2>1, <2>2, <2>3
<1> QED BY <1>2, <1>5, <1>6, <1>7, SeqEqual DEF s, t, u

\* Two stretches that meet are one.
LEMMA BytesMeet ==
  ASSUME NEW a \in Nat, NEW b \in Nat, NEW c \in Nat, a <= b, b <= c
  PROVE  Bytes(a, b) \o Bytes(b, c) = Bytes(a, c)
<1> DEFINE s == Bytes(a, b)
           t == Bytes(b, c)
           u == Bytes(a, c)
<1>a. s \in Seq(Nat) /\ Len(s) = b - a /\ \A i \in 1 .. b - a : s[i] = a + i - 1
  <2>1. b - a = IF b > a THEN b - a ELSE 0
    OBVIOUS
  <2> QED BY <2>1, BytesFacts
<1>b. t \in Seq(Nat) /\ Len(t) = c - b /\ \A i \in 1 .. c - b : t[i] = b + i - 1
  <2>1. c - b = IF c > b THEN c - b ELSE 0
    OBVIOUS
  <2> QED BY <2>1, BytesFacts
<1>c. u \in Seq(Nat) /\ Len(u) = c - a /\ \A i \in 1 .. c - a : u[i] = a + i - 1
  <2>1. c - a = IF c > a THEN c - a ELSE 0
    OBVIOUS
  <2> QED BY <2>1, BytesFacts
<1>1. /\ s \in Seq(Nat) /\ Len(s) = b - a /\ \A i \in 1 .. b - a : s[i] = a + i - 1
      /\ t \in Seq(Nat) /\ Len(t) = c - b /\ \A i \in 1 .. c - b : t[i] = b + i - 1
      /\ u \in Seq(Nat) /\ Len(u) = c - a /\ \A i \in 1 .. c - a : u[i] = a + i - 1
  BY <1>a, <1>b, <1>c
<1> HIDE DEF s, t, u
<1>2. /\ s \o t \in Seq(Nat) /\ Len(s \o t) = Len(s) + Len(t)
      /\ \A i \in 1 .. Len(s) + Len(t) : (s \o t)[i] = IF i <= Len(s) THEN s[i] ELSE t[i - Len(s)]
  BY <1>1, ConcatProperties
<1>3. Len(s \o t) = Len(u) /\ Len(s \o t) = c - a
  BY <1>1, <1>2
<1>4. ASSUME NEW i \in 1 .. c - a PROVE (s \o t)[i] = u[i]
  <2>1. i \in 1 .. Len(s) + Len(t)
    BY <1>1
  <2>2. CASE i <= Len(s)
    <3>1. i \in 1 .. b - a
      BY <1>1, <2>2
    <3> QED BY <1>1, <1>2, <2>1, <2>2, <3>1
  <2>3. CASE ~ (i <= Len(s))
    <3>1. i - Len(s) \in 1 .. c - b /\ b + (i - Len(s)) - 1 = a + i - 1
      BY <1>1, <2>3
    <3>2. (s \o t)[i] = t[i - Len(s)]
      BY <1>2, <2>1, <2>3
    <3> QED BY <1>1, <3>1, <3>2
  <2> QED BY <2>2, <2>3
<1>5. \A i \in 1 .. Len(s \o t) : (s \o t)[i] = u[i]
  BY <1>3, <1>4
<1> QED BY <1>1, <1>2, <1>3, <1>5, SeqEqual DEF s, t, u

\* The pages saveToCache() takes from a chunk are those that lie in it.
LEMMA WholePagesFacts ==
  ASSUME NEW offset \in Nat, NEW length \in Nat
  PROVE  /\ WholePages(offset, length) \in Seq(Nat)
         /\ ToSet(WholePages(offset, length)) = Nodes(WholePages(offset, length))
         /\ Nodes(WholePages(offset, length)) =
              {n \in Nat : offset <= n * PageSize /\ (n + 1) * PageSize <= offset + length}
<1> DEFINE p == PageSize
           first == Ceil(offset)
           end == offset + length
           behind == end \div p
           w == WholePages(offset, length)
           k == IF behind > first THEN behind - first ELSE 0
<1>1. p \in Nat \ {0} /\ end \in Nat
  BY VfsAssumption
<1>2. first \in Nat /\ offset <= first * p /\ first * p < offset + p
  BY CeilOf
<1>3. behind \in Nat /\ behind * p <= end /\ end < behind * p + p
  BY <1>1, PageOf
<1>4. w = [i \in 1 .. behind - first |-> first + i - 1]
  BY DEF WholePages, FirstWholePage
<1> HIDE DEF p, first, end, behind, w
<1>5. k \in Nat /\ 1 .. k = 1 .. behind - first /\ \A i \in 1 .. k : first + i - 1 \in Nat
  BY <1>2, <1>3
<1> HIDE DEF k
<1>6. w \in [1 .. k -> Nat]
  BY <1>4, <1>5
<1>7. w \in Seq(Nat) /\ Len(w) = k /\ DOMAIN w = 1 .. k
  BY <1>5, <1>6, SeqDef
<1>8. ToSet(w) = Nodes(w)
  BY <1>7 DEF ToSet, Nodes
<1>9. ASSUME NEW n \in Nat
      PROVE  offset <= n * p /\ (n + 1) * p <= end <=> first <= n /\ n < behind
  <2>1. /\ n * p \in Int /\ (n + 1) * p = n * p + p
        /\ behind * p \in Int /\ first * p \in Int
        /\ (first - 1) * p = first * p - p /\ (behind + 1) * p = behind * p + p
    <3>1. \A m \in Int : m * p \in Int /\ (m + 1) * p = m * p + p
      BY <1>1, PageGrows
    <3>2. first - 1 \in Int /\ first - 1 + 1 = first
      BY <1>2
    <3> QED BY <1>1, <1>2, <1>3, <3>1, <3>2
  <2>2. first <= n <=> first * p <= n * p
    BY <1>1, <1>2, PagesInOrder
  <2>3. first - 1 < n <=> (first - 1) * p < n * p
    BY <1>1, <1>2, PagesInOrder
  <2>4. n + 1 <= behind <=> (n + 1) * p <= behind * p
    BY <1>1, <1>3, PagesInOrder
  <2>5. n + 1 < behind + 1 <=> (n + 1) * p < (behind + 1) * p
    BY <1>1, <1>3, PagesInOrder
  <2> HIDE DEF p, first, behind, end
  <2>6. PICK np \in Int, fp \in Int, bp \in Int :
          np = n * p /\ fp = first * p /\ bp = behind * p
    BY <2>1
  <2> QED BY <1>1, <1>2, <1>3, <2>1, <2>2, <2>3, <2>4, <2>5, <2>6
<1>10. Nodes(w) = {n \in Nat : first <= n /\ n < behind}
  <2>1. ASSUME NEW i \in 1 .. k PROVE w[i] \in Nat /\ first <= w[i] /\ w[i] < behind
    BY <1>2, <1>3, <1>4, <1>5
  <2>2. ASSUME NEW n \in Nat, first <= n, n < behind PROVE \E i \in 1 .. k : n = w[i]
    <3>1. n - first + 1 \in 1 .. k /\ first + (n - first + 1) - 1 = n
      BY <1>2, <1>3, <1>5, <2>2
    <3> QED BY <1>4, <1>5, <3>1
  <2> QED BY <1>7, <2>1, <2>2 DEF Nodes
<1> QED BY <1>7, <1>8, <1>9, <1>10 DEF w, p, end

-----------------------------------------------------------------------------
(* The cache.                                                              *)

\* The list is in the order of use, and holds the pages; they are the source's,
\* and are counted.
PageInv == /\ source \in 0 .. MaxBytes
           /\ cacheSize \in 0 .. maxCacheSize
           /\ Listed(queue, recency)
           /\ DOMAIN queue.next = DOMAIN pages
           /\ CacheIsCoherent

\* What the invariant says of the pages and of their number.
LEMMA PageInvFacts ==
  ASSUME PageInv
  PROVE  /\ source \in Nat /\ cacheSize \in Nat /\ cacheSize <= maxCacheSize
         /\ DOMAIN pages = Nodes(recency) /\ recency \in Seq(Nat)
         /\ \A n \in DOMAIN pages : n \in Nat
         /\ IsFiniteSet(DOMAIN pages) /\ Cardinality(DOMAIN pages) = Len(recency)
         /\ Len(recency) \in Nat
         /\ cacheSize = PageSize * Len(recency)
<1>1. Listed(queue, recency) /\ DOMAIN queue.next = DOMAIN pages
  BY DEF PageInv
<1>2. DOMAIN pages = Nodes(recency) /\ recency \in Seq(Nat) /\ Distinct(recency)
  BY <1>1 DEF Listed
<1>3. \A n \in Nodes(recency) : n \in Nat
  BY <1>1, ListedFacts
<1>4. IsFiniteSet(Nodes(recency)) /\ Cardinality(Nodes(recency)) = Len(recency) /\ Len(recency) \in Nat
  BY <1>2, NodesCounted, LenProperties
<1>5. source \in Nat /\ cacheSize \in Nat /\ cacheSize <= maxCacheSize
  BY VfsAssumption DEF PageInv
<1>6. cacheSize = PageSize * Cardinality(DOMAIN pages)
  BY DEF PageInv, CacheIsCoherent
<1> QED BY <1>2, <1>3, <1>4, <1>5, <1>6

\* So many pages go, and the rest fits.
LEMMA ExcessFacts ==
  ASSUME NEW n \in Nat
  PROVE  LET total == PageSize * n
             e == Excess(total) IN
         /\ e \in 0 .. n
         /\ total - PageSize * e = PageSize * (n - e)
         /\ PageSize * (n - e) \in 0 .. maxCacheSize
<1> DEFINE p == PageSize
           total == p * n
           e == Excess(total)
<1>1. p \in Nat \ {0} /\ maxCacheSize \in Nat
  BY VfsAssumption
<1>2. total \in Nat /\ total = n * p
  BY <1>1, PageGrows
<1>3. CASE total > maxCacheSize
  <2> DEFINE x == total - maxCacheSize
             c == Ceil(x)
  <2>1. x \in Nat /\ x <= total
    BY <1>1, <1>2, <1>3
  <2>2. c \in Nat /\ x <= c * p /\ c * p < x + p /\ c * p \in Nat
    BY <2>1, CeilOf
  <2>3. e = c
    BY <1>3 DEF Excess
  <2> HIDE DEF c, e
  <2>4. (n + 1) * p = n * p + p
    BY <1>1, PageGrows
  <2>5. c * p < (n + 1) * p
    <3> HIDE DEF p, total
    <3>1. PICK u : u \in Nat /\ u = c * p
      BY <2>2
    <3>2. u < total + p
      BY <1>1, <1>2, <2>1, <2>2, <3>1
    <3> QED BY <1>2, <2>4, <3>1, <3>2
  <2>6. c < n + 1
    <3> HIDE DEF p
    <3> QED BY <1>1, <2>2, <2>5, PagesInOrder
  <2>7. c <= n /\ (n - c) * p = n * p - c * p /\ n - c \in Nat
    <3> HIDE DEF p
    <3> QED BY <1>1, <2>2, <2>6, PagesAdd
  <2>8. p * (n - c) = (n - c) * p /\ p * c = c * p
    BY <1>1, <2>2, <2>7
  <2>9. (n - c) * p \in Nat /\ (n - c) * p <= maxCacheSize
    <3> HIDE DEF p, total
    <3>1. (n - c) * p \in Int /\ (n - c) * p >= 0
      BY <1>1, <2>7, PageGrows
    <3> QED BY <1>1, <1>2, <2>1, <2>2, <2>7, <3>1
  <2> QED BY <1>1, <1>2, <2>2, <2>3, <2>7, <2>8, <2>9 DEF e
<1>4. CASE ~ (total > maxCacheSize)
  <2>1. e = 0
    BY <1>4 DEF Excess
  <2> QED BY <1>1, <1>2, <1>4, <2>1 DEF e
<1> QED BY <1>3, <1>4

\* A page of a chunk is the source's page.
LEMMA SavedPage ==
  ASSUME NEW offset \in Nat, NEW length \in Nat, NEW n \in Nat,
         offset <= n * PageSize, (n + 1) * PageSize <= offset + length
  PROVE  SubSeq(Bytes(offset, offset + length), n * PageSize - offset + 1,
                                             (n + 1) * PageSize - offset)
           = Bytes(n * PageSize, (n + 1) * PageSize)
<1> DEFINE a == n * PageSize
           b == (n + 1) * PageSize
           end == offset + length
           m == a - offset
           k == b - offset
<1>1. PageSize \in Nat \ {0}
  BY VfsAssumption
<1>2. a \in Int /\ a >= 0 /\ b = a + PageSize
  BY <1>1, PageGrows
<1>3. offset <= a /\ b <= end
  OBVIOUS
<1> HIDE DEF a, b
<1>4. Inside(offset, end, m, k, a, b)
  BY <1>1, <1>2, <1>3 DEF Inside
<1> HIDE DEF end, m, k
<1>5. SubSeq(Bytes(offset, end), m + 1, k) = Bytes(a, b)
  BY <1>4, SubBytes
<1> QED BY <1>5 DEF a, b, end, m, k

\* Whatever chunk is saved, the cache stays in order.
LEMMA SavedChunk ==
  ASSUME PageInv, NEW offset \in Nat, NEW length \in Nat, offset + length <= source,
         SaveToCache(offset, Bytes(offset, offset + length)), source' = source
  PROVE  PageInv'
<1> DEFINE data == Bytes(offset, offset + length)
           w == WholePages(offset, length)
           K == DOMAIN pages
           total == Counted(K, ToSet(w))
           s == UseAll(recency, w)
           q == TouchAll(queue, w)
           e == Excess(total)
           kept == ShiftTimes(q, e)
           d == Dropped(s, e)
<1>0. Len(data) = length
  <2>1. PICK end : end \in Nat /\ end = offset + length /\ end - offset = length
    OBVIOUS
  <2>2. Len(Bytes(offset, end)) = IF end > offset THEN end - offset ELSE 0
    BY <2>1, BytesFacts
  <2> QED BY <2>1, <2>2
<1>1. CASE UNCHANGED cache
  BY <1>1 DEF cache, PageInv, CacheIsCoherent
<1>2. CASE ~UNCHANGED cache
  <2>1. /\ queue' = kept
        /\ cacheSize' = total - PageSize * e
        /\ pages' = [n \in DOMAIN kept.next |->
                       IF n \in ToSet(w)
                         THEN SubSeq(data, n * PageSize - offset + 1, (n + 1) * PageSize - offset)
                         ELSE pages[n]]
        /\ recency' = d
    BY <1>0, <1>2 DEF SaveToCache
  <2>2. /\ w \in Seq(Nat) /\ ToSet(w) = Nodes(w)
        /\ Nodes(w) = {n \in Nat : offset <= n * PageSize /\ (n + 1) * PageSize <= offset + length}
    BY WholePagesFacts
  <2>3. /\ K = Nodes(recency) /\ IsFiniteSet(K) /\ Cardinality(K) = Len(recency)
        /\ Len(recency) \in Nat /\ cacheSize = PageSize * Len(recency)
        /\ Listed(queue, recency)
    BY PageInvFacts DEF PageInv
  <2> HIDE DEF data, w, K, kept, q, s, d, e
  <2>4. Listed(q, s) /\ Nodes(s) = K \cup Nodes(w)
    BY <2>2, <2>3, TouchAllListed DEF q, s
  <2>5. PICK n \in Nat : n = Len(s) /\ IsFiniteSet(Nodes(s)) /\ Cardinality(Nodes(s)) = n
    <3>1. s \in Seq(Nat) /\ Distinct(s)
      BY <2>4 DEF Listed
    <3> QED BY <3>1, NodesCounted, LenProperties
  <2>6. PICK more \in Nat : more = Cardinality(Nodes(w) \ K) /\ n = Cardinality(K) + more
    <3> DEFINE M == Nodes(w) \ K
    <3>1. IsFiniteSet(M)
      <4>1. M \in SUBSET Nodes(s)
        BY <2>4
      <4> HIDE DEF M
      <4> QED BY <2>5, <4>1, FS_Subset
    <3>2. Nodes(s) = K \cup M /\ K \cap M = {}
      BY <2>4
    <3> HIDE DEF M
    <3>3. Cardinality(M) \in Nat
      BY <3>1, FS_CardinalityType
    <3>4. Cardinality(K \cup M) = Cardinality(K) + Cardinality(M) - Cardinality(K \cap M)
      BY <2>3, <3>1, FS_Union
    <3>5. Cardinality(K \cap M) = 0
      BY <3>2, FS_EmptySet
    <3> QED BY <2>3, <2>5, <3>2, <3>3, <3>4, <3>5 DEF M
  <2>7. total = PageSize * n
    <3>1. total = PageSize * Len(recency) + PageSize * more
      BY <2>2, <2>3, <2>6 DEF Counted
    <3>2. PageSize \in Nat \ {0}
      BY VfsAssumption
    <3> QED BY <2>3, <2>6, <3>1, <3>2
  <2> HIDE DEF total
  <2>8. /\ e \in 0 .. n /\ total - PageSize * e = PageSize * (n - e)
        /\ PageSize * (n - e) \in 0 .. maxCacheSize
    BY <2>7, ExcessFacts DEF e
  <2>9. Listed(kept, d)
    <3>1. e \in 0 .. Len(s)
      BY <2>5, <2>8
    <3> QED BY <2>4, <3>1, ShiftTimesListed DEF kept, d
  <2>10. DOMAIN kept.next = Nodes(d) /\ d \in Seq(Nat) /\ Distinct(d)
    BY <2>9 DEF Listed
  <2>11. Len(d) = n - e /\ Nodes(d) \subseteq Nodes(s)
    <3>1. e \in 0 .. Len(s) /\ s \in Seq(Nat)
      BY <2>4, <2>5, <2>8 DEF Listed
    <3>2. Len(d) = Len(s) - e /\ \A i \in 1 .. Len(s) - e : d[i] = s[e + i]
      BY <3>1, DroppedProperties DEF d
    <3>3. \A i \in 1 .. Len(s) - e : e + i \in 1 .. Len(s)
      BY <2>5, <3>1
    <3> QED BY <2>5, <3>2, <3>3 DEF Nodes
  <2>12. Cardinality(Nodes(d)) = n - e
    BY <2>10, <2>11, NodesCounted
  <2>13. DOMAIN pages' = Nodes(d)
    BY <2>1, <2>10
  <2>14. ASSUME NEW m \in Nodes(d)
         PROVE  /\ pages'[m] = Bytes(m * PageSize, (m + 1) * PageSize)
                /\ (m + 1) * PageSize <= source
    <3>1. m \in Nodes(w) \/ m \in K
      BY <2>4, <2>11
    <3>2. CASE m \in Nodes(w)
      <4>1. /\ m \in Nat /\ offset <= m * PageSize /\ (m + 1) * PageSize <= offset + length
        BY <2>2, <3>2
      <4>2. pages'[m] = SubSeq(data, m * PageSize - offset + 1, (m + 1) * PageSize - offset)
        BY <2>1, <2>2, <2>10, <3>2
      <4>3. pages'[m] = Bytes(m * PageSize, (m + 1) * PageSize)
        BY <4>1, <4>2, SavedPage DEF data
      <4>4. (m + 1) * PageSize <= source
        <5>1. (m + 1) * PageSize \in Int
          <6>1. PageSize \in Nat \ {0} /\ m + 1 \in Int
            BY <4>1, VfsAssumption
          <6> QED BY <6>1, PageGrows
        <5>2. source \in Nat
          BY PageInvFacts
        <5> QED BY <4>1, <5>1, <5>2
      <4> QED BY <4>3, <4>4
    <3>3. CASE m \notin Nodes(w) /\ m \in K
      <4>1. pages'[m] = pages[m]
        BY <2>1, <2>2, <2>10, <3>3
      <4> QED BY <3>3, <4>1 DEF PageInv, CacheIsCoherent, K
    <3> QED BY <3>1, <3>2, <3>3
  <2>15. cacheSize' = PageSize * Cardinality(DOMAIN pages') /\ cacheSize' \in 0 .. maxCacheSize
    BY <2>1, <2>8, <2>12, <2>13
  <2>16. Listed(queue', recency') /\ DOMAIN queue'.next = DOMAIN pages'
    BY <2>1, <2>9, <2>10, <2>13
  <2>17. CacheIsCoherent'
    BY <2>13, <2>14, <2>15 DEF CacheIsCoherent
  <2> QED BY <2>15, <2>16, <2>17 DEF PageInv
<1> QED BY <1>1, <1>2

-----------------------------------------------------------------------------
(* Reads.                                                                  *)

\* The smaller of two numbers.
LEMMA MinOfTwo ==
  ASSUME NEW a \in Int, NEW b \in Int
  PROVE  Min({a, b}) = IF a <= b THEN a ELSE b
<1> DEFINE m == IF a <= b THEN a ELSE b
<1>1. m \in {a, b} /\ \A y \in {a, b} : m <= y
  OBVIOUS
<1>2. \A x \in {a, b} : (\A y \in {a, b} : x <= y) => x = m
  OBVIOUS
<1> HIDE DEF m
<1>3. Min({a, b}) = m
  BY <1>1, <1>2, Zenon DEF Min
<1> QED BY <1>3 DEF m

\* The pages at the front of a range are in the cache, and the next one is not.
LEMMA FrontPagesFacts ==
  ASSUME NEW first \in Nat, NEW count \in Nat
  PROVE  LET front == FrontPages(first, count) IN
         /\ front \in Seq(Nat) /\ Len(front) \in 0 .. count
         /\ \A i \in 1 .. Len(front) : front[i] = first + i - 1 /\ front[i] \in DOMAIN pages
         /\ Len(front) < count => first + Len(front) \notin DOMAIN pages
<1> DEFINE front == FrontPages(first, count)
           K == DOMAIN pages
           Hit(i) == \A n \in first .. first + i - 1 : n \in K
           hits == {i \in 0 .. count : Hit(i)}
           m == Max(hits)
<1>1. hits \subseteq 0 .. count
  OBVIOUS
<1>2. 0 \in hits
  <2>1. first .. first + 0 - 1 = {}
    OBVIOUS
  <2> QED BY <2>1
<1>3. front = [i \in 1 .. m |-> first + i - 1]
  BY DEF FrontPages
<1> HIDE DEF K, hits
<1>4. m \in hits /\ \A n \in hits : n <= m
  BY <1>1, <1>2, GreatestNumber
<1> HIDE DEF m, front
<1>5. m \in 0 .. count /\ Hit(m)
  BY <1>4 DEF hits
<1>6. front \in Seq(Nat) /\ Len(front) = m /\ \A i \in 1 .. m : front[i] = first + i - 1
  <2>1. \A i \in 1 .. m : first + i - 1 \in Nat
    BY <1>5
  <2>2. front \in [1 .. m -> Nat]
    BY <1>3, <2>1
  <2> QED BY <1>3, <1>5, <2>2, SeqDef
<1>7. \A i \in 1 .. m : first + i - 1 \in K
  BY <1>5
<1>8. ASSUME m < count, first + m \in K PROVE FALSE
  <2>1. m + 1 \in 0 .. count
    BY <1>5, <1>8
  <2>2. \A n \in first .. first + (m + 1) - 1 : n \in first .. first + m - 1 \/ n = first + m
    BY <1>5
  <2>3. Hit(m + 1)
    BY <1>5, <1>8, <2>2
  <2>4. m + 1 \in hits
    BY <2>1, <2>3 DEF hits
  <2> QED BY <1>4, <1>5, <2>4
<1> QED BY <1>5, <1>6, <1>7, <1>8 DEF front, K

\* So are those at its back, and between the two there is a page that is not.
LEMMA BackPagesFacts ==
  ASSUME NEW first \in Nat, NEW count \in Nat
  PROVE  LET front == FrontPages(first, count)
             back == BackPages(first, count) IN
         /\ back \in Seq(Nat) /\ Len(back) \in 0 .. count
         /\ \A i \in 1 .. Len(back) : /\ back[i] = first + count - i
                                      /\ back[i] \in DOMAIN pages
         /\ Len(front) = count => back = <<>>
         /\ Len(front) # count => Len(front) + Len(back) < count
<1> DEFINE front == FrontPages(first, count)
           back == BackPages(first, count)
           K == DOMAIN pages
           last == first + count - 1
           Hit(i) == \A n \in last - i + 1 .. last : n \in K
           hits == {i \in 0 .. count : Hit(i)}
           m == Max(hits)
<1>1. CASE Len(front) = count
  <2>1. back = <<>>
    BY <1>1 DEF BackPages
  <2>2. back \in Seq(Nat) /\ Len(back) = 0
    BY <2>1, EmptySeq
  <2> QED BY <1>1, <2>1, <2>2
<1>2. CASE Len(front) # count
  <2>1. hits \subseteq 0 .. count
    OBVIOUS
  <2>2. 0 \in hits
    <3>1. last - 0 + 1 .. last = {}
      OBVIOUS
    <3> QED BY <3>1
  <2>3. back = [i \in 1 .. m |-> last - i + 1]
    BY <1>2 DEF BackPages
  <2> HIDE DEF K, hits
  <2>4. m \in hits
    BY <2>1, <2>2, GreatestNumber
  <2> HIDE DEF m, back
  <2>5. m \in 0 .. count /\ Hit(m)
    BY <2>4 DEF hits
  <2>6. \A i \in 1 .. m : /\ last - i + 1 = first + count - i /\ first + count - i \in Nat
                          /\ last - i + 1 \in last - m + 1 .. last
    BY <2>5
  <2>7. back \in Seq(Nat) /\ Len(back) = m /\ \A i \in 1 .. m : back[i] = first + count - i
    <3>1. back \in [1 .. m -> Nat]
      BY <2>3, <2>6
    <3> QED BY <2>3, <2>5, <2>6, <3>1, SeqDef
  <2>8. \A i \in 1 .. m : first + count - i \in K
    BY <2>5, <2>6
  <2>9. Len(front) \in 0 .. count /\ (Len(front) < count => first + Len(front) \notin K)
    BY FrontPagesFacts DEF K
  <2> HIDE DEF front
  <2>10. Len(front) + m < count
    <3> DEFINE i == count - Len(front)
    <3>1. Len(front) < count /\ first + Len(front) \notin K /\ i \in Nat /\ i >= 1
      BY <1>2, <2>9
    <3>2. first + count - i = first + Len(front)
      BY <2>9
    <3>3. i \in 1 .. m => first + Len(front) \in K
      BY <2>8, <3>2
    <3> QED BY <2>5, <2>9, <3>1, <3>3
  <2> QED BY <1>2, <2>5, <2>7, <2>8, <2>10 DEF K, front, back
<1> QED BY <1>1, <1>2

-----------------------------------------------------------------------------
\* The pages from page a on, one after the other.
Stretch(s, a) == /\ s \in Seq(Seq(Nat))
                 /\ \A i \in 1 .. Len(s) :
                      s[i] = Bytes((a + i - 1) * PageSize, (a + i - 1 + 1) * PageSize)

\* Where a page begins is a byte.
LEMMA PageBegins ==
  ASSUME NEW n \in Nat
  PROVE  /\ n * PageSize \in Nat /\ (n + 1) * PageSize \in Nat
         /\ n * PageSize <= (n + 1) * PageSize
<1>1. PageSize \in Nat \ {0}
  BY VfsAssumption
<1>2. n * PageSize \in Int /\ n * PageSize >= 0 /\ (n + 1) * PageSize = n * PageSize + PageSize
  BY <1>1, PageGrows
<1>3. n * PageSize \in Nat
  BY <1>2
<1> QED BY <1>1, <1>2, <1>3

\* A stretch of pages and the page that follows it.
LEMMA PagesMeet ==
  ASSUME NEW m \in Nat, NEW n \in Nat, m <= n
  PROVE  Bytes(m * PageSize, n * PageSize) \o Bytes(n * PageSize, (n + 1) * PageSize)
           = Bytes(m * PageSize, (n + 1) * PageSize)
<1>1. PageSize \in Nat \ {0}
  BY VfsAssumption
<1>2. m * PageSize <= n * PageSize
  BY <1>1, PagesInOrder
<1>3. m * PageSize \in Nat
  BY PageBegins
<1>4. n * PageSize \in Nat /\ (n + 1) * PageSize \in Nat /\ n * PageSize <= (n + 1) * PageSize
  BY PageBegins
<1> QED BY <1>2, <1>3, <1>4, BytesMeet

\* Put together, they are the bytes from the first to the last.
LEMMA StretchIsWhole ==
  ASSUME NEW s, NEW a \in Nat, Stretch(s, a), NEW n, n = Len(s)
  PROVE  /\ n \in Nat
         /\ FlattenSeq(s) = Bytes(a * PageSize, (a + n) * PageSize)
<1> DEFINE B(i) == Bytes(a * PageSize, (a + i) * PageSize)
<1>1. n \in Nat
  BY LenProperties DEF Stretch
<1>2. PICK F : Heads(s, n, F) /\ FlattenSeq(s) = F[n]
  BY EndsExist DEF Stretch
<1>3. F[0] = <<>> /\ \A i \in 1 .. n : F[i] = F[i - 1] \o s[i]
  BY <1>2 DEF Heads
<1>4. B(0) = <<>>
  <2>1. a + 0 = a
    OBVIOUS
  <2>2. a * PageSize \in Nat
    BY PageBegins
  <2> QED BY <2>1, <2>2, BytesFacts
<1>5. ASSUME NEW i \in 1 .. n PROVE B(i - 1) \o s[i] = B(i)
  <2> DEFINE k == a + i - 1
  <2>1. k \in Nat /\ a <= k /\ a + (i - 1) = k /\ k + 1 = a + i
    BY <1>1
  <2>2. s[i] = Bytes(k * PageSize, (k + 1) * PageSize)
    BY DEF Stretch
  <2> HIDE DEF k
  <2>3. Bytes(a * PageSize, k * PageSize) \o Bytes(k * PageSize, (k + 1) * PageSize)
          = Bytes(a * PageSize, (k + 1) * PageSize)
    BY <2>1, PagesMeet
  <2> QED BY <2>1, <2>2, <2>3
<1> HIDE DEF B
<1> DEFINE T == {i \in 0 .. n : F[i] # B(i)}
<1>6. T = {}
  <2> SUFFICES ASSUME T # {} PROVE FALSE
    OBVIOUS
  <2>1. T \subseteq Nat
    BY <1>1
  <2> HIDE DEF T
  <2>2. PICK i \in T : \A j \in T : i <= j
    BY <2>1, LeastNumber
  <2>3. i \in 0 .. n /\ F[i] # B(i)
    BY <2>2 DEF T
  <2>4. i # 0
    BY <1>3, <1>4, <2>3
  <2>5. i \in 1 .. n /\ i - 1 \in 0 .. n /\ ~ (i <= i - 1)
    BY <1>1, <2>3, <2>4
  <2>6. F[i - 1] = B(i - 1)
    BY <2>2, <2>5 DEF T
  <2>7. F[i] = F[i - 1] \o s[i] /\ B(i - 1) \o s[i] = B(i)
    BY <1>3, <1>5, <2>5
  <2> QED BY <2>3, <2>6, <2>7
<1>7. n \in 0 .. n
  BY <1>1
<1>8. F[n] = B(n)
  BY <1>6, <1>7
<1> QED BY <1>1, <1>2, <1>8 DEF B

\* The elements of a sequence, from the last one down.
LEMMA ReverseProperties ==
  ASSUME NEW R, NEW s \in Seq(R)
  PROVE  /\ Reverse(s) \in Seq(R) /\ Len(Reverse(s)) = Len(s)
         /\ \A i \in 1 .. Len(s) : Reverse(s)[i] = s[Len(s) - i + 1]
<1>1. Len(s) \in Nat /\ \A i \in 1 .. Len(s) : s[i] \in R
  BY LenProperties, ElementOfSeq
<1>2. Reverse(s) = [i \in 1 .. Len(s) |-> s[Len(s) - i + 1]]
  BY DEF Reverse
<1>3. PICK n \in Nat : n = Len(s)
  BY <1>1
<1>4. \A i \in 1 .. n : n - i + 1 \in 1 .. n
  OBVIOUS
<1>5. Reverse(s) \in [1 .. n -> R]
  BY <1>1, <1>2, <1>3, <1>4
<1> QED BY <1>2, <1>3, <1>5, SeqDef

\* What read() has from the cache, for the pages from first to stop - 1: some at
\* the front and some at the back, all of them in the source already.
Parts(first, stop, front, back, since) ==
  /\ first \in Nat /\ stop \in Nat /\ since \in Nat
  /\ Stretch(front, first)
  /\ back \in Seq(Seq(Nat))
  /\ Stretch(Reverse(back), stop - Len(back))
  /\ first + Len(front) + Len(back) <= stop
  /\ Len(front) # 0 => (first + Len(front)) * PageSize <= since
  /\ Len(back) # 0 => stop * PageSize <= since

\* Cached pages are such parts.
LEMMA CachedParts ==
  ASSUME PageInv, NEW first \in Nat, NEW count \in Nat
  PROVE  LET front == FrontPages(first, count)
             back == BackPages(first, count) IN
         /\ Parts(first, first + count, Contents(front), Contents(back), source)
         /\ Len(Contents(front)) = Len(front) /\ Len(Contents(back)) = Len(back)
<1> DEFINE front == FrontPages(first, count)
           back == BackPages(first, count)
           f == Contents(front)
           g == Contents(back)
           rev == Reverse(g)
<1>1. /\ front \in Seq(Nat) /\ Len(front) \in 0 .. count
      /\ \A i \in 1 .. Len(front) : front[i] = first + i - 1 /\ front[i] \in DOMAIN pages
  BY FrontPagesFacts
<1>2. /\ back \in Seq(Nat) /\ Len(back) \in 0 .. count
      /\ \A i \in 1 .. Len(back) : back[i] = first + count - i /\ back[i] \in DOMAIN pages
      /\ Len(front) = count => back = <<>>
      /\ Len(front) # count => Len(front) + Len(back) < count
  BY BackPagesFacts
<1>3. source \in Nat /\ \A n \in DOMAIN pages : n \in Nat
  BY PageInvFacts
<1>4. \A n \in DOMAIN pages : /\ pages[n] = Bytes(n * PageSize, (n + 1) * PageSize)
                              /\ (n + 1) * PageSize <= source
  BY DEF PageInv, CacheIsCoherent
<1>5. \A n \in DOMAIN pages : pages[n] \in Seq(Nat)
  <2> TAKE n \in DOMAIN pages
  <2>1. n * PageSize \in Nat /\ (n + 1) * PageSize \in Nat
    BY <1>3, PageBegins
  <2> QED BY <1>4, <2>1, BytesFacts
<1> HIDE DEF front, back
<1>6. ASSUME NEW numbers \in Seq(Nat), \A i \in 1 .. Len(numbers) : numbers[i] \in DOMAIN pages
      PROVE  /\ Contents(numbers) \in Seq(Seq(Nat)) /\ Len(Contents(numbers)) = Len(numbers)
             /\ \A i \in 1 .. Len(numbers) : Contents(numbers)[i] = pages[numbers[i]]
  <2>1. Len(numbers) \in Nat /\ DOMAIN numbers = 1 .. Len(numbers)
    BY LenProperties
  <2>2. Contents(numbers) = [i \in 1 .. Len(numbers) |-> pages[numbers[i]]]
    BY <2>1 DEF Contents
  <2>3. PICK n \in Nat : n = Len(numbers)
    BY <2>1
  <2>4. Contents(numbers) \in [1 .. n -> Seq(Nat)]
    BY <1>5, <1>6, <2>2, <2>3
  <2> QED BY <2>2, <2>3, <2>4, SeqDef
<1>7. /\ f \in Seq(Seq(Nat)) /\ Len(f) = Len(front)
      /\ \A i \in 1 .. Len(front) : f[i] = pages[front[i]]
  BY <1>1, <1>6
<1>8. /\ g \in Seq(Seq(Nat)) /\ Len(g) = Len(back)
      /\ \A i \in 1 .. Len(back) : g[i] = pages[back[i]]
  BY <1>2, <1>6
<1> HIDE DEF f, g
<1>9. Stretch(f, first)
  <2> SUFFICES ASSUME NEW i \in 1 .. Len(f)
               PROVE  f[i] = Bytes((first + i - 1) * PageSize, (first + i - 1 + 1) * PageSize)
    BY <1>7 DEF Stretch
  <2>1. f[i] = pages[front[i]] /\ front[i] = first + i - 1 /\ front[i] \in DOMAIN pages
    BY <1>1, <1>7
  <2> QED BY <1>4, <2>1
<1>10. /\ rev \in Seq(Seq(Nat)) /\ Len(rev) = Len(back)
       /\ \A i \in 1 .. Len(back) : rev[i] = g[Len(back) - i + 1]
  BY <1>8, ReverseProperties
<1> HIDE DEF rev
<1>11. Stretch(rev, first + count - Len(back))
  <2> SUFFICES ASSUME NEW i \in 1 .. Len(rev)
               PROVE  rev[i] = Bytes((first + count - Len(back) + i - 1) * PageSize,
                                     (first + count - Len(back) + i - 1 + 1) * PageSize)
    BY <1>10 DEF Stretch
  <2>1. PICK b \in Nat : b = Len(back)
    BY <1>2
  <2> DEFINE j == b - i + 1
  <2>2. i \in 1 .. b /\ j \in 1 .. b /\ first + count - j = first + count - b + i - 1
    BY <1>10, <2>1
  <2>3. rev[i] = g[j]
    BY <1>10, <2>1, <2>2
  <2> HIDE DEF j
  <2>4. g[j] = pages[back[j]] /\ back[j] = first + count - j /\ back[j] \in DOMAIN pages
    BY <1>2, <1>8, <2>1, <2>2
  <2>5. pages[back[j]] = Bytes(back[j] * PageSize, (back[j] + 1) * PageSize)
    BY <1>4, <2>4
  <2> QED BY <2>1, <2>2, <2>3, <2>4, <2>5
<1>12. Len(front) # 0 => (first + Len(front)) * PageSize <= source
  <2> SUFFICES ASSUME Len(front) # 0 PROVE (first + Len(front)) * PageSize <= source
    OBVIOUS
  <2>1. PICK k \in Nat : k = Len(front) /\ k \in 1 .. Len(front)
    BY <1>1
  <2>2. front[k] = first + k - 1 /\ front[k] \in DOMAIN pages
    BY <1>1, <2>1
  <2>3. (front[k] + 1) * PageSize <= source
    BY <1>4, <2>2
  <2>4. front[k] + 1 = first + Len(front)
    BY <2>1, <2>2
  <2> QED BY <2>3, <2>4
<1>13. Len(back) # 0 => (first + count) * PageSize <= source
  <2> SUFFICES ASSUME Len(back) # 0 PROVE (first + count) * PageSize <= source
    OBVIOUS
  <2>1. 1 \in 1 .. Len(back)
    BY <1>2
  <2>2. back[1] = first + count - 1 /\ back[1] \in DOMAIN pages
    BY <1>2, <2>1
  <2>3. (back[1] + 1) * PageSize <= source
    BY <1>4, <2>2
  <2>4. back[1] + 1 = first + count
    BY <2>2
  <2> QED BY <2>3, <2>4
<1>14. first + Len(f) + Len(g) <= first + count
  <2>1. back = <<>> => Len(back) = 0
    BY EmptySeq
  <2> QED BY <1>1, <1>2, <1>7, <1>8, <2>1
<1>15. first + count \in Nat
  OBVIOUS
<1>16. Parts(first, first + count, f, g, source)
  <2>1. Len(f) = Len(front) /\ Len(g) = Len(back)
    BY <1>7, <1>8
  <2> QED BY <1>3, <1>8, <1>9, <1>11, <1>12, <1>13, <1>14, <1>15, <2>1 DEF Parts, rev
<1> QED BY <1>7, <1>8, <1>16 DEF f, g, front, back

\* What read() puts together, of a source that has grown to moment: all its
\* pages, or those at the front with what the source has of the rest.
LEMMA AssembledFacts ==
  ASSUME NEW first, NEW stop, NEW front, NEW back, NEW since,
         Parts(first, stop, front, back, since),
         NEW lo, lo = (first + Len(front)) * PageSize,
         NEW hi, hi = (stop - Len(back)) * PageSize,
         NEW moment \in Nat, since <= moment
  PROVE  /\ lo \in Nat /\ hi \in Nat /\ lo <= hi
         /\ first * PageSize \in Nat /\ stop * PageSize \in Nat
         /\ hi <= moment => Assembled(front, Bytes(lo, hi), back)
                              = Bytes(first * PageSize, stop * PageSize)
         /\ moment < hi => /\ Len(back) = 0 /\ hi = stop * PageSize
                           /\ Assembled(front, Bytes(lo, moment), back)
                                = Bytes(first * PageSize, moment)
<1> DEFINE F == first * PageSize
           L == stop * PageSize
           rev == Reverse(back)
<1>1. /\ first \in Nat /\ stop \in Nat /\ since \in Nat
      /\ Stretch(front, first) /\ Stretch(rev, stop - Len(back))
      /\ back \in Seq(Seq(Nat))
      /\ Len(front) # 0 => lo <= since
      /\ Len(back) # 0 => L <= since
      /\ first + Len(front) + Len(back) <= stop
  BY DEF Parts
<1>2. PICK f, b : f = Len(front) /\ b = Len(back) /\ f \in Nat /\ b \in Nat /\ Len(rev) = b
  BY <1>1, LenProperties, ReverseProperties DEF Stretch
<1>3. /\ first + f \in Nat /\ stop - b \in Nat /\ first <= first + f /\ first + f <= stop - b
      /\ stop - b <= stop /\ stop - b + b = stop
  BY <1>1, <1>2
<1>4. F \in Nat /\ lo \in Nat /\ hi \in Nat /\ L \in Nat
  BY <1>1, <1>2, <1>3, PageBegins
<1>5. F <= lo /\ lo <= hi /\ hi <= L
  <2>1. PageSize \in Nat \ {0}
    BY VfsAssumption
  <2>2. \A m, n \in Nat : m <= n => m * PageSize <= n * PageSize
    BY <2>1, PagesInOrder
  <2>3. PICK u \in Nat, v \in Nat : u = first + f /\ v = stop - b
    BY <1>3
  <2>4. first <= u /\ u <= v /\ v <= stop
    BY <1>3, <2>3
  <2>5. first * PageSize <= u * PageSize /\ u * PageSize <= v * PageSize
        /\ v * PageSize <= stop * PageSize
    BY <1>1, <2>2, <2>3, <2>4
  <2> QED BY <1>2, <2>3, <2>5
<1>6. FlattenSeq(front) = Bytes(F, lo)
  BY <1>1, <1>2, StretchIsWhole
<1>7. FlattenSeq(rev) = Bytes(hi, L)
  <2>1. FlattenSeq(rev) = Bytes((stop - b) * PageSize, (stop - b + b) * PageSize)
    BY <1>1, <1>2, <1>3, StretchIsWhole, ZenonT(30)
  <2> QED BY <1>2, <1>3, <2>1
<1>8. f = 0 => lo = F
  <2>1. first + 0 = first
    BY <1>1
  <2> QED BY <1>2, <2>1
<1>9. b = 0 => hi = L
  <2>1. stop - 0 = stop
    BY <1>1
  <2> QED BY <1>2, <2>1
<1> HIDE DEF F, L, rev
<1>a. \A x, y, z \in Nat : x <= y /\ y <= z => Bytes(x, y) \o Bytes(y, z) = Bytes(x, z)
  BY BytesMeet
<1>b. \A x, y \in Nat : y <= x => Bytes(x, y) = <<>>
  BY BytesFacts
<1>c. F <= F /\ moment <= moment
  BY <1>4
<1>10. ASSUME hi <= moment PROVE Assembled(front, Bytes(lo, hi), back) = Bytes(F, L)
  <2>1. F <= hi
    BY <1>4, <1>5
  <2>2. Bytes(F, lo) \o Bytes(lo, hi) = Bytes(F, hi)
    BY <1>4, <1>5, BytesMeet
  <2>3. Bytes(F, hi) \o Bytes(hi, L) = Bytes(F, L)
    BY <1>4, <1>5, <2>1, BytesMeet
  <2> QED BY <1>6, <1>7, <2>2, <2>3 DEF Assembled, rev
<1>11. ASSUME moment < hi
       PROVE  /\ Len(back) = 0 /\ hi = L
              /\ Assembled(front, Bytes(lo, moment), back) = Bytes(F, moment)
  <2>1. b = 0 /\ hi = L
    BY <1>1, <1>2, <1>4, <1>5, <1>9, <1>11
  <2>2. FlattenSeq(rev) = <<>> /\ Bytes(moment, moment) = <<>> /\ Bytes(F, F) = <<>>
    <3>1. hi <= L
      BY <1>5
    <3> QED BY <1>4, <1>7, <1>b, <1>c, <2>1
  <2>3. <<>> \o <<>> = <<>>
    BY <1>4, <1>a, <1>c, <2>2
  <2>4. moment < lo => Bytes(F, lo) = <<>> /\ Bytes(lo, moment) = <<>> /\ Bytes(F, moment) = <<>>
    <3> SUFFICES ASSUME moment < lo
                 PROVE  Bytes(F, lo) = <<>> /\ Bytes(lo, moment) = <<>> /\ Bytes(F, moment) = <<>>
      OBVIOUS
    <3>1. lo = F
      BY <1>1, <1>2, <1>4, <1>8
    <3>2. lo <= F /\ moment <= lo /\ moment <= F
      BY <1>4, <3>1
    <3> QED BY <1>4, <1>b, <3>2
  <2>5. Bytes(F, lo) \o Bytes(lo, moment) = Bytes(F, moment)
    <3>1. lo <= moment \/ moment < lo
      BY <1>4
    <3> QED BY <1>4, <1>5, <1>a, <2>3, <2>4, <3>1
  <2>6. Bytes(F, moment) \o <<>> = Bytes(F, moment)
    <3>1. F <= moment \/ moment <= F
      BY <1>4
    <3> QED BY <1>4, <1>a, <1>b, <1>c, <2>2, <2>3, <3>1
  <2> QED BY <1>2, <1>6, <2>1, <2>2, <2>5, <2>6 DEF Assembled, rev
<1> QED BY <1>4, <1>5, <1>10, <1>11 DEF F, L

\* For a range, a source cut off at x is as good as one that has grown to upTo.
CutOff(offset, length, x, upTo) ==
  x = upTo \/ (offset + length <= x /\ offset + length <= upTo)

\* Of the bytes it has put together from the page on in which the range begins,
\* read() returns those of the range.
LEMMA ReturnedFacts ==
  ASSUME NEW offset \in Nat, NEW length \in Nat, NEW least,
         NEW x \in Nat, NEW upTo \in Nat,
         CutOff(offset, length, x, upTo)
  PROVE  LET data == Bytes((offset \div PageSize) * PageSize, x)
             r == Returned(offset, length, data, least) IN
         /\ r.offset = offset /\ r.length = length /\ r.least = least /\ ~r.corrupt
         /\ r.data = Bytes(offset, Min({offset + length, upTo}))
<1> DEFINE F == (offset \div PageSize) * PageSize
           data == Bytes(F, x)
           begin == offset % PageSize
           n == IF begin + length < Len(data) THEN begin + length ELSE Len(data)
           r == Returned(offset, length, data, least)
           y == IF offset + length <= upTo THEN offset + length ELSE upTo
<1>1. F \in Nat /\ F <= offset /\ begin \in Nat /\ F + begin = offset
  <2>1. PageSize \in Nat \ {0}
    BY VfsAssumption
  <2>2. /\ offset \div PageSize \in Nat /\ F <= offset
        /\ begin = offset - F /\ begin \in Nat
    BY <2>1, PageOf
  <2>3. F \in Nat
    BY <2>2, PageBegins
  <2> QED BY <2>2, <2>3
<1>2. /\ r.offset = offset /\ r.length = length /\ r.least = least /\ ~r.corrupt
      /\ r.data = SubSeq(data, begin + 1, n)
  BY DEF Returned
<1> HIDE DEF F, begin, r
<1>3. Len(data) = IF x > F THEN x - F ELSE 0
  BY <1>1, BytesFacts
<1>4. Min({offset + length, upTo}) = y /\ y \in Nat
  <2>1. offset + length \in Int /\ upTo \in Int
    OBVIOUS
  <2> QED BY <2>1, MinOfTwo
<1> HIDE DEF data, n
<1>5. CASE x > F
  <2> DEFINE z == F + n
  <2>1. n \in Nat /\ n <= x - F /\ z \in Nat
        /\ n = IF begin + length < x - F THEN begin + length ELSE x - F
    BY <1>1, <1>3, <1>5 DEF n
  <2>2. z = IF offset + length < x THEN offset + length ELSE x
    BY <1>1, <1>5, <2>1
  <2>3. z = y
    BY <1>1, <2>2 DEF CutOff
  <2>4. Inside(F, x, begin, n, offset, y)
    BY <1>1, <1>4, <2>1, <2>3 DEF Inside
  <2>5. SubSeq(Bytes(F, x), begin + 1, n) = Bytes(offset, y)
    BY <2>4, SubBytes
  <2> QED BY <1>2, <1>4, <2>5 DEF data, r, F
<1>6. CASE ~ (x > F)
  <2>1. n = 0
    BY <1>1, <1>3, <1>6 DEF n
  <2>2. data = <<>> /\ Bytes(F, F) = <<>>
    <3>1. x <= F /\ F <= F
      BY <1>1, <1>6
    <3>2. \A a, b \in Nat : b <= a => Bytes(a, b) = <<>>
      BY BytesFacts
    <3> QED BY <1>1, <3>1, <3>2 DEF data
  <2>3. y <= offset
    BY <1>1, <1>6 DEF CutOff
  <2>4. Bytes(offset, y) = <<>>
    BY <1>4, <2>3, BytesFacts
  <2>5. SubSeq(<<>>, begin + 1, n) = <<>>
    <3>1. \A i \in begin + 1 .. 0 : <<>>[i] \in Nat
      BY <1>1
    <3>2. SubSeq(<<>>, begin + 1, 0) \in Seq(Nat) /\ Len(SubSeq(<<>>, begin + 1, 0)) = 0
      <4>1. begin + 1 \in Int /\ 0 \in Int /\ ~ (begin + 1 <= 0)
        BY <1>1
      <4> QED BY <3>1, <4>1, SubSeqProperties
    <3> QED BY <2>1, <3>2, EmptySeq
  <2> QED BY <1>2, <1>4, <2>2, <2>4, <2>5 DEF r, data, F
<1> QED BY <1>5, <1>6

\* The pages of a range.
LEMMA PagesOfRange ==
  ASSUME NEW offset \in Nat, NEW length \in Nat, length > 0
  PROVE  LET first == offset \div PageSize
             stop == Ceil(offset + length) IN
         /\ first \in Nat /\ stop \in Nat /\ stop - first \in Nat /\ first + (stop - first) = stop
         /\ stop * PageSize \in Nat /\ offset + length <= stop * PageSize
<1> DEFINE p == PageSize
           first == offset \div p
           end == offset + length
           stop == Ceil(end)
<1>1. p \in Nat \ {0} /\ end \in Nat /\ offset < end
  BY VfsAssumption
<1>2. first \in Nat /\ first * p <= offset
  BY <1>1, PageOf
<1> HIDE DEF end
<1>3. stop \in Nat /\ end <= stop * p /\ stop * p \in Nat
  BY <1>1, CeilOf
<1> HIDE DEF first, stop
<1>4. first * p \in Int /\ (first < stop <=> first * p < stop * p)
  BY <1>1, <1>2, <1>3, PageGrows, PagesInOrder
<1> HIDE DEF p
<1>5. first < stop
  BY <1>1, <1>2, <1>3, <1>4
<1>6. stop - first \in Nat /\ first + (stop - first) = stop
  BY <1>2, <1>3, <1>5
<1> QED BY <1>2, <1>3, <1>6 DEF first, stop, end, p

\* The read that waits for the source asks it for the pages in the middle.
ReadShape(r) ==
  LET first == r.offset \div PageSize
      stop == Ceil(r.offset + r.length)
  IN /\ r.offset \in Nat /\ r.length \in Nat /\ r.length > 0
     /\ Parts(first, stop, r.front, r.back, r.since)
     /\ r.readOffset = (first + Len(r.front)) * PageSize
     /\ r.readLength = (stop - first - Len(r.front) - Len(r.back)) * PageSize

ReadsInFlight == \A c \in Callers : InFlight(c, "read") => /\ ReadShape(call[c])
                                                           /\ call[c].since <= source

VfsInv == LockInv /\ PageInv /\ ReadsInFlight /\ ReadReturnsTheSource

\* A read that gives what the source held up to a moment of the call returns
\* the source.
LEMMA AnswerIsTrue ==
  ASSUME NEW offset \in Nat, NEW length \in Nat, NEW least \in Nat,
         NEW x \in Nat, NEW upTo \in Nat,
         CutOff(offset, length, x, upTo),
         source \in Nat, source' = source, least <= upTo, upTo <= source,
         result' = Returned(offset, length, Bytes((offset \div PageSize) * PageSize, x), least)
  PROVE  ReadReturnsTheSource'
<1> DEFINE data == Bytes((offset \div PageSize) * PageSize, x)
           r == Returned(offset, length, data, least)
           end == Min({offset + length, least})
<1>1. /\ r.offset = offset /\ r.length = length /\ r.least = least /\ ~r.corrupt
      /\ r.data = Bytes(offset, Min({offset + length, upTo}))
  BY ReturnedFacts
<1>2. result' = r
  OBVIOUS
<1> HIDE DEF r
<1>3. end \in Nat /\ end <= least
  <2>1. offset + length \in Int /\ least \in Int
    OBVIOUS
  <2>2. end = IF offset + length <= least THEN offset + length ELSE least
    BY <2>1, MinOfTwo
  <2> QED BY <2>2
<1> HIDE DEF end
<1>4. upTo \in end .. source'
  BY <1>3
<1>5. result'.data = Bytes(result'.offset, Min({result'.offset + result'.length, upTo}))
  BY <1>1, <1>2
<1>6. ~result'.corrupt /\ end = Min({result'.offset + result'.length, result'.least})
  BY <1>1, <1>2 DEF end
<1> QED BY <1>4, <1>5, <1>6 DEF ReadReturnsTheSource

\* No read has just finished.
LEMMA NothingIsTrue ==
  ASSUME source' \in Nat, Silent
  PROVE  ReadReturnsTheSource'
<1>1. /\ result'.offset = 0 /\ result'.length = 0 /\ result'.least = 0 /\ ~result'.corrupt
      /\ result'.data = <<>>
  BY DEF Silent, Nothing
<1>2. Min({0 + 0, 0}) = 0
  BY MinOfTwo
<1>3. Bytes(0, 0) = <<>>
  BY BytesFacts
<1>4. 0 \in 0 .. source'
  OBVIOUS
<1> QED BY <1>1, <1>2, <1>3, <1>4 DEF ReadReturnsTheSource

\* read() uses the pages it finds, and no other page comes or goes.
LEMMA ReadKeepsPages ==
  ASSUME PageInv, NEW c, NEW offset \in Nat, NEW length \in Nat, read(c, offset, length)
  PROVE  PageInv'
<1> DEFINE first == offset \div PageSize
           count == Ceil(offset + length) - first
           front == FrontPages(first, count)
           back == BackPages(first, count)
           used == front \o back
<1>1. /\ queue' = TouchAll(queue, used) /\ recency' = UseAll(recency, used)
      /\ length > 0
      /\ source' = source /\ pages' = pages /\ cacheSize' = cacheSize
  BY DEF read, Used
<1>2. first \in Nat /\ count \in Nat
  BY <1>1, PagesOfRange
<1> HIDE DEF first, count
<1>3. /\ front \in Seq(Nat) /\ Len(front) \in Nat
      /\ \A i \in 1 .. Len(front) : front[i] \in DOMAIN pages
  <2>1. /\ front \in Seq(Nat)
        /\ \A i \in 1 .. Len(front) : front[i] = first + i - 1 /\ front[i] \in DOMAIN pages
    BY <1>2, FrontPagesFacts
  <2> HIDE DEF front
  <2> QED BY <2>1, LenProperties
<1>4. /\ back \in Seq(Nat) /\ Len(back) \in Nat
      /\ \A i \in 1 .. Len(back) : back[i] \in DOMAIN pages
  <2>1. /\ back \in Seq(Nat)
        /\ \A i \in 1 .. Len(back) : back[i] = first + count - i /\ back[i] \in DOMAIN pages
    BY <1>2, BackPagesFacts
  <2> HIDE DEF back
  <2> QED BY <2>1, LenProperties
<1> HIDE DEF front, back
<1>5. /\ used \in Seq(Nat) /\ Len(used) = Len(front) + Len(back)
      /\ \A i \in 1 .. Len(front) + Len(back) :
           used[i] = IF i <= Len(front) THEN front[i] ELSE back[i - Len(front)]
  BY <1>3, <1>4, ConcatProperties
<1> HIDE DEF used
<1>6. Nodes(used) \subseteq DOMAIN pages
  <2> SUFFICES ASSUME NEW i \in 1 .. Len(front) + Len(back) PROVE used[i] \in DOMAIN pages
    BY <1>5 DEF Nodes
  <2>1. CASE i <= Len(front)
    BY <1>3, <1>5, <2>1, SMTT(30)
  <2>2. CASE ~ (i <= Len(front))
    <3>1. i - Len(front) \in 1 .. Len(back)
      BY <1>3, <1>4, <2>2
    <3> QED BY <1>4, <1>5, <2>2, <3>1
  <2> QED BY <2>1, <2>2
<1>7. Listed(queue, recency) /\ DOMAIN queue.next = DOMAIN pages /\ DOMAIN pages = Nodes(recency)
  BY PageInvFacts DEF PageInv
<1>8. Listed(queue', recency') /\ Nodes(recency') = DOMAIN pages
  <2>1. /\ Listed(TouchAll(queue, used), UseAll(recency, used))
        /\ Nodes(UseAll(recency, used)) = Nodes(recency) \cup Nodes(used)
    BY <1>5, <1>7, TouchAllListed
  <2> QED BY <1>1, <1>6, <1>7, <2>1
<1>9. DOMAIN queue'.next = DOMAIN pages'
  BY <1>1, <1>8 DEF Listed
<1>10. CacheIsCoherent'
  BY <1>1 DEF PageInv, CacheIsCoherent
<1> QED BY <1>1, <1>8, <1>9, <1>10 DEF PageInv

\* read() asks the source for the middle of the pages, or returns the cached
\* bytes, which are the source's.
LEMMA ReadStep ==
  ASSUME PageInv, LockInv, NEW c \in Callers, NEW offset \in Nat, NEW length \in Nat,
         read(c, offset, length)
  PROVE  \/ call' = call /\ ReadReturnsTheSource'
         \/ /\ \A d \in Callers : d # c => call'[d] = call[d]
            /\ ReadShape(call'[c]) /\ call'[c].since = source
            /\ Silent
<1> DEFINE first == offset \div PageSize
           stop == Ceil(offset + length)
           count == stop - first
           front == FrontPages(first, count)
           back == BackPages(first, count)
           f == Contents(front)
           g == Contents(back)
           request == [op |-> "read", offset |-> offset, length |-> length,
                       front |-> f, back |-> g,
                       readOffset |-> (first + Len(front)) * PageSize,
                       readLength |-> (count - Len(front) - Len(back)) * PageSize,
                       since |-> source]
<1>1. /\ length > 0 /\ source' = source
      /\ Len(front) = count =>
           /\ result' = Returned(offset, length, Assembled(f, <<>>, <<>>), source)
           /\ call' = call
      /\ Len(front) # count => Silent /\ call' = [call EXCEPT ![c] = request]
  BY DEF read
<1>2. /\ first \in Nat /\ stop \in Nat /\ count \in Nat /\ first + count = stop
      /\ stop * PageSize \in Nat /\ offset + length <= stop * PageSize
  BY <1>1, PagesOfRange
<1> HIDE DEF first, count
<1>3. /\ Parts(first, first + count, f, g, source)
      /\ Len(f) = Len(front) /\ Len(g) = Len(back)
  BY <1>2, CachedParts
<1>4. source \in Nat
  BY PageInvFacts
<1>5. Len(front) = count => back = <<>>
  BY <1>2, BackPagesFacts
<1> HIDE DEF stop, front, back
<1>6. CASE Len(front) = count
  <2> DEFINE lo == (first + Len(f)) * PageSize
             hi == (stop - Len(g)) * PageSize
  <2>1. Len(g) = 0 /\ g = <<>>
    <3>1. back = <<>> /\ Len(back) = 0 /\ DOMAIN back = {}
      BY <1>5, <1>6
    <3> QED BY <1>3, <3>1 DEF Contents
  <2>2. lo = stop * PageSize /\ hi = stop * PageSize
    <3>1. first + Len(f) = stop /\ stop - Len(g) = stop
      BY <1>2, <1>3, <1>6, <2>1
    <3> QED BY <3>1
  <2> HIDE DEF lo, hi, f, g
  <2>3. stop * PageSize <= source
    <3>1. Len(f) # 0 => (first + Len(f)) * PageSize <= source
      BY <1>3 DEF Parts
    <3>2. Len(f) # 0
      <4>1. first < stop
        <5>1. PageSize \in Nat \ {0}
          BY VfsAssumption
        <5>2. first * PageSize <= offset
          BY <5>1, PageOf DEF first
        <5>3. first = stop => FALSE
          <6> SUFFICES ASSUME first = stop PROVE FALSE
            OBVIOUS
          <6>1. stop * PageSize <= offset
            BY <5>2
          <6> QED BY <1>1, <1>2, <6>1
        <5> QED BY <1>2, <5>3
      <4> QED BY <1>2, <1>3, <1>6, <4>1
    <3> QED BY <2>2, <3>1, <3>2 DEF lo
  <2>4. Parts(first, stop, f, g, source) /\ source <= source
    BY <1>2, <1>3, <1>4
  <2>5. /\ lo \in Nat /\ hi <= source /\ first * PageSize \in Nat
        /\ Assembled(f, Bytes(lo, hi), g) = Bytes(first * PageSize, stop * PageSize)
    BY <1>4, <2>2, <2>3, <2>4, AssembledFacts DEF lo, hi
  <2>6. Bytes(lo, hi) = <<>>
    BY <1>2, <2>2, BytesFacts
  <2>7. result' = Returned(offset, length, Bytes(first * PageSize, stop * PageSize), source)
    BY <1>1, <1>6, <2>1, <2>5, <2>6
  <2>8. CutOff(offset, length, stop * PageSize, source)
    BY <1>2, <1>4, <2>3 DEF CutOff
  <2>9. source <= source
    BY <1>4
  <2>10. ReadReturnsTheSource'
    BY <1>1, <1>2, <1>4, <2>7, <2>8, <2>9, AnswerIsTrue DEF first
  <2> QED BY <1>1, <1>6, <2>10
<1>7. CASE Len(front) # count
  <2>1. \A d \in Callers : call'[d] = IF d = c THEN request ELSE call[d]
    BY <1>1, <1>7 DEF LockInv, CallsAreKnown
  <2>2. ReadShape(request) /\ request.since = source
    <3> HIDE DEF f, g
    <3>1. /\ request.offset = offset /\ request.length = length
          /\ request.front = f /\ request.back = g /\ request.since = source
          /\ request.readOffset = (first + Len(f)) * PageSize
          /\ request.readLength = (stop - first - Len(f) - Len(g)) * PageSize
      BY <1>3 DEF count
    <3> HIDE DEF request
    <3>2. Parts(first, stop, f, g, source)
      BY <1>2, <1>3
    <3> QED BY <1>1, <3>1, <3>2 DEF ReadShape, first, stop
  <2> HIDE DEF request
  <2> QED BY <1>1, <1>7, <2>1, <2>2
<1> QED BY <1>6, <1>7

\* What the source answers, up to an end that lies in the middle or beyond it.
LEMMA AnswerLength ==
  ASSUME NEW lo \in Nat, NEW hi \in Nat, lo <= hi, NEW moment \in Nat
  PROVE  LET held == IF moment > lo THEN moment - lo ELSE 0
             data == Bytes(lo, lo + Min({held, hi - lo})) IN
         /\ hi <= moment => data = Bytes(lo, hi) /\ ~ (Len(data) < hi - lo)
         /\ moment < hi => data = Bytes(lo, moment)
<1> DEFINE held == IF moment > lo THEN moment - lo ELSE 0
           m == Min({held, hi - lo})
           data == Bytes(lo, lo + m)
<1>1. m = IF held <= hi - lo THEN held ELSE hi - lo
  <2>1. held \in Int /\ hi - lo \in Int
    OBVIOUS
  <2> QED BY <2>1, MinOfTwo
<1> HIDE DEF m
<1>2. m \in Nat /\ lo + m \in Nat
  BY <1>1
<1>3. Len(data) = m
  <2>1. PICK n \in Nat : n = lo + m
    BY <1>2
  <2>2. Len(Bytes(lo, n)) = IF n > lo THEN n - lo ELSE 0
    BY BytesFacts
  <2> QED BY <1>2, <2>1, <2>2
<1>4. CASE hi <= moment
  <2>1. lo + m = hi /\ m = hi - lo /\ ~ (hi - lo < hi - lo)
    BY <1>1, <1>4
  <2>2. data = Bytes(lo, hi) /\ ~ (Len(data) < hi - lo)
    BY <1>3, <2>1
  <2> QED BY <1>4, <2>2 DEF m
<1>5. CASE moment < hi
  <2>1. data = Bytes(lo, moment)
    <3>1. CASE moment > lo
      <4>1. lo + m = moment
        BY <1>1, <1>5, <3>1
      <4> QED BY <4>1
    <3>2. CASE ~ (moment > lo)
      <4>1. lo + m = lo /\ moment <= lo /\ lo <= lo
        BY <1>1, <1>5, <3>2
      <4>2. \A x, y \in Nat : y <= x => Bytes(x, y) = <<>>
        BY BytesFacts
      <4> QED BY <4>1, <4>2
    <3> QED BY <3>1, <3>2
  <2> QED BY <1>5, <2>1 DEF m
<1> QED BY <1>4, <1>5

\* What a read returns when the source has answered.
LEMMA ReadDoneStep ==
  ASSUME source \in Nat, NEW c, ReadShape(call[c]), call[c].since <= source, ReadDone(c)
  PROVE  ReadReturnsTheSource'
<1> DEFINE r == call[c]
           first == r.offset \div PageSize
           stop == Ceil(r.offset + r.length)
           f == Len(r.front)
           b == Len(r.back)
           lo == (first + f) * PageSize
           hi == (stop - b) * PageSize
           Held(end) == IF end > r.readOffset THEN end - r.readOffset ELSE 0
           Data(end) == Bytes(r.readOffset, r.readOffset + Min({Held(end), r.readLength}))
<1>1. /\ r.offset \in Nat /\ r.length \in Nat /\ r.length > 0
      /\ Parts(first, stop, r.front, r.back, r.since)
      /\ r.readOffset = lo /\ r.readLength = (stop - first - f - b) * PageSize
  BY DEF ReadShape
<1>2. PICK moment \in r.since .. source :
        IF Len(Data(moment)) < r.readLength /\ r.back # <<>>
          THEN result' = [Returned(r.offset, r.length, <<>>, r.since) EXCEPT !.corrupt = TRUE]
          ELSE result' = Returned(r.offset, r.length,
                                  Assembled(r.front, Data(moment), r.back), r.since)
  BY DEF ReadDone
<1>3. source' = source
  BY DEF ReadDone
<1>4. /\ first \in Nat /\ stop \in Nat
      /\ stop * PageSize \in Nat /\ r.offset + r.length <= stop * PageSize
  BY <1>1, PagesOfRange
<1>5. r.since \in Nat /\ r.back \in Seq(Seq(Nat)) /\ Stretch(r.front, first)
  BY <1>1 DEF Parts
<1>6. moment \in Nat /\ r.since <= moment /\ moment <= source
  BY <1>2, <1>5
<1>7. f \in Nat /\ b \in Nat /\ (b = 0 <=> r.back = <<>>)
  BY <1>5, LenProperties, EmptySeq DEF Stretch
<1> HIDE DEF r, first, stop, Data
<1>8. /\ lo \in Nat /\ hi \in Nat /\ lo <= hi
      /\ first * PageSize \in Nat
      /\ hi <= moment => Assembled(r.front, Bytes(lo, hi), r.back)
                           = Bytes(first * PageSize, stop * PageSize)
      /\ moment < hi => /\ b = 0 /\ hi = stop * PageSize
                        /\ Assembled(r.front, Bytes(lo, moment), r.back)
                             = Bytes(first * PageSize, moment)
  BY <1>1, <1>6, AssembledFacts
<1>9. r.readLength = hi - lo
  <2>1. PICK u, v : u \in Int /\ v \in Int /\ u = first + f /\ v = stop - b
    <3>1. first + f \in Int /\ stop - b \in Int
      BY <1>4, <1>7
    <3> QED BY <3>1
  <2>2. v - u = stop - first - f - b
    BY <1>4, <1>7, <2>1
  <2>3. PageSize \in Nat \ {0}
    BY VfsAssumption
  <2>4. (v - u) * PageSize = v * PageSize - u * PageSize
    <3>1. u \in Int /\ v \in Int
      BY <2>1
    <3> QED BY <2>3, <3>1, PagesAdd
  <2> QED BY <1>1, <2>1, <2>2, <2>4
<1> HIDE DEF lo, hi, f, b
<1>10. /\ hi <= moment => Data(moment) = Bytes(lo, hi) /\ ~ (Len(Data(moment)) < r.readLength)
       /\ moment < hi => Data(moment) = Bytes(lo, moment)
  <2>1. Data(moment) = Bytes(lo, lo + Min({IF moment > lo THEN moment - lo ELSE 0, hi - lo}))
    BY <1>1, <1>9 DEF Data
  <2>2. LET held == IF moment > lo THEN moment - lo ELSE 0
            data == Bytes(lo, lo + Min({held, hi - lo})) IN
        /\ hi <= moment => data = Bytes(lo, hi) /\ ~ (Len(data) < hi - lo)
        /\ moment < hi => data = Bytes(lo, moment)
    BY <1>6, <1>8, AnswerLength
  <2> HIDE DEF Data
  <2> QED BY <1>9, <2>1, <2>2
<1>11. r.offset \div PageSize = first
  BY DEF first
<1>12. CASE hi <= moment
  <2>1. result' = Returned(r.offset, r.length, Bytes(first * PageSize, stop * PageSize), r.since)
    BY <1>2, <1>8, <1>10, <1>12
  <2>2. stop * PageSize <= moment
    <3>1. b = 0 => hi = stop * PageSize
      <4>1. stop - 0 = stop
        BY <1>4
      <4> QED BY <4>1 DEF hi
    <3>2. b # 0 => stop * PageSize <= r.since
      BY <1>1 DEF Parts, b
    <3> QED BY <1>4, <1>5, <1>6, <1>12, <3>1, <3>2
  <2>3. CutOff(r.offset, r.length, stop * PageSize, moment)
    <3>1. r.offset + r.length <= moment
      BY <1>1, <1>4, <1>6, <2>2
    <3> QED BY <1>4, <3>1 DEF CutOff
  <2> QED BY <1>1, <1>3, <1>4, <1>5, <1>6, <1>11, <2>1, <2>3, AnswerIsTrue
<1>13. CASE moment < hi
  <2>1. b = 0 /\ r.back = <<>>
    BY <1>7, <1>8, <1>13
  <2>2. result' = Returned(r.offset, r.length, Bytes(first * PageSize, moment), r.since)
    BY <1>2, <1>8, <1>10, <1>13, <2>1
  <2>3. CutOff(r.offset, r.length, moment, moment)
    BY DEF CutOff
  <2> QED BY <1>1, <1>3, <1>5, <1>6, <1>11, <2>2, <2>3, AnswerIsTrue
<1> QED BY <1>6, <1>8, <1>12, <1>13

-----------------------------------------------------------------------------
(* The steps.                                                              *)

\* An empty cache of an empty source.
LEMMA VfsInit == Init => VfsInv
<1> SUFFICES ASSUME Init
             PROVE  VfsInv
  OBVIOUS
<1>1. LockInv
  BY LockInit
<1>2. /\ source = 0 /\ pages = <<>> /\ queue = EmptyQueue /\ cacheSize = 0
      /\ result = Nothing /\ recency = <<>>
  BY DEF Init
<1>3. recency \in Seq(Nat) /\ Len(recency) = 0 /\ 1 .. Len(recency) = {}
  BY <1>2, EmptySeq
<1>4. DOMAIN queue.next = {} /\ DOMAIN queue.prev = {} /\ queue.first = Null /\ queue.last = Null
  BY <1>2 DEF EmptyQueue
<1>5. Nodes(recency) = {}
  BY <1>3 DEF Nodes
<1>6. Listed(queue, recency)
  BY <1>3, <1>4, <1>5 DEF Listed, Distinct, Linked, FirstOf, LastOf
<1>7. DOMAIN pages = {}
  BY <1>2
<1>8. CacheIsCoherent
  <2>1. Cardinality(DOMAIN pages) = 0
    BY <1>7, FS_EmptySet
  <2>2. PageSize * 0 = 0
    BY VfsAssumption
  <2> QED BY <1>2, <1>7, <2>1, <2>2 DEF CacheIsCoherent
<1>9. PageInv
  <2>1. 0 \in 0 .. MaxBytes /\ 0 \in 0 .. maxCacheSize
    BY VfsAssumption
  <2> QED BY <1>2, <1>4, <1>6, <1>7, <1>8, <2>1 DEF PageInv
<1>10. ReadsInFlight
  BY DEF ReadsInFlight, InFlight, Init, Idle
<1>11. ReadReturnsTheSource
  <2>1. /\ result.offset = 0 /\ result.length = 0 /\ result.least = 0 /\ ~result.corrupt
        /\ result.data = <<>>
    BY <1>2 DEF Nothing
  <2>2. Min({0 + 0, 0}) = 0
    BY MinOfTwo
  <2>3. Bytes(0, 0) = <<>>
    BY BytesFacts
  <2>4. 0 \in 0 .. source
    BY <1>2
  <2> QED BY <2>1, <2>2, <2>3, <2>4 DEF ReadReturnsTheSource
<1> QED BY <1>1, <1>9, <1>10, <1>11 DEF VfsInv

\* The cache is as it was, and the source has not shrunk.
LEMMA PagesKept ==
  ASSUME PageInv, UNCHANGED cache, source' \in 0 .. MaxBytes, source <= source'
  PROVE  PageInv'
<1>1. source \in Nat /\ source' \in Nat /\ \A n \in DOMAIN pages : n \in Nat
  BY PageInvFacts
<1>2. pages' = pages /\ queue' = queue /\ cacheSize' = cacheSize /\ recency' = recency
  BY DEF cache
<1>3. \A n \in DOMAIN pages : (n + 1) * PageSize <= source'
  <2> TAKE n \in DOMAIN pages
  <2>1. (n + 1) * PageSize <= source
    BY DEF PageInv, CacheIsCoherent
  <2>2. (n + 1) * PageSize \in Nat
    BY <1>1, PageBegins
  <2> QED BY <1>1, <2>1, <2>2
<1> QED BY <1>2, <1>3 DEF PageInv, CacheIsCoherent

\* A call ends, or one that does not read begins.
LEMMA ReadsKept ==
  ASSUME ReadsInFlight, LockInv, source' = source, NEW c \in Callers, NEW request,
         request.op # "read", call' = [call EXCEPT ![c] = request]
  PROVE  ReadsInFlight'
<1>1. \A d \in Callers : call'[d] = IF d = c THEN request ELSE call[d]
  BY DEF LockInv, CallsAreKnown
<1> QED BY <1>1 DEF ReadsInFlight, InFlight

\* The source may have grown, and the same calls wait.
LEMMA ReadsUntouched ==
  ASSUME ReadsInFlight, source \in Nat, source' \in Nat, source <= source', call' = call
  PROVE  ReadsInFlight'
<1>1. ASSUME NEW c \in Callers, InFlight(c, "read")'
      PROVE  ReadShape(call'[c]) /\ call'[c].since <= source'
  <2>1. ReadShape(call[c]) /\ call[c].since <= source
    BY <1>1 DEF ReadsInFlight, InFlight
  <2>2. call[c].since \in Nat
    BY <2>1 DEF ReadShape, Parts
  <2>3. call[c].since <= source'
    BY <2>1, <2>2
  <2> QED BY <2>1, <2>3
<1> QED BY <1>1 DEF ReadsInFlight

\* One step per action of the Vfs.
LEMMA VfsStep == VfsInv /\ [Next]_vars => VfsInv'
<1> SUFFICES ASSUME VfsInv, [Next]_vars
             PROVE  VfsInv'
  OBVIOUS
<1>1. LockInv /\ PageInv /\ ReadsInFlight /\ ReadReturnsTheSource /\ LockInv'
  BY LockStep DEF VfsInv
<1>2. source \in Nat /\ source \in 0 .. MaxBytes /\ source <= source
  BY <1>1, PageInvFacts DEF PageInv
<1>3. ASSUME UNCHANGED cache, source' = source, Silent,
             NEW c \in Callers, NEW request, request.op # "read",
             call' = [call EXCEPT ![c] = request]
      PROVE  VfsInv'
  BY <1>1, <1>2, <1>3, PagesKept, ReadsKept, NothingIsTrue DEF VfsInv
<1>4. CASE SourceGrows
  <2>1. source' \in 0 .. MaxBytes /\ source <= source' /\ source' \in Nat
    BY <1>2, <1>4, VfsAssumption DEF SourceGrows
  <2>2. UNCHANGED cache /\ call' = call /\ Silent
    BY <1>4 DEF SourceGrows
  <2> QED BY <1>1, <1>2, <2>1, <2>2, PagesKept, ReadsUntouched, NothingIsTrue DEF VfsInv
<1>5. ASSUME NEW c \in Callers, setup(c) \/ teardown(c) \/ size(c)
      PROVE  VfsInv'
  <2>1. PICK op \in {"setup", "teardown", "size"} : Begin(c, op)
    BY <1>5 DEF setup, teardown, size
  <2> DEFINE request == [op |-> op]
  <2>2. /\ UNCHANGED cache /\ source' = source /\ Silent
        /\ call' = [call EXCEPT ![c] = request]
    BY <2>1 DEF Begin, cache
  <2>3. request.op # "read"
    OBVIOUS
  <2> HIDE DEF request
  <2> QED BY <1>3, <2>2, <2>3
<1>6. ASSUME NEW c \in Callers, NEW offset \in 0 .. MaxBytes, NEW length \in 1 .. MaxLength,
             read(c, offset, length)
      PROVE  VfsInv'
  <2>1. offset \in Nat /\ length \in Nat
    BY VfsAssumption
  <2>2. PageInv' /\ source' = source
    BY <1>1, <1>6, <2>1, ReadKeepsPages DEF read
  <2>3. \/ call' = call /\ ReadReturnsTheSource'
        \/ /\ \A d \in Callers : d # c => call'[d] = call[d]
           /\ ReadShape(call'[c]) /\ call'[c].since = source
           /\ Silent
    BY <1>1, <1>6, <2>1, ReadStep
  <2>4. CASE call' = call /\ ReadReturnsTheSource'
    BY <1>1, <1>2, <2>2, <2>4, ReadsUntouched DEF VfsInv
  <2>5. CASE /\ \A d \in Callers : d # c => call'[d] = call[d]
             /\ ReadShape(call'[c]) /\ call'[c].since = source
             /\ Silent
    <3>1. ReadsInFlight'
      BY <1>1, <1>2, <2>2, <2>5 DEF ReadsInFlight, InFlight
    <3> QED BY <1>1, <1>2, <2>2, <2>5, <3>1, NothingIsTrue DEF VfsInv
  <2> QED BY <2>3, <2>4, <2>5
<1>7. ASSUME NEW c \in Callers, NEW offset \in 0 .. MaxBytes,
             NEW length \in 1 .. maxCacheSize + 1, SourceSaves(c, offset, length)
      PROVE  VfsInv'
  <2>1. offset \in Nat /\ length \in Nat
    BY VfsAssumption
  <2>2. /\ offset + length <= source /\ SaveToCache(offset, Bytes(offset, offset + length))
        /\ Silent /\ source' = source /\ call' = call
    BY <1>7 DEF SourceSaves
  <2>3. PageInv'
    BY <1>1, <2>1, <2>2, SavedChunk
  <2> QED BY <1>1, <1>2, <2>2, <2>3, ReadsUntouched, NothingIsTrue DEF VfsInv
<1>8. ASSUME NEW c \in Callers,
             SetupDone(c) \/ TeardownDone(c) \/ SizeDone(c) \/ SourceThrows(c)
      PROVE  VfsInv'
  <2> DEFINE request == Idle
  <2>1. /\ UNCHANGED cache /\ source' = source /\ Silent
        /\ call' = [call EXCEPT ![c] = request]
    BY <1>8 DEF SetupDone, TeardownDone, SizeDone, SourceThrows, End, cache
  <2>2. request.op # "read"
    BY DEF Idle
  <2> HIDE DEF request
  <2> QED BY <1>3, <2>1, <2>2
<1>9. ASSUME NEW c \in Callers, ReadDone(c)
      PROVE  VfsInv'
  <2> DEFINE request == Idle
  <2>1. /\ UNCHANGED cache /\ source' = source /\ InFlight(c, "read")
        /\ call' = [call EXCEPT ![c] = request]
    BY <1>9 DEF ReadDone, End, cache
  <2>2. request.op # "read"
    BY DEF Idle
  <2> HIDE DEF request
  <2>3. ReadShape(call[c]) /\ call[c].since <= source
    BY <1>1, <2>1 DEF ReadsInFlight
  <2>4. ReadReturnsTheSource'
    BY <1>2, <1>9, <2>3, ReadDoneStep
  <2> QED BY <1>1, <1>2, <2>1, <2>2, <2>4, PagesKept, ReadsKept DEF VfsInv
<1>10. CASE UNCHANGED vars
  <2>1. UNCHANGED cache /\ source' = source /\ call' = call /\ result' = result
    BY <1>10 DEF vars, cache
  <2>2. ReadReturnsTheSource'
    BY <1>1, <2>1 DEF ReadReturnsTheSource
  <2> QED BY <1>1, <1>2, <2>1, <2>2, PagesKept, ReadsUntouched DEF VfsInv
<1> QED BY <1>4, <1>5, <1>6, <1>7, <1>8, <1>9, <1>10 DEF Next

\* What is cached is the source's, and the counted size is the size of what is
\* cached, for pages of any size and a cache of any size, whatever chunks are
\* saved and whatever is read, while the source grows (vfs.js:236-260).
THEOREM CacheStaysCoherent == Spec => []CacheIsCoherent
<1>1. VfsInv => CacheIsCoherent
  BY DEF VfsInv, PageInv
<1> QED
  BY <1>1, VfsInit, VfsStep, PTL DEF Spec

\* The list runs, in both directions, through the cached pages in the order of
\* their last use, whatever is deleted from its middle or its ends
\* (unique-queue.js:18-72).
THEOREM QueueStaysInOrder == Spec => []QueueIsOrderOfUse
<1>1. VfsInv => QueueIsOrderOfUse
  BY ListedLists DEF VfsInv, PageInv, QueueIsOrderOfUse
<1> QED
  BY <1>1, VfsInit, VfsStep, PTL DEF Spec

\* A read returns the bytes it was asked for, up to an end that the source had
\* at some moment of the call, for any offset and length and any cache, and no
\* source that tells the truth is accused of corruption (vfs.js:145-178).
THEOREM ReadsReturnTheSource == Spec => []ReadReturnsTheSource
<1>1. VfsInv => ReadReturnsTheSource
  BY DEF VfsInv
<1> QED
  BY <1>1, VfsInit, VfsStep, PTL DEF Spec

\* The values of a Vfs have their types; above all the counted size of the cache
\* never exceeds its limit (vfs.js:258-263).
THEOREM VfsTypes == Spec => []TypeOK
<1>1. ASSUME VfsInv PROVE TypeOK
  <2>1. PageInv /\ LockInv
    BY <1>1 DEF VfsInv
  <2>2. source \in Nat /\ source \in 0 .. MaxBytes /\ \A n \in DOMAIN pages : n \in Nat
    BY <2>1, PageInvFacts DEF PageInv
  <2>3. ASSUME NEW n \in DOMAIN pages
        PROVE  n \in PageNumbers /\ Len(pages[n]) = PageSize
    <3> DEFINE a == n * PageSize
               b == (n + 1) * PageSize
    <3>1. pages[n] = Bytes(a, b) /\ b <= source /\ n \in Nat
      BY <2>1, <2>2 DEF PageInv, CacheIsCoherent
    <3>2. PageSize \in Nat \ {0} /\ MaxBytes \in Nat
      BY VfsAssumption
    <3>3. a \in Nat /\ b \in Nat /\ b = a + PageSize
      BY <3>1, <3>2, PageBegins, PageGrows
    <3> DEFINE m == MaxBytes \div PageSize
    <3>4. m \in Nat /\ MaxBytes < m * PageSize + PageSize
      BY <3>2, PageOf
    <3> HIDE DEF m
    <3>5. (m + 1) * PageSize = m * PageSize + PageSize /\ m * PageSize \in Int
      BY <3>2, <3>4, PageGrows
    <3>6. n < m + 1 <=> a < (m + 1) * PageSize
      BY <3>1, <3>2, <3>4, PagesInOrder
    <3>7. Len(Bytes(a, b)) = IF b > a THEN b - a ELSE 0
      BY <3>3, BytesFacts
    <3> HIDE DEF a, b
    <3>8. a < (m + 1) * PageSize
      BY <2>2, <3>1, <3>2, <3>3, <3>4, <3>5
    <3>9. n <= m
      BY <3>1, <3>4, <3>6, <3>8
    <3>10. Len(pages[n]) = PageSize
      BY <3>1, <3>2, <3>3, <3>7
    <3> QED BY <3>1, <3>4, <3>9, <3>10 DEF PageNumbers, m
  <2>4. /\ busy \in BOOLEAN /\ closed \in BOOLEAN /\ cacheSize \in 0 .. maxCacheSize
        /\ \A c \in Callers : call[c].op \in {"idle", "setup", "teardown", "size", "read"}
    BY <2>1 DEF LockInv, PageInv, CallsAreKnown, Ops
  <2> QED BY <2>2, <2>3, <2>4 DEF TypeOK
<1> QED
  BY <1>1, VfsInit, VfsStep, PTL DEF Spec
=============================================================================
