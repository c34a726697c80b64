----------------------------- MODULE UniqueQueue -----------------------------
(***************************************************************************)
(* UniqueQueue (src/shared/unique-queue.js): a FIFO queue as a doubly      *)
(* linked list, with a map from each value to its node so that any value   *)
(* can be deleted.  A queue is a record: first and last, and for each      *)
(* value in the map its links.  A pointer to a node is the node's value,   *)
(* and the null pointer is Null; values are naturals.                      *)
(***************************************************************************)
EXTENDS Integers, Sequences, FiniteSets

Null == -1

EmptyQueue == [first |-> Null, last |-> Null, next |-> <<>>, prev |-> <<>>]

Has(queue, value) == value \in DOMAIN queue.next

\* f with the link of node set to target; nothing when node is null.
Link(f, node, target) ==
  [n \in DOMAIN f |-> IF n = node THEN target ELSE f[n]]

WithNode(f, node, target) ==
  [n \in DOMAIN f \cup {node} |-> IF n = node THEN target ELSE f[n]]

WithoutNode(f, node) == [n \in DOMAIN f \ {node} |-> f[n]]

\* push() throws on a value that is in the queue; no caller does that.
Push(queue, value) ==
  [first |-> IF queue.last = Null THEN value ELSE queue.first,
   last  |-> value,
   next  |-> WithNode(Link(queue.next, queue.last, value), value, Null),
   prev  |-> WithNode(queue.prev, value, queue.last)]

\* delete(): nothing happens for a value that is not there.
Delete(queue, value) ==
  LET before == queue.prev[value]
      after == queue.next[value]
  IN IF ~Has(queue, value) THEN queue
     ELSE [first |-> IF before = Null THEN after ELSE queue.first,
           last  |-> IF after = Null THEN before ELSE queue.last,
           next  |-> WithoutNode(Link(queue.next, before, after), value),
           prev  |-> WithoutNode(Link(queue.prev, after, before), value)]

\* shift() takes the first node out, which has none before it.
Shift(queue) ==
  IF queue.first = Null THEN queue
  ELSE LET node == queue.first
           after == queue.next[node]
       IN [first |-> after,
           last  |-> IF after = Null THEN Null ELSE queue.last,
           next  |-> WithoutNode(queue.next, node),
           prev  |-> WithoutNode(Link(queue.prev, after, Null), node)]

-----------------------------------------------------------------------------
\* s lists the queue: it holds each value in the map once, and the links lead
\* through it in both directions.
Lists(queue, s) ==
  /\ DOMAIN queue.next = DOMAIN queue.prev
  /\ {s[i] : i \in DOMAIN s} = DOMAIN queue.next
  /\ Len(s) = Cardinality(DOMAIN queue.next)
  /\ queue.first = IF s = <<>> THEN Null ELSE s[1]
  /\ queue.last = IF s = <<>> THEN Null ELSE s[Len(s)]
  /\ \A i \in DOMAIN s :
       /\ queue.next[s[i]] = IF i = Len(s) THEN Null ELSE s[i + 1]
       /\ queue.prev[s[i]] = IF i = 1 THEN Null ELSE s[i - 1]
=============================================================================
