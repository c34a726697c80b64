--------------------------------- MODULE Vfs ---------------------------------
(***************************************************************************)
(* Vfs (src/shared/vfs.js): the lock that keeps the calls of a source      *)
(* apart, and its page cache, next to a source that grows and callers that *)
(* do not wait for each other.                                             *)
(*                                                                         *)
(* A source only grows, so a byte is named by its offset: the content of   *)
(* the source is 0, 1, 2, ... up to its size, and a page, or what a read   *)
(* returns, is a sequence of offsets.  A call of the source may take any   *)
(* time, may save chunks to the cache while it runs, and answers with what *)
(* the source held at some moment of the call, or throws.                  *)
(*                                                                         *)
(* A call that vfs.js rejects, because the Vfs is busy, closed or open     *)
(* already, changes nothing: it is the absence of the action.  So is a     *)
(* read of no bytes.                                                       *)
(***************************************************************************)
EXTENDS UniqueQueue, SequencesExt, FiniteSetsExt

CONSTANTS Callers,
          PageSize,      \* PAGE_SIZE
          maxCacheSize,  \* options.cacheSize
          MaxBytes,      \* bound: size of the source
          MaxLength      \* bound: length of a read

ASSUME VfsAssumption ==
  /\ PageSize \in Nat \ {0}
  /\ maxCacheSize \in Nat
  /\ MaxBytes \in Nat
  /\ MaxLength \in Nat

VARIABLES source,   \* size of the underlying source
          busy, closed,
          pages,    \* the cache: page number -> bytes
          queue,    \* pageNumbers
          cacheSize,
          call,     \* per caller: the call that waits for the source
          result,   \* what a read() that has just finished gives its caller
          recency   \* history: the cached pages in the order of their last use

vars == <<source, busy, closed, pages, queue, cacheSize, call, result, recency>>
cache == <<pages, queue, cacheSize, recency>>

Idle == [op |-> "idle"]

Nothing == [offset |-> 0, length |-> 0, least |-> 0, data |-> <<>>, corrupt |-> FALSE]

Silent == result' = Nothing

Bytes(from, to) == [i \in 1 .. to - from |-> from + i - 1]

Ceil(n) == (n + PageSize - 1) \div PageSize

Init == /\ source = 0
        /\ busy = FALSE
        /\ closed = TRUE
        /\ pages = <<>>
        /\ queue = EmptyQueue
        /\ cacheSize = 0
        /\ call = [c \in Callers |-> Idle]
        /\ result = Nothing
        /\ recency = <<>>

-----------------------------------------------------------------------------
(* The cache.                                                              *)

\* pageNumbers.delete(n), then pageNumbers.push(n)
Touch(q, n) == Push(Delete(q, n), n)

\* The same of the history.
Use(s, n) == Append(RemoveFirst(s, n), n)

\* Of all the pages of a list, one after the other.
TouchAll(q, numbers) ==
  LET after[i \in 0 .. Len(numbers)] == IF i = 0 THEN q ELSE Touch(after[i - 1], numbers[i])
  IN after[Len(numbers)]

UseAll(s, numbers) ==
  LET after[i \in 0 .. Len(numbers)] == IF i = 0 THEN s ELSE Use(after[i - 1], numbers[i])
  IN after[Len(numbers)]

\* So many times pageNumbers.shift().
ShiftTimes(q, times) ==
  LET after[i \in 0 .. times] == IF i = 0 THEN q ELSE Shift(after[i - 1])
  IN after[times]

FirstWholePage(offset) == Ceil(offset)

\* The pages that a chunk at this offset holds from end to end.
WholePages(offset, length) ==
  LET first == FirstWholePage(offset)
  IN [i \in 1 .. (offset + length) \div PageSize - first |-> first + i - 1]

\* Fault: a page that is saved again is counted again.
CountedTwice(known, saved) == cacheSize + PageSize * Cardinality(saved)

\* cacheSize after the loop: a page that replaces one is not counted.
Counted(known, saved) == cacheSize + PageSize * Cardinality(saved \ known)

\* Fault: one page at most is dropped.
ExcessOfOne(total) == IF total > maxCacheSize THEN 1 ELSE 0

\* How often the second loop of saveToCache() shifts the queue.
Excess(total) == IF total > maxCacheSize THEN Ceil(total - maxCacheSize) ELSE 0

\* The pages unused for longest go.
Dropped(s, n) == SubSeq(s, n + 1, Len(s))

\* saveToCache(offset, data): the whole pages go to the end of the queue, then
\* the oldest go until the rest fits.
SaveToCache(offset, data) ==
  LET saved == WholePages(offset, Len(data))
      total == Counted(DOMAIN pages, ToSet(saved))
      kept == ShiftTimes(TouchAll(queue, saved), Excess(total))
  IN IF Len(data) < PageSize \/ Len(data) > maxCacheSize THEN UNCHANGED cache
     ELSE /\ queue' = kept
          /\ cacheSize' = total - PageSize * Excess(total)
          /\ pages' = [n \in DOMAIN kept.next |->
                         IF n \in ToSet(saved)
                           THEN SubSeq(data, n * PageSize - offset + 1,
                                             (n + 1) * PageSize - offset)
                           ELSE pages[n]]
          /\ recency' = Dropped(UseAll(recency, saved), Excess(total))

\* readFromCache(): the cached pages at the front of a range, and those at its
\* back from the last one down.
FrontPages(first, count) ==
  LET hits == {i \in 0 .. count : \A n \in first .. first + i - 1 : n \in DOMAIN pages}
  IN [i \in 1 .. Max(hits) |-> first + i - 1]

BackPages(first, count) ==
  LET last == first + count - 1
      hits == {i \in 0 .. count : \A n \in last - i + 1 .. last : n \in DOMAIN pages}
  IN IF Len(FrontPages(first, count)) = count THEN <<>>
     ELSE [i \in 1 .. Max(hits) |-> last - i + 1]

\* Fault: the pages at the back are not moved to the end of the queue.
UsedInFront(front, back) == front

\* The pages that readFromCache() moves to the end of the queue, in order.
Used(front, back) == front \o back

Contents(numbers) == [i \in DOMAIN numbers |-> pages[numbers[i]]]

-----------------------------------------------------------------------------
(* The calls.  What follows the await runs when the source has answered.   *)

SourceGrows == /\ source < MaxBytes
               /\ source' = source + 1
               /\ Silent
               /\ UNCHANGED <<busy, closed, cache, call>>

\* The part of setup(), teardown() and size() before the await.
Begin(c, op) ==
  /\ call[c] = Idle
  /\ ~busy
  /\ busy' = TRUE
  /\ call' = [call EXCEPT ![c] = [op |-> op]]
  /\ Silent
  /\ UNCHANGED <<source, closed, cache>>

setup(c) == closed /\ Begin(c, "setup")

teardown(c) == ~closed /\ Begin(c, "teardown")

size(c) == ~closed /\ Begin(c, "size")

\* Fault: the pages at the back in the order in which they were found.
AssembledUnreversed(front, data, back) == FlattenSeq(front) \o data \o FlattenSeq(back)

Assembled(front, data, back) == FlattenSeq(front) \o data \o FlattenSeq(Reverse(back))

\* What read(offset, length) returns, of the pages it has put together.
Returned(offset, length, data, least) ==
  LET begin == offset % PageSize
  IN [offset |-> offset, length |-> length, least |-> least, corrupt |-> FALSE,
      data |-> SubSeq(data, begin + 1,
                      IF begin + length < Len(data) THEN begin + length ELSE Len(data))]

\* read() answers from the cache alone, with no await in between, or calls the
\* source for the pages in the middle.
read(c, offset, length) ==
  LET first == offset \div PageSize
      count == Ceil(offset + length) - first
      front == FrontPages(first, count)
      back == BackPages(first, count)
      used == Used(front, back)
  IN /\ call[c] = Idle
     /\ ~busy
     /\ ~closed
     /\ length > 0
     /\ queue' = TouchAll(queue, used)
     /\ recency' = UseAll(recency, front \o back)
     /\ IF Len(front) = count
          THEN /\ result' = Returned(offset, length,
                                     Assembled(Contents(front), <<>>, <<>>), source)
               /\ UNCHANGED <<busy, call>>
          ELSE /\ busy' = TRUE
               /\ call' = [call EXCEPT ![c] =
                    [op |-> "read", offset |-> offset, length |-> length,
                     front |-> Contents(front), back |-> Contents(back),
                     readOffset |-> (first + Len(front)) * PageSize,
                     readLength |-> (count - Len(front) - Len(back)) * PageSize,
                     since |-> source]]
               /\ Silent
     /\ UNCHANGED <<source, closed, pages, cacheSize>>

InFlight(c, op) == call[c].op = op

\* The source saves a chunk it has read while one of its functions runs.
SourceSaves(c, offset, length) ==
  /\ \E op \in {"setup", "size", "read"} : InFlight(c, op)
  /\ offset + length <= source
  /\ SaveToCache(offset, Bytes(offset, offset + length))
  /\ Silent
  /\ UNCHANGED <<source, busy, closed, call>>

\* Fault: a source that throws leaves the Vfs busy.
StayBusy(c) == UNCHANGED busy /\ call' = [call EXCEPT ![c] = Idle]

\* The finally of each method.
End(c) == busy' = FALSE /\ call' = [call EXCEPT ![c] = Idle]

SetupDone(c) == /\ InFlight(c, "setup")
                /\ closed' = FALSE
                /\ End(c)
                /\ Silent
                /\ UNCHANGED <<source, cache>>

TeardownDone(c) == /\ InFlight(c, "teardown")
                   /\ closed' = TRUE
                   /\ End(c)
                   /\ Silent
                   /\ UNCHANGED <<source, cache>>

SizeDone(c) == /\ InFlight(c, "size")
               /\ End(c)
               /\ Silent
               /\ UNCHANGED <<source, closed, cache>>

\* The source answers a read with what it held at some moment of the call, or
\* with more than it was asked for, of which the rest is cut off.
ReadDone(c) ==
  /\ InFlight(c, "read")
  /\ LET r == call[c]
         Held(end) == IF end > r.readOffset THEN end - r.readOffset ELSE 0
     IN \E moment \in r.since .. source :
          LET data == Bytes(r.readOffset,
                            r.readOffset + Min({Held(moment), r.readLength}))
          IN IF Len(data) < r.readLength /\ r.back # <<>>
               THEN result' = [Returned(r.offset, r.length, <<>>, r.since)
                                 EXCEPT !.corrupt = TRUE]
               ELSE result' = Returned(r.offset, r.length,
                                       Assembled(r.front, data, r.back), r.since)
  /\ End(c)
  /\ UNCHANGED <<source, closed, cache>>

SourceThrows(c) == /\ call[c] # Idle
                   /\ End(c)
                   /\ Silent
                   /\ UNCHANGED <<source, closed, cache>>

Next ==
  \/ SourceGrows
  \/ \E c \in Callers :
       \/ setup(c) \/ teardown(c) \/ size(c)
       \/ \E offset \in 0 .. MaxBytes, length \in 1 .. MaxLength : read(c, offset, length)
       \/ \E offset \in 0 .. MaxBytes, length \in 1 .. maxCacheSize + 1 :
            SourceSaves(c, offset, length)
       \/ SetupDone(c) \/ TeardownDone(c) \/ SizeDone(c) \/ ReadDone(c)
       \/ SourceThrows(c)

Spec == Init /\ [][Next]_vars

-----------------------------------------------------------------------------
PageNumbers == 0 .. MaxBytes \div PageSize

Pending == {c \in Callers : call[c] # Idle}

TypeOK ==
  /\ source \in 0 .. MaxBytes
  /\ busy \in BOOLEAN /\ closed \in BOOLEAN
  /\ DOMAIN pages \subseteq PageNumbers
  /\ \A n \in DOMAIN pages : Len(pages[n]) = PageSize
  /\ cacheSize \in 0 .. maxCacheSize
  /\ \A c \in Callers : call[c].op \in {"idle", "setup", "teardown", "size", "read"}

\* At most one call is with the source, and the Vfs is busy exactly then; the
\* source is asked to read and to measure only while it is set up, and to set
\* up only while it is not - whatever the callers do and whenever the source
\* throws (vfs.js:85-209).
CallsAreExclusive ==
  /\ busy <=> Pending # {}
  /\ \A c, d \in Pending : c = d
  /\ \A c \in Pending : closed <=> call[c].op = "setup"

\* A cached page is the source's page, and the counted size is the size of what
\* is cached, although pages are saved from chunks at any offset and with any
\* rest, again and again, while the source grows (vfs.js:236-260).
CacheIsCoherent ==
  /\ \A n \in DOMAIN pages : pages[n] = Bytes(n * PageSize, (n + 1) * PageSize)
  /\ \A n \in DOMAIN pages : (n + 1) * PageSize <= source
  /\ cacheSize = PageSize * Cardinality(DOMAIN pages)

\* The linked list runs through exactly the cached pages, in both directions,
\* in the order in which they were last used, so that the page that goes is the
\* one unused for longest (unique-queue.js:18-72, vfs.js:253-263, 275-292).
QueueIsOrderOfUse == Lists(queue, recency) /\ DOMAIN queue.next = DOMAIN pages

\* A read returns the bytes it was asked for, up to an end of the source that
\* is at least the one at the time of the call, however its pages were put
\* together from cache and source; a source that tells the truth is never
\* accused of corruption (vfs.js:145-178).
ReadReturnsTheSource ==
  LET end == Min({result.offset + result.length, result.least})
  IN /\ ~result.corrupt
     /\ \E upTo \in end .. source :
          result.data = Bytes(result.offset, Min({result.offset + result.length, upTo}))
=============================================================================
