------------------------------ MODULE LogReader ------------------------------
(***************************************************************************)
(* Range queries over a log directory: LogReader (src/shared/log-reader.js)*)
(* with its BoundFinder (src/shared/bound-finder.js), over every stream of *)
(* records that the cluster can leave in the files.                        *)
(*                                                                         *)
(* A query scans a stream of which it knows the size.  The binary search   *)
(* only says where to begin: timestamps are not sorted, since workers      *)
(* buffer and lag behind rotations, so every position is allowed here and  *)
(* the answer may not depend on it.  The Scanner is the position between   *)
(* two records: a scan that stops at a record leaves it to be read first   *)
(* by a scan in the other direction.  The bulk queries return the part of  *)
(* the stream between two such positions.                                  *)
(*                                                                         *)
(* NoWorker stands for the -1 that BoundFinder keeps for the master.       *)
(***************************************************************************)
EXTENDS Cluster

-----------------------------------------------------------------------------
(* BoundFinder: "known" is _allWorkers # null, "all" is _allWorkers,        *)
(* "pending" is _pendingWorkers, "reached" what the last call returned and  *)
(* "read" the records passed to it.                                         *)

Unknown == [known |-> FALSE, all |-> {}, pending |-> {}, reached |-> FALSE, read |-> 0]

\* new BoundFinder(bound, finder.state)
Inherit(finder) == [Unknown EXCEPT !.known = finder.known,
                                   !.all = finder.all, !.pending = finder.all]

OfWorker(log) == log.event = "WORKER_LOG"

\* pendingWorkers.delete(...), and whether that was the last one.
Drop(finder, ids) ==
  LET rest == finder.pending \ ids
  IN [finder EXCEPT !.pending = rest, !.reached = rest = {}]

\* Fault: not waiting for the workers.
LearnMasterOnly(finder, log, past) ==
  [finder EXCEPT !.known = TRUE, !.all = log.workerIds \cup {NoWorker},
                 !.pending = {NoWorker}, !.reached = past]

\* The first MASTER_PING tells who is there; those that are not past the bound
\* already are waited for.
Learn(finder, log, past) ==
  LET everyone == log.workerIds \cup {NoWorker}
  IN [finder EXCEPT !.known = TRUE,
                    !.all = everyone,
                    !.pending = IF past THEN log.workerIds ELSE everyone,
                    !.reached = past /\ log.workerIds = {}]

\* Fault: a worker that spawns before the bound is not waited for.
UpperBoundIgnoringSpawns(finder, log, bound) ==
  LET past == log.timestamp > bound IN
  CASE OfWorker(log) ->
         IF finder.known /\ past THEN Drop(finder, {log.workerId}) ELSE finder
    [] log.event = "STARTING_UP" ->
         [finder EXCEPT !.known = TRUE, !.all = {NoWorker}, !.pending = {NoWorker},
                        !.reached = past]
    [] ~OfWorker(log) /\ log.event # "STARTING_UP" /\ ~finder.known ->
         IF log.event = "MASTER_PING" THEN Learn(finder, log, past) ELSE finder
    [] OTHER -> IF past THEN Drop(finder, {NoWorker}) ELSE finder

reachedUpperBound(finder, log, bound) ==
  LET past == log.timestamp > bound
      byMaster == IF past THEN {NoWorker} ELSE {} IN
  CASE OfWorker(log) ->
         IF finder.known /\ past THEN Drop(finder, {log.workerId}) ELSE finder
    [] log.event = "STARTING_UP" ->
         [finder EXCEPT !.known = TRUE, !.all = {NoWorker}, !.pending = {NoWorker},
                        !.reached = past]
    [] log.event = "MASTER_PING" /\ ~finder.known -> Learn(finder, log, past)
    [] log.event = "WORKER_SPAWNED" /\ finder.known ->
         IF past THEN [Drop(finder, byMaster) EXCEPT !.all = @ \cup {log.workerId}]
                 ELSE [finder EXCEPT !.all = @ \cup {log.workerId},
                                     !.pending = @ \cup {log.workerId}]
    [] log.event = "WORKER_EXITED" /\ finder.known ->
         [Drop(finder, byMaster \cup {log.workerId}) EXCEPT !.all = @ \ {log.workerId}]
    [] OTHER -> IF finder.known /\ past THEN Drop(finder, byMaster) ELSE finder

\* Fault: reading backward, spawns and exits as if reading forward.
LowerBoundReadingForward(finder, log, bound) ==
  LET past == log.timestamp < bound
      byMaster == IF past THEN {NoWorker} ELSE {} IN
  CASE OfWorker(log) ->
         IF finder.known /\ past THEN Drop(finder, {log.workerId}) ELSE finder
    [] log.event = "STARTING_UP" ->
         [Unknown EXCEPT !.reached = past, !.read = finder.read]
    [] log.event = "MASTER_PING" /\ ~finder.known -> Learn(finder, log, past)
    [] log.event = "WORKER_SPAWNED" /\ finder.known ->
         [finder EXCEPT !.all = @ \cup {log.workerId},
                        !.pending = @ \cup {log.workerId}]
    [] log.event = "WORKER_EXITED" /\ finder.known ->
         [Drop(finder, byMaster \cup {log.workerId}) EXCEPT !.all = @ \ {log.workerId}]
    [] OTHER -> IF finder.known /\ past THEN Drop(finder, byMaster) ELSE finder

reachedLowerBound(finder, log, bound) ==
  LET past == log.timestamp < bound
      byMaster == IF past THEN {NoWorker} ELSE {} IN
  CASE OfWorker(log) ->
         IF finder.known /\ past THEN Drop(finder, {log.workerId}) ELSE finder
    [] log.event = "STARTING_UP" ->
         [Unknown EXCEPT !.reached = past, !.read = finder.read]
    [] log.event = "MASTER_PING" /\ ~finder.known -> Learn(finder, log, past)
    [] log.event = "WORKER_SPAWNED" /\ finder.known ->
         [Drop(finder, byMaster \cup {log.workerId}) EXCEPT !.all = @ \ {log.workerId}]
    [] log.event = "WORKER_EXITED" /\ finder.known ->
         IF past THEN [Drop(finder, byMaster) EXCEPT !.all = @ \cup {log.workerId}]
                 ELSE [finder EXCEPT !.all = @ \cup {log.workerId},
                                     !.pending = @ \cup {log.workerId}]
    [] OTHER -> IF finder.known /\ past THEN Drop(finder, byMaster) ELSE finder

-----------------------------------------------------------------------------
(* The scans of LogReader, over S from the position before record p.        *)

\* for await (const log of scanner.forwardScan()) ... until the upper bound: the
\* finder after each record; once it has reached the bound, the scan is left.
ForwardTo(S, p, bound, finder) ==
  LET after[n \in p - 1 .. Len(S)] ==
        IF n < p THEN finder
        ELSE LET f == after[n - 1]
             IN IF f.reached THEN f
                ELSE [reachedUpperBound(f, S[n], bound) EXCEPT !.read = @ + 1]
  IN after[Len(S)]

\* for await (const log of scanner.backwardScan()) ... until the lower bound.
BackwardTo(S, p, bound, finder) ==
  LET after[n \in 1 .. p] ==
        IF n = p THEN finder
        ELSE LET f == after[n + 1]
             IN IF f.reached THEN f
                ELSE [reachedLowerBound(f, S[n], bound) EXCEPT !.read = @ + 1]
  IN after[1]

\* Where a first scan ends, and the finder that the next one inherits.
LowerEnd(S, p, min) ==
  LET lower == BackwardTo(S, p, min, Unknown)
  IN [at |-> p - lower.read, finder |-> Inherit(lower)]

UpperEnd(S, p, max) ==
  LET upper == ForwardTo(S, p, max, Unknown)
  IN [at |-> p + upper.read, finder |-> Inherit(upper)]

\* The records from the first to the last that have one of these timestamps.
Within(S, first, last, times) ==
  LET kept[n \in first - 1 .. last] ==
        IF n < first THEN <<>>
        ELSE IF S[n].timestamp \in times THEN Append(kept[n - 1], S[n])
        ELSE kept[n - 1]
  IN kept[last]

\* range(min, max): from the lower end forward, with its state.
range(S, lower, min, max) ==
  LET upper == ForwardTo(S, lower.at, max, lower.finder)
  IN Within(S, lower.at, lower.at + upper.read - 1, min .. max)

\* rangeReversed(min, max), in the order of the stream.
rangeReversed(S, upper, min, max) ==
  LET lower == BackwardTo(S, upper.at, min, upper.finder)
  IN Within(S, upper.at - lower.read, upper.at - 1, min .. max)

\* bulkTail(min), up to the size it knows: everything from the lower end on.
bulkTail(S, lower) == SubSeq(S, lower.at, Len(S))

\* tail(min) leaves out what is too old.
tail(S, lower, min) ==
  LET rest == bulkTail(S, lower)
  IN Within(rest, 1, Len(rest), {time \in Nat : time >= min})

\* bulkRange and bulkRangeReversed: the two ends are found independently.
bulkRange(S, lower, upper) == SubSeq(S, lower.at, upper.at - 1)

-----------------------------------------------------------------------------
(* What the queries return, for every starting point and every range.       *)

\* No record is younger than the clock, so later bounds are like the clock's.
Times == 0 .. clock

\* Every sequence of records a reader may be looking at: the first few files.
\* It is enough to ask once all processes are gone: whatever the files hold at
\* some moment, they also hold in the states where everyone was killed then,
\* before the clock went on.
Streams ==
  IF /\ mpc = "down" /\ Live = {} /\ throws = 0
     /\ \E f \in DOMAIN disk : \E i \in DOMAIN disk[f] : disk[f][i].timestamp = clock
    THEN {FlattenSeq(SubSeq(disk, 1, k)) : k \in DOMAIN disk}
    ELSE {}

LowerEnds(S, min) == {LowerEnd(S, p, min) : p \in 1 .. Len(S) + 1}
UpperEnds(S, max) == {UpperEnd(S, p, max) : p \in 1 .. Len(S) + 1}

\* range() and rangeReversed() return every record with a timestamp in the
\* range, wherever the binary search starts them and whatever order spawns,
\* exits, rotations, restarts and late flushes left the records in: stopping
\* early at a bound loses nothing (log-reader.js:79-173, bound-finder.js:4-16).
RangesAreComplete ==
  \A S \in Streams : \A min, max \in Times : min <= max =>
    LET expected == Within(S, 1, Len(S), min .. max)
    IN /\ \A lower \in LowerEnds(S, min) : range(S, lower, min, max) = expected
       /\ \A upper \in UpperEnds(S, max) : rangeReversed(S, upper, min, max) = expected

\* tail() misses no record from its minimum on (log-reader.js:22-77).
TailIsComplete ==
  \A S \in Streams : \A min \in Times : \A lower \in LowerEnds(S, min) :
    tail(S, lower, min) = Within(S, 1, Len(S), min .. clock)

\* The bulk queries cover the range although each end is found from scratch,
\* from a starting point of its own (log-reader.js:233-339).
BulkRangesCover ==
  \A S \in Streams : \A min, max \in Times : min <= max =>
    \A lower \in LowerEnds(S, min), upper \in UpperEnds(S, max) :
      LET bulk == bulkRange(S, lower, upper)
      IN Within(bulk, 1, Len(bulk), min .. max) = Within(S, 1, Len(S), min .. max)
=============================================================================
