------------------------------- MODULE Logger -------------------------------
(***************************************************************************)
(* One Logger object (src/nodejs/logger.js): the in-memory batch, the      *)
(* output timer, the file descriptor and the slice marker.  Every public   *)
(* method and the timer callback run to completion on one JavaScript       *)
(* thread, so each is one action; what interleaves is the caller, the      *)
(* timer and the outcome of each system call.                              *)
(*                                                                         *)
(* writevSync either writes everything ("full"), throws having written     *)
(* nothing ("throws": ENOSPC, EIO, EAGAIN), or writes a strict prefix and  *)
(* reports so in a return value that flush() does not look at ("short").   *)
(* A CONSTANT says which of the three the file system may produce.         *)
(*                                                                         *)
(* A file is a flat sequence of records together with the positions of its *)
(* block separators and slice markers.  Compression and escaping do not    *)
(* change what a block contains and are left out; closeSync succeeds.      *)
(***************************************************************************)
EXTENDS Naturals, Sequences, SequencesExt

CONSTANTS NumFiles,        \* files are numbered in the order they are named
          Sizes,           \* byte lengths of the records callers log
          HighWaterMark,   \* options.highWaterMark
          OutputDelay,     \* options.outputDelay
          Outcomes,        \* what writevSync may do
          MaxRecords,      \* bound: records accepted in a behaviour
          MaxThrows        \* bound: writes that throw in a behaviour

Files == 1 .. NumFiles

ASSUME LoggerAssumption ==
  /\ NumFiles \in Nat \ {0}
  /\ Sizes \subseteq Nat \ {0}
  /\ HighWaterMark \in Nat
  /\ OutputDelay \in Nat
  /\ Outcomes \subseteq {"full", "short", "throws"}
  /\ MaxRecords \in Nat
  /\ MaxThrows \in Nat

Closed == 0                \* this._fd < 0
Torn == [id |-> 0, size |-> 1, kind |-> "torn"]   \* what a short write leaves
Record == [id : 1 .. MaxRecords, size : Sizes, kind : {"log", "start"}]

VARIABLES fd,                 \* the open file, or Closed
          outgoing,           \* records buffered in memory
          outgoingSize,       \* their total byte length
          timer,              \* "none", "armed", or "spent" (fired, not reset)
          writeSliceMarker,   \* the next block starts with a slice marker
          disk,               \* what each file holds
          ends,               \* positions followed by a separator byte
          marks,              \* positions preceded by a slice marker
          count,              \* records accepted so far: the next id
          throws              \* writes that have thrown so far

buffer == <<outgoing, outgoingSize, timer, writeSliceMarker>>
files == <<disk, ends, marks>>
vars == <<fd, outgoing, outgoingSize, timer, writeSliceMarker, disk, ends,
          marks, count, throws>>

\* The state a constructor leaves; an existing file is opened for appending.
Init == /\ fd \in Files
        /\ outgoing = <<>>
        /\ outgoingSize = 0
        /\ timer = "none"
        /\ writeSliceMarker = FALSE
        /\ disk = [f \in Files |-> <<>>]
        /\ ends = [f \in Files |-> {}]
        /\ marks = [f \in Files |-> {}]
        /\ count = 0
        /\ throws = 0

-----------------------------------------------------------------------------
(* The private flush(): one writevSync of [marker,] block, separator, and   *)
(* the reset of the buffer once it has returned.                            *)

WriteFull(batch, marker) ==
  /\ "full" \in Outcomes
  /\ disk' = [disk EXCEPT ![fd] = @ \o batch]
  /\ ends' = [ends EXCEPT ![fd] = @ \cup {Len(disk[fd]) + Len(batch)}]
  /\ marks' = IF marker THEN [marks EXCEPT ![fd] = @ \cup {Len(disk[fd])}]
                        ELSE marks

WriteShort ==
  /\ "short" \in Outcomes
  /\ disk' = [disk EXCEPT ![fd] = Append(@, Torn)]
  /\ UNCHANGED <<ends, marks>>

\* Faults: subtracting a batch instead of starting at zero; leaving the timer
\* on.
ResetBySubtracting == /\ outgoing' = <<>>
                      /\ outgoingSize' = outgoingSize - HighWaterMark
                      /\ writeSliceMarker' = FALSE
                      /\ timer' = "none"

ResetKeepingTimer == /\ outgoing' = <<>>
                     /\ outgoingSize' = 0
                     /\ writeSliceMarker' = FALSE
                     /\ timer' = timer

ResetBuffer == /\ outgoing' = <<>>
               /\ outgoingSize' = 0
               /\ writeSliceMarker' = FALSE
               /\ timer' = "none"

\* flush() returned: the write was (or seemed to be) complete.
Flushed(batch, marker) == /\ WriteFull(batch, marker) \/ WriteShort
                          /\ ResetBuffer
                          /\ UNCHANGED throws

\* flush() threw out of writevSync: nothing after it has run, the batch and
\* the timer handle stay as they were.
\* Faults: resetting the buffer, or only the marker, before the write.
FlushThrewDropping(batch, size, marker, handle) ==
  /\ "throws" \in Outcomes
  /\ throws < MaxThrows
  /\ throws' = throws + 1
  /\ ResetBuffer
  /\ UNCHANGED files

FlushThrewUnmarked(batch, size, marker, handle) ==
  /\ "throws" \in Outcomes
  /\ throws < MaxThrows
  /\ throws' = throws + 1
  /\ outgoing' = batch
  /\ outgoingSize' = size
  /\ writeSliceMarker' = FALSE
  /\ timer' = handle
  /\ UNCHANGED files

FlushThrew(batch, size, marker, handle) ==
  /\ "throws" \in Outcomes
  /\ throws < MaxThrows
  /\ throws' = throws + 1
  /\ outgoing' = batch
  /\ outgoingSize' = size
  /\ writeSliceMarker' = marker
  /\ timer' = handle
  /\ UNCHANGED files

\* Fault: taking it that a timer is always pending.
NeverArmed == timer

Armed == IF timer = "none" THEN "armed" ELSE timer

\* log() flushes at the high water mark, or at once when batching is off.
FlushesAt(total) == total >= HighWaterMark \/ OutputDelay = 0

NewRecord(size, kind) == [id |-> count + 1, size |-> size, kind |-> kind]

-----------------------------------------------------------------------------
(* log(data): push, then flush at the high water mark or when batching is   *)
(* off, otherwise make sure that a timer is pending.                        *)
Log(size) ==
  LET batch == Append(outgoing, NewRecord(size, "log"))
      total == outgoingSize + size
  IN /\ fd # Closed
     /\ count < MaxRecords
     /\ count' = count + 1
     /\ UNCHANGED fd
     /\ \/ /\ FlushesAt(total)
           /\ \/ Flushed(batch, writeSliceMarker)
              \/ FlushThrew(batch, total, writeSliceMarker, timer)
        \/ /\ ~FlushesAt(total)
           /\ outgoing' = batch
           /\ outgoingSize' = total
           /\ timer' = Armed
           /\ UNCHANGED <<writeSliceMarker, disk, ends, marks, throws>>

(* MasterLogger.STARTING_UP(): raise the slice marker, log, flush().  When   *)
(* log() has already flushed, flush() finds nothing to do; when log() only   *)
(* buffered, it armed the timer before flush() threw.                        *)
STARTING_UP(size) ==
  LET batch == Append(outgoing, NewRecord(size, "start"))
      total == outgoingSize + size
  IN /\ fd # Closed
     /\ count < MaxRecords
     /\ count' = count + 1
     /\ UNCHANGED fd
     /\ \/ Flushed(batch, TRUE)
        \/ FlushThrew(batch, total, TRUE, IF FlushesAt(total) THEN timer ELSE Armed)

\* flush()
Flush ==
  /\ fd # Closed
  /\ outgoingSize > 0
  /\ \/ Flushed(outgoing, writeSliceMarker)
     \/ FlushThrew(outgoing, outgoingSize, writeSliceMarker, timer)
  /\ UNCHANGED <<fd, count>>

\* The timer callback.  Node has already retired the timer when it runs.  On a
\* closed logger it would write to descriptor -1: TimerIsSound rules that out.
TimerFires ==
  /\ timer = "armed"
  /\ fd # Closed
  /\ \/ Flushed(outgoing, writeSliceMarker)
     \/ FlushThrew(outgoing, outgoingSize, writeSliceMarker, "spent")
  /\ UNCHANGED <<fd, count>>

\* The part of rotate() and close() before closeSync.
FlushIfBuffered ==
  \/ outgoingSize > 0 /\ Flushed(outgoing, writeSliceMarker)
  \/ outgoingSize = 0 /\ UNCHANGED <<outgoing, outgoingSize, timer,
                                     writeSliceMarker, disk, ends, marks, throws>>

\* That part throwing: rotate() or close() has had no other effect.
FlushIfBufferedThrows ==
  /\ fd # Closed
  /\ outgoingSize > 0
  /\ FlushThrew(outgoing, outgoingSize, writeSliceMarker, timer)
  /\ UNCHANGED <<fd, count>>

\* Fault: flushing only once the new file is open.
RotateThenFlush(f) ==
  /\ fd # Closed
  /\ f >= fd
  /\ disk' = [disk EXCEPT ![f] = @ \o outgoing]
  /\ ResetBuffer
  /\ fd' = f
  /\ UNCHANGED <<ends, marks, count, throws>>

\* rotate(filename): the name is the current one or a newer one.  If openSync
\* throws, the logger is closed.
Rotate(f) ==
  /\ fd # Closed
  /\ f >= fd
  /\ FlushIfBuffered
  /\ fd' \in {f, Closed}
  /\ UNCHANGED count

\* close()
Close ==
  /\ fd # Closed
  /\ FlushIfBuffered
  /\ fd' = Closed
  /\ UNCHANGED count

Next == \/ \E size \in Sizes : Log(size) \/ STARTING_UP(size)
        \/ Flush
        \/ TimerFires
        \/ Close
        \/ \E f \in Files : Rotate(f)
        \/ FlushIfBufferedThrows

Spec == Init /\ [][Next]_vars

\* setTimeout is honoured by a running event loop.
FairSpec == Spec /\ WF_vars(TimerFires)

-----------------------------------------------------------------------------
\* Every variable keeps to its domain, whatever the file system does
\* (logger.js, all methods).
TypeOK == /\ fd \in Files \cup {Closed}
          /\ outgoing \in Seq(Record)
          /\ outgoingSize \in Nat
          /\ timer \in {"none", "armed", "spent"}
          /\ writeSliceMarker \in BOOLEAN
          /\ disk \in [Files -> Seq(Record \cup {Torn})]
          /\ ends \in [Files -> SUBSET Nat]
          /\ marks \in [Files -> SUBSET Nat]
          /\ count \in 0 .. MaxRecords
          /\ throws \in 0 .. MaxThrows

\* A pending timer always has something to write and an open file to write it
\* to: otherwise flush() would dereference outgoing[0] of an empty batch, or
\* write to descriptor -1, out of a timer callback (logger.js:67, 158-161).
TimerIsSound == timer # "none" => fd # Closed /\ outgoing # <<>>

\* Buffered records always have a timer on its way, or a write has failed: no
\* order of log, flush, rotate and close strands a batch (logger.js:64-68).
NoStrandedBatch == outgoing # <<>> /\ throws = 0 => timer = "armed"

\* The batch stays below the high water mark between calls, unless a write has
\* failed; with batching off nothing stays buffered (logger.js:64).
BatchIsBounded ==
  outgoing # <<>> /\ throws = 0 => outgoingSize < HighWaterMark /\ OutputDelay # 0

\* However the logger came to be closed - close(), or a rotate() that could not
\* open the new file - it holds nothing unwritten (logger.js:81-119).
ClosedHoldsNothing == fd = Closed => outgoing = <<>>

\* Whatever the order of the calls and of failing writes, the batch is neither
\* stranded nor too long, and no timer outlives it: the four together
\* (logger.js:53-119).
BufferIsSound == /\ TimerIsSound
                 /\ NoStrandedBatch
                 /\ BatchIsBounded
                 /\ ClosedHoldsNothing

\* Over all files in order, then the batch: every accepted record exactly once,
\* in the order of the calls, across rotations, throwing writes and retries.
\* Only a torn block stands for records that are missing, and it stands where
\* they should be (logger.js:53-119, 149-156).
NothingLostOrReordered ==
  LET next == [id |-> count + 1, size |-> 0, kind |-> "next"]
      all == FlattenSeq(disk) \o outgoing \o <<next>>
      Newest(i) == Max({all[j].id : j \in 1 .. i - 1} \cup {0})
  IN \A i \in DOMAIN all : all[i] # Torn =>
       IF i > 1 /\ all[i - 1] = Torn THEN all[i].id > Newest(i) + 1
                                    ELSE all[i].id = Newest(i) + 1

\* A STARTING_UP record always sits in a block that a slice marker opens, even
\* when its first write failed and a later flush carried it out
\* (master-logger.js:49, logger.js:148-156).
StartIsMarked ==
  \A f \in Files : \A i \in DOMAIN disk[f] :
    disk[f][i].kind = "start" =>
      \E m \in marks[f] : m < i /\ ends[f] \cap (m + 1) .. (i - 1) = {}

Reached(id) == \E f \in Files : \E i \in DOMAIN disk[f] : disk[f][i].id = id

\* While no write fails, the timer brings every record to a file, if nothing
\* else does (logger.js:64-68).  docs/writers.md gives outputDelay as the longest
\* a record is buffered; the exceptions are the cases in which it is not: after a
\* throw the spent timer is never armed again, and a short write is not noticed.
WrittenUnlessFailed ==
  \A id \in 1 .. MaxRecords :
    count >= id ~> \/ Reached(id)
                   \/ throws > 0
                   \/ \E f \in Files : \E i \in DOMAIN disk[f] : disk[f][i] = Torn

\* A logger, seen from outside, is an Appender (logger.js as a whole): no
\* method drops, repeats, reorders or misfiles a record, short writes aside.
Abstract == INSTANCE Appender
              WITH Records <- Record, Torn <- Torn, current <- fd,
                   pending <- outgoing, written <- disk
AppenderSpec == Abstract!Spec
=============================================================================
