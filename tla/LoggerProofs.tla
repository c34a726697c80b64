---------------------------- MODULE LoggerProofs ----------------------------
(***************************************************************************)
(* For every number of files and records, every record size, high water    *)
(* mark and delay, and whatever writes throw or come back short: Logger's  *)
(* type, timer and buffer invariants, that it implements Appender, that    *)
(* every start is marked, and that no record is lost or out of order.       *)
(***************************************************************************)
EXTENDS Logger, FoldLemmas, SequenceTheorems, TLAPS

\* The invariants prop each other up: a batch that is nonempty exactly when
\* its size is positive, and a spent timer only after a throw, are what the
\* tests `outgoingSize > 0` and `timer === null` in the code amount to.
SizeMatches == outgoingSize = 0 <=> outgoing = <<>>
SpentMeansThrew == timer = "spent" => throws > 0

IInv == /\ TypeOK
        /\ SizeMatches
        /\ SpentMeansThrew
        /\ TimerIsSound
        /\ NoStrandedBatch
        /\ BatchIsBounded
        /\ ClosedHoldsNothing

\* The two ways a call of flush() can end keep the invariant: this is where
\* the buffer, its size and the timer are reset together or not at all.
LEMMA FlushedKeeps ==
  ASSUME IInv, fd # Closed,
         NEW batch \in Seq(Record), NEW marker \in BOOLEAN,
         Flushed(batch, marker),
         fd' \in Files \cup {Closed}, count' \in 0 .. MaxRecords
  PROVE  IInv'
<1> USE LoggerAssumption DEF IInv, TypeOK, Files, Closed
<1>1. disk' \in [Files -> Seq(Record \cup {Torn})]
  <2>1. CASE WriteFull(batch, marker)
    <3>1. disk[fd] \o batch \in Seq(Record \cup {Torn})
      OBVIOUS
    <3> QED BY <2>1, <3>1 DEF WriteFull
  <2>2. CASE WriteShort
    <3>1. Append(disk[fd], Torn) \in Seq(Record \cup {Torn})
      OBVIOUS
    <3> QED BY <2>2, <3>1 DEF WriteShort
  <2> QED BY <2>1, <2>2 DEF Flushed
<1>2. ends' \in [Files -> SUBSET Nat] /\ marks' \in [Files -> SUBSET Nat]
  <2>1. CASE WriteFull(batch, marker)
    <3>1. Len(disk[fd]) \in Nat /\ Len(batch) \in Nat
      OBVIOUS
    <3> QED BY <2>1, <3>1 DEF WriteFull
  <2>2. CASE WriteShort
    BY <2>2 DEF WriteShort
  <2> QED BY <2>1, <2>2 DEF Flushed
<1>3. /\ outgoing' = <<>> /\ outgoingSize' = 0 /\ timer' = "none"
      /\ writeSliceMarker' = FALSE /\ throws' = throws
  BY DEF Flushed, ResetBuffer
<1>4. outgoing' \in Seq(Record)
  BY <1>3
<1>5. TypeOK'
  BY <1>1, <1>2, <1>3, <1>4
<1> QED
  BY <1>3, <1>5 DEF SizeMatches, SpentMeansThrew, TimerIsSound,
                    NoStrandedBatch, BatchIsBounded, ClosedHoldsNothing

LEMMA FlushThrewKeeps ==
  ASSUME IInv, fd # Closed, fd' = fd,
         NEW batch \in Seq(Record), NEW size \in Nat, NEW marker \in BOOLEAN,
         NEW handle \in {"none", "armed", "spent"},
         batch # <<>>, size # 0,
         FlushThrew(batch, size, marker, handle),
         count' \in 0 .. MaxRecords
  PROVE  IInv'
<1>1. /\ outgoing' = batch /\ outgoingSize' = size /\ timer' = handle
      /\ writeSliceMarker' = marker /\ throws' = throws + 1
      /\ UNCHANGED files /\ throws < MaxThrows
  BY DEF FlushThrew
<1>2. throws \in Nat /\ MaxThrows \in Nat /\ throws' # 0 /\ throws' \in 0 .. MaxThrows
      /\ throws' > 0
  BY <1>1, LoggerAssumption DEF IInv, TypeOK
<1>3. TypeOK'
  BY <1>1, <1>2 DEF IInv, TypeOK, files
<1> QED
  BY <1>1, <1>2, <1>3 DEF IInv, SizeMatches, SpentMeansThrew, TimerIsSound,
                    NoStrandedBatch, BatchIsBounded, ClosedHoldsNothing

\* A record about to be logged, and the batch it is pushed onto.
LEMMA NewRecordType ==
  ASSUME IInv, count < MaxRecords, NEW size \in Sizes, NEW kind \in {"log", "start"}
  PROVE  /\ NewRecord(size, kind) \in Record
         /\ Append(outgoing, NewRecord(size, kind)) \in Seq(Record)
         /\ Append(outgoing, NewRecord(size, kind)) # <<>>
         /\ outgoingSize + size \in Nat
         /\ outgoingSize + size # 0
         /\ count + 1 \in 0 .. MaxRecords
<1> USE LoggerAssumption DEF IInv, TypeOK
<1>1. count + 1 \in 1 .. MaxRecords
  OBVIOUS
<1>2. NewRecord(size, kind) \in Record
  BY <1>1 DEF NewRecord, Record
<1>3. ASSUME NEW r \in Record PROVE Append(outgoing, r) \in Seq(Record) \ {<<>>}
  <2>1. outgoing \in Seq(Record)
    OBVIOUS
  <2> QED BY <2>1, AppendProperties
<1>4. size \in Nat /\ size # 0 /\ outgoingSize + size \in Nat
  OBVIOUS
<1>5. outgoingSize + size # 0
  BY <1>4
<1>6. count + 1 \in 0 .. MaxRecords
  BY <1>1
<1> QED BY <1>2, <1>3, <1>4, <1>5, <1>6

LEMMA InitIInv == Init => IInv
<1> SUFFICES ASSUME Init PROVE IInv
  OBVIOUS
<1> USE LoggerAssumption DEF Init
<1>1. outgoing \in Seq(Record) /\ disk \in [Files -> Seq(Record \cup {Torn})]
  OBVIOUS
<1>2. /\ fd \in Files \cup {Closed} /\ outgoingSize \in Nat /\ writeSliceMarker \in BOOLEAN
      /\ ends \in [Files -> SUBSET Nat] /\ marks \in [Files -> SUBSET Nat]
      /\ timer \in {"none", "armed", "spent"}
  OBVIOUS
<1>3. count \in 0 .. MaxRecords /\ throws \in 0 .. MaxThrows
  OBVIOUS
<1>4. TypeOK
  BY <1>1, <1>2, <1>3 DEF TypeOK
<1> QED
  BY <1>4 DEF IInv, SizeMatches, SpentMeansThrew, TimerIsSound,
     NoStrandedBatch, BatchIsBounded, ClosedHoldsNothing

\* One step per action of the logger.
LEMMA NextIInv == IInv /\ [Next]_vars => IInv'
<1> SUFFICES ASSUME IInv, [Next]_vars PROVE IInv'
  OBVIOUS
<1>0. /\ outgoing \in Seq(Record) /\ outgoingSize \in Nat
      /\ timer \in {"none", "armed", "spent"} /\ writeSliceMarker \in BOOLEAN
      /\ fd \in Files \cup {Closed} /\ count \in 0 .. MaxRecords
      /\ Armed \in {"none", "armed", "spent"}
  BY DEF IInv, TypeOK, Armed
<1>1. ASSUME NEW size \in Sizes, Log(size) PROVE IInv'
  <2> DEFINE batch == Append(outgoing, NewRecord(size, "log"))
             total == outgoingSize + size
  <2>0. fd # Closed /\ count < MaxRecords /\ count' = count + 1 /\ fd' = fd
    BY <1>1 DEF Log
  <2>1. /\ batch \in Seq(Record) /\ batch # <<>> /\ total \in Nat /\ total # 0
        /\ count' \in 0 .. MaxRecords
    BY <2>0, NewRecordType
  <2>2. CASE Flushed(batch, writeSliceMarker)
    <3> HIDE DEF batch
    <3> QED BY <1>0, <2>0, <2>1, <2>2, FlushedKeeps
  <2>3. CASE FlushThrew(batch, total, writeSliceMarker, timer)
    <3> HIDE DEF batch, total
    <3> QED BY <1>0, <2>0, <2>1, <2>3, FlushThrewKeeps
  <2>4. CASE /\ ~FlushesAt(total)
             /\ outgoing' = batch /\ outgoingSize' = total /\ timer' = Armed
             /\ UNCHANGED <<writeSliceMarker, disk, ends, marks, throws>>
    <3> HIDE DEF batch, total
    <3>1. TypeOK'
      BY <1>0, <2>0, <2>1, <2>4 DEF IInv, TypeOK
    <3>2. total < HighWaterMark /\ OutputDelay # 0
      BY <2>1, <2>4, LoggerAssumption DEF FlushesAt
    <3> QED
      BY <2>0, <2>1, <2>4, <3>1, <3>2 DEF IInv, TypeOK, Armed, SizeMatches,
         SpentMeansThrew, TimerIsSound, NoStrandedBatch, BatchIsBounded,
         ClosedHoldsNothing
  <2> QED BY <1>1, <2>2, <2>3, <2>4 DEF Log
<1>2. ASSUME NEW size \in Sizes, STARTING_UP(size) PROVE IInv'
  <2> DEFINE batch == Append(outgoing, NewRecord(size, "start"))
             total == outgoingSize + size
             handle == IF FlushesAt(total) THEN timer ELSE Armed
  <2>0. fd # Closed /\ count < MaxRecords /\ count' = count + 1 /\ fd' = fd
    BY <1>2 DEF STARTING_UP
  <2>1. /\ batch \in Seq(Record) /\ batch # <<>> /\ total \in Nat /\ total # 0
        /\ count' \in 0 .. MaxRecords /\ handle \in {"none", "armed", "spent"}
    BY <1>0, <2>0, NewRecordType
  <2>2. CASE Flushed(batch, TRUE)
    <3> HIDE DEF batch
    <3> QED BY <1>0, <2>0, <2>1, <2>2, FlushedKeeps
  <2>3. CASE FlushThrew(batch, total, TRUE, handle)
    <3> HIDE DEF batch, total, handle
    <3> QED BY <1>0, <2>0, <2>1, <2>3, FlushThrewKeeps
  <2> QED BY <1>2, <2>2, <2>3 DEF STARTING_UP
<1>3. CASE Flush
  <2>1. outgoing # <<>> /\ outgoingSize # 0 /\ fd # Closed /\ fd' = fd /\ count' = count
    BY <1>0, <1>3 DEF Flush, IInv, SizeMatches
  <2> QED BY <1>0, <1>3, <2>1, FlushedKeeps, FlushThrewKeeps DEF Flush
<1>4. CASE TimerFires
  <2>1. outgoing # <<>> /\ outgoingSize # 0 /\ fd # Closed /\ fd' = fd /\ count' = count
    BY <1>0, <1>4 DEF TimerFires, IInv, SizeMatches, TimerIsSound
  <2> QED BY <1>0, <1>4, <2>1, FlushedKeeps, FlushThrewKeeps DEF TimerFires
<1>5. ASSUME fd # Closed, FlushIfBuffered, fd' \in Files \cup {Closed}, count' = count
      PROVE  IInv'
  <2>1. CASE Flushed(outgoing, writeSliceMarker)
    BY <1>0, <1>5, <2>1, FlushedKeeps
  <2>2. CASE outgoingSize = 0 /\ UNCHANGED <<outgoing, outgoingSize, timer,
                                   writeSliceMarker, disk, ends, marks, throws>>
    <3>1. outgoing = <<>> /\ timer = "none"
      BY <2>2, <1>0 DEF IInv, SizeMatches, TimerIsSound
    <3>2. TypeOK'
      BY <1>5, <2>2 DEF IInv, TypeOK
    <3> QED
      BY <2>2, <3>1, <3>2 DEF IInv, SizeMatches, SpentMeansThrew, TimerIsSound,
         NoStrandedBatch, BatchIsBounded, ClosedHoldsNothing
  <2> QED BY <1>5, <2>1, <2>2 DEF FlushIfBuffered
<1>6. ASSUME NEW f \in Files, Rotate(f) PROVE IInv'
  BY <1>5, <1>6 DEF Rotate
<1>7. CASE FlushIfBufferedThrows
  <2>1. outgoing # <<>> /\ outgoingSize # 0 /\ fd # Closed /\ fd' = fd /\ count' = count
    BY <1>0, <1>7 DEF FlushIfBufferedThrows, IInv, SizeMatches
  <2> QED BY <1>0, <1>7, <2>1, FlushThrewKeeps DEF FlushIfBufferedThrows
<1>8. CASE Close
  BY <1>5, <1>8 DEF Close
<1>9. CASE UNCHANGED vars
  BY <1>9 DEF vars, IInv, TypeOK, SizeMatches, SpentMeansThrew, TimerIsSound,
     NoStrandedBatch, BatchIsBounded, ClosedHoldsNothing
<1> QED BY <1>1, <1>2, <1>3, <1>4, <1>6, <1>7, <1>8, <1>9 DEF Next

\* logger.js keeps its types, its timer and its batch in order in every
\* behaviour: no timer fires with nothing to write or no file, no batch is
\* stranded without one unless a write threw, none outgrows the high water
\* mark, and a closed logger holds nothing.
THEOREM LoggerSafe == Spec => [](TypeOK /\ BufferIsSound)
<1>1. IInv => TypeOK /\ BufferIsSound
  BY DEF IInv, BufferIsSound
<1> QED BY <1>1, InitIInv, NextIInv, PTL DEF Spec

LEMMA LoggerInvariant == Spec => []IInv
BY InitIInv, NextIInv, PTL DEF Spec

-----------------------------------------------------------------------------
(* Refinement.  A flush that returned is the abstract write, one that threw *)
(* has at most accepted a record.                                           *)

LEMMA FlushedWrites ==
  ASSUME NEW batch, NEW marker, Flushed(batch, marker)
  PROVE  Abstract!WriteOut(batch) /\ outgoing' = <<>>
BY DEF Flushed, WriteFull, WriteShort, ResetBuffer, Abstract!WriteOut

LEMMA NextImplements ==
  ASSUME IInv, [Next]_vars
  PROVE  [Abstract!Next]_(Abstract!vars)
<1> USE DEF Closed, Abstract!Stopped
<1>1. ASSUME NEW size \in Sizes, Log(size) PROVE Abstract!Next
  <2> DEFINE r == NewRecord(size, "log")
  <2>0. r \in Record /\ fd # Closed /\ fd' = fd
    BY <1>1, NewRecordType DEF Log
  <2>1. CASE Flushed(Append(outgoing, r), writeSliceMarker)
    <3>1. Abstract!AcceptAndWrite(r)
      BY <2>0, <2>1, FlushedWrites DEF Abstract!AcceptAndWrite
    <3> QED BY <2>0, <3>1 DEF Abstract!Next
  <2>2. CASE outgoing' = Append(outgoing, r) /\ disk' = disk
    <3>1. Abstract!Accept(r)
      BY <2>0, <2>2 DEF Abstract!Accept
    <3> QED BY <2>0, <3>1 DEF Abstract!Next
  <2> QED BY <1>1, <2>1, <2>2 DEF Log, FlushThrew, files
<1>2. ASSUME NEW size \in Sizes, STARTING_UP(size) PROVE Abstract!Next
  <2> DEFINE r == NewRecord(size, "start")
  <2>0. r \in Record /\ fd # Closed /\ fd' = fd
    BY <1>2, NewRecordType DEF STARTING_UP
  <2>1. CASE Flushed(Append(outgoing, r), TRUE)
    <3>1. Abstract!AcceptAndWrite(r)
      BY <2>0, <2>1, FlushedWrites DEF Abstract!AcceptAndWrite
    <3> QED BY <2>0, <3>1 DEF Abstract!Next
  <2>2. CASE outgoing' = Append(outgoing, r) /\ disk' = disk
    <3>1. Abstract!Accept(r)
      BY <2>0, <2>2 DEF Abstract!Accept
    <3> QED BY <2>0, <3>1 DEF Abstract!Next
  <2> QED BY <1>2, <2>1, <2>2 DEF STARTING_UP, FlushThrew, files
<1>3. ASSUME Flush \/ TimerFires \/ FlushIfBufferedThrows
      PROVE  [Abstract!Next]_(Abstract!vars)
  <2>0. fd # Closed /\ fd' = fd
    BY <1>3 DEF Flush, TimerFires, FlushIfBufferedThrows
  <2>1. CASE Flushed(outgoing, writeSliceMarker)
    <3>1. Abstract!Write
      BY <2>0, <2>1, FlushedWrites DEF Abstract!Write
    <3> QED BY <3>1 DEF Abstract!Next
  <2>2. CASE outgoing' = outgoing /\ disk' = disk
    BY <2>0, <2>2 DEF Abstract!vars
  <2> QED BY <1>3, <2>1, <2>2 DEF Flush, TimerFires, FlushIfBufferedThrows,
                                FlushThrew, files
<1>4. ASSUME fd # Closed, FlushIfBuffered
      PROVE  Abstract!WriteOut(outgoing) /\ outgoing' = <<>>
  <2>1. CASE Flushed(outgoing, writeSliceMarker)
    BY <2>1, FlushedWrites
  <2>2. CASE outgoingSize = 0 /\ outgoing' = outgoing /\ disk' = disk
    <3>1. outgoing = <<>> /\ disk[fd] \in Seq(Record \cup {Torn})
          /\ disk \in [Files -> Seq(Record \cup {Torn})] /\ fd \in Files
      BY <1>4, <2>2 DEF IInv, TypeOK, SizeMatches
    <3>2. disk[fd] \o <<>> = disk[fd]
      BY <3>1, ConcatEmptySeq
    <3> QED BY <2>2, <3>1, <3>2 DEF Abstract!WriteOut
  <2> QED BY <1>4, <2>1, <2>2 DEF FlushIfBuffered
<1>5. ASSUME NEW f \in Files, Rotate(f) PROVE Abstract!Next
  <2>1. fd # Closed /\ Abstract!WriteOut(outgoing) /\ outgoing' = <<>>
    BY <1>4, <1>5 DEF Rotate
  <2>2. CASE fd' = f
    BY <2>1, <2>2 DEF Abstract!Switch, Abstract!Next
  <2>3. CASE fd' = Closed
    BY <2>1, <2>3 DEF Abstract!Stop, Abstract!Next
  <2> QED BY <1>5, <2>2, <2>3 DEF Rotate
<1>6. CASE Close
  <2>1. fd # Closed /\ Abstract!WriteOut(outgoing) /\ outgoing' = <<>>
    BY <1>4, <1>6 DEF Close
  <2>2. fd' = Closed
    BY <1>6 DEF Close
  <2> QED BY <2>1, <2>2 DEF Abstract!Stop, Abstract!Next
<1>7. CASE UNCHANGED vars
  BY <1>7 DEF vars, Abstract!vars
<1> QED BY <1>1, <1>2, <1>3, <1>5, <1>6, <1>7 DEF Next

\* A logger is an Appender: records are filed in order, whole batches (or torn
\* ones) at a time, and every rotate and close carries the pending ones out
\* first (logger.js), whatever throws.
THEOREM LoggerImplementsAppender == Spec => AppenderSpec
<1>1. Init => Abstract!Init
  BY DEF Init, Abstract!Init
<1>2. IInv /\ [Next]_vars => [Abstract!Next]_(Abstract!vars)
  BY NextImplements
<1> QED
  BY <1>1, <1>2, LoggerInvariant, PTL DEF Spec, AppenderSpec, Abstract!Spec

\* logger.js keeps its variables to their domains.
THEOREM LoggerTypes == Spec => []TypeOK
BY LoggerSafe, PTL

-----------------------------------------------------------------------------
(* Where the slice markers are.                                             *)

\* A start that is still buffered will be marked.
PendingStartIsMarked ==
  \A i \in DOMAIN outgoing : outgoing[i].kind = "start" => writeSliceMarker

\* Separators follow records.
EndsAreInside == \A f \in Files : \A e \in ends[f] : e <= Len(disk[f])

MarksInv == StartIsMarked /\ PendingStartIsMarked /\ EndsAreInside

\* A block is written that opens with a marker if it holds a start.
LEMMA FlushedMarks ==
  ASSUME IInv, MarksInv, fd # Closed,
         NEW batch \in Seq(Record), NEW marker \in BOOLEAN, Flushed(batch, marker),
         \A i \in DOMAIN batch : batch[i].kind = "start" => marker
  PROVE  MarksInv'
<1>0. /\ fd \in Files /\ disk \in [Files -> Seq(Record \cup {Torn})]
      /\ ends \in [Files -> SUBSET Nat] /\ marks \in [Files -> SUBSET Nat]
      /\ Len(disk[fd]) \in Nat /\ DOMAIN disk[fd] = 1 .. Len(disk[fd])
      /\ Len(batch) \in Nat /\ DOMAIN batch = 1 .. Len(batch)
      /\ disk[fd] \in Seq(Record \cup {Torn})
  <2>1. fd \in Files /\ disk \in [Files -> Seq(Record \cup {Torn})]
      /\ ends \in [Files -> SUBSET Nat] /\ marks \in [Files -> SUBSET Nat]
    BY DEF IInv, TypeOK
  <2>2. disk[fd] \in Seq(Record \cup {Torn})
    BY <2>1
  <2> QED BY <2>1, <2>2, LenProperties
<1>1. PendingStartIsMarked'
  <2>1. outgoing' = <<>>
    BY DEF Flushed, ResetBuffer
  <2> QED BY <2>1 DEF PendingStartIsMarked
<1>2. ASSUME NEW f \in Files, f # fd
      PROVE  disk'[f] = disk[f] /\ ends'[f] = ends[f] /\ marks[f] \subseteq marks'[f]
  BY <1>0, <1>2 DEF Flushed, WriteFull, WriteShort
<1>3. CASE WriteShort
  <2>1. /\ disk'[fd] = Append(disk[fd], Torn) /\ ends' = ends /\ marks' = marks
    BY <1>0, <1>3 DEF WriteShort
  <2>2. /\ Len(disk'[fd]) = Len(disk[fd]) + 1
        /\ \A i \in DOMAIN disk'[fd] : \/ i \in DOMAIN disk[fd] /\ disk'[fd][i] = disk[fd][i]
                                       \/ disk'[fd][i] = Torn
    BY <1>0, <2>1, AppendProperties
  <2>3. Torn.kind # "start"
    BY DEF Torn
  <2>4. EndsAreInside'
    <3>1. ASSUME NEW f \in Files, NEW e \in ends[f] PROVE e <= Len(disk'[f])
      <4>1. e \in Nat /\ e <= Len(disk[f])
        BY <1>0 DEF MarksInv, EndsAreInside
      <4> QED BY <1>0, <1>2, <2>2, <4>1
    <3> QED BY <2>1, <3>1 DEF EndsAreInside
  <2>5. StartIsMarked'
    <3> SUFFICES ASSUME NEW f \in Files, NEW i \in DOMAIN disk'[f], disk'[f][i].kind = "start"
                 PROVE  \E m \in marks[f] : m < i /\ ends[f] \cap (m + 1) .. (i - 1) = {}
      BY <2>1 DEF StartIsMarked
    <3>1. i \in DOMAIN disk[f] /\ disk[f][i].kind = "start"
      BY <1>2, <2>2, <2>3
    <3> QED BY <3>1 DEF MarksInv, StartIsMarked
  <2> QED BY <1>1, <2>4, <2>5 DEF MarksInv
<1>4. CASE WriteFull(batch, marker)
  <2> DEFINE n == Len(disk[fd])
             k == Len(batch)
  <2>1. /\ disk'[fd] = disk[fd] \o batch /\ ends'[fd] = ends[fd] \cup {n + k}
        /\ marks[fd] \subseteq marks'[fd] /\ (marker => n \in marks'[fd])
    BY <1>0, <1>4 DEF WriteFull
  <2>2. /\ Len(disk'[fd]) = n + k
        /\ \A i \in DOMAIN disk'[fd] :
             \/ i \in DOMAIN disk[fd] /\ disk'[fd][i] = disk[fd][i]
             \/ i \in n + 1 .. n + k /\ i - n \in DOMAIN batch /\ disk'[fd][i] = batch[i - n]
    <3>1. batch \in Seq(Record \cup {Torn})
      OBVIOUS
    <3>2. /\ Len(disk[fd] \o batch) = n + k
          /\ \A i \in 1 .. n + k : (disk[fd] \o batch)[i] = IF i <= n THEN disk[fd][i] ELSE batch[i - n]
          /\ DOMAIN (disk[fd] \o batch) = 1 .. n + k
      BY <1>0, <3>1, ConcatProperties, LenProperties
    <3> HIDE DEF n, k
    <3>3. \A i \in 1 .. n + k : i <= n \/ (i \in n + 1 .. n + k /\ i - n \in 1 .. k)
      BY <1>0 DEF n, k
    <3> QED BY <1>0, <2>1, <3>2, <3>3 DEF n, k
  <2> HIDE DEF n, k
  <2>3. n \in Nat /\ k \in Nat /\ DOMAIN disk[fd] = 1 .. n
    BY <1>0 DEF n, k
  <2>4. \A e \in ends[fd] : e \in Nat /\ e <= n
    BY <1>0 DEF MarksInv, EndsAreInside, n
  <2>5. EndsAreInside'
    <3>1. ASSUME NEW f \in Files, NEW e \in ends'[f] PROVE e <= Len(disk'[f])
      <4>1. CASE f = fd
        <5>1. (e \in Nat /\ e <= n) \/ e = n + k
          BY <2>1, <2>4, <4>1
        <5>2. e <= n + k
          BY <2>3, <5>1
        <5> QED BY <2>2, <4>1, <5>2
      <4>2. CASE f # fd
        BY <1>2, <4>2 DEF MarksInv, EndsAreInside
      <4> QED BY <4>1, <4>2
    <3> QED BY <3>1 DEF EndsAreInside
  <2>6. StartIsMarked'
    <3> SUFFICES ASSUME NEW f \in Files, NEW i \in DOMAIN disk'[f], disk'[f][i].kind = "start"
                 PROVE  \E m \in marks'[f] : m < i /\ ends'[f] \cap (m + 1) .. (i - 1) = {}
      BY DEF StartIsMarked
    <3>1. CASE f # fd
      <4>1. PICK m \in marks[f] : m < i /\ ends[f] \cap (m + 1) .. (i - 1) = {}
        BY <1>2, <3>1 DEF MarksInv, StartIsMarked
      <4> QED BY <1>2, <3>1, <4>1
    <3>2. CASE f = fd /\ i \in DOMAIN disk[fd] /\ disk'[fd][i] = disk[fd][i]
      <4>1. PICK m \in marks[fd] : m < i /\ ends[fd] \cap (m + 1) .. (i - 1) = {}
        BY <3>2, <1>0 DEF MarksInv, StartIsMarked
      <4>2. n + k \notin (m + 1) .. (i - 1)
        BY <2>3, <3>2
      <4> QED BY <2>1, <3>2, <4>1, <4>2
    <3>3. CASE f = fd /\ i \in n + 1 .. n + k /\ i - n \in DOMAIN batch /\ disk'[fd][i] = batch[i - n]
      <4>1. n \in marks'[fd]
        BY <2>1, <3>3
      <4>2. \A e \in ends'[fd] : e \in Nat /\ (e <= n \/ e >= i)
        BY <2>1, <2>3, <2>4, <3>3
      <4>3. ends'[fd] \cap (n + 1) .. (i - 1) = {}
        BY <2>3, <3>3, <4>2
      <4> QED BY <2>3, <3>3, <4>1, <4>3
    <3> QED BY <2>2, <3>1, <3>2, <3>3
  <2> QED BY <1>1, <2>5, <2>6 DEF MarksInv
<1> QED BY <1>3, <1>4 DEF Flushed

\* A write that throws leaves the marker raised.
LEMMA FlushThrewMarks ==
  ASSUME IInv, MarksInv, NEW batch, NEW total, NEW marker, NEW handle,
         FlushThrew(batch, total, marker, handle),
         \A i \in DOMAIN batch : batch[i].kind = "start" => marker
  PROVE  MarksInv'
BY DEF FlushThrew, MarksInv, StartIsMarked, PendingStartIsMarked, EndsAreInside, files

\* A record joins the batch.
LEMMA BatchMarks ==
  ASSUME IInv, MarksInv, count < MaxRecords, NEW size \in Sizes, NEW kind \in {"log", "start"}
  PROVE  LET batch == Append(outgoing, NewRecord(size, kind)) IN
         \A i \in DOMAIN batch : batch[i].kind = "start" => writeSliceMarker \/ kind = "start"
<1> DEFINE r == NewRecord(size, kind)
           batch == Append(outgoing, r)
<1>1. r.kind = kind
  BY DEF NewRecord
<1>2. outgoing \in Seq(Record) /\ r \in Record
  BY NewRecordType DEF IInv, TypeOK
<1> HIDE DEF r
<1>3. \A i \in DOMAIN batch : (i \in DOMAIN outgoing /\ batch[i] = outgoing[i]) \/ batch[i] = r
  BY <1>2, AppendProperties
<1>4. \A i \in DOMAIN outgoing : outgoing[i].kind = "start" => writeSliceMarker
  BY DEF MarksInv, PendingStartIsMarked
<1> HIDE DEF batch
<1> QED BY <1>1, <1>3, <1>4 DEF batch, r

\* Every action keeps MarksInv.
LEMMA MarksStep == IInv /\ MarksInv /\ [Next]_vars => MarksInv'
<1> SUFFICES ASSUME IInv, MarksInv, [Next]_vars PROVE MarksInv'
  OBVIOUS
<1>0. /\ outgoing \in Seq(Record) /\ writeSliceMarker \in BOOLEAN
      /\ \A i \in DOMAIN outgoing : outgoing[i].kind = "start" => writeSliceMarker
  BY DEF IInv, TypeOK, MarksInv, PendingStartIsMarked
<1>1. ASSUME NEW size \in Sizes, NEW kind \in {"log", "start"}, NEW marker \in BOOLEAN, NEW total, NEW handle,
             marker = (writeSliceMarker \/ kind = "start"),
             fd # Closed, count < MaxRecords,
             LET batch == Append(outgoing, NewRecord(size, kind)) IN
               Flushed(batch, marker) \/ FlushThrew(batch, total, marker, handle)
      PROVE  MarksInv'
  <2> DEFINE batch == Append(outgoing, NewRecord(size, kind))
  <2>1. /\ batch \in Seq(Record) /\ (Flushed(batch, marker) \/ FlushThrew(batch, total, marker, handle))
        /\ \A i \in DOMAIN batch : batch[i].kind = "start" => marker
    BY <1>1, NewRecordType, BatchMarks
  <2> HIDE DEF batch
  <2> QED BY <1>1, <2>1, FlushedMarks, FlushThrewMarks
<1>2. ASSUME NEW size \in Sizes, Log(size) PROVE MarksInv'
  <2> DEFINE batch == Append(outgoing, NewRecord(size, "log"))
  <2>1. /\ fd # Closed /\ count < MaxRecords
        /\ \/ Flushed(batch, writeSliceMarker)
           \/ FlushThrew(batch, outgoingSize + size, writeSliceMarker, timer)
           \/ outgoing' = batch /\ UNCHANGED <<writeSliceMarker, disk, ends, marks>>
    BY <1>2 DEF Log
  <2>2. CASE outgoing' = batch /\ UNCHANGED <<writeSliceMarker, disk, ends, marks>>
    <3>1. \A i \in DOMAIN batch : batch[i].kind = "start" => writeSliceMarker
      BY <2>1, BatchMarks
    <3> HIDE DEF batch
    <3> QED BY <2>2, <3>1 DEF MarksInv, StartIsMarked, PendingStartIsMarked, EndsAreInside
  <2>3. CASE \/ Flushed(batch, writeSliceMarker)
             \/ FlushThrew(batch, outgoingSize + size, writeSliceMarker, timer)
    <3>1. writeSliceMarker = (writeSliceMarker \/ "log" = "start")
      BY <1>0
    <3> QED BY <1>0, <1>1, <2>1, <2>3, <3>1
  <2> QED BY <2>1, <2>2, <2>3
<1>3. ASSUME NEW size \in Sizes, STARTING_UP(size) PROVE MarksInv'
  <2> DEFINE handle == IF FlushesAt(outgoingSize + size) THEN timer ELSE Armed
             batch == Append(outgoing, NewRecord(size, "start"))
  <2>1. /\ fd # Closed /\ count < MaxRecords
        /\ Flushed(batch, TRUE) \/ FlushThrew(batch, outgoingSize + size, TRUE, handle)
    BY <1>3 DEF STARTING_UP
  <2> QED BY <1>0, <1>1, <2>1
<1>4. CASE Flush \/ TimerFires \/ FlushIfBufferedThrows
  <2>1. /\ fd # Closed
        /\ \/ Flushed(outgoing, writeSliceMarker)
           \/ \E total, handle : FlushThrew(outgoing, total, writeSliceMarker, handle)
    BY <1>4 DEF Flush, TimerFires, FlushIfBufferedThrows
  <2> QED BY <1>0, <2>1, FlushedMarks, FlushThrewMarks
<1>5. ASSUME fd # Closed, FlushIfBuffered PROVE MarksInv'
  <2>1. CASE Flushed(outgoing, writeSliceMarker)
    BY <1>0, <1>5, <2>1, FlushedMarks
  <2>2. CASE UNCHANGED <<outgoing, writeSliceMarker, disk, ends, marks>>
    BY <2>2 DEF MarksInv, StartIsMarked, PendingStartIsMarked, EndsAreInside
  <2> QED BY <1>5, <2>1, <2>2 DEF FlushIfBuffered
<1>6. CASE Close \/ \E f \in Files : Rotate(f)
  BY <1>5, <1>6 DEF Close, Rotate
<1>7. CASE UNCHANGED vars
  BY <1>7 DEF vars, MarksInv, StartIsMarked, PendingStartIsMarked, EndsAreInside
<1> QED BY <1>2, <1>3, <1>4, <1>6, <1>7 DEF Next

\* Whichever write of it fails and whatever is flushed in between, a STARTING_UP
\* record ends up in a block that a slice marker opens.
THEOREM StartsAreMarked == Spec => []StartIsMarked
<1>1. Init => MarksInv
  BY DEF Init, MarksInv, StartIsMarked, PendingStartIsMarked, EndsAreInside
<1>2. MarksInv => StartIsMarked
  BY DEF MarksInv
<1> QED BY <1>1, <1>2, MarksStep, LoggerInvariant, PTL DEF Spec

-----------------------------------------------------------------------------
(* All records in order.                                                    *)

\* What stands in a file, in the batch or behind it.
Item == [id : Nat, size : Nat, kind : {"log", "start", "torn", "next"}]

NextUp(c) == [id |-> c + 1, size |-> 0, kind |-> "next"]

\* Every record is the next one, except after a torn block.
Follows(a, i) ==
  /\ \A j \in 1 .. i - 1 : a[j].id < a[i].id
  /\ i = 1 => a[i].id = 1
  /\ i > 1 => IF a[i - 1] = Torn THEN a[i].id > 1 /\ \A j \in 1 .. i - 1 : a[j].id + 1 < a[i].id
                                 ELSE a[i].id = a[i - 1].id + 1

Consecutive(a) == \A i \in DOMAIN a : a[i] # Torn => Follows(a, i)

\* Items laid before x.
LEMMA OneMore ==
  ASSUME NEW s \in Seq(Item), NEW x \in Item
  PROVE  LET a == s \o <<x>> IN
         /\ a \in Seq(Item) /\ Len(s) \in Nat /\ DOMAIN s = 1 .. Len(s)
         /\ DOMAIN a = 1 .. Len(s) + 1
         /\ \A i \in 1 .. Len(s) : a[i] = s[i] /\ s[i] \in Item
         /\ a[Len(s) + 1] = x
<1>1. <<x>> \in Seq(Item) /\ Len(<<x>>) = 1 /\ <<x>>[1] = x
  OBVIOUS
<1>2. Len(s) \in Nat /\ DOMAIN s = 1 .. Len(s) /\ \A i \in 1 .. Len(s) : s[i] \in Item
  BY LenProperties, ElementOfSeq
<1> DEFINE t == <<x>>
<1>3. t \in Seq(Item) /\ Len(t) = 1 /\ t[1] = x
  BY <1>1
<1> HIDE DEF t
<1>4. /\ s \o t \in Seq(Item) /\ Len(s \o t) = Len(s) + Len(t)
      /\ \A i \in 1 .. Len(s) + Len(t) : (s \o t)[i] = IF i <= Len(s) THEN s[i] ELSE t[i - Len(s)]
  BY <1>3, ConcatProperties
<1>5. DOMAIN (s \o t) = 1 .. Len(s) + 1
  BY <1>3, <1>4, LenProperties
<1>6. \A i \in 1 .. Len(s) : i \in 1 .. Len(s) + Len(t) /\ i <= Len(s)
  BY <1>2, <1>3
<1>7. Len(s) + 1 \in 1 .. Len(s) + Len(t) /\ ~ (Len(s) + 1 <= Len(s)) /\ Len(s) + 1 - Len(s) = 1
  BY <1>2, <1>3
<1>8. (s \o t)[Len(s) + 1] = x
  BY <1>3, <1>4, <1>7
<1>9. \A i \in 1 .. Len(s) : (s \o t)[i] = s[i]
  BY <1>4, <1>6
<1> QED BY <1>2, <1>4, <1>5, <1>8, <1>9 DEF t

LEMMA FollowsRest ==
  ASSUME NEW a, NEW n \in Nat, NEW p, p = n + 1, Follows(a, p)
  PROVE  /\ \A j \in 1 .. n : a[j].id < a[p].id
         /\ n >= 1 /\ a[n] # Torn => a[p].id = a[n].id + 1
<1>1. p - 1 = n /\ (n >= 1 => p > 1)
  OBVIOUS
<1>2. \A j \in 1 .. p - 1 : a[j].id < a[p].id
  BY DEF Follows
<1>3. p > 1 => IF a[p - 1] = Torn THEN TRUE ELSE a[p].id = a[p - 1].id + 1
  BY DEF Follows
<1> QED BY <1>1, <1>2, <1>3

\* What follows does not depend on what comes later.
LEMMA FollowsAlike ==
  ASSUME NEW a, NEW b, NEW i \in Nat, \A j \in 1 .. i : a[j] = b[j], i >= 1, Follows(a, i)
  PROVE  Follows(b, i)
<1>1. i \in 1 .. i /\ \A j \in 1 .. i - 1 : j \in 1 .. i
  OBVIOUS
<1>2. i > 1 => i - 1 \in 1 .. i - 1
  OBVIOUS
<1> QED BY <1>1, <1>2 DEF Follows

\* A record is accepted: it takes the place of the one that was next.
LEMMA Accepted ==
  ASSUME NEW s \in Seq(Item), NEW c \in Nat, NEW r \in Item, r.id = c + 1, r # Torn,
         Consecutive(s \o <<NextUp(c)>>)
  PROVE  Consecutive((s \o <<r>>) \o <<NextUp(c + 1)>>)
<1> DEFINE n == Len(s)
           x == NextUp(c)
           y == NextUp(c + 1)
           a == s \o <<x>>
           t == s \o <<r>>
           b == t \o <<y>>
<1>1. /\ x \in Item /\ x.id = c + 1 /\ x # Torn
      /\ y \in Item /\ y.id = c + 2 /\ y # Torn
  <2>1. c + 1 \in Nat /\ c + 1 + 1 \in Nat /\ c + 1 + 1 = c + 2
    OBVIOUS
  <2> QED BY <2>1 DEF NextUp, Item, Torn
<1>2. Consecutive(a)
  OBVIOUS
<1> HIDE DEF x, y
<1>3. /\ n \in Nat /\ DOMAIN a = 1 .. n + 1 /\ a[n + 1] = x
      /\ \A i \in 1 .. n : a[i] = s[i] /\ s[i] \in Item
  BY <1>1, OneMore
<1>4. /\ t \in Seq(Item) /\ DOMAIN t = 1 .. n + 1 /\ t[n + 1] = r /\ \A i \in 1 .. n : t[i] = s[i]
  BY OneMore
<1> HIDE DEF a, t
<1>5. Len(t) = n + 1
  BY <1>3, <1>4, LenProperties
<1>6. /\ DOMAIN b = 1 .. n + 2 /\ b[n + 2] = y /\ \A i \in 1 .. n + 1 : b[i] = t[i]
  BY <1>1, <1>3, <1>4, <1>5, OneMore
<1> HIDE DEF b, n
<1>7. /\ \A i \in 1 .. n : b[i] = a[i] /\ b[i] = s[i] /\ b[i].id \in Nat
      /\ b[n + 1] = r /\ b[n + 1].id = c + 1 /\ a[n + 1].id = c + 1
      /\ b[n + 2].id = c + 2 /\ b[n + 2] # Torn
  <2>1. \A i \in 1 .. n : i \in 1 .. n + 1
    BY <1>3
  <2>2. n + 1 \in 1 .. n + 1
    BY <1>3
  <2> QED BY <1>1, <1>3, <1>4, <1>6, <2>1, <2>2 DEF Item
<1>8. Follows(a, n + 1)
  <2>1. n + 1 \in DOMAIN a
    BY <1>3
  <2> QED BY <1>1, <1>2, <1>3, <2>1 DEF Consecutive
<1>9. \A j \in 1 .. n : b[j].id < c + 1
  <2>1. PICK p \in Nat : p = n + 1
    BY <1>3
  <2>2. Follows(a, p) /\ a[p].id = c + 1
    BY <1>7, <1>8, <2>1
  <2>3. \A j \in 1 .. n : a[j].id < a[p].id
    BY <1>3, <2>1, <2>2, FollowsRest
  <2> QED BY <1>7, <2>2, <2>3
<1>10. ASSUME NEW i \in 1 .. n + 2, b[i] # Torn PROVE Follows(b, i)
  <2>1. CASE i \in 1 .. n
    <3>1. i \in DOMAIN a /\ a[i] # Torn /\ i \in Nat /\ i >= 1 /\ \A j \in 1 .. i : a[j] = b[j]
      BY <1>3, <1>7, <1>10, <2>1
    <3>2. Follows(a, i)
      BY <1>2, <3>1 DEF Consecutive
    <3> QED BY <3>1, <3>2, FollowsAlike
  <2>2. CASE i = n + 1
    <3>1. /\ \A j \in 1 .. i - 1 : b[j] = a[j]
          /\ i > 1 => i - 1 \in 1 .. n
          /\ b[i].id = a[i].id
      BY <1>3, <1>7, <2>2
    <3>2. Follows(a, i)
      BY <1>8, <2>2
    <3>3. i > 1 => b[i - 1] = a[i - 1]
      BY <1>7, <3>1
    <3> QED BY <3>1, <3>2, <3>3 DEF Follows
  <2>3. CASE i = n + 2
    <3>1. i - 1 = n + 1 /\ i > 1 /\ i # 1
      BY <1>3, <2>3
    <3>2. \A j \in 1 .. n + 1 : b[j].id < c + 2
      <4>1. ASSUME NEW j \in 1 .. n + 1 PROVE b[j].id < c + 2
        <5>1. j \in 1 .. n \/ j = n + 1
          BY <1>3
        <5>2. j \in 1 .. n => b[j].id \in Nat /\ b[j].id < c + 1
          BY <1>7, <1>9
        <5> QED BY <1>7, <5>1, <5>2
      <4> QED BY <4>1
    <3>3. b[n + 1] # Torn /\ b[n + 2].id = b[n + 1].id + 1
      BY <1>7
    <3> QED BY <1>7, <2>3, <3>1, <3>2, <3>3 DEF Follows
  <2> QED BY <1>3, <2>1, <2>2, <2>3
<1> QED BY <1>6, <1>10 DEF Consecutive, b, t, y

\* A batch is torn: what comes next is more than one further.
LEMMA BatchTorn ==
  ASSUME NEW s \in Seq(Item), NEW b \in Seq(Item), b # <<>>, NEW c \in Nat,
         b[Len(b)] # Torn, b[Len(b)].id >= 1,
         Consecutive((s \o b) \o <<NextUp(c)>>)
  PROVE  Consecutive((s \o <<Torn>>) \o <<NextUp(c)>>)
<1> DEFINE n == Len(s)
           k == Len(b)
           x == NextUp(c)
           q == s \o b
           a == q \o <<x>>
           t == s \o <<Torn>>
           e == t \o <<x>>
<1>1. x \in Item /\ x.id = c + 1 /\ x # Torn /\ Torn \in Item /\ Torn.id = 0
  BY DEF NextUp, Item, Torn
<1>2. Consecutive(a)
  OBVIOUS
<1> HIDE DEF x
<1>3. /\ n \in Nat /\ k \in Nat /\ k # 0 /\ DOMAIN s = 1 .. n /\ DOMAIN b = 1 .. k
      /\ (\A i \in 1 .. n : s[i] \in Item) /\ \A i \in 1 .. k : b[i] \in Item
  BY LenProperties, ElementOfSeq, EmptySeq
<1>4. /\ q \in Seq(Item) /\ Len(q) = n + k
      /\ \A i \in 1 .. n + k : q[i] = IF i <= n THEN s[i] ELSE b[i - n]
  BY ConcatProperties
<1> HIDE DEF q
<1>5. /\ DOMAIN a = 1 .. n + k + 1 /\ a[n + k + 1] = x /\ \A i \in 1 .. n + k : a[i] = q[i]
  <2>1. /\ DOMAIN a = 1 .. Len(q) + 1 /\ a[Len(q) + 1] = x /\ \A i \in 1 .. Len(q) : a[i] = q[i]
    BY <1>1, <1>4, OneMore
  <2> QED BY <1>4, <2>1
<1>6. /\ t \in Seq(Item) /\ DOMAIN t = 1 .. n + 1 /\ t[n + 1] = Torn /\ \A i \in 1 .. n : t[i] = s[i]
  BY <1>1, OneMore
<1> HIDE DEF a, t
<1>7. Len(t) = n + 1
  BY <1>3, <1>6, LenProperties
<1>8. /\ DOMAIN e = 1 .. n + 2 /\ e[n + 2] = x /\ \A i \in 1 .. n + 1 : e[i] = t[i]
  BY <1>1, <1>3, <1>6, <1>7, OneMore
<1> DEFINE last == b[k]
<1>9. /\ \A i \in 1 .. n : e[i] = a[i] /\ e[i] = s[i] /\ e[i].id \in Nat
      /\ e[n + 1] = Torn /\ e[n + 2] # Torn /\ e[n + 2].id = c + 1
      /\ a[n + k] = last /\ last # Torn /\ last.id \in Nat /\ last.id >= 1
  <2>1. \A i \in 1 .. n : i \in 1 .. n + 1 /\ i \in 1 .. n + k /\ i <= n
    BY <1>3
  <2>2. n + 1 \in 1 .. n + 1 /\ n + k \in 1 .. n + k /\ ~ (n + k <= n) /\ n + k - n = k /\ k \in 1 .. k
    BY <1>3
  <2>3. a[n + k] = b[k]
    BY <1>4, <1>5, <2>2
  <2>4. \A i \in 1 .. n : e[i] = s[i] /\ a[i] = s[i]
    BY <1>4, <1>5, <1>6, <1>8, <2>1
  <2>5. b[k] \in Item
    BY <1>3, <2>2
  <2> HIDE DEF e
  <2> QED BY <1>1, <1>3, <1>6, <1>8, <2>2, <2>3, <2>4, <2>5, ZenonT(30) DEF Item
<1> HIDE DEF e, n, k, last
<1>10. Follows(a, n + k + 1) /\ Follows(a, n + k)
  <2>1. n + k + 1 \in DOMAIN a /\ n + k \in DOMAIN a
    BY <1>3, <1>5
  <2> QED BY <1>1, <1>2, <1>5, <1>9, <2>1 DEF Consecutive
<1>11. c + 1 = last.id + 1
  <2>1. PICK p \in Nat : p = n + k
    BY <1>3
  <2>2. PICK q1 \in Nat : q1 = p + 1
    BY <2>1
  <2>3. Follows(a, q1) /\ a[p] = last /\ a[q1] = x /\ p >= 1
    BY <1>3, <1>5, <1>9, <1>10, <2>1, <2>2
  <2>4. a[q1].id = a[p].id + 1
    BY <1>9, <2>2, <2>3, FollowsRest
  <2> QED BY <1>1, <2>3, <2>4
<1>12. \A j \in 1 .. n : e[j].id < last.id
  <2>1. PICK p \in Nat : p = n + k
    BY <1>3
  <2>2. PICK m \in Nat : m + 1 = p
    BY <1>3, <2>1
  <2>3. Follows(a, p) /\ a[p] = last /\ \A j \in 1 .. n : j \in 1 .. m
    BY <1>3, <1>9, <1>10, <2>1, <2>2
  <2>4. \A j \in 1 .. m : a[j].id < a[p].id
    BY <2>2, <2>3, FollowsRest
  <2> QED BY <1>9, <2>3, <2>4
<1>13. ASSUME NEW i \in 1 .. n + 2, e[i] # Torn PROVE Follows(e, i)
  <2>1. CASE i \in 1 .. n
    <3>1. i \in DOMAIN a /\ a[i] # Torn /\ i \in Nat /\ i >= 1 /\ \A j \in 1 .. i : a[j] = e[j]
      BY <1>3, <1>5, <1>9, <1>13, <2>1
    <3>2. Follows(a, i)
      BY <1>2, <3>1 DEF Consecutive
    <3> QED BY <3>1, <3>2, FollowsAlike
  <2>2. CASE i = n + 2
    <3>1. i - 1 = n + 1 /\ i > 1 /\ i # 1
      BY <1>3, <2>2
    <3>2. \A j \in 1 .. n + 1 : e[j].id + 1 < c + 1
      <4>1. ASSUME NEW j \in 1 .. n + 1 PROVE e[j].id + 1 < c + 1
        <5>1. j \in 1 .. n \/ j = n + 1
          BY <1>3
        <5>2. j \in 1 .. n => e[j].id \in Nat /\ e[j].id < last.id
          BY <1>9, <1>12
        <5> QED BY <1>1, <1>9, <1>11, <5>1, <5>2
      <4> QED BY <4>1
    <3>3. \A j \in 1 .. n + 1 : e[j].id \in Nat
      <4>1. ASSUME NEW j \in 1 .. n + 1 PROVE e[j].id \in Nat
        <5>1. j \in 1 .. n \/ j = n + 1
          BY <1>3
        <5> QED BY <1>1, <1>9, <5>1
      <4> QED BY <4>1
    <3>4. \A j \in 1 .. n + 1 : e[j].id < c + 1
      BY <3>2, <3>3
    <3>5. c + 1 > 1
      BY <1>9, <1>11
    <3> QED BY <1>9, <2>2, <3>1, <3>2, <3>4, <3>5 DEF Follows
  <2> QED BY <1>3, <1>9, <1>13, <2>1, <2>2
<1> QED BY <1>8, <1>13 DEF Consecutive, e, t, x

\* Concatenation is associative.
LEMMA Regroup ==
  ASSUME NEW R
  PROVE  \A s, u, v \in Seq(R) : (s \o u) \o v = s \o (u \o v)
BY ConcatAssociative

\* The pieces after the first g are empty.
Empties(d, g, n) == \A i \in g + 1 .. n : d[i] = <<>>

\* e is d with b added to its last piece that holds anything.
Adds(R, d, e, n, g, b) ==
  /\ n \in Nat /\ g \in 1 .. n /\ b \in Seq(R)
  /\ AreSeqs(d, n, R) /\ AreSeqs(e, n, R)
  /\ e[g] = d[g] \o b /\ Agree(d, e, g - 1) /\ Empties(d, g, n) /\ Empties(e, g, n)

\* What is added to the last piece that holds anything comes last of all.
LEMMA EndsAdded ==
  ASSUME NEW R, NEW d, NEW e, NEW n, NEW g, NEW b, Adds(R, d, e, n, g, b),
         NEW F, Heads(d, n, F), NEW G, Heads(e, n, G)
  PROVE  G[n] = F[n] \o b /\ F[n] \in Seq(R)
<1>2. \A s, u, v \in Seq(R) : (s \o u) \o v = s \o (u \o v)
  BY Regroup
<1> USE DEF Adds
<1>0. /\ g - 1 \in Nat /\ g - 1 <= n /\ g - 1 \in 0 .. n /\ g \in 0 .. n /\ n \in 0 .. n
  OBVIOUS
<1>1. (\A i \in 1 .. n : d[i] \in Seq(R)) /\ (\A i \in 1 .. n : e[i] \in Seq(R))
  BY DEF AreSeqs
<1>6. F[n] = F[g]
  <2>1. \A i \in g + 1 .. n : d[i] = <<>>
    BY DEF Empties
  <2> QED BY <1>0, <1>1, <2>1, EndsFlat
<1>7. G[n] = G[g]
  <2>1. \A i \in g + 1 .. n : e[i] = <<>>
    BY DEF Empties
  <2> QED BY <1>0, <1>1, <2>1, EndsFlat
<1>8. F[g - 1] = G[g - 1]
  BY <1>0, EndsMeet
<1>9. F[g] = F[g - 1] \o d[g] /\ G[g] = G[g - 1] \o e[g]
  BY DEF Heads
<1>10. /\ \A i \in 0 .. n : F[i] \in Seq(R)
  BY <1>1, EndsAreSeqs
<1>11. PICK a \in Seq(R) : a = F[g - 1]
  BY <1>0, <1>10
<1>12. PICK c \in Seq(R) : c = d[g]
  BY <1>1
<1>13. G[g] = a \o (c \o b) /\ F[g] = a \o c
  BY <1>8, <1>9, <1>11, <1>12
<1>14. (a \o c) \o b = a \o (c \o b)
  BY <1>2, <1>11, <1>12
<1> QED BY <1>0, <1>6, <1>7, <1>10, <1>13, <1>14

LEMMA AddedLast ==
  ASSUME NEW R, NEW d \in Seq(Seq(R)), NEW e \in Seq(Seq(R)), NEW n,
         NEW g, NEW b, Adds(R, d, e, n, g, b), Len(d) = n, Len(e) = n
  PROVE  FlattenSeq(e) = FlattenSeq(d) \o b /\ FlattenSeq(d) \in Seq(R)
<1>1. PICK F : Heads(d, n, F) /\ FlattenSeq(d) = F[n]
  BY EndsExist
<1>2. PICK G : Heads(e, n, G) /\ FlattenSeq(e) = G[n]
  BY EndsExist
<1>3. G[n] = F[n] \o b /\ F[n] \in Seq(R)
  BY <1>1, <1>2, EndsAdded
<1> QED BY <1>1, <1>2, <1>3

-----------------------------------------------------------------------------
\* Only the files up to the current one hold anything.
LaterEmpty == fd # Closed => \A f \in Files : f > fd => disk[f] = <<>>

\* The records on disk and in the batch, and the one that comes next.
OrderInv == /\ LaterEmpty
            /\ Consecutive((FlattenSeq(disk) \o outgoing) \o <<NextUp(count)>>)

\* Everything that lies in a file or in the batch is an Item.
LEMMA LoggerItems ==
  ASSUME IInv
  PROVE  /\ Record \subseteq Item /\ Torn \in Item
         /\ disk \in Seq(Seq(Item)) /\ Len(disk) = NumFiles /\ NumFiles \in Nat
         /\ outgoing \in Seq(Item)
         /\ \A f \in Files : disk[f] \in Seq(Item)
<1>1. Record \subseteq Item /\ Torn \in Item
  <2>1. Torn \in Item
    BY DEF Item, Torn
  <2>2. \A i \in 1 .. MaxRecords : i \in Nat
    BY LoggerAssumption
  <2>3. \A z \in Sizes : z \in Nat
    BY LoggerAssumption
  <2>4. ASSUME NEW r \in Record PROVE r \in Item
    BY <2>2, <2>3 DEF Record, Item
  <2> QED BY <2>1, <2>4
<1>2. /\ disk \in [Files -> Seq(Record \cup {Torn})] /\ outgoing \in Seq(Record) /\ NumFiles \in Nat
  BY LoggerAssumption DEF IInv, TypeOK
<1>3. \A s \in Seq(Record \cup {Torn}) : s \in Seq(Item)
  <2> SUFFICES ASSUME NEW s \in Seq(Record \cup {Torn}) PROVE s \in Seq(Item)
    OBVIOUS
  <2>1. \A i \in 1 .. Len(s) : s[i] \in Item
    BY <1>1, ElementOfSeq
  <2> QED BY <2>1, LenProperties, IsASeq
<1>4. disk \in [1 .. NumFiles -> Seq(Item)]
  BY <1>2, <1>3 DEF Files
<1>5. disk \in Seq(Seq(Item)) /\ Len(disk) = NumFiles
  BY <1>2, <1>4, SeqDef
<1>6. \A s \in Seq(Record) : s \in Seq(Item)
  <2> SUFFICES ASSUME NEW s \in Seq(Record) PROVE s \in Seq(Item)
    OBVIOUS
  <2>1. \A i \in 1 .. Len(s) : s[i] \in Item
    BY <1>1, ElementOfSeq
  <2> QED BY <2>1, LenProperties, IsASeq
<1> QED BY <1>1, <1>2, <1>4, <1>5, <1>6

Extended(b, e) == e = [disk EXCEPT ![fd] = disk[fd] \o b]

\* A batch is written to the current file.
LEMMA DiskAdded ==
  ASSUME IInv, LaterEmpty, fd # Closed, NEW b \in Seq(Item),
         NEW e, Extended(b, e)
  PROVE  /\ FlattenSeq(e) = FlattenSeq(disk) \o b
         /\ FlattenSeq(disk) \in Seq(Item)
         /\ \A f \in Files : f # fd => e[f] = disk[f]
<1>1. /\ disk \in Seq(Seq(Item)) /\ Len(disk) = NumFiles /\ NumFiles \in Nat
      /\ \A f \in Files : disk[f] \in Seq(Item)
  BY LoggerItems
<1>2. fd \in Files /\ Files = 1 .. Len(disk) /\ DOMAIN disk = Files
  BY <1>1, LenProperties DEF IInv, TypeOK, Files
<1>3. disk[fd] \o b \in Seq(Item)
  BY <1>1, <1>2, ConcatProperties
<1> DEFINE x == disk[fd] \o b
<1> HIDE DEF x
<1>4. e = [disk EXCEPT ![fd] = x] /\ x \in Seq(Item) /\ x = disk[fd] \o b
  BY <1>3 DEF x, Extended
<1>5. /\ e \in [Files -> Seq(Item)] /\ e[fd] = x /\ \A f \in Files : f # fd => e[f] = disk[f]
  BY <1>1, <1>2, <1>4
<1>6. e \in Seq(Seq(Item)) /\ Len(e) = Len(disk)
  BY <1>1, <1>2, <1>5, SeqDef
<1>7. Empties(disk, fd, NumFiles) /\ Empties(e, fd, NumFiles)
  <2>1. \A f \in fd + 1 .. NumFiles : f \in Files /\ f > fd /\ f # fd
    BY <1>1, <1>2 DEF Files
  <2>2. \A f \in Files : f > fd => disk[f] = <<>>
    BY DEF LaterEmpty
  <2> QED BY <1>5, <2>1, <2>2 DEF Empties
<1>8. Agree(disk, e, fd - 1)
  <2>1. \A f \in 1 .. fd - 1 : f \in Files /\ f # fd
    BY <1>1, <1>2 DEF Files
  <2> QED BY <1>5, <2>1 DEF Agree
<1>9. AreSeqs(disk, NumFiles, Item) /\ AreSeqs(e, NumFiles, Item)
  BY <1>1, <1>5 DEF Files, AreSeqs
<1>10. e[fd] = disk[fd] \o b /\ fd \in 1 .. NumFiles
  BY <1>2, <1>4, <1>5 DEF Files
<1>11. Adds(Item, disk, e, NumFiles, fd, b)
  BY <1>1, <1>7, <1>8, <1>9, <1>10 DEF Adds
<1>12. FlattenSeq(e) = FlattenSeq(disk) \o b /\ FlattenSeq(disk) \in Seq(Item)
  <2>1. Len(e) = NumFiles
    BY <1>1, <1>6
  <2> QED BY <1>1, <1>6, <1>11, <2>1, AddedLast
<1> QED BY <1>5, <1>12

\* flush() lays the batch behind everything written, or a torn block.
LEMMA FlushedOrder ==
  ASSUME IInv, LaterEmpty, fd # Closed,
         NEW batch \in Seq(Record), batch # <<>>, NEW marker, Flushed(batch, marker),
         NEW c \in Nat, Consecutive((FlattenSeq(disk) \o batch) \o <<NextUp(c)>>),
         count' = c
  PROVE  /\ \A f \in Files : f # fd => disk'[f] = disk[f]
         /\ Consecutive((FlattenSeq(disk') \o outgoing') \o <<NextUp(count')>>)
<1>1. outgoing' = <<>>
  BY DEF Flushed, ResetBuffer
<1>2. fd \in Files /\ disk \in [Files -> Seq(Record \cup {Torn})]
  BY DEF IInv, TypeOK
<1>3. Record \subseteq Item /\ Torn \in Item /\ \A f \in Files : disk[f] \in Seq(Item)
  BY LoggerItems
<1>4. /\ Len(batch) \in Nat /\ \A i \in 1 .. Len(batch) : batch[i] \in Record
  BY ElementOfSeq, LenProperties
<1>5. batch \in Seq(Item)
  BY <1>3, <1>4, LenProperties, IsASeq
<1>6. CASE WriteFull(batch, marker)
  <2>1. disk' = [disk EXCEPT ![fd] = disk[fd] \o batch]
    BY <1>6 DEF WriteFull
  <2>2. /\ FlattenSeq(disk') = FlattenSeq(disk) \o batch
        /\ FlattenSeq(disk) \in Seq(Item)
        /\ \A f \in Files : f # fd => disk'[f] = disk[f]
    BY <1>5, <2>1, DiskAdded DEF Extended
  <2>3. FlattenSeq(disk') \in Seq(Item)
    BY <1>5, <2>2, ConcatProperties
  <2>4. FlattenSeq(disk') \o <<>> = FlattenSeq(disk')
    BY <2>3, ConcatEmptySeq
  <2> QED BY <1>1, <2>2, <2>4
<1>7. CASE WriteShort
  <2>1. disk' = [disk EXCEPT ![fd] = disk[fd] \o <<Torn>>]
    <3>1. Append(disk[fd], Torn) = disk[fd] \o <<Torn>>
      BY <1>2, <1>3, AppendIsConcat
    <3> QED BY <1>7, <3>1 DEF WriteShort
  <2>2. <<Torn>> \in Seq(Item)
    BY <1>3
  <2>3. /\ FlattenSeq(disk') = FlattenSeq(disk) \o <<Torn>>
        /\ FlattenSeq(disk) \in Seq(Item)
        /\ \A f \in Files : f # fd => disk'[f] = disk[f]
    BY <2>1, <2>2, DiskAdded DEF Extended
  <2>4. FlattenSeq(disk') \in Seq(Item)
    BY <2>2, <2>3, ConcatProperties
  <2>5. FlattenSeq(disk') \o <<>> = FlattenSeq(disk')
    BY <2>4, ConcatEmptySeq
  <2>6. batch[Len(batch)] # Torn /\ batch[Len(batch)].id >= 1
    <3>1. Len(batch) \in 1 .. Len(batch)
      BY <1>4, EmptySeq
    <3>2. batch[Len(batch)] \in Record
      BY <1>4, <3>1
    <3>3. \A r \in Record : r.id \in 1 .. MaxRecords /\ r.id >= 1 /\ r # Torn
      BY LoggerAssumption DEF Record, Torn
    <3> QED BY <3>2, <3>3
  <2>7. Consecutive((FlattenSeq(disk) \o <<Torn>>) \o <<NextUp(c)>>)
    BY <1>5, <2>3, <2>6, BatchTorn
  <2> QED BY <1>1, <2>3, <2>5, <2>7
<1> QED BY <1>6, <1>7 DEF Flushed

\* The records on disk are a sequence of items.
LEMMA DiskItems ==
  ASSUME IInv
  PROVE  FlattenSeq(disk) \in Seq(Item)
<1>1. /\ disk \in Seq(Seq(Item)) /\ Len(disk) = NumFiles /\ NumFiles \in Nat
      /\ \A i \in 1 .. NumFiles : disk[i] \in Seq(Item)
  BY LoggerItems DEF Files
<1>2. PICK F : Heads(disk, Len(disk), F) /\ FlattenSeq(disk) = F[Len(disk)]
  BY <1>1, EndsExist
<1>3. \A i \in 0 .. NumFiles : F[i] \in Seq(Item)
  BY <1>1, <1>2, EndsAreSeqs
<1> QED BY <1>1, <1>2, <1>3

\* Nothing is on disk at first.
LEMMA InitOrder == Init /\ IInv => OrderInv
<1> SUFFICES ASSUME Init, IInv PROVE OrderInv
  OBVIOUS
<1>1. /\ disk \in Seq(Seq(Item)) /\ Len(disk) = NumFiles /\ NumFiles \in Nat
      /\ \A i \in 1 .. NumFiles : disk[i] \in Seq(Item)
  BY LoggerItems DEF Files
<1>2. /\ \A i \in 1 .. NumFiles : disk[i] = <<>>
      /\ outgoing = <<>> /\ count = 0
  BY DEF Init, Files
<1>3. PICK F : Heads(disk, Len(disk), F) /\ FlattenSeq(disk) = F[Len(disk)]
  BY <1>1, EndsExist
<1>4. F[NumFiles] = F[0]
  <2>1. \A i \in 0 + 1 .. NumFiles : disk[i] = <<>>
    BY <1>2
  <2>2. 0 \in 0 .. NumFiles /\ Heads(disk, NumFiles, F)
    BY <1>1, <1>3
  <2> QED BY <1>1, <2>1, <2>2, EndsFlat
<1>5. FlattenSeq(disk) = <<>>
  BY <1>1, <1>3, <1>4 DEF Heads
<1>6. NextUp(0) \in Item
  BY DEF NextUp, Item
<1>7. (<<>> \o <<>>) \o <<NextUp(0)>> = <<NextUp(0)>>
  OBVIOUS
<1>8. Consecutive(<<NextUp(0)>>)
  <2> DEFINE x == NextUp(0)
  <2>1. x.id = 1
    BY DEF NextUp
  <2> HIDE DEF x
  <2>2. <<x>>[1] = x /\ DOMAIN <<x>> = {1} /\ 1 .. 1 - 1 = {}
    OBVIOUS
  <2> QED BY <2>1, <2>2 DEF Consecutive, Follows, x
<1>9. LaterEmpty
  BY <1>2 DEF LaterEmpty, Files
<1> QED BY <1>2, <1>5, <1>7, <1>8, <1>9 DEF OrderInv

\* A record is pushed onto the batch.
LEMMA PushedOrder ==
  ASSUME IInv, OrderInv, count < MaxRecords, NEW size \in Sizes, NEW kind \in {"log", "start"}
  PROVE  LET batch == Append(outgoing, NewRecord(size, kind)) IN
         Consecutive((FlattenSeq(disk) \o batch) \o <<NextUp(count + 1)>>)
<1> DEFINE r == NewRecord(size, kind)
           d == FlattenSeq(disk)
<1>1. /\ r \in Item /\ r.id = count + 1 /\ r # Torn
      /\ count \in Nat
  <2>1. r \in Record
    BY NewRecordType
  <2>2. r.id = count + 1 /\ r.kind = kind
    BY DEF NewRecord
  <2>3. Record \subseteq Item
    BY LoggerItems
  <2>4. r # Torn
    BY <2>2 DEF Torn
  <2>5. count \in Nat
    BY LoggerAssumption DEF IInv, TypeOK
  <2> HIDE DEF r
  <2> QED BY <2>1, <2>2, <2>3, <2>4, <2>5
<1>2. d \in Seq(Item) /\ outgoing \in Seq(Item)
  BY DiskItems, LoggerItems
<1>3. Consecutive((d \o outgoing) \o <<NextUp(count)>>)
  BY DEF OrderInv
<1> HIDE DEF r, d
<1>4. d \o outgoing \in Seq(Item)
  BY <1>2, ConcatProperties
<1>5. Consecutive(((d \o outgoing) \o <<r>>) \o <<NextUp(count + 1)>>)
  BY <1>1, <1>3, <1>4, Accepted
<1>6. (d \o outgoing) \o <<r>> = d \o (outgoing \o <<r>>)
  <2>1. <<r>> \in Seq(Item)
    BY <1>1
  <2>2. \A s, u, v \in Seq(Item) : (s \o u) \o v = s \o (u \o v)
    BY Regroup
  <2> QED BY <1>2, <2>1, <2>2
<1>7. Append(outgoing, r) = outgoing \o <<r>>
  BY <1>1, <1>2, AppendIsConcat
<1> QED BY <1>5, <1>6, <1>7 DEF r, d

\* The later files stay empty as long as the logger only moves on.
LEMMA LaterStayEmpty ==
  ASSUME IInv, LaterEmpty, fd # Closed,
         fd' \in Files \cup {Closed}, fd' = Closed \/ fd' >= fd,
         \A f \in Files : f # fd => disk'[f] = disk[f]
  PROVE  LaterEmpty'
<1>1. fd \in Nat /\ \A f \in Files : f \in Nat
  BY LoggerAssumption DEF IInv, TypeOK, Files, Closed
<1>2. ASSUME fd' # Closed, NEW f \in Files, f > fd' PROVE disk'[f] = <<>>
  <2>1. f > fd /\ f # fd
    BY <1>1, <1>2
  <2> QED BY <2>1 DEF LaterEmpty
<1> QED BY <1>2 DEF LaterEmpty

\* Every action keeps the order.
LEMMA OrderStep == IInv /\ OrderInv /\ [Next]_vars => OrderInv'
<1> SUFFICES ASSUME IInv, OrderInv, [Next]_vars PROVE OrderInv'
  OBVIOUS
<1>0. /\ LaterEmpty /\ count \in Nat /\ outgoing \in Seq(Record)
      /\ fd \in Files \cup {Closed} /\ outgoingSize \in Nat
      /\ \A f \in Files : f \in Nat
      /\ Consecutive((FlattenSeq(disk) \o outgoing) \o <<NextUp(count)>>)
  BY LoggerAssumption DEF IInv, TypeOK, OrderInv, Files
<1>1. ASSUME fd # Closed, fd' = Closed \/ fd' >= fd, fd' \in Files \cup {Closed},
             NEW batch \in Seq(Record), batch # <<>>, NEW marker, Flushed(batch, marker),
             NEW c \in Nat, Consecutive((FlattenSeq(disk) \o batch) \o <<NextUp(c)>>), count' = c
      PROVE  OrderInv'
  <2>1. /\ \A f \in Files : f # fd => disk'[f] = disk[f]
        /\ Consecutive((FlattenSeq(disk') \o outgoing') \o <<NextUp(count')>>)
    BY <1>0, <1>1, FlushedOrder
  <2>2. LaterEmpty'
    BY <1>0, <1>1, <2>1, LaterStayEmpty
  <2> QED BY <2>1, <2>2 DEF OrderInv
<1>2. ASSUME UNCHANGED <<disk, fd>>,
             Consecutive((FlattenSeq(disk) \o outgoing') \o <<NextUp(count')>>)
      PROVE  OrderInv'
  BY <1>0, <1>2 DEF OrderInv, LaterEmpty
<1>3. ASSUME NEW size \in Sizes, NEW kind \in {"log", "start"}, NEW marker,
             NEW total, NEW handle,
             fd # Closed, count < MaxRecords, count' = count + 1, fd' = fd,
             LET batch == Append(outgoing, NewRecord(size, kind)) IN
               \/ Flushed(batch, marker)
               \/ FlushThrew(batch, total, marker, handle)
               \/ outgoing' = batch /\ disk' = disk
      PROVE  OrderInv'
  <2> DEFINE batch == Append(outgoing, NewRecord(size, kind))
  <2>1. /\ Consecutive((FlattenSeq(disk) \o batch) \o <<NextUp(count + 1)>>)
        /\ batch \in Seq(Record) /\ batch # <<>>
    BY <1>3, PushedOrder, NewRecordType
  <2>2. \/ Flushed(batch, marker)
        \/ outgoing' = batch /\ disk' = disk
    BY <1>3 DEF FlushThrew, files
  <2>3. count + 1 \in Nat /\ (fd' = Closed \/ fd' >= fd) /\ fd' \in Files \cup {Closed}
    BY <1>0, <1>3
  <2> HIDE DEF batch
  <2>4. CASE Flushed(batch, marker)
    BY <1>1, <1>3, <2>1, <2>3, <2>4
  <2>5. CASE outgoing' = batch /\ disk' = disk
    BY <1>2, <1>3, <2>1, <2>5
  <2> QED BY <2>2, <2>4, <2>5
<1>4. ASSUME NEW size \in Sizes, Log(size) PROVE OrderInv'
  <2> DEFINE batch == Append(outgoing, NewRecord(size, "log"))
  <2>1. /\ fd # Closed /\ count < MaxRecords /\ count' = count + 1 /\ fd' = fd
        /\ \/ Flushed(batch, writeSliceMarker)
           \/ FlushThrew(batch, outgoingSize + size, writeSliceMarker, timer)
           \/ outgoing' = batch /\ disk' = disk
    BY <1>4 DEF Log
  <2> QED BY <1>3, <2>1
<1>5. ASSUME NEW size \in Sizes, STARTING_UP(size) PROVE OrderInv'
  <2> DEFINE batch == Append(outgoing, NewRecord(size, "start"))
             handle == IF FlushesAt(outgoingSize + size) THEN timer ELSE Armed
  <2>1. /\ fd # Closed /\ count < MaxRecords /\ count' = count + 1 /\ fd' = fd
        /\ \/ Flushed(batch, TRUE)
           \/ FlushThrew(batch, outgoingSize + size, TRUE, handle)
    BY <1>5 DEF STARTING_UP
  <2> QED BY <1>3, <2>1
<1>6. ASSUME fd # Closed, outgoing # <<>>, count' = count, fd' = Closed \/ fd' >= fd,
             fd' \in Files \cup {Closed}, Flushed(outgoing, writeSliceMarker)
      PROVE  OrderInv'
  BY <1>0, <1>1, <1>6
<1>7. CASE Flush \/ TimerFires \/ FlushIfBufferedThrows
  <2>1. /\ fd # Closed /\ fd' = fd /\ count' = count
        /\ \/ Flushed(outgoing, writeSliceMarker)
           \/ outgoing' = outgoing /\ disk' = disk
    BY <1>7 DEF Flush, TimerFires, FlushIfBufferedThrows, FlushThrew, files
  <2>2. outgoing # <<>>
    BY <1>0, <1>7 DEF IInv, SizeMatches, TimerIsSound, Flush, TimerFires, FlushIfBufferedThrows
  <2>3. fd' >= fd /\ fd' \in Files \cup {Closed}
    BY <1>0, <2>1
  <2> QED BY <1>0, <1>2, <1>6, <2>1, <2>2, <2>3
<1>8. CASE Close \/ \E f \in Files : Rotate(f)
  <2>1. /\ fd # Closed /\ count' = count /\ FlushIfBuffered
        /\ fd' = Closed \/ fd' >= fd
        /\ fd' \in Files \cup {Closed}
    BY <1>8 DEF Close, Rotate
  <2>2. CASE outgoingSize > 0 /\ Flushed(outgoing, writeSliceMarker)
    <3>1. outgoing # <<>>
      BY <1>0, <2>2 DEF IInv, SizeMatches
    <3> QED BY <1>6, <2>1, <2>2, <3>1
  <2>3. CASE UNCHANGED <<outgoing, disk>>
    <3>1. LaterEmpty'
      BY <1>0, <2>1, <2>3, LaterStayEmpty
    <3> QED BY <1>0, <2>1, <2>3, <3>1 DEF OrderInv
  <2> QED BY <2>1, <2>2, <2>3 DEF FlushIfBuffered
<1>9. CASE UNCHANGED vars
  BY <1>0, <1>2, <1>9 DEF vars
<1> QED BY <1>4, <1>5, <1>7, <1>8, <1>9 DEF Next

\* A sequence of items that count on is one in which each counts on from the
\* newest before it.
LEMMA CountsOn ==
  ASSUME NEW all \in Seq(Item), Consecutive(all), NEW i \in DOMAIN all, all[i] # Torn
  PROVE  LET newest == Max({all[j].id : j \in 1 .. i - 1} \cup {0}) IN
         IF i > 1 /\ all[i - 1] = Torn THEN all[i].id > newest + 1
                                       ELSE all[i].id = newest + 1
<1> DEFINE S == {all[j].id : j \in 1 .. i - 1} \cup {0}
           newest == Max(S)
<1>1. /\ i \in Nat /\ i >= 1 /\ \A j \in 1 .. i : all[j] \in Item
  BY LenProperties, ElementOfSeq
<1>2. PICK z \in Nat : z = all[i].id
  BY <1>1 DEF Item
<1>3. /\ \A j \in 1 .. i - 1 : all[j].id < z
      /\ i = 1 => z = 1
      /\ i > 1 => IF all[i - 1] = Torn THEN z > 1 /\ \A j \in 1 .. i - 1 : all[j].id + 1 < z
                                       ELSE z = all[i - 1].id + 1
  BY <1>2 DEF Consecutive, Follows
<1>4. \A j \in 1 .. i - 1 : all[j].id \in Nat
  BY <1>1 DEF Item
<1>5. S \subseteq 0 .. z /\ S # {}
  BY <1>2, <1>3, <1>4
<1>6. /\ \A n \in S : n = 0 \/ \E j \in 1 .. i - 1 : n = all[j].id
      /\ i > 1 => all[i - 1].id \in S
      /\ 0 \in S
  BY <1>1
<1> HIDE DEF S
<1>7. newest \in S /\ \A n \in S : n <= newest
  BY <1>2, <1>5, GreatestNumber
<1> HIDE DEF newest
<1>8. newest \in Nat
  <2>1. newest \in S /\ \A n \in S : n \in 0 .. z
    BY <1>5, <1>7
  <2> QED BY <1>2, <2>1
<1>9. CASE i = 1
  <2>1. newest = 0
    BY <1>6, <1>7, <1>9
  <2> QED BY <1>2, <1>3, <1>9, <2>1 DEF newest, S
<1>10. CASE i > 1 /\ all[i - 1] = Torn
  <2>1. z > newest + 1
    BY <1>2, <1>3, <1>4, <1>6, <1>7, <1>10
  <2> QED BY <1>2, <1>10, <2>1 DEF newest, S
<1>11. CASE i > 1 /\ all[i - 1] # Torn
  <2>1. all[i - 1].id <= newest /\ z = all[i - 1].id + 1 /\ all[i - 1].id \in Nat
    <3>1. i - 1 \in 1 .. i - 1
      BY <1>1, <1>11
    <3> QED BY <1>3, <1>4, <1>6, <1>7, <1>11, <3>1
  <2>2. newest < z
    BY <1>2, <1>3, <1>4, <1>6, <1>7, <2>1
  <2>3. z = newest + 1
    BY <1>2, <1>8, <2>1, <2>2
  <2> QED BY <1>2, <1>11, <2>3 DEF newest, S
<1> QED BY <1>1, <1>9, <1>10, <1>11

\* However calls, timers, rotations and failing writes are interleaved, the files
\* and the batch together hold every record accepted, once and in order, but for
\* those a torn block stands for.
THEOREM RecordsStayInOrder == Spec => []NothingLostOrReordered
<1>1. IInv /\ OrderInv => NothingLostOrReordered
  <2> SUFFICES ASSUME IInv, OrderInv PROVE NothingLostOrReordered
    OBVIOUS
  <2> DEFINE all == (FlattenSeq(disk) \o outgoing) \o <<NextUp(count)>>
  <2>1. Consecutive(all)
    BY DEF OrderInv
  <2>2. all \in Seq(Item)
    <3>1. FlattenSeq(disk) \in Seq(Item) /\ outgoing \in Seq(Item)
      BY DiskItems, LoggerItems
    <3>2. NextUp(count) \in Item
      BY LoggerAssumption DEF NextUp, Item, IInv, TypeOK
    <3>3. <<NextUp(count)>> \in Seq(Item)
      BY <3>2
    <3>4. FlattenSeq(disk) \o outgoing \in Seq(Item)
      BY <3>1, ConcatProperties
    <3> QED BY <3>3, <3>4, ConcatProperties
  <2> HIDE DEF all
  <2>3. \A i \in DOMAIN all : all[i] # Torn =>
          LET newest == Max({all[j].id : j \in 1 .. i - 1} \cup {0}) IN
          IF i > 1 /\ all[i - 1] = Torn THEN all[i].id > newest + 1
                                        ELSE all[i].id = newest + 1
    BY <2>1, <2>2, CountsOn
  <2> QED BY <2>3 DEF all, NothingLostOrReordered, NextUp
<1>2. Init => IInv /\ OrderInv
  BY InitIInv, InitOrder
<1>3. IInv /\ OrderInv /\ [Next]_vars => (IInv /\ OrderInv)'
  BY NextIInv, OrderStep
<1> QED BY <1>1, <1>2, <1>3, PTL DEF Spec
=============================================================================
