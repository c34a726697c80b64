------------------------------- MODULE Scanner -------------------------------
(***************************************************************************)
(* Scanner (src/shared/scanner.js): scans over the blocks of a source, in  *)
(* both directions, a page at a time, while the source grows.              *)
(*                                                                         *)
(* The source is a stream of blocks that the loggers have written, with    *)
(* what crashes have torn; its readers see more and more of it, up to any  *)
(* byte.  A step of a scan ends where the code awaits a read of the Vfs or *)
(* hands out a record.  A caller may leave a scan at any record and start  *)
(* another in either direction, or jump; it reports a new size, as tail()  *)
(* does, when a forward scan has come to its end.                          *)
(*                                                                         *)
(* Offsets count from 0 as in the code.  nextLogs is <<>> where the code   *)
(* has null; _nextOffset and _prevOffset, which the code then leaves as    *)
(* they were and does not read, are 0.                                     *)
(***************************************************************************)
EXTENDS Framing, FiniteSets

CONSTANTS PageSize,       \* PAGE_SIZE of scanner.js
          SearchPage,     \* PAGE_SIZE of binary-search.js
          Blocks,         \* what a block may hold: contents of its records
          MaxBytes,       \* bound: bytes of a stream
          MayTearEscape,  \* whether a crash may fall between an escape byte
                          \* and its code
          MayStartEmpty   \* whether a reader may come before the first byte

ASSUME ScannerAssumption ==
  /\ PageSize \in Nat \ {0} /\ SearchPage \in Nat \ {0}
  /\ MaxBytes \in Nat
  /\ \A contents \in Blocks : contents \in Seq(Seq(Byte)) /\ contents # <<>>
  /\ MayTearEscape \in BOOLEAN /\ MayStartEmpty \in BOOLEAN

VARIABLES stream,   \* what is in the files in the end; it never changes
          visible,  \* how many of its bytes readers can see by now
          sc,       \* the Scanner
          pc,       \* "idle", "scan" (in the loop) or "block" (_yieldLogs)
          scan,     \* the direction of the last scan
          ended,    \* whether that scan has run to its end
          out       \* the record that was just handed out

vars == <<stream, visible, sc, pc, scan, ended, out>>

NoLog == <<>>

-----------------------------------------------------------------------------
(* The streams that loggers leave behind: bytes, and for each record that   *)
(* was written whole the offset where its block ends.                       *)

Empty == [bytes |-> <<>>, logs |-> <<>>, next |-> Header, torn |-> FALSE]

\* Records, one for each content, with numbers from n on.
Numbered(n, contents) == [i \in DOMAIN contents |-> <<n + i - 1>> \o contents[i]]

\* STARTING_UP makes the first block of a process begin with a slice marker.
Marked(st) == IF st.torn THEN {TRUE} ELSE BOOLEAN

\* A block is written whole, or a crash leaves the first part of it.
Written(st, contents, marked) ==
  LET logs == Numbered(st.next, contents)
      end == Len(st.bytes) + Len(BlockOf(logs, marked))
  IN [bytes |-> st.bytes \o BlockOf(logs, marked),
      logs |-> st.logs \o [i \in DOMAIN logs |-> [log |-> logs[i], end |-> end]],
      next |-> st.next + Len(logs),
      torn |-> FALSE]

Torn(st, contents, marked, length) ==
  [bytes |-> st.bytes \o
             SubSeq(BlockOf(Numbered(st.next, contents), marked), 1, length),
   logs |-> st.logs,
   next |-> st.next + Len(contents),
   torn |-> TRUE]

Extensions(st) ==
  {next \in
     UNION {{Written(st, contents, marked)} \cup
              {Torn(st, contents, marked, length) :
                 length \in 1 .. Len(BlockOf(Numbered(st.next, contents), marked)) - 1} :
            contents \in Blocks, marked \in Marked(st)} :
   /\ Len(next.bytes) <= MaxBytes
   /\ next.torn /\ ~MayTearEscape => Last(next.bytes) # ESCAPE}

\* Streams that have no room for another block.
Streams ==
  LET reached[n \in 0 .. MaxBytes] ==
        IF n = 0 THEN {Empty}
        ELSE UNION {IF Extensions(st) = {} THEN {st} ELSE Extensions(st) : st \in reached[n - 1]}
  IN reached[MaxBytes]

\* How many records are in the blocks that end within the first bytes.
LogsBefore(offset) == Cardinality({i \in DOMAIN stream.logs : stream.logs[i].end <= offset})

-----------------------------------------------------------------------------
\* What a read of the Vfs returns.
Read(offset, length) == subarray(stream.bytes, offset, Min({offset + length, visible}))

ReadPage(n) == Read(n * PageSize, PageSize)

pageCount == CeilDiv(sc.totalSize, PageSize)

-----------------------------------------------------------------------------
Init == /\ stream \in Streams
        /\ visible \in 0 .. Len(stream.bytes)
        /\ ~MayStartEmpty => visible > 0
        /\ sc = [chunk |-> <<>>, chunkOffset |-> 0, page |-> -1, boundary |-> TRUE,
                 tail |-> 0, nextLogs |-> <<>>, prevLogs |-> <<>>,
                 nextOffset |-> 0, prevOffset |-> 0, totalSize |-> visible]
        /\ pc = "idle"
        /\ scan = "forward"
        /\ ended = FALSE
        /\ out = NoLog

SourceGrows == /\ \E size \in visible + 1 .. Len(stream.bytes) : visible' = size
               /\ out' = NoLog
               /\ UNCHANGED <<stream, sc, pc, scan, ended>>

\* Fault: the start of any page is taken for a block boundary.
AtPageStart(page, offset) == offset = 0

\* Whether a jump has come to a block boundary.
AtBoundary(page, offset) == page = 0 /\ offset = 0

goto(byteOffset) ==
  LET page == byteOffset \div PageSize
      chunk == ReadPage(page)
      offset == Min({byteOffset % PageSize, Len(chunk)})
  IN /\ pc = "idle"
     /\ sc' = [sc EXCEPT !.chunk = chunk, !.chunkOffset = offset, !.page = page,
                         !.boundary = AtBoundary(page, offset), !.tail = 0,
                         !.nextLogs = <<>>, !.prevLogs = <<>>,
                         !.nextOffset = 0, !.prevOffset = 0]
     /\ scan' = "forward"
     /\ ended' = FALSE
     /\ out' = NoLog
     /\ UNCHANGED <<stream, visible, pc>>

_reverseBlock(s) == [s EXCEPT !.nextLogs = s.prevLogs, !.prevLogs = s.nextLogs,
                              !.nextOffset = s.prevOffset, !.prevOffset = s.nextOffset]

\* Fault: a block that was left in the other direction is not turned round.
TurnedNever(s, direction) == s

\* The block that a scan was left in, in the direction of the new one.
Turned(s, direction) ==
  IF s.nextLogs # <<>> /\ \/ direction = "forward" /\ s.nextOffset < s.prevOffset
                          \/ direction = "backward" /\ s.nextOffset > s.prevOffset
    THEN _reverseBlock(s) ELSE s

\* forwardScan() or backwardScan() is called.
StartScan(direction) ==
  /\ pc = "idle"
  /\ sc' = Turned(sc, direction)
  /\ pc' = IF sc.nextLogs # <<>> THEN "block" ELSE "scan"
  /\ scan' = direction
  /\ ended' = FALSE
  /\ out' = NoLog
  /\ UNCHANGED <<stream, visible>>

\* _yieldLogs() hands out a record; the caller goes on or leaves the scan.
YieldLog ==
  LET rest == Front(sc.nextLogs) IN
  /\ pc = "block"
  /\ out' = Last(sc.nextLogs)
  /\ IF rest # <<>>
       THEN /\ sc' = [sc EXCEPT !.nextLogs = rest, !.prevLogs = Append(@, out')]
            /\ pc' \in {"block", "idle"}
       ELSE /\ sc' = [sc EXCEPT !.nextLogs = <<>>, !.prevLogs = <<>>,
                                !.chunkOffset = sc.nextOffset,
                                !.nextOffset = 0, !.prevOffset = 0]
            /\ pc' \in {"scan", "idle"}
  /\ UNCHANGED <<stream, visible, scan, ended>>

\* A step of the loop of a scan.
Scanning(direction) == /\ pc = "scan"
                       /\ scan = direction
                       /\ out' = NoLog
                       /\ UNCHANGED <<stream, visible, scan>>

\* _enterBlock(block, prevOffset): the block is parsed, or the scan throws.
EnterBlock(s, block, prevOffset) ==
  IF Parses(block)
    THEN /\ sc' = [s EXCEPT !.nextLogs = IF scan = "forward" THEN Reverse(parseEach(block))
                                                             ELSE parseEach(block),
                            !.prevLogs = <<>>,
                            !.nextOffset = s.chunkOffset,
                            !.prevOffset = prevOffset]
         /\ pc' = "block"
    ELSE sc' = s /\ pc' = "thrown"

\* The loop has come to its end.
EndScan(s) == sc' = s /\ pc' = "idle" /\ ended' = TRUE

\* What is left of a chunk when the scan goes on at a block boundary.
LeftOver == subarray(sc.chunk, sc.chunkOffset, Len(sc.chunk))

\* The chunk of the next page, behind what is left of this one.
ForwardPage(chunk) ==
  [sc EXCEPT !.chunk = IF sc.boundary THEN LeftOver \o chunk ELSE chunk,
             !.chunkOffset = 0,
             !.page = @ + 1,
             !.tail = IF sc.boundary THEN Len(LeftOver) ELSE 0]

\* A tail that a backward scan has left at the end of the chunk is removed;
\* if the position was in it, on to the page of the position.
ForwardDropTail ==
  LET kept == subarray(sc.chunk, 0, Len(sc.chunk) + sc.tail)
      overflow == sc.chunkOffset - Len(kept)
      delta == CeilDiv(overflow, PageSize)
  IN /\ Scanning("forward")
     /\ sc.tail < 0
     /\ sc' = IF overflow > 0
                THEN [sc EXCEPT !.chunk = ReadPage(sc.page + delta), !.tail = 0,
                                !.chunkOffset = overflow - (delta - 1) * PageSize,
                                !.page = @ + delta]
                ELSE [sc EXCEPT !.chunk = kept, !.tail = 0]
     /\ UNCHANGED <<pc, ended>>

ForwardStep ==
  LET found == indexOf(sc.chunk, sc.chunkOffset)
      behind == [sc EXCEPT !.chunkOffset = found + 1]
  IN /\ Scanning("forward")
     /\ sc.tail >= 0
     /\ \/ /\ found >= 0 /\ sc.boundary
           /\ EnterBlock(behind, subarray(sc.chunk, sc.chunkOffset, found + 1), sc.chunkOffset)
           /\ UNCHANGED ended
        \/ /\ found >= 0 /\ ~sc.boundary
           /\ sc' = [behind EXCEPT !.boundary = TRUE]
           /\ UNCHANGED <<pc, ended>>
        \/ /\ found < 0 /\ sc.page + 1 < pageCount
           /\ sc' = ForwardPage(ReadPage(sc.page + 1))
           /\ UNCHANGED <<pc, ended>>
        \/ /\ found < 0 /\ sc.page + 1 >= pageCount
           /\ EndScan(IF sc.boundary THEN sc ELSE [sc EXCEPT !.chunkOffset = Len(sc.chunk)])

\* The chunk of the page before, with what is left of this one behind it.
BackwardPage(chunk) ==
  LET left == IF sc.boundary THEN subarray(sc.chunk, 0, sc.chunkOffset) ELSE <<>>
  IN [sc EXCEPT !.chunk = chunk \o left,
                !.chunkOffset = Len(chunk \o left),
                !.page = @ - 1,
                !.tail = -Len(left)]

\* A tail that a forward scan has left in front of the chunk is removed; if the
\* position was in it, back to the page of the position.
BackwardDropTail ==
  LET offset == sc.chunkOffset - sc.tail
      delta == -CeilDiv(-offset, PageSize)
  IN /\ Scanning("backward")
     /\ sc.tail > 0
     /\ sc' = IF offset < 0
                THEN [sc EXCEPT !.chunk = ReadPage(sc.page + delta), !.tail = 0,
                                !.chunkOffset = offset - delta * PageSize,
                                !.page = @ + delta]
                ELSE [sc EXCEPT !.chunk = subarray(sc.chunk, sc.tail, Len(sc.chunk)),
                                !.tail = 0, !.chunkOffset = offset]
     /\ UNCHANGED <<pc, ended>>

BackwardStep ==
  LET found == lastIndexOf(sc.chunk, sc.chunkOffset - (IF sc.boundary THEN 2 ELSE 1))
      behind == [sc EXCEPT !.chunkOffset = found + 1]
      start == [sc EXCEPT !.chunkOffset = 0]
  IN /\ Scanning("backward")
     /\ sc.tail <= 0
     /\ \/ /\ found >= 0 /\ sc.boundary
           /\ EnterBlock(behind, subarray(sc.chunk, found + 1, sc.chunkOffset), sc.chunkOffset)
           /\ UNCHANGED ended
        \/ /\ found >= 0 /\ ~sc.boundary
           /\ sc' = [behind EXCEPT !.boundary = TRUE]
           /\ UNCHANGED <<pc, ended>>
        \/ /\ found < 0 /\ sc.page > 0
           /\ sc' = BackwardPage(ReadPage(sc.page - 1))
           /\ UNCHANGED <<pc, ended>>
        \/ /\ found < 0 /\ sc.page <= 0 /\ sc.boundary /\ sc.chunkOffset > 0
           /\ EnterBlock(start, subarray(sc.chunk, 0, sc.chunkOffset), sc.chunkOffset)
           /\ UNCHANGED ended
        \/ /\ found < 0 /\ sc.page <= 0 /\ ~(sc.boundary /\ sc.chunkOffset > 0)
           /\ EndScan([start EXCEPT !.boundary = TRUE])

\* Fault: the last page is not read again.
ReloadedNever(page) == sc.chunk

\* Fault: the tail in front of the page is lost.
ReloadedBare(page) == IF page = pageCount - 1 /\ page >= 0 THEN ReadPage(page) ELSE sc.chunk

\* The chunk of updateSize(): the last page is read again, behind the tail.
Reloaded(page) ==
  IF page = pageCount - 1 /\ page >= 0
    THEN subarray(sc.chunk, 0, sc.tail) \o ReadPage(page)
    ELSE sc.chunk

\* updateSize(), which tail() calls when the size it has measured is larger.
updateSize(size) ==
  /\ pc = "idle"
  /\ ended /\ scan = "forward"
  /\ size > sc.totalSize
  /\ sc' = [sc EXCEPT !.chunk = Reloaded(sc.page), !.totalSize = size]
  /\ ended' = FALSE
  /\ out' = NoLog
  /\ UNCHANGED <<stream, visible, pc, scan>>

\* The pages that a binary search of the known size can end on.
SearchPages == {0} \cup 0 .. CeilDiv(sc.totalSize, SearchPage) - 1

Next == \/ SourceGrows
        \/ \E page \in SearchPages : goto(page * SearchPage)
        \/ \E direction \in {"forward", "backward"} : StartScan(direction)
        \/ YieldLog
        \/ ForwardDropTail \/ ForwardStep
        \/ BackwardDropTail \/ BackwardStep
        \/ \E size \in 1 .. visible : updateSize(size)

Spec == Init /\ [][Next]_vars

\* Fault: a tail in front of the page is counted twice.
ByteOffsetWithTail ==
  IF sc.page < 0 THEN 0
  ELSE sc.page * PageSize + (IF sc.nextLogs # <<>> THEN sc.nextOffset ELSE sc.chunkOffset)

calculateByteOffset ==
  IF sc.page < 0 THEN 0
  ELSE sc.page * PageSize
       + (IF sc.nextLogs # <<>> THEN sc.nextOffset ELSE sc.chunkOffset)
       - Max({0, sc.tail})

-----------------------------------------------------------------------------
TypeOK ==
  /\ visible \in 0 .. Len(stream.bytes)
  /\ sc.chunkOffset \in 0 .. Len(sc.chunk)
  /\ sc.page \in -1 .. CeilDiv(MaxBytes, PageSize)
  /\ sc.boundary \in BOOLEAN
  /\ sc.tail \in -Len(sc.chunk) .. Len(sc.chunk)
  /\ sc.totalSize \in 0 .. visible
  /\ pc \in {"idle", "scan", "block", "thrown"}
  /\ scan \in {"forward", "backward"}
  /\ ended \in BOOLEAN

\* Where the scanner is, counted in records: in the middle of a block, at a
\* block boundary, or nowhere that can be told.
Unknown == -1

Position ==
  LET at == calculateByteOffset
      forward == sc.nextOffset > sc.prevOffset
  IN CASE sc.nextLogs # <<>> /\ forward  -> LogsBefore(at) - Len(sc.nextLogs)
       [] sc.nextLogs # <<>> /\ ~forward -> LogsBefore(at) + Len(sc.nextLogs)
       [] sc.nextLogs = <<>> /\ sc.boundary -> LogsBefore(at)
       [] OTHER -> Unknown

\* Over pages, tails, boundaries and changes of direction, a scanner is a
\* cursor: every record that was written whole is handed out exactly when the
\* cursor passes it, as it was written, and nothing that a crash has torn
\* (scanner.js:60-190).
Cursor == INSTANCE LogCursor WITH
  logs <- [i \in 1 .. LogsBefore(visible) |-> stream.logs[i].log],
  cur <- Position, out <- out, scan <- scan, Unknown <- Unknown, NoLog <- NoLog
CursorSpec == Cursor!CursorSpec

\* A forward scan that ends has passed every block within the known size, and
\* a backward scan every block from the first on; a forward scan that has met
\* no boundary since the jump ends at the end (scanner.js:117-124, 177-188).
ScansReachTheEnds ==
  ended => IF scan = "backward" THEN Position = 0
           ELSE \/ Position >= LogsBefore(sc.totalSize)
                \/ Position = Unknown /\ calculateByteOffset >= sc.totalSize

\* The offset at which a bulk query cuts is a block boundary that leaves out
\* nothing the scan has handed out, also when the scan was left in the middle
\* of a block or with a tail (scanner.js:214-221, log-reader.js:255-278).
OffsetsCoverTheScan ==
  pc = "idle" /\ Position # Unknown =>
    LET at == calculateByteOffset IN
    /\ at = 0 \/ stream.bytes[at] = SEPARATOR
    /\ IF scan = "forward" THEN LogsBefore(at) >= Position ELSE LogsBefore(at) <= Position

\* No block a scanner takes for one fails to parse: blocks are cut out of the
\* stream at their boundaries, and a slice marker removes the torn part that it
\* follows (block-parser.js:47-61, common.js:41-66).
BlocksParse == pc # "thrown"
=============================================================================
