----------------------------- MODULE BulkParser -----------------------------
(***************************************************************************)
(* The bulk transfer of logs: the chunks that the bulk queries of          *)
(* LogReader hand out (src/shared/log-reader.js), which arrive at the      *)
(* other side cut into other pieces, and the two parsers that make blocks  *)
(* of them again (src/shared/bulk-parser.js).                              *)
(***************************************************************************)
EXTENDS Framing

\* Where a transfer from one offset to another is cut, going up by pages.
Cuts(from, to, page) ==
  [i \in 1 .. CeilDiv(to - from, page) |->
     [from |-> from + (i - 1) * page, to |-> Min({from + i * page, to})]]

\* bulkRange() and bulkTail() of the bytes of a source.
bulkChunks(bytes, from, to, page) ==
  LET cuts == Cuts(from, to, page)
  IN [i \in DOMAIN cuts |-> subarray(bytes, cuts[i].from, cuts[i].to)]

\* The lengths that four bytes hold.
FitsFourBytes(length) == length \div 16777216 < 256

\* Four bytes, big-endian.
prependLength(chunk) ==
  LET length == Len(chunk)
  IN <<(length \div 16777216) % 256, (length \div 65536) % 256,
       (length \div 256) % 256, length % 256>> \o chunk

readUint32(bytes) ==
  16777216 * bytes[1] + 65536 * bytes[2] + 256 * bytes[3] + bytes[4]

\* bulkRangeReversed(): from the end down, each chunk with its length.
bulkChunksReversed(bytes, from, to, page) ==
  [i \in 1 .. CeilDiv(to - from, page) |->
     prependLength(subarray(bytes, Max({from, to - i * page}), to - (i - 1) * page))]

-----------------------------------------------------------------------------
\* The numbers of a set up to a bound, in their order.
InOrder(S, bound) ==
  LET below[n \in 0 .. bound + 1] ==
        IF n = 0 THEN <<>>
        ELSE IF n - 1 \in S THEN Append(below[n - 1], n - 1) ELSE below[n - 1]
  IN below[bound + 1]

\* The bytes between neighbouring offsets.
Between(bytes, offsets) ==
  [i \in 1 .. Max({0, Len(offsets) - 1}) |-> subarray(bytes, offsets[i], offsets[i + 1])]

\* Behind which bytes a block ends.
Ends(bytes) == {i + 1 : i \in Separators(bytes)}

\* A piece of a bulk stream: its blocks, and what is left in outputBuffer.
ReadPiece(state, data) ==
  LET buffer == state.buffer \o data
      ends == InOrder({0} \cup Ends(buffer), Len(buffer))
  IN [buffer |-> subarray(buffer, Last(ends), Len(buffer)),
      blocks |-> state.blocks \o Between(buffer, ends)]

\* read(): the blocks in the pieces of a bulk stream.
readBulk(input) ==
  LET after[n \in 0 .. Len(input)] ==
        IF n = 0 THEN [buffer |-> <<>>, blocks |-> <<>>]
        ELSE ReadPiece(after[n - 1], input[n])
  IN after[Len(input)].blocks

\* extractSize(chunks, size): the first bytes of the chunks, taken out of them.
extractSize(chunks, desiredSize) ==
  LET needed == {n \in 0 .. Len(chunks) : Len(FlattenSeq(SubSeq(chunks, 1, n))) >= desiredSize}
      count == Min(needed)
      flat == FlattenSeq(SubSeq(chunks, 1, count))
      rest == subarray(flat, desiredSize, Len(flat))
  IN [data |-> subarray(flat, 0, desiredSize),
      chunks |-> (IF rest = <<>> THEN <<>> ELSE <<rest>>)
                 \o SubSeq(chunks, count + 1, Len(chunks))]

\* A round of the loop over the input buffer: the length of the next chunk is
\* learnt, and the chunk is taken when it is there.
TakeChunk(state) ==
  LET size == Len(FlattenSeq(state.input))
      current == IF state.current >= 0 THEN state.current
                 ELSE IF size < 4 THEN -1
                 ELSE readUint32(extractSize(state.input, 4).data) + 4
      taken == extractSize(state.input, current)
  IN IF current >= 0 /\ size >= current
       THEN [state EXCEPT !.input = taken.chunks, !.current = -1,
                          !.chunks = Append(@, subarray(taken.data, 4, current))]
       ELSE [state EXCEPT !.current = current]

\* The rounds of the loop: each that takes a chunk takes a byte or more.
TakeChunks(state) ==
  LET size == Len(FlattenSeq(state.input))
      after[n \in 0 .. size] == IF n = 0 THEN state ELSE TakeChunk(after[n - 1])
  IN after[size]

\* Fault: the separator at the end of a block is taken for the end of the one
\* before it.
LastEndIncluded(bytes, boundary) == {i + 1 : i \in Separators(bytes)}

\* Behind which bytes the blocks before an offset end: if the offset is a block
\* boundary, the separator right before it ends the block that is looked for.
EndsBefore(bytes, boundary) ==
  {i + 1 : i \in {s \in Separators(bytes) : s <= Len(bytes) - (IF boundary THEN 2 ELSE 1)}}

\* The blocks that have become whole, from the last one on.
Whole(state) ==
  LET bytes == FlattenSeq(Reverse(state.chunks)) \o state.output
      found == Reverse(InOrder(EndsBefore(bytes, state.boundary), Len(bytes)))
      ends == (IF state.boundary THEN <<Len(bytes)>> ELSE <<>>) \o found
  IN IF state.chunks = <<>> THEN state
     ELSE [state EXCEPT !.chunks = <<>>,
                        !.boundary = ends # <<>>,
                        !.output = IF ends = <<>> THEN bytes ELSE subarray(bytes, 0, Last(ends)),
                        !.blocks = @ \o Reverse(Between(bytes, Reverse(ends)))]

\* A piece of a reversed bulk stream.
ReadReversedPiece(state, data) == Whole(TakeChunks([state EXCEPT !.input = Append(@, data)]))

\* readReversed(): the blocks in the pieces of a reversed bulk stream, from the
\* last one on.
readReversed(input) ==
  LET after[n \in 0 .. Len(input)] ==
        IF n = 0 THEN [input |-> <<>>, current |-> -1, chunks |-> <<>>,
                       output |-> <<>>, boundary |-> FALSE, blocks |-> <<>>]
        ELSE ReadReversedPiece(after[n - 1], input[n])
      end == after[Len(input)]
  IN IF end.boundary /\ end.output # <<>> THEN Append(end.blocks, end.output) ELSE end.blocks
=============================================================================
