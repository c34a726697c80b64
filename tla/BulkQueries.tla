----------------------------- MODULE BulkQueries -----------------------------
(***************************************************************************)
(* What the parsers of bulk streams and the binary search make of every    *)
(* stream that a scanner may find: blocks of all lengths, torn or not, cut *)
(* by pages and by the transport at any byte.                              *)
(***************************************************************************)
EXTENDS Scanner, BulkParser, BinarySearch

CONSTANTS PieceSizes  \* sizes of the pieces in which a transport delivers

\* A transport delivers something each time, and the length of a chunk, 32 KiB in
\* the code, fits the four bytes before it (log-reader.js:8, 346-357).
ASSUME BulkAssumption == PieceSizes \subseteq Nat \ {0} /\ FitsFourBytes(PageSize)

\* These are questions about streams: one state of each is enough.
Asked == /\ pc = "idle" /\ sc.page = -1 /\ scan = "forward" /\ ~ended
         /\ sc.totalSize = visible
         /\ visible = Len(stream.bytes)

\* A byte stream in pieces of one size.
Pieces(bytes, size) == bulkChunks(bytes, 0, Len(bytes), size)

\* The blocks that lie between two offsets, of which the first is a boundary.
BlocksIn(from, to) ==
  Between(stream.bytes,
          InOrder({from} \cup {end \in Ends(stream.bytes) : end > from /\ end <= to}, to))

\* Whatever the pages of the sender and the pieces of the transport, a bulk
\* stream is parsed into exactly the blocks between the two offsets of the
\* query, and a reversed one into the same blocks from the last one on; a block
\* that is not whole at the end is left out (bulk-parser.js:7-102).
BulkStreamsParse ==
  Asked =>
    \A from \in {0} \cup Ends(stream.bytes) :
      \A to \in from .. visible : \A size \in PieceSizes :
        /\ readBulk(Pieces(FlattenSeq(bulkChunks(stream.bytes, from, to, PageSize)), size))
             = BlocksIn(from, to)
        /\ readReversed(Pieces(FlattenSeq(bulkChunksReversed(stream.bytes, from, to, PageSize)),
                               size))
             = Reverse(BlocksIn(from, to))

\* On sorted records the search ends next to the desired timestamp, over pages
\* without a block and blocks over many pages: no other page that has a block
\* lies between the timestamp and the page that was found, and a page with the
\* timestamp itself is found (binary-search.js:15-62).
SearchEndsNextToTheBound ==
  Asked =>
    \A size \in 1 .. PageSize + 1 : \A desired \in Header - 1 .. stream.next :
      LET found == binarySearch(stream.bytes, size, desired)
          times == [n \in {p \in 0 .. visible \div size : HasBlock(stream.bytes, p, size)} |->
                      TimeOf(stream.bytes, n, size)]
      IN IF times = <<>> THEN found = 0
         ELSE /\ found \in DOMAIN times
              /\ times[found] < desired =>
                   \A n \in DOMAIN times : n > found => times[n] > desired
              /\ times[found] > desired =>
                   \A n \in DOMAIN times : n < found => times[n] < desired
=============================================================================
