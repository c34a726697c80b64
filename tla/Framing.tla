------------------------------- MODULE Framing -------------------------------
(***************************************************************************)
(* How logs lie in a file as bytes: blocks that are escaped, ended by a    *)
(* separator and, after a restart, begun by a slice marker                 *)
(* (src/shared/common.js, block-parser.js, and flush() of logger.js), and  *)
(* what a reader makes of them, torn ones included.                        *)
(*                                                                         *)
(* A record is its header, which stands for the fixed part of the format   *)
(* and tells records apart, and bytes of content, which may have to be     *)
(* escaped.  A header counts for one byte that no byte of content is equal *)
(* to.  The compression of a block is left out: zlib gives back what it    *)
(* was given.                                                              *)
(***************************************************************************)
EXTENDS Integers, Sequences, SequencesExt, FiniteSetsExt

ESCAPE == 248
SEPARATOR == 250
ESCAPE_CODE_ESCAPE == 1
ESCAPE_CODE_SEPARATOR == 2
ESCAPE_CODE_SLICEMARKER == 3

Byte == 0 .. 255

\* Headers, above the bytes: one for every number of a record.
Header == 256
IsHeader(byte) == byte >= Header

-----------------------------------------------------------------------------
(* Bytes, with indices from 0 as in the code.                               *)

subarray(bytes, from, to) == SubSeq(bytes, from + 1, to)

Separators(bytes) == {i \in 0 .. Len(bytes) - 1 : bytes[i + 1] = SEPARATOR}

\* The first separator from an index on, and the last one up to an index; -1
\* if there is none.
indexOf(bytes, from) ==
  LET found == {i \in Separators(bytes) : i >= from}
  IN IF found = {} THEN -1 ELSE Min(found)

lastIndexOf(bytes, upTo) ==
  LET found == {i \in Separators(bytes) : i <= upTo}
  IN IF found = {} THEN -1 ELSE Max(found)

CeilDiv(n, by) == (n + by - 1) \div by

-----------------------------------------------------------------------------
(* Escapes.                                                                 *)

Escaped(byte) ==
  CASE byte = ESCAPE -> <<ESCAPE, ESCAPE_CODE_ESCAPE>>
    [] byte = SEPARATOR -> <<ESCAPE, ESCAPE_CODE_SEPARATOR>>
    [] OTHER -> <<byte>>

escapeBlock(block) == FlattenSeq([i \in DOMAIN block |-> Escaped(block[i])])

\* One byte of unescapeBlock(): "escape" is TRUE behind an escape byte, and
\* "ok" is FALSE once it has thrown.  A slice marker drops what is before it.
Unescape(state, byte) ==
  CASE ~state.escape -> IF byte = ESCAPE THEN [state EXCEPT !.escape = TRUE]
                                         ELSE [state EXCEPT !.out = Append(@, byte)]
    [] state.escape /\ byte = ESCAPE_CODE_ESCAPE ->
         [state EXCEPT !.escape = FALSE, !.out = Append(@, ESCAPE)]
    [] state.escape /\ byte = ESCAPE_CODE_SEPARATOR ->
         [state EXCEPT !.escape = FALSE, !.out = Append(@, SEPARATOR)]
    [] state.escape /\ byte = ESCAPE_CODE_SLICEMARKER ->
         [state EXCEPT !.escape = FALSE, !.out = <<>>]
    [] OTHER -> [state EXCEPT !.escape = FALSE, !.ok = FALSE]

\* The state behind the bytes, from a state on.
Unescaped(state, bytes) ==
  LET after[n \in 0 .. Len(bytes)] ==
        IF n = 0 THEN state ELSE Unescape(after[n - 1], bytes[n])
  IN after[Len(bytes)]

NoBytes == [out |-> <<>>, escape |-> FALSE, ok |-> TRUE]

\* A block that ends in an escape byte has an undefined escape code.
unescapeBlock(block) ==
  LET end == Unescaped(NoBytes, block)
  IN [out |-> end.out, ok |-> end.ok /\ ~end.escape]

\* unwrapBlock(): without the separator.
unwrapBlock(block) == unescapeBlock(Front(block))

\* The records in the bytes of a block: one more at each header.
AddByte(logs, byte) ==
  IF IsHeader(byte) \/ logs = <<>> THEN Append(logs, <<byte>>)
  ELSE [logs EXCEPT ![Len(logs)] = Append(@, byte)]

Records(bytes) ==
  LET logs[n \in 0 .. Len(bytes)] ==
        IF n = 0 THEN <<>> ELSE AddByte(logs[n - 1], bytes[n])
  IN logs[Len(bytes)]

\* parseEach(): throws on a code that is no escape, and on bytes that are no
\* record.
Parses(block) ==
  LET raw == unwrapBlock(block)
  IN raw.ok /\ \A i \in DOMAIN Records(raw.out) : IsHeader(Records(raw.out)[i][1])

parseEach(block) == Records(unwrapBlock(block).out)

-----------------------------------------------------------------------------
(* What flush() writes, and what a crash leaves of it.                      *)

SliceMarker == <<ESCAPE, ESCAPE_CODE_SLICEMARKER>>

\* logs, written as one block; with a slice marker by a process that is new.
BlockOf(logs, marked) ==
  (IF marked THEN SliceMarker ELSE <<>>) \o escapeBlock(FlattenSeq(logs)) \o <<SEPARATOR>>
=============================================================================
