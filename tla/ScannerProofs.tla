---------------------------- MODULE ScannerProofs ----------------------------
(***************************************************************************)
(* For any sizes of pages, any blocks and any stream that loggers and      *)
(* crashes leave behind: a Scanner stays within its types, ends its scans  *)
(* where it should, tells offsets that readers may rely on, parses every   *)
(* block, and is a LogCursor; the binary search ends next to the time it   *)
(* looks for; and the parsers of bulk streams make of them the blocks that *)
(* were sent.                                                              *)
(*                                                                         *)
(* In the order of the module:                                             *)
(*                                                                         *)
(* 1. The bytes of a block.  Unescaped and Records go through them one by  *)
(*    one, so they are what a step function comes to along a sequence      *)
(*    (Along, of FoldLemmas), and two sequences laid end to end are gone   *)
(*    through one after the other.  So what has been escaped comes out as  *)
(*    it was, and the records of a block are those that went in (BlockIs). *)
(*                                                                         *)
(* 2. The stream.  WellWritten says of a stream what readers need: between *)
(*    two separators with none between them lies a block that is read as   *)
(*    the records that end there, behind whatever a crash has torn.  A     *)
(*    block that is written keeps that up, and so does one that is torn    *)
(*    (WrittenIs, TornIs), whence StreamsArePossible.  A torn escape byte  *)
(*    would make the next slice marker part of an escape: how blocks parse *)
(*    is only said without MayTearEscape.                                  *)
(*                                                                         *)
(* 3. Where a scanner is.  The invariant (ScanInv) is that its chunk is a  *)
(*    piece of the stream, the page it has read and the tail on either     *)
(*    side of it; that it rests at a boundary when it believes so; that in *)
(*    a block both its offsets are boundaries next to each other; and that *)
(*    a scan that has ended has nothing before it.  Each action keeps it   *)
(*    up.  It does not hold for a reader that came before the first byte   *)
(*    (MayStartEmpty), whose page is read late, if at all.                 *)
(*                                                                         *)
(* 4. Records.  What a block holds is in two parts, above and below the    *)
(*    position, which only change places when the scan turns round         *)
(*    (CursorInv), so each step of the scanner is a step of the cursor, or *)
(*    leaves it where it is.                                               *)
(*                                                                         *)
(* 5. The binary search.  A pass of its loop leaves less to look at, so    *)
(*    the recursion that stands for the loop has a value (FixedPoint, of   *)
(*    FoldLemmas).  The invariant of the loop (Narrows) is that the pages  *)
(*    it has left out lie on their side of the desired time, and that the  *)
(*    page it found last is next to those that are left.  That is enough   *)
(*    where the times of the last blocks of the pages rise from page to    *)
(*    page, as they do in all streams (StreamsRise, TimesRise).            *)
(*                                                                         *)
(* 6. Bulk streams.  A transfer is cut twice, by the pages of the sender   *)
(*    and by the transport, and each time its pieces lie end to end.  A    *)
(*    list of blocks is cut at offsets that go through a set of ends in    *)
(*    their order (Sorts, CutAt), of which there is one only.  After any   *)
(*    number of bytes the parser has handed out the blocks that end there  *)
(*    and holds the rest (ReadUpto).  The reversed parser knows of the     *)
(*    wire that it is chunks with their lengths (Framed), as the sender    *)
(*    writes it (ReversedIsFramed); it has taken those that have come      *)
(*    whole (TookTo), and has handed out the blocks that begin behind the  *)
(*    first end it knows of (BackTo), and both together is WireTo.         *)
(***************************************************************************)
EXTENDS BulkQueries, FoldLemmas

-----------------------------------------------------------------------------
(* 1. What reading the bytes of a block one after the other computes.       *)

States == [out : Seq(Nat), escape : BOOLEAN, ok : BOOLEAN]

\* One byte more: only an escape byte opens an escape, and nothing is mended.
LEMMA UnescapeType ==
  ASSUME NEW state \in States, NEW byte \in Nat
  PROVE  /\ Unescape(state, byte) \in States
         /\ Unescape(state, byte).escape => byte = ESCAPE
         /\ Unescape(state, byte).ok => state.ok
<1> DEFINE next == Unescape(state, byte)
           Good == next \in States /\ (next.escape => byte = ESCAPE) /\ (next.ok => state.ok)
<1>0. /\ state = [out |-> state.out, escape |-> state.escape, ok |-> state.ok]
      /\ state.out \in Seq(Nat) /\ state.escape \in BOOLEAN /\ state.ok \in BOOLEAN
  BY DEF States
<1>1. /\ Append(state.out, byte) \in Seq(Nat) /\ Append(state.out, ESCAPE) \in Seq(Nat)
      /\ Append(state.out, SEPARATOR) \in Seq(Nat) /\ <<>> \in Seq(Nat)
  BY <1>0, AppendProperties DEF ESCAPE, SEPARATOR
<1>2. ASSUME ~ state.escape PROVE Good
  <2>1. next = IF byte = ESCAPE THEN [state EXCEPT !.escape = TRUE]
                                ELSE [state EXCEPT !.out = Append(@, byte)]
    BY <1>2 DEF Unescape
  <2> HIDE DEF next
  <2>2. CASE byte = ESCAPE
    BY <1>0, <1>1, <1>2, <2>1, <2>2 DEF States
  <2>3. CASE byte # ESCAPE
    <3>1. next = [out |-> Append(state.out, byte), escape |-> state.escape, ok |-> state.ok]
      BY <1>0, <2>1, <2>3
    <3> QED BY <1>0, <1>1, <1>2, <3>1 DEF States
  <2> QED BY <2>2, <2>3
<1>3. ASSUME state.escape PROVE Good
  <2>1. \/ next = [state EXCEPT !.escape = FALSE, !.out = Append(@, ESCAPE)]
        \/ next = [state EXCEPT !.escape = FALSE, !.out = Append(@, SEPARATOR)]
        \/ next = [state EXCEPT !.escape = FALSE, !.out = <<>>]
        \/ next = [state EXCEPT !.escape = FALSE, !.ok = FALSE]
    BY <1>3 DEF Unescape, ESCAPE_CODE_ESCAPE, ESCAPE_CODE_SEPARATOR, ESCAPE_CODE_SLICEMARKER
  <2> HIDE DEF next
  <2>2. PICK s \in Seq(Nat), b \in BOOLEAN :
          next = [out |-> s, escape |-> FALSE, ok |-> b] /\ (b => state.ok)
    BY <1>0, <1>1, <2>1
  <2> QED BY <1>0, <2>2 DEF States
<1>4. Good
  BY <1>0, <1>2, <1>3
<1> QED BY <1>4

UnescapeStep == [state \in States |-> [byte \in Nat |-> Unescape(state, byte)]]

LEMMA UnescapeStepOf == StepOf(States, Nat, UnescapeStep)
BY UnescapeType DEF StepOf, UnescapeStep

\* g[n] is the state behind the first n bytes.
IsUnescaped(state, bytes, g) ==
  g = [n \in 0 .. Len(bytes) |-> IF n = 0 THEN state ELSE Unescape(g[n - 1], bytes[n])]

\* Unescaped is the state behind the last byte.
LEMMA UnescapedIs ==
  ASSUME NEW state \in States, NEW bytes \in Seq(Nat)
  PROVE  Unescaped(state, bytes) = Along(UnescapeStep, state, bytes)
<1>0. Len(bytes) \in Nat /\ \A n \in 1 .. Len(bytes) : bytes[n] \in Nat
  BY LenProperties, ElementOfSeq
<1>1. PICK g : IsTrace(UnescapeStep, state, bytes, g) /\ g \in [0 .. Len(bytes) -> States]
  BY TraceExists, UnescapeStepOf
<1>2. ASSUME NEW n \in 1 .. Len(bytes) PROVE g[n] = Unescape(g[n - 1], bytes[n])
  <2>1. g[n - 1] \in States /\ bytes[n] \in Nat
    BY <1>0, <1>1
  <2>2. g[n] = UnescapeStep[g[n - 1]][bytes[n]]
    BY <1>1 DEF IsTrace
  <2> QED BY <2>1, <2>2 DEF UnescapeStep
<1>3. g[0] = state
  BY <1>1 DEF IsTrace
<1> DEFINE f == CHOOSE h : IsUnescaped(state, bytes, h)
<1>4. IsUnescaped(state, bytes, f)
  <2>1. g = [n \in 0 .. Len(bytes) |-> g[n]]
    BY <1>1
  <2>2. \A n \in 0 .. Len(bytes) : g[n] = IF n = 0 THEN state ELSE Unescape(g[n - 1], bytes[n])
    BY <1>0, <1>2, <1>3
  <2>3. IsUnescaped(state, bytes, g)
    BY <2>1, <2>2 DEF IsUnescaped
  <2> QED BY <2>3
<1>5. Unescaped(state, bytes) = f[Len(bytes)]
  BY Zenon DEF Unescaped, IsUnescaped
<1> HIDE DEF f
<1>6. f[0] = state /\ \A n \in 1 .. Len(bytes) : f[n] = Unescape(f[n - 1], bytes[n])
  BY <1>0, <1>4 DEF IsUnescaped
<1>7. GoAlike(f, g, Len(bytes))
  BY <1>2, <1>3, <1>6 DEF GoAlike
<1>8. f[Len(bytes)] = g[Len(bytes)]
  BY <1>0, <1>7, GoAlikeAllAlong
<1>9. Along(UnescapeStep, state, bytes) = g[Len(bytes)]
  BY <1>1, TraceEnds, UnescapeStepOf
<1> QED BY <1>5, <1>8, <1>9

LEMMA UnescapedType ==
  ASSUME NEW state \in States, NEW bytes \in Seq(Nat)
  PROVE  Unescaped(state, bytes) \in States
BY UnescapedIs, AlongType, UnescapeStepOf

\* Bytes laid end to end are gone through one after the other.
LEMMA UnescapedBoth ==
  ASSUME NEW state \in States, NEW s \in Seq(Nat), NEW t \in Seq(Nat)
  PROVE  Unescaped(state, s \o t) = Unescaped(Unescaped(state, s), t)
<1> DEFINE mid == Unescaped(state, s)
<1>1. mid = Along(UnescapeStep, state, s) /\ mid \in States
  BY UnescapedIs, UnescapedType
<1>2. s \o t \in Seq(Nat)
  BY ConcatProperties
<1>3. Unescaped(state, s \o t) = Along(UnescapeStep, state, s \o t)
  BY <1>2, UnescapedIs
<1>4. Along(UnescapeStep, state, s \o t) = Along(UnescapeStep, Along(UnescapeStep, state, s), t)
  BY AlongBoth, UnescapeStepOf
<1> HIDE DEF mid
<1>5. Unescaped(mid, t) = Along(UnescapeStep, mid, t)
  BY <1>1, UnescapedIs
<1> QED BY <1>1, <1>3, <1>4, <1>5 DEF mid

LEMMA UnescapedOne ==
  ASSUME NEW state \in States, NEW byte \in Nat
  PROVE  Unescaped(state, <<byte>>) = Unescape(state, byte)
<1>1. <<byte>> \in Seq(Nat)
  OBVIOUS
<1>2. Unescaped(state, <<byte>>) = Along(UnescapeStep, state, <<byte>>)
  BY <1>1, UnescapedIs
<1>3. Along(UnescapeStep, state, <<byte>>) = UnescapeStep[state][byte]
  BY AlongOne, UnescapeStepOf
<1> QED BY <1>2, <1>3 DEF UnescapeStep

LEMMA UnescapedNothing ==
  ASSUME NEW state \in States
  PROVE  Unescaped(state, <<>>) = state
<1>1. <<>> \in Seq(Nat)
  OBVIOUS
<1>2. Unescaped(state, <<>>) = Along(UnescapeStep, state, <<>>)
  BY <1>1, UnescapedIs
<1> QED BY <1>2, AlongNothing, UnescapeStepOf

\* What has been thrown is not taken back.
LEMMA OkIsOnlyLost ==
  ASSUME NEW state \in States, NEW bytes \in Seq(Nat), Unescaped(state, bytes).ok
  PROVE  state.ok
<1>0. Len(bytes) \in Nat /\ \A n \in 1 .. Len(bytes) : bytes[n] \in Nat
  BY LenProperties, ElementOfSeq
<1>1. PICK g : IsTrace(UnescapeStep, state, bytes, g) /\ g \in [0 .. Len(bytes) -> States]
  BY TraceExists, UnescapeStepOf
<1>2. g[Len(bytes)].ok
  BY <1>1, UnescapedIs, TraceEnds, UnescapeStepOf
<1>3. ASSUME NEW n \in 1 .. Len(bytes), g[n].ok PROVE g[n - 1].ok
  <2>1. g[n - 1] \in States /\ bytes[n] \in Nat
    BY <1>0, <1>1
  <2>2. g[n] = UnescapeStep[g[n - 1]][bytes[n]]
    BY <1>1 DEF IsTrace
  <2>3. g[n] = Unescape(g[n - 1], bytes[n])
    BY <2>1, <2>2 DEF UnescapeStep
  <2> QED BY <1>3, <2>1, <2>3, UnescapeType
<1> DEFINE T == {n \in 0 .. Len(bytes) : g[n].ok}
<1>4. PICK m \in T : \A n \in T : m <= n
  <2>1. T \subseteq Nat /\ T # {}
    BY <1>0, <1>2
  <2> HIDE DEF T
  <2> QED BY <2>1, LeastNumber
<1>5. m = 0
  <2> SUFFICES ASSUME m # 0 PROVE FALSE
    OBVIOUS
  <2>1. m \in 1 .. Len(bytes) /\ g[m].ok /\ m - 1 \in 0 .. Len(bytes) /\ ~ (m <= m - 1)
    BY <1>0
  <2>2. m - 1 \in T
    BY <1>3, <2>1
  <2> HIDE DEF T
  <2> QED BY <1>4, <2>1, <2>2
<1> QED BY <1>1, <1>5 DEF IsTrace

\* Only an escape byte leaves an escape open.
LEMMA EscapeIsLast ==
  ASSUME NEW state \in States, NEW bytes \in Seq(Nat), bytes # <<>>, Unescaped(state, bytes).escape
  PROVE  bytes[Len(bytes)] = ESCAPE
<1>0. Len(bytes) \in Nat /\ Len(bytes) # 0 /\ bytes[Len(bytes)] \in Nat
  BY LenProperties, EmptySeq, ElementOfSeq
<1>1. PICK g : IsTrace(UnescapeStep, state, bytes, g) /\ g \in [0 .. Len(bytes) -> States]
  BY TraceExists, UnescapeStepOf
<1> DEFINE n == Len(bytes)
<1>2. g[n].escape
  BY <1>1, UnescapedIs, TraceEnds, UnescapeStepOf
<1>3. n \in 1 .. n /\ n - 1 \in 0 .. n
  BY <1>0
<1>4. g[n - 1] \in States
  BY <1>1, <1>3
<1>5. g[n] = UnescapeStep[g[n - 1]][bytes[n]]
  BY <1>1, <1>3 DEF IsTrace
<1>6. g[n] = Unescape(g[n - 1], bytes[n])
  BY <1>0, <1>4, <1>5 DEF UnescapeStep
<1> QED BY <1>0, <1>2, <1>4, <1>6, UnescapeType

-----------------------------------------------------------------------------
(* The records that come out.                                               *)

Lists == Seq(Seq(Nat))

\* A header begins a record.
LEMMA AddByteIs ==
  ASSUME NEW logs \in Lists, NEW byte \in Nat
  PROVE  /\ AddByte(logs, byte) \in Lists
         /\ IsHeader(byte) => AddByte(logs, byte) = Append(logs, <<byte>>)
<1>0. <<byte>> \in Seq(Nat)
  OBVIOUS
<1>1. Append(logs, <<byte>>) \in Lists
  BY <1>0, AppendProperties DEF Lists
<1>2. CASE IsHeader(byte) \/ logs = <<>>
  BY <1>1, <1>2 DEF AddByte
<1>3. CASE ~ (IsHeader(byte) \/ logs = <<>>)
  <2> DEFINE n == Len(logs)
  <2>1. n \in Nat /\ n # 0 /\ DOMAIN logs = 1 .. n
    BY <1>3, LenProperties, EmptySeq DEF Lists
  <2>2. logs[n] \in Seq(Nat) /\ n \in DOMAIN logs
    BY <2>1, ElementOfSeq DEF Lists
  <2>3. Append(logs[n], byte) \in Seq(Nat)
    BY <2>2, AppendProperties
  <2>4. [logs EXCEPT ![n] = Append(logs[n], byte)] \in Lists
    BY <2>2, <2>3, ExceptSeq DEF Lists
  <2>5. AddByte(logs, byte) = [logs EXCEPT ![n] = Append(logs[n], byte)]
    BY <1>3, <2>2 DEF AddByte
  <2> QED BY <1>3, <2>4, <2>5
<1> QED BY <1>2, <1>3

\* Any other byte goes to the last one.
LEMMA AddByteToLast ==
  ASSUME NEW logs \in Lists, NEW log \in Seq(Nat), NEW byte \in Nat, ~ IsHeader(byte)
  PROVE  AddByte(Append(logs, log), byte) = Append(logs, Append(log, byte))
<1>1. Append(logs, log) # <<>>
  <2> DEFINE long == Append(logs, log)
  <2>1. Len(long) = Len(logs) + 1 /\ Len(logs) \in Nat
    BY AppendProperties, LenProperties DEF Lists
  <2> HIDE DEF long
  <2>2. Len(<<>>) = 0
    OBVIOUS
  <2>3. long # <<>>
    BY <2>1, <2>2
  <2> QED BY <2>3 DEF long
<1> QED BY <1>1, AddToLast DEF AddByte, Lists

AddStep == [logs \in Lists |-> [byte \in Nat |-> AddByte(logs, byte)]]

LEMMA AddStepOf == StepOf(Lists, Nat, AddStep)
BY AddByteIs DEF StepOf, AddStep

IsRecords(bytes, g) ==
  g = [n \in 0 .. Len(bytes) |-> IF n = 0 THEN <<>> ELSE AddByte(g[n - 1], bytes[n])]

\* Records is the list behind the last byte.
LEMMA RecordsIs ==
  ASSUME NEW bytes \in Seq(Nat)
  PROVE  Records(bytes) = Along(AddStep, <<>>, bytes)
<1>0. Len(bytes) \in Nat /\ \A n \in 1 .. Len(bytes) : bytes[n] \in Nat
  BY LenProperties, ElementOfSeq
<1>a. <<>> \in Lists
  BY DEF Lists
<1>1. PICK g : IsTrace(AddStep, <<>>, bytes, g) /\ g \in [0 .. Len(bytes) -> Lists]
  BY <1>a, TraceExists, AddStepOf
<1>2. ASSUME NEW n \in 1 .. Len(bytes) PROVE g[n] = AddByte(g[n - 1], bytes[n])
  <2>1. g[n - 1] \in Lists /\ bytes[n] \in Nat
    BY <1>0, <1>1
  <2>2. g[n] = AddStep[g[n - 1]][bytes[n]]
    BY <1>1 DEF IsTrace
  <2> QED BY <2>1, <2>2 DEF AddStep
<1>3. g[0] = <<>>
  BY <1>1 DEF IsTrace
<1> DEFINE f == CHOOSE h : IsRecords(bytes, h)
<1>4. IsRecords(bytes, f)
  <2>1. g = [n \in 0 .. Len(bytes) |-> g[n]]
    BY <1>1
  <2>2. \A n \in 0 .. Len(bytes) : g[n] = IF n = 0 THEN <<>> ELSE AddByte(g[n - 1], bytes[n])
    BY <1>0, <1>2, <1>3
  <2>3. IsRecords(bytes, g)
    BY <2>1, <2>2 DEF IsRecords
  <2> QED BY <2>3
<1>5. Records(bytes) = f[Len(bytes)]
  BY Zenon DEF Records, IsRecords
<1> HIDE DEF f
<1>6. f[0] = <<>> /\ \A n \in 1 .. Len(bytes) : f[n] = AddByte(f[n - 1], bytes[n])
  BY <1>0, <1>4 DEF IsRecords
<1>7. GoAlike(f, g, Len(bytes))
  BY <1>2, <1>3, <1>6 DEF GoAlike
<1>8. f[Len(bytes)] = g[Len(bytes)]
  BY <1>0, <1>7, GoAlikeAllAlong
<1>9. Along(AddStep, <<>>, bytes) = g[Len(bytes)]
  BY <1>1, <1>a, TraceEnds, AddStepOf
<1> QED BY <1>5, <1>8, <1>9

LEMMA RecordsType ==
  ASSUME NEW bytes \in Seq(Nat)
  PROVE  Records(bytes) \in Lists
<1>1. <<>> \in Lists
  BY DEF Lists
<1> QED BY <1>1, RecordsIs, AlongType, AddStepOf

\* A header, and bytes that are none.
IsRecord(log) == /\ log \in Seq(Nat) /\ Len(log) # 0
                 /\ IsHeader(log[1])
                 /\ \A i \in 2 .. Len(log) : ~ IsHeader(log[i])

\* A record that is gone through is added to the list.
LEMMA RecordIsAdded ==
  ASSUME NEW logs \in Lists, NEW log, IsRecord(log)
  PROVE  Along(AddStep, logs, log) = Append(logs, log)
<1> DEFINE b == Len(log)
           part(n) == SubSeq(log, 1, n)
<1>0. log \in Seq(Nat) /\ b \in Nat /\ b >= 1 /\ \A n \in 1 .. b : log[n] \in Nat
  BY LenProperties, ElementOfSeq DEF IsRecord
<1>1. PICK g : IsTrace(AddStep, logs, log, g) /\ g \in [0 .. b -> Lists]
  BY <1>0, TraceExists, AddStepOf
<1>2. ASSUME NEW n \in 1 .. b PROVE g[n] = AddByte(g[n - 1], log[n])
  <2>1. g[n - 1] \in Lists /\ log[n] \in Nat
    BY <1>0, <1>1
  <2>2. g[n] = AddStep[g[n - 1]][log[n]]
    BY <1>1 DEF IsTrace
  <2> QED BY <2>1, <2>2 DEF AddStep
<1>3. ASSUME NEW n \in 0 .. b PROVE part(n) \in Seq(Nat) /\ Len(part(n)) = n /\ \A i \in 1 .. n : part(n)[i] = log[i]
  BY <1>0, SubSeqProperties
<1>4. part(1) = <<log[1]>>
  <2> DEFINE s == part(1)
             t == <<log[1]>>
  <2>1. s \in Seq(Nat) /\ Len(s) = 1 /\ s[1] = log[1]
    BY <1>0, <1>3
  <2>2. t \in Seq(Nat) /\ Len(t) = 1 /\ t[1] = log[1]
    BY <1>0
  <2> HIDE DEF s, t
  <2>3. s = t
    BY <2>1, <2>2, SeqEqual
  <2> QED BY <2>3 DEF s, t
<1>5. ASSUME NEW n \in 2 .. b PROVE part(n) = Append(part(n - 1), log[n])
  <2> DEFINE s == part(n - 1)
             t == part(n)
  <2>1. s \in Seq(Nat) /\ Len(s) = n - 1 /\ \A i \in 1 .. n - 1 : s[i] = log[i]
    BY <1>0, <1>3
  <2>2. t \in Seq(Nat) /\ Len(t) = n /\ \A i \in 1 .. n : t[i] = log[i]
    BY <1>0, <1>3
  <2> HIDE DEF s, t
  <2>3. /\ Append(s, log[n]) \in Seq(Nat) /\ Len(Append(s, log[n])) = n
        /\ \A i \in 1 .. n : Append(s, log[n])[i] = log[i]
    BY <1>0, <2>1, AppendProperties
  <2>4. t = Append(s, log[n])
    BY <2>2, <2>3, SeqEqual
  <2> QED BY <2>4 DEF s, t
<1> DEFINE T == {n \in 1 .. b : g[n] # Append(logs, part(n))}
<1>6. ASSUME T # {} PROVE FALSE
  <2>1. PICK n \in T : \A m \in T : n <= m
    <3>1. T \subseteq Nat
      OBVIOUS
    <3> HIDE DEF T
    <3> QED BY <1>6, <3>1, LeastNumber
  <2>2. n \in 1 .. b /\ g[n] # Append(logs, part(n))
    OBVIOUS
  <2>3. n # 1
    <3>1. g[1] = AddByte(g[1 - 1], log[1]) /\ g[0] = logs
      BY <1>0, <1>1, <1>2 DEF IsTrace
    <3>2. AddByte(logs, log[1]) = Append(logs, <<log[1]>>)
      <4>1. log[1] \in Nat /\ IsHeader(log[1])
        BY <1>0 DEF IsRecord
      <4> QED BY <4>1, AddByteIs
    <3> HIDE DEF part, T
    <3>3. 1 - 1 = 0
      OBVIOUS
    <3> QED BY <1>4, <2>2, <3>1, <3>2, <3>3
  <2>4. n - 1 \in 1 .. b /\ ~ (n <= n - 1) /\ n \in 2 .. b
    BY <1>0, <2>2, <2>3
  <2>5. n - 1 \notin T
    <3> HIDE DEF T
    <3> QED BY <2>1, <2>4
  <2>6. g[n - 1] = Append(logs, part(n - 1))
    BY <2>4, <2>5
  <2>7. ~ IsHeader(log[n]) /\ log[n] \in Nat
    BY <1>0, <2>4 DEF IsRecord
  <2>8. part(n - 1) \in Seq(Nat)
    BY <1>0, <1>3, <2>4
  <2> HIDE DEF T, part
  <2>9. g[n] = Append(logs, Append(part(n - 1), log[n]))
    BY <1>2, <2>2, <2>6, <2>7, <2>8, AddByteToLast
  <2> QED BY <1>5, <2>2, <2>4, <2>9
<1>7. g[b] = Append(logs, part(b))
  BY <1>0, <1>6
<1>8. part(b) = log
  BY <1>0, SubSeqProperties, SeqEqual
<1>9. Along(AddStep, logs, log) = g[b]
  BY <1>0, <1>1, TraceEnds, AddStepOf
<1> QED BY <1>7, <1>8, <1>9

\* The records of a block are those that were laid end to end in it.
LEMMA RecordsOfRecords ==
  ASSUME NEW logs \in Lists, \A i \in DOMAIN logs : IsRecord(logs[i])
  PROVE  Records(FlattenSeq(logs)) = logs
<1> DEFINE n == Len(logs)
           part(i) == SubSeq(logs, 1, i)
<1>0. n \in Nat /\ DOMAIN logs = 1 .. n /\ logs \in Seq(Seq(Nat)) /\ \A i \in 1 .. n : logs[i] \in Seq(Nat)
  BY LenProperties, ElementOfSeq DEF Lists
<1>1. PICK F : Heads(logs, n, F) /\ FlattenSeq(logs) = F[n]
  BY <1>0, EndsExist
<1>2. \A i \in 0 .. n : F[i] \in Seq(Nat)
  BY <1>0, <1>1, EndsAreSeqs
<1>a. <<>> \in Lists
  BY DEF Lists
<1>3. ASSUME NEW i \in 0 .. n PROVE part(i) \in Lists /\ Len(part(i)) = i /\ \A j \in 1 .. i : part(i)[j] = logs[j]
  BY <1>0, SubSeqProperties DEF Lists
<1>4. ASSUME NEW i \in 1 .. n PROVE part(i) = Append(part(i - 1), logs[i])
  <2> DEFINE s == part(i - 1)
             t == part(i)
  <2>1. s \in Lists /\ Len(s) = i - 1 /\ \A j \in 1 .. i - 1 : s[j] = logs[j]
    BY <1>0, <1>3
  <2>2. t \in Lists /\ Len(t) = i /\ \A j \in 1 .. i : t[j] = logs[j]
    BY <1>0, <1>3
  <2> HIDE DEF s, t
  <2>3. /\ Append(s, logs[i]) \in Lists /\ Len(Append(s, logs[i])) = i
        /\ \A j \in 1 .. i : Append(s, logs[i])[j] = logs[j]
    BY <1>0, <2>1, AppendProperties DEF Lists
  <2>4. t = Append(s, logs[i])
    BY <2>2, <2>3, SeqEqual DEF Lists
  <2> QED BY <2>4 DEF s, t
<1> DEFINE T == {i \in 0 .. n : Along(AddStep, <<>>, F[i]) # part(i)}
<1>5. ASSUME T # {} PROVE FALSE
  <2>1. PICK i \in T : \A j \in T : i <= j
    <3>1. T \subseteq Nat
      OBVIOUS
    <3> HIDE DEF T
    <3> QED BY <1>5, <3>1, LeastNumber
  <2>2. i \in 0 .. n /\ Along(AddStep, <<>>, F[i]) # part(i)
    OBVIOUS
  <2>3. i # 0
    <3>1. F[0] = <<>> /\ part(0) = <<>>
      BY <1>0, <1>1, <1>3, EmptySeq DEF Heads, Lists
    <3>2. Along(AddStep, <<>>, <<>>) = <<>>
      BY <1>a, AlongNothing, AddStepOf
    <3> QED BY <2>2, <3>1, <3>2
  <2>4. i - 1 \in 0 .. n /\ ~ (i <= i - 1) /\ i \in 1 .. n
    BY <1>0, <2>2, <2>3
  <2>5. i - 1 \notin T
    <3> HIDE DEF T
    <3> QED BY <2>1, <2>4
  <2>6. Along(AddStep, <<>>, F[i - 1]) = part(i - 1)
    BY <2>4, <2>5
  <2>7. part(i - 1) \in Lists
    BY <1>3, <2>4
  <2> HIDE DEF T, part
  <2>8. F[i] = F[i - 1] \o logs[i] /\ F[i - 1] \in Seq(Nat) /\ logs[i] \in Seq(Nat)
    BY <1>0, <1>1, <1>2, <2>4 DEF Heads
  <2>9. Along(AddStep, <<>>, F[i - 1] \o logs[i]) = Along(AddStep, Along(AddStep, <<>>, F[i - 1]), logs[i])
    BY <1>a, <2>8, AlongBoth, AddStepOf
  <2>10. Along(AddStep, part(i - 1), logs[i]) = Append(part(i - 1), logs[i])
    BY <1>0, <2>4, <2>7, RecordIsAdded
  <2> QED BY <1>4, <2>2, <2>4, <2>6, <2>8, <2>9, <2>10
<1>6. Along(AddStep, <<>>, F[n]) = part(n)
  <2>1. n \in 0 .. n
    BY <1>0
  <2>2. n \notin T
    <3>1. T = {}
      BY <1>5
    <3> HIDE DEF T
    <3> QED BY <3>1
  <2> QED BY <2>1, <2>2
<1>7. part(n) = logs
  BY <1>0, SubSeqProperties, SeqEqual
<1>8. Records(FlattenSeq(logs)) = Along(AddStep, <<>>, F[n])
  BY <1>0, <1>1, <1>2, RecordsIs
<1> QED BY <1>6, <1>7, <1>8

-----------------------------------------------------------------------------
(* Escaping and back.                                                       *)

\* Nothing has gone wrong, and these bytes have come out.
Reading(bytes) == [out |-> bytes, escape |-> FALSE, ok |-> TRUE]

Unseparated == Nat \ {SEPARATOR}

LEMMA ReadingIs ==
  ASSUME NEW s \in Seq(Nat)
  PROVE  /\ Reading(s) \in States
         /\ \A byte \in Nat : byte # ESCAPE => Unescape(Reading(s), byte) = Reading(Append(s, byte))
         /\ Unescape(Reading(s), ESCAPE) = [out |-> s, escape |-> TRUE, ok |-> TRUE]
BY DEF Reading, States, Unescape

\* An escape byte and its code come out as the byte they stand for.
LEMMA EscapeCodes ==
  ASSUME NEW s \in Seq(Nat), NEW code \in Nat
  PROVE  /\ <<ESCAPE, code>> \in Seq(Nat)
         /\ Unescaped(Reading(s), <<ESCAPE, code>>) =
              Unescape([out |-> s, escape |-> TRUE, ok |-> TRUE], code)
<1>1. ESCAPE \in Nat
  BY DEF ESCAPE
<1>2. <<ESCAPE>> \in Seq(Nat) /\ <<code>> \in Seq(Nat) /\ <<ESCAPE, code>> = <<ESCAPE>> \o <<code>>
      /\ <<ESCAPE, code>> \in Seq(Nat)
  BY <1>1
<1> DEFINE open == [out |-> s, escape |-> TRUE, ok |-> TRUE]
<1>3. Reading(s) \in States /\ open \in States /\ Unescape(Reading(s), ESCAPE) = open
  BY ReadingIs DEF States
<1> HIDE DEF open
<1>4. Unescaped(Reading(s), <<ESCAPE>>) = open
  BY <1>1, <1>3, UnescapedOne
<1>5. Unescaped(open, <<code>>) = Unescape(open, code)
  BY <1>3, UnescapedOne
<1>6. Unescaped(Reading(s), <<ESCAPE>> \o <<code>>) = Unescaped(Unescaped(Reading(s), <<ESCAPE>>), <<code>>)
  BY <1>2, <1>3, UnescapedBoth
<1> QED BY <1>2, <1>4, <1>5, <1>6 DEF open

\* Behind an open escape.
LEMMA OpenEscape ==
  ASSUME NEW s \in Seq(Nat)
  PROVE  LET open == [out |-> s, escape |-> TRUE, ok |-> TRUE] IN
         /\ Unescape(open, 1) = Reading(Append(s, ESCAPE))
         /\ Unescape(open, 2) = Reading(Append(s, SEPARATOR))
         /\ Unescape(open, 3) = Reading(<<>>)
<1> DEFINE open == [out |-> s, escape |-> TRUE, ok |-> TRUE]
<1>1. open.escape = TRUE /\ open.out = s /\ open.ok = TRUE
  OBVIOUS
<1>2. ASSUME NEW x \in Seq(Nat) PROVE [open EXCEPT !.escape = FALSE, !.out = x] = Reading(x)
  <2> DEFINE e == [open EXCEPT !.escape = FALSE, !.out = x]
  <2>1. open \in States
    BY DEF States
  <2> HIDE DEF open
  <2>2. e \in States /\ e.escape = FALSE /\ e.out = x /\ e.ok = TRUE
    BY <1>1, <2>1 DEF States
  <2> HIDE DEF e
  <2>3. e = [out |-> x, escape |-> FALSE, ok |-> TRUE]
    BY <2>2 DEF States
  <2> QED BY <2>3 DEF e, Reading
<1>a. Append(s, ESCAPE) \in Seq(Nat) /\ Append(s, SEPARATOR) \in Seq(Nat) /\ <<>> \in Seq(Nat)
  BY AppendProperties DEF ESCAPE, SEPARATOR
<1>3. 1 # 2 /\ 1 # 3 /\ 2 # 3
  OBVIOUS
<1> HIDE DEF open
<1>4. Unescape(open, 1) = [open EXCEPT !.escape = FALSE, !.out = Append(s, ESCAPE)]
  BY <1>1, <1>3 DEF Unescape, ESCAPE_CODE_ESCAPE, ESCAPE_CODE_SEPARATOR, ESCAPE_CODE_SLICEMARKER
<1>5. Unescape(open, 2) = [open EXCEPT !.escape = FALSE, !.out = Append(s, SEPARATOR)]
  BY <1>1, <1>3 DEF Unescape, ESCAPE_CODE_ESCAPE, ESCAPE_CODE_SEPARATOR, ESCAPE_CODE_SLICEMARKER
<1>6. Unescape(open, 3) = [open EXCEPT !.escape = FALSE, !.out = <<>>]
  BY <1>1, <1>3 DEF Unescape, ESCAPE_CODE_ESCAPE, ESCAPE_CODE_SEPARATOR, ESCAPE_CODE_SLICEMARKER
<1>7. /\ Unescape(open, 1) = Reading(Append(s, ESCAPE))
      /\ Unescape(open, 2) = Reading(Append(s, SEPARATOR))
      /\ Unescape(open, 3) = Reading(<<>>)
  BY <1>2, <1>a, <1>4, <1>5, <1>6
<1> QED BY <1>7 DEF open

\* One byte that has been escaped.
LEMMA EscapedIs ==
  ASSUME NEW byte \in Nat
  PROVE  /\ Escaped(byte) \in Seq(Unseparated)
         /\ Escaped(byte) \in Seq(Nat)
         /\ \A s \in Seq(Nat) : Unescaped(Reading(s), Escaped(byte)) = Reading(Append(s, byte))
<1>1. CASE byte = ESCAPE
  <2>1. Escaped(byte) = <<ESCAPE, 1>> /\ 1 \in Nat
    BY <1>1 DEF Escaped, ESCAPE_CODE_ESCAPE, ESCAPE, SEPARATOR
  <2>2. <<ESCAPE, 1>> \in Seq(Unseparated) /\ <<ESCAPE, 1>> \in Seq(Nat)
    BY DEF Unseparated, ESCAPE, SEPARATOR
  <2>3. ASSUME NEW s \in Seq(Nat)
        PROVE  Unescape([out |-> s, escape |-> TRUE, ok |-> TRUE], 1) = Reading(Append(s, byte))
    BY <1>1, OpenEscape
  <2> QED BY <2>1, <2>2, <2>3, EscapeCodes
<1>2. CASE byte = SEPARATOR
  <2>1. Escaped(byte) = <<ESCAPE, 2>> /\ 2 \in Nat
    BY <1>2 DEF Escaped, ESCAPE_CODE_SEPARATOR, ESCAPE, SEPARATOR
  <2>2. <<ESCAPE, 2>> \in Seq(Unseparated) /\ <<ESCAPE, 2>> \in Seq(Nat)
    BY DEF Unseparated, ESCAPE, SEPARATOR
  <2>3. ASSUME NEW s \in Seq(Nat)
        PROVE  Unescape([out |-> s, escape |-> TRUE, ok |-> TRUE], 2) = Reading(Append(s, byte))
    BY <1>2, OpenEscape
  <2> QED BY <2>1, <2>2, <2>3, EscapeCodes
<1>3. CASE byte # ESCAPE /\ byte # SEPARATOR
  <2>1. Escaped(byte) = <<byte>>
    BY <1>3 DEF Escaped
  <2>2. <<byte>> \in Seq(Unseparated) /\ <<byte>> \in Seq(Nat)
    BY <1>3 DEF Unseparated
  <2>3. \A s \in Seq(Nat) : Unescaped(Reading(s), <<byte>>) = Unescape(Reading(s), byte)
    BY ReadingIs, UnescapedOne
  <2>4. \A s \in Seq(Nat) : Unescape(Reading(s), byte) = Reading(Append(s, byte))
    BY <1>3, ReadingIs
  <2> QED BY <2>1, <2>2, <2>3, <2>4
<1> QED BY <1>1, <1>2, <1>3

\* What has been escaped holds no separator, and comes out as it was.
LEMMA EscapeBlockIs ==
  ASSUME NEW block \in Seq(Nat), NEW s \in Seq(Nat)
  PROVE  /\ escapeBlock(block) \in Seq(Unseparated)
         /\ escapeBlock(block) \in Seq(Nat)
         /\ Unescaped(Reading(s), escapeBlock(block)) = Reading(s \o block)
<1> DEFINE n == Len(block)
           e == [i \in DOMAIN block |-> Escaped(block[i])]
           part(i) == SubSeq(block, 1, i)
<1>0. n \in Nat /\ DOMAIN block = 1 .. n /\ \A i \in 1 .. n : block[i] \in Nat
  BY LenProperties, ElementOfSeq
<1>1. /\ e \in Seq(Seq(Nat)) /\ e \in Seq(Seq(Unseparated)) /\ Len(e) = n
      /\ \A i \in 1 .. n : e[i] = Escaped(block[i])
  <2>1. \A i \in 1 .. n : Escaped(block[i]) \in Seq(Nat) /\ Escaped(block[i]) \in Seq(Unseparated)
    BY <1>0, EscapedIs
  <2>2. e = [i \in 1 .. n |-> Escaped(block[i])]
    BY <1>0
  <2> HIDE DEF e, n
  <2> QED BY <1>0, <2>1, <2>2
<1>2. escapeBlock(block) = FlattenSeq(e)
  BY DEF escapeBlock
<1> HIDE DEF e
<1>3. PICK F : Heads(e, n, F) /\ FlattenSeq(e) = F[n]
  BY <1>1, EndsExist
<1>4. \A i \in 1 .. n : e[i] \in Seq(Unseparated) /\ e[i] \in Seq(Nat)
  BY <1>0, <1>1, EscapedIs
<1>5. \A i \in 0 .. n : F[i] \in Seq(Nat)
  BY <1>0, <1>3, <1>4, EndsAreSeqs
<1>6. \A i \in 0 .. n : F[i] \in Seq(Unseparated)
  BY <1>0, <1>3, <1>4, EndsAreSeqs
<1>7. ASSUME NEW i \in 0 .. n PROVE part(i) \in Seq(Nat)
  BY <1>0, SubSeqProperties
<1>8. ASSUME NEW i \in 1 .. n PROVE part(i) = Append(part(i - 1), block[i])
  <2> DEFINE u == part(i - 1)
             t == part(i)
  <2>1. u \in Seq(Nat) /\ Len(u) = i - 1 /\ \A j \in 1 .. i - 1 : u[j] = block[j]
    BY <1>0, SubSeqProperties
  <2>2. t \in Seq(Nat) /\ Len(t) = i /\ \A j \in 1 .. i : t[j] = block[j]
    BY <1>0, SubSeqProperties
  <2> HIDE DEF u, t
  <2>3. /\ Append(u, block[i]) \in Seq(Nat) /\ Len(Append(u, block[i])) = i
        /\ \A j \in 1 .. i : Append(u, block[i])[j] = block[j]
    BY <1>0, <2>1, AppendProperties
  <2>4. t = Append(u, block[i])
    BY <2>2, <2>3, SeqEqual
  <2> QED BY <2>4 DEF u, t
<1> DEFINE Good(i) == Unescaped(Reading(s), F[i]) = Reading(s \o part(i))
           T == {i \in 0 .. n : ~ Good(i)}
<1>9. T = {}
  <2> SUFFICES ASSUME T # {} PROVE FALSE
    OBVIOUS
  <2>1. PICK i \in T : \A j \in T : i <= j
    <3>1. T \subseteq Nat
      OBVIOUS
    <3> HIDE DEF T
    <3> QED BY <3>1, LeastNumber
  <2>2. i \in 0 .. n /\ ~ Good(i)
    OBVIOUS
  <2>3. Good(0)
    <3>1. part(0) = <<>> /\ F[0] = <<>>
      BY <1>3, SubSeqEmpty DEF Heads
    <3>2. s \o <<>> = s
      BY ConcatEmptySeq
    <3>3. Unescaped(Reading(s), <<>>) = Reading(s)
      BY ReadingIs, UnescapedNothing
    <3> QED BY <3>1, <3>2, <3>3
  <2>4. i - 1 \in 0 .. n /\ ~ (i <= i - 1) /\ i \in 1 .. n
    <3>1. i # 0
      <4> HIDE DEF Good, T
      <4> QED BY <2>2, <2>3
    <3> QED BY <1>0, <2>2, <3>1
  <2>5. i - 1 \notin T
    <3> HIDE DEF T
    <3> QED BY <2>1, <2>4
  <2>6. Good(i - 1)
    <3> HIDE DEF Good
    <3> QED BY <2>4, <2>5
  <2> HIDE DEF T, part
  <2>7. F[i] = F[i - 1] \o e[i] /\ F[i - 1] \in Seq(Nat) /\ e[i] \in Seq(Nat) /\ e[i] = Escaped(block[i])
    BY <1>1, <1>3, <1>4, <1>5, <2>4 DEF Heads
  <2> DEFINE u == s \o part(i - 1)
  <2>8. u \in Seq(Nat) /\ part(i - 1) \in Seq(Nat) /\ block[i] \in Nat
    BY <1>0, <1>7, <2>4, ConcatProperties
  <2>9. Unescaped(Reading(s), F[i - 1] \o e[i]) = Unescaped(Unescaped(Reading(s), F[i - 1]), e[i])
    BY <2>7, ReadingIs, UnescapedBoth
  <2> HIDE DEF u
  <2>10. Unescaped(Reading(u), e[i]) = Reading(Append(u, block[i]))
    BY <2>7, <2>8, EscapedIs
  <2>11. Append(u, block[i]) = s \o part(i)
    <3>0. \A a \in Seq(Nat), b \in Seq(Nat), x \in Nat : a \o Append(b, x) = Append(a \o b, x)
      BY ConcatAppend
    <3>1. s \o Append(part(i - 1), block[i]) = Append(s \o part(i - 1), block[i])
      BY <2>8, <3>0
    <3> QED BY <1>8, <2>4, <3>1 DEF u
  <2>12. Unescaped(Reading(s), F[i - 1]) = Reading(u)
    BY <2>6 DEF u
  <2>13. Unescaped(Reading(s), F[i]) = Reading(s \o part(i))
    BY <2>7, <2>9, <2>10, <2>11, <2>12
  <2> QED BY <2>2, <2>13
<1>10. Good(n)
  <2>1. n \in 0 .. n
    BY <1>0
  <2> HIDE DEF Good
  <2> QED BY <1>9, <2>1
<1>11. part(n) = block
  BY SubSeqFull
<1>12. n \in 0 .. n
  BY <1>0
<1> QED BY <1>2, <1>3, <1>5, <1>6, <1>10, <1>11, <1>12

\* A block is its separator behind what unescapes to its records, from nothing
\* on, or from anything on if it is marked.
LEMMA BlockIs ==
  ASSUME NEW logs \in Lists, NEW marked \in BOOLEAN
  PROVE  \E body \in Seq(Nat) :
           /\ body \in Seq(Unseparated)
           /\ BlockOf(logs, marked) = body \o <<SEPARATOR>>
           /\ \A s \in Seq(Nat) : marked \/ s = <<>> =>
                Unescaped(Reading(s), body) = Reading(FlattenSeq(logs))
<1> DEFINE flat == FlattenSeq(logs)
           escaped == escapeBlock(flat)
           marker == IF marked THEN SliceMarker ELSE <<>>
           body == marker \o escaped
<1>1. flat \in Seq(Nat)
  <2>1. logs \in Seq(Seq(Nat)) /\ Len(logs) \in Nat /\ \A i \in 1 .. Len(logs) : logs[i] \in Seq(Nat)
    BY LenProperties, ElementOfSeq DEF Lists
  <2>2. PICK F : Heads(logs, Len(logs), F) /\ FlattenSeq(logs) = F[Len(logs)]
    BY <2>1, EndsExist
  <2>3. \A i \in 0 .. Len(logs) : F[i] \in Seq(Nat)
    BY <2>1, <2>2, EndsAreSeqs
  <2> QED BY <2>1, <2>2, <2>3
<1>2. <<>> \in Seq(Nat) /\ <<>> \in Seq(Unseparated)
  OBVIOUS
<1> HIDE DEF flat
<1>3. /\ escaped \in Seq(Unseparated) /\ escaped \in Seq(Nat)
      /\ Unescaped(Reading(<<>>), escaped) = Reading(<<>> \o flat)
  BY <1>1, <1>2, EscapeBlockIs
<1>4. <<>> \o flat = flat
  BY <1>1, ConcatEmptySeq
<1>5. marker \in Seq(Nat) /\ marker \in Seq(Unseparated)
  <2>1. SliceMarker \in Seq(Nat) /\ SliceMarker \in Seq(Unseparated)
    BY DEF SliceMarker, Unseparated, ESCAPE, SEPARATOR, ESCAPE_CODE_SLICEMARKER
  <2> QED BY <1>2, <2>1
<1> HIDE DEF escaped
<1>6. ASSUME NEW s \in Seq(Nat), marked \/ s = <<>> PROVE Unescaped(Reading(s), marker) = Reading(<<>>)
  <2>1. CASE marked
    <3>1. marker = <<ESCAPE, 3>> /\ 3 \in Nat
      BY <2>1 DEF SliceMarker, ESCAPE_CODE_SLICEMARKER
    <3>2. Unescape([out |-> s, escape |-> TRUE, ok |-> TRUE], 3) = Reading(<<>>)
      BY OpenEscape
    <3> QED BY <3>1, <3>2, EscapeCodes
  <2>2. CASE ~ marked
    BY <1>6, <2>2, ReadingIs, UnescapedNothing
  <2> QED BY <2>1, <2>2
<1> HIDE DEF marker
<1>7. body \in Seq(Nat) /\ body \in Seq(Unseparated)
  BY <1>3, <1>5, ConcatProperties
<1>8. BlockOf(logs, marked) = body \o <<SEPARATOR>>
  BY DEF BlockOf, marker, escaped, flat
<1>9. ASSUME NEW s \in Seq(Nat), marked \/ s = <<>> PROVE Unescaped(Reading(s), body) = Reading(flat)
  <2>1. Unescaped(Reading(s), marker \o escaped) = Unescaped(Unescaped(Reading(s), marker), escaped)
    BY <1>3, <1>5, ReadingIs, UnescapedBoth
  <2> QED BY <1>3, <1>4, <1>6, <1>9, <2>1
<1> HIDE DEF body
<1> QED BY <1>7, <1>8, <1>9 DEF flat

-----------------------------------------------------------------------------
(* 2. Pieces of a stream.                                                   *)

-----------------------------------------------------------------------------
(* What the loggers leave behind.                                           *)

IsBoundary(bytes, x) == x = 0 \/ bytes[x] = SEPARATOR

Bare(bytes, x, y) == \A i \in x + 1 .. y : bytes[i] # SEPARATOR

\* A block lies between two offsets.
OneBlock(bytes, x, y) ==
  /\ x \in Nat /\ y \in Nat /\ x < y /\ y <= Len(bytes)
  /\ IsBoundary(bytes, x)
  /\ bytes[y] = SEPARATOR
  /\ Bare(bytes, x, y - 1)

\* The records of a block are those from a to b.
Reads(block, logs, a, b) ==
  /\ Parses(block)
  /\ parseEach(block) \in Lists
  /\ Len(parseEach(block)) = b - a + 1
  /\ \A k \in 1 .. b - a + 1 : parseEach(block)[k] = logs[a + k - 1].log

EndIn(logs, y, a, b) ==
  /\ a \in Nat /\ b \in Nat /\ 1 <= a /\ a <= b /\ b <= Len(logs)
  /\ \A i \in 1 .. Len(logs) : logs[i].end = y <=> a <= i /\ i <= b

Holds(bytes, logs, x, y) ==
  \E a, b \in Nat : /\ EndIn(logs, y, a, b)
                    /\ ~ MayTearEscape => Reads(SubSeq(bytes, x + 1, y), logs, a, b)

WrittenLogs == Seq([log : Seq(Nat), end : Nat])

LogsEnd(bytes, logs) ==
  /\ \A i \in 1 .. Len(logs) : /\ logs[i].end \in 1 .. Len(bytes)
                               /\ bytes[logs[i].end] = SEPARATOR
  /\ \A i, j \in 1 .. Len(logs) : i <= j => logs[i].end <= logs[j].end

BlocksHold(bytes, logs) == \A x, y \in Nat : OneBlock(bytes, x, y) => Holds(bytes, logs, x, y)

\* Behind the last separator there is what a crash has torn, if anything.
RestAt(bytes, z, torn) ==
  /\ z \in Nat /\ z <= Len(bytes)
  /\ IsBoundary(bytes, z)
  /\ Bare(bytes, z, Len(bytes))
  /\ ~ torn => z = Len(bytes)
  /\ ~ MayTearEscape => LET rest == Unescaped(NoBytes, SubSeq(bytes, z + 1, Len(bytes)))
                        IN rest.ok /\ ~ rest.escape

StreamOf == [bytes : Seq(Nat), logs : WrittenLogs, next : Nat, torn : BOOLEAN]

WellWritten(st) ==
  /\ st \in StreamOf
  /\ st.next >= Header
  /\ LogsEnd(st.bytes, st.logs)
  /\ BlocksHold(st.bytes, st.logs)
  /\ \E z \in Nat : RestAt(st.bytes, z, st.torn)

\* A stream begins as it should.
LEMMA EmptyIsWellWritten == WellWritten(Empty)
<1> DEFINE st == Empty
<1>1. /\ st.bytes \in Seq(Nat) /\ st.logs \in WrittenLogs /\ st.next = Header /\ st.torn = FALSE
      /\ Len(st.bytes) = 0 /\ Len(st.logs) = 0 /\ st.bytes = <<>>
      /\ st = [bytes |-> st.bytes, logs |-> st.logs, next |-> st.next, torn |-> st.torn]
  BY DEF Empty, WrittenLogs
<1> HIDE DEF st
<1>2. st \in StreamOf /\ st.next >= Header
  <2>1. Header \in Nat /\ Header >= Header /\ st.torn \in BOOLEAN
    <3>1. Header \in Nat /\ Header >= Header
      BY DEF Header
    <3>2. st.torn = FALSE
      BY <1>1
    <3> QED BY <3>1, <3>2, Zenon
  <2>2. st.next \in Nat /\ st.next >= Header
    BY <1>1, <2>1
  <2>3. [bytes |-> st.bytes, logs |-> st.logs, next |-> st.next, torn |-> st.torn] \in StreamOf
    BY <1>1, <2>1, <2>2 DEF StreamOf
  <2>4. st \in StreamOf
    BY <1>1, <2>3, Zenon
  <2> QED BY <2>2, <2>4
<1>3. LogsEnd(st.bytes, st.logs)
  BY <1>1 DEF LogsEnd
<1>4. BlocksHold(st.bytes, st.logs)
  BY <1>1 DEF BlocksHold, OneBlock
<1>5. RestAt(st.bytes, 0, st.torn)
  <2>1. SubSeq(st.bytes, 0 + 1, Len(st.bytes)) = <<>>
    BY <1>1, SubSeqEmpty
  <2>2. NoBytes \in States /\ NoBytes.ok /\ ~ NoBytes.escape
    BY DEF NoBytes, States
  <2>3. Unescaped(NoBytes, <<>>) = NoBytes
    BY <2>2, UnescapedNothing
  <2>4. LET rest == Unescaped(NoBytes, SubSeq(st.bytes, 0 + 1, Len(st.bytes)))
        IN rest.ok /\ ~ rest.escape
    BY <2>1, <2>2, <2>3
  <2>5. 0 \in Nat /\ 0 <= Len(st.bytes) /\ IsBoundary(st.bytes, 0) /\ Bare(st.bytes, 0, Len(st.bytes))
        /\ 0 = Len(st.bytes)
    BY <1>1 DEF IsBoundary, Bare
  <2> QED BY <2>4, <2>5 DEF RestAt
<1> QED BY <1>2, <1>3, <1>4, <1>5 DEF WellWritten, st

\* Records with numbers from a header on.
LEMMA NumberedIs ==
  ASSUME NEW n \in Nat, n >= Header, NEW contents \in Blocks
  PROVE  /\ Numbered(n, contents) \in Lists
         /\ Len(Numbered(n, contents)) = Len(contents)
         /\ Len(contents) \in Nat /\ Len(contents) # 0
         /\ \A i \in DOMAIN Numbered(n, contents) : IsRecord(Numbered(n, contents)[i])
<1> DEFINE k == Len(contents)
           logs == Numbered(n, contents)
           log(i) == <<n + i - 1>> \o contents[i]
<1>1. contents \in Seq(Seq(Byte)) /\ contents # <<>>
  BY ScannerAssumption
<1>2. k \in Nat /\ k # 0 /\ DOMAIN contents = 1 .. k /\ \A i \in 1 .. k : contents[i] \in Seq(Byte)
  BY <1>1, EmptySeq, LenProperties, ElementOfSeq
<1>3. ASSUME NEW i \in 1 .. k PROVE log(i) \in Seq(Nat) /\ IsRecord(log(i))
  <2> DEFINE c == contents[i]
             h == <<n + i - 1>>
             r == h \o c
  <2>1. c \in Seq(Byte) /\ c \in Seq(Nat) /\ Len(c) \in Nat /\ \A j \in 1 .. Len(c) : c[j] \in Byte
    <3>1. c \in Seq(Byte)
      BY <1>2
    <3>2. Byte \subseteq Nat
      BY DEF Byte
    <3> HIDE DEF c
    <3> QED BY <3>1, <3>2, SeqMonotonic, LenProperties, ElementOfSeq
  <2>2. n + i - 1 \in Nat /\ n + i - 1 >= Header
    BY <1>2 DEF Header
  <2>3. h \in Seq(Nat) /\ Len(h) = 1 /\ h[1] = n + i - 1
    BY <2>2
  <2> HIDE DEF c, h
  <2>4. /\ r \in Seq(Nat) /\ Len(r) = Len(h) + Len(c)
        /\ \A j \in 1 .. Len(h) + Len(c) : r[j] = IF j <= Len(h) THEN h[j] ELSE c[j - Len(h)]
    BY <2>1, <2>3, ConcatProperties
  <2> HIDE DEF r
  <2>5. r[1] = n + i - 1 /\ Len(r) = 1 + Len(c) /\ Len(r) # 0
    BY <2>1, <2>3, <2>4
  <2>6. ASSUME NEW j \in 2 .. Len(r) PROVE ~ IsHeader(r[j])
    <3>1. j - 1 \in 1 .. Len(c) /\ r[j] = c[j - 1]
      BY <2>1, <2>3, <2>4, <2>5, SMTT(30)
    <3>2. c[j - 1] \in Byte
      BY <2>1, <3>1
    <3>3. \A b \in Byte : ~ IsHeader(b)
      BY DEF IsHeader, Byte, Header
    <3> QED BY <3>1, <3>2, <3>3
  <2>7. IsHeader(r[1])
    BY <2>2, <2>5 DEF IsHeader
  <2>8. r \in Seq(Nat) /\ IsRecord(r)
    BY <2>4, <2>5, <2>6, <2>7 DEF IsRecord
  <2> QED BY <2>8 DEF r, h, c
<1> HIDE DEF log
<1>4. logs = [i \in 1 .. k |-> log(i)]
  BY <1>2 DEF Numbered, log
<1> HIDE DEF logs, k
<1>5. logs \in Lists /\ Len(logs) = k /\ DOMAIN logs = 1 .. k /\ \A i \in 1 .. k : logs[i] = log(i)
  BY <1>2, <1>3, <1>4 DEF Lists
<1> QED BY <1>2, <1>3, <1>5 DEF logs, k

\* The blocks that were there stay as they are.
LEMMA OldBlocksHold ==
  ASSUME NEW bytes, NEW more, NEW long, Longer(bytes, more, long), long = bytes \o more,
         NEW logs \in WrittenLogs, NEW new \in WrittenLogs, NEW all, all = logs \o new,
         \A i \in 1 .. Len(new) : new[i].end > Len(bytes),
         BlocksHold(bytes, logs),
         NEW x \in Nat, NEW y \in Nat, OneBlock(long, x, y), y <= Len(bytes)
  PROVE  Holds(long, all, x, y)
<1>1. OneBlock(bytes, x, y)
  BY DEF OneBlock, Longer, IsBoundary, Bare
<1>2. PICK a \in Nat, b \in Nat :
        /\ EndIn(logs, y, a, b)
        /\ ~ MayTearEscape => Reads(SubSeq(bytes, x + 1, y), logs, a, b)
  BY <1>1 DEF BlocksHold, Holds
<1>3. /\ all \in WrittenLogs /\ Len(all) = Len(logs) + Len(new)
      /\ \A i \in 1 .. Len(logs) + Len(new) :
           all[i] = IF i <= Len(logs) THEN logs[i] ELSE new[i - Len(logs)]
      /\ Len(logs) \in Nat /\ Len(new) \in Nat
  BY ConcatProperties, LenProperties DEF WrittenLogs
<1>4. EndIn(all, y, a, b)
  <2>1. ASSUME NEW i \in 1 .. Len(all) PROVE all[i].end = y <=> a <= i /\ i <= b
    <3>1. CASE i <= Len(logs)
      BY <1>2, <1>3, <3>1 DEF EndIn
    <3>2. CASE ~ (i <= Len(logs))
      <4>1. i - Len(logs) \in 1 .. Len(new) /\ all[i] = new[i - Len(logs)] /\ ~ (i <= b)
        BY <1>2, <1>3, <3>2 DEF EndIn
      <4>2. Len(bytes) \in Nat
        BY DEF Longer
      <4>3. new[i - Len(logs)].end > Len(bytes)
        BY <4>1
      <4>4. new[i - Len(logs)].end \in Nat
        <5>1. new[i - Len(logs)] \in [log : Seq(Nat), end : Nat]
          BY <4>1, ElementOfSeq DEF WrittenLogs
        <5> QED BY <5>1
      <4>5. all[i].end # y
        BY <4>1, <4>2, <4>3, <4>4
      <4> QED BY <4>1, <4>5
    <3> QED BY <3>1, <3>2
  <2> QED BY <1>2, <1>3, <2>1 DEF EndIn
<1>5. ASSUME ~ MayTearEscape PROVE Reads(SubSeq(long, x + 1, y), all, a, b)
  <2>1. SubSeq(long, x + 1, y) = SubSeq(bytes, x + 1, y)
    <3>1. x <= y /\ bytes \in Seq(Nat) /\ more \in Seq(Nat)
      BY <1>1 DEF OneBlock, Longer
    <3> QED BY <3>1, PieceOfLonger
  <2>2. \A k \in 1 .. b - a + 1 : all[a + k - 1] = logs[a + k - 1]
    <3> SUFFICES ASSUME NEW k \in 1 .. b - a + 1 PROVE all[a + k - 1] = logs[a + k - 1]
      OBVIOUS
    <3>1. a + k - 1 \in 1 .. Len(logs) /\ a + k - 1 <= Len(logs)
      BY <1>2, <1>3 DEF EndIn
    <3> QED BY <1>3, <3>1
  <2>3. Reads(SubSeq(bytes, x + 1, y), logs, a, b)
    BY <1>2, <1>5
  <2> DEFINE block == SubSeq(bytes, x + 1, y)
  <2> HIDE DEF block
  <2>4. Reads(block, logs, a, b)
    BY <2>3 DEF block
  <2>5. Reads(block, all, a, b)
    BY <2>2, <2>4 DEF Reads
  <2> QED BY <2>1, <2>5 DEF block
<1> QED BY <1>4, <1>5 DEF Holds

\* Bytes that unescape, and a body that unescapes behind them to its records.
ReadOn(rest) == Unescaped(NoBytes, rest).ok /\ ~ Unescaped(NoBytes, rest).escape

OpensInto(body, marked, logs) ==
  \A s \in Seq(Nat) : marked \/ s = <<>> =>
    Unescaped(Reading(s), body) = Reading(FlattenSeq(logs))

\* Without a slice marker nothing may be in front.
Follows(marked, rest) == marked \/ rest = <<>>

AreRecords(logs) == \A i \in DOMAIN logs : IsRecord(logs[i])

ReadAs(block, logs) == Parses(block) /\ parseEach(block) = logs

\* A body behind a rest that unescapes comes out as its records.
LEMMA BodyIsRead ==
  ASSUME NEW rest \in Seq(Nat), NEW body \in Seq(Nat), NEW logs \in Lists,
         NEW marked \in BOOLEAN, Follows(marked, rest),
         ReadOn(rest), OpensInto(body, marked, logs)
  PROVE  Unescaped(NoBytes, rest \o body) = Reading(FlattenSeq(logs))
<1> DEFINE state == Unescaped(NoBytes, rest)
           flat == FlattenSeq(logs)
<1>2. NoBytes \in States /\ NoBytes = Reading(<<>>)
  BY DEF NoBytes, States, Reading
<1>3. state \in States
  BY <1>2, UnescapedType
<1>a. state.ok /\ ~ state.escape
  BY DEF ReadOn
<1> HIDE DEF state
<1>4. state = Reading(state.out) /\ state.out \in Seq(Nat)
  <2>1. state.out \in Seq(Nat) /\ state.escape = FALSE /\ state.ok = TRUE
    BY <1>3, <1>a DEF States
  <2>2. state = [out |-> state.out, escape |-> state.escape, ok |-> state.ok]
    BY <1>3 DEF States
  <2> QED BY <2>1, <2>2 DEF Reading
<1>5. rest = <<>> => state.out = <<>>
  <2>1. rest = <<>> => state = NoBytes
    BY <1>2, UnescapedNothing DEF state
  <2> QED BY <2>1 DEF NoBytes
<1>6. Unescaped(state, body) = Reading(flat)
  BY <1>4, <1>5 DEF OpensInto, Follows
<1>7. Unescaped(NoBytes, rest \o body) = Reading(flat)
  BY <1>2, <1>6, UnescapedBoth DEF state
<1> QED BY <1>7

\* A whole block behind a rest that unescapes is read as its records.
LEMMA BlockIsRead ==
  ASSUME NEW rest \in Seq(Nat), NEW body \in Seq(Nat), NEW logs \in Lists, AreRecords(logs),
         NEW marked \in BOOLEAN, Follows(marked, rest),
         ReadOn(rest), OpensInto(body, marked, logs),
         NEW block, block = rest \o (body \o <<SEPARATOR>>)
  PROVE  ReadAs(block, logs)
<1>1. Front(block) = rest \o body
  <2> DEFINE e == <<SEPARATOR>>
             u == rest \o body
             v == body \o e
             f == Front(block)
  <2>1. e \in Seq(Nat) /\ Len(e) = 1
    BY DEF SEPARATOR
  <2> HIDE DEF e
  <2>2. u \in Seq(Nat) /\ (rest \o body) \o e = rest \o v
    BY <2>1, ConcatProperties, ConcatAssociative, SMTT(30)
  <2>3. block = u \o e
    BY <2>2 DEF e
  <2> HIDE DEF u, v
  <2>4. /\ block \in Seq(Nat) /\ Len(block) = Len(u) + 1 /\ Len(u) \in Nat
        /\ \A i \in 1 .. Len(u) : block[i] = u[i]
    <3>1. Longer(u, e, u \o e)
      BY <2>1, <2>2, ConcatIsLonger
    <3> QED BY <2>1, <2>3, <3>1 DEF Longer
  <2>5. f = SubSeq(block, 1, Len(u))
    BY <2>4 DEF Front
  <2>6. Piece(SubSeq(block, 0 + 1, Len(u)), block, 0, Len(u))
    <3>1. 0 \in Nat /\ 0 <= Len(u) /\ Len(u) <= Len(block)
      BY <2>4
    <3> QED BY <2>4, <3>1, PieceIs
  <2>7. f \in Seq(Nat) /\ Len(f) = Len(u) /\ \A i \in 1 .. Len(u) : f[i] = block[i]
    <3>1. Piece(f, block, 0, Len(u))
      <4>1. 0 + 1 = 1
        OBVIOUS
      <4> QED BY <2>5, <2>6, <4>1
    <3>2. Len(f) = Len(u) - 0 /\ Len(u) - 0 = Len(u) /\ f \in Seq(Nat)
      BY <2>4, <3>1 DEF Piece
    <3>3. ASSUME NEW i \in 1 .. Len(u) PROVE f[i] = block[i]
      <4>1. i \in 1 .. Len(u) - 0 /\ 0 + i = i
        BY <2>4
      <4>2. f[i] = block[0 + i]
        BY <3>1, <4>1 DEF Piece
      <4> QED BY <4>1, <4>2
    <3> QED BY <3>2, <3>3
  <2> HIDE DEF f
  <2>8. f = u
    BY <2>2, <2>4, <2>7, SeqEqual
  <2> QED BY <2>8 DEF f, u
<1> DEFINE flat == FlattenSeq(logs)
<1>7. Unescaped(NoBytes, rest \o body) = Reading(flat)
  BY BodyIsRead
<1>8. unwrapBlock(block) = [out |-> flat, ok |-> TRUE]
  <2>1. unwrapBlock(block) = [out |-> Reading(flat).out, ok |-> Reading(flat).ok /\ ~ Reading(flat).escape]
    BY <1>1, <1>7 DEF unwrapBlock, unescapeBlock
  <2>2. Reading(flat).out = flat /\ (Reading(flat).ok /\ ~ Reading(flat).escape) = TRUE
    BY DEF Reading
  <2> QED BY <2>1, <2>2
<1>9. Records(flat) = logs
  BY RecordsOfRecords DEF AreRecords
<1> HIDE DEF flat
<1>10. unwrapBlock(block).ok /\ unwrapBlock(block).out = flat
  BY <1>8
<1>11. parseEach(block) = logs
  BY <1>9, <1>10 DEF parseEach
<1>12. Parses(block)
  BY <1>9, <1>10 DEF Parses, IsRecord, AreRecords
<1> QED BY <1>11, <1>12 DEF ReadAs

\* Unescaping goes on from a rest, if a block was not marked, there is none.
LEMMA MarkedIs ==
  ASSUME NEW st \in StreamOf, NEW marked \in Marked(st), NEW z \in Nat, RestAt(st.bytes, z, st.torn)
  PROVE  marked \in BOOLEAN /\ (marked \/ SubSeq(st.bytes, z + 1, Len(st.bytes)) = <<>>)
<1>1. CASE st.torn
  BY <1>1 DEF Marked
<1>2. CASE ~ st.torn
  <2>1. z = Len(st.bytes) /\ z \in Nat
    BY <1>2 DEF RestAt
  <2>2. SubSeq(st.bytes, z + 1, Len(st.bytes)) = <<>>
    BY <2>1, SubSeqEmpty
  <2> QED BY <1>2, <2>2 DEF Marked
<1> QED BY <1>1, <1>2

\* A block that is written whole behind what is there.
LEMMA WrittenIs ==
  ASSUME NEW st, WellWritten(st), NEW contents \in Blocks, NEW marked \in Marked(st)
  PROVE  WellWritten(Written(st, contents, marked))
<1> DEFINE next == Written(st, contents, marked)
           logs == Numbered(st.next, contents)
           block == BlockOf(logs, marked)
           bytes == st.bytes
           long == bytes \o block
           m == Len(bytes)
           end == m + Len(block)
           new == [i \in DOMAIN logs |-> [log |-> logs[i], end |-> end]]
           all == st.logs \o new
           k == Len(logs)
<1>0. /\ bytes \in Seq(Nat) /\ st.logs \in WrittenLogs /\ st.next \in Nat /\ st.next >= Header
      /\ LogsEnd(bytes, st.logs) /\ BlocksHold(bytes, st.logs) /\ st \in StreamOf
  BY DEF WellWritten, StreamOf
<1>1. PICK z \in Nat : RestAt(bytes, z, st.torn)
  BY DEF WellWritten
<1> DEFINE rest == SubSeq(bytes, z + 1, Len(bytes))
<1>2. marked \in BOOLEAN /\ (marked \/ rest = <<>>)
  BY <1>0, <1>1, MarkedIs
<1>3. /\ logs \in Lists /\ k \in Nat /\ k # 0 /\ DOMAIN logs = 1 .. k
      /\ \A i \in DOMAIN logs : IsRecord(logs[i])
  BY <1>0, NumberedIs, LenProperties DEF Lists
<1> HIDE DEF logs
<1>4. PICK body \in Seq(Nat) :
        /\ body \in Seq(Unseparated)
        /\ block = body \o <<SEPARATOR>>
        /\ \A s \in Seq(Nat) : marked \/ s = <<>> =>
             Unescaped(Reading(s), body) = Reading(FlattenSeq(logs))
  BY <1>2, <1>3, BlockIs
<1> HIDE DEF block
<1> DEFINE l == Len(body)
<1>5. /\ block \in Seq(Nat) /\ Len(block) = l + 1 /\ l \in Nat /\ block[l + 1] = SEPARATOR
      /\ \A i \in 1 .. l : block[i] # SEPARATOR
  <2> DEFINE e == <<SEPARATOR>>
  <2>1. e \in Seq(Nat) /\ Len(e) = 1 /\ e[1] = SEPARATOR
    BY DEF SEPARATOR
  <2> HIDE DEF e
  <2>2. Longer(body, e, body \o e)
    BY <2>1, ConcatIsLonger
  <2>3. Longer(body, e, block)
    BY <1>4, <2>2 DEF e
  <2>4. \A i \in 1 .. l : body[i] # SEPARATOR
    <3>1. \A i \in 1 .. Len(body) : body[i] \in Unseparated
      BY <1>4, ElementOfSeq
    <3> QED BY <3>1 DEF Unseparated
  <2>5. l \in Nat /\ Len(block) = l + 1 /\ block \in Seq(Nat)
    BY <2>1, <2>3 DEF Longer
  <2>6. 1 \in 1 .. Len(e)
    BY <2>1
  <2>7. block[l + 1] = SEPARATOR
    BY <2>1, <2>3, <2>6 DEF Longer
  <2>8. \A i \in 1 .. l : block[i] = body[i]
    BY <2>3 DEF Longer
  <2> HIDE DEF l
  <2> QED BY <2>4, <2>5, <2>7, <2>8
<1>6. Longer(bytes, block, long)
  BY <1>0, <1>5, ConcatIsLonger
<1>7. m \in Nat /\ end = m + l + 1 /\ Len(long) = end /\ long \in Seq(Nat)
  <2>1. m \in Nat /\ Len(long) = m + Len(block) /\ long \in Seq(Nat)
    BY <1>6 DEF Longer
  <2> HIDE DEF l, m, long
  <2> QED BY <1>5, <2>1
<1>8. /\ long[end] = SEPARATOR
      /\ \A i \in m + 1 .. end - 1 : long[i] # SEPARATOR
      /\ \A i \in 1 .. m : long[i] = bytes[i]
  <2>1. long[m + (l + 1)] = block[l + 1]
    <3>1. l + 1 \in 1 .. Len(block)
      <4> HIDE DEF l
      <4> QED BY <1>5
    <3> QED BY <1>6, <3>1 DEF Longer
  <2>2. ASSUME NEW i \in m + 1 .. end - 1 PROVE long[i] # SEPARATOR
    <3>1. i - m \in 1 .. l /\ i - m \in 1 .. Len(block) /\ m + (i - m) = i
      <4> HIDE DEF l, m
      <4> QED BY <1>5, <1>7
    <3>2. long[m + (i - m)] = block[i - m]
      BY <1>6, <3>1 DEF Longer
    <3> QED BY <1>5, <3>1, <3>2
  <2> QED BY <1>5, <1>6, <1>7, <2>1, <2>2 DEF Longer
<1> HIDE DEF end
<1>9. /\ new \in WrittenLogs /\ Len(new) = k
      /\ \A i \in 1 .. k : new[i].end = end /\ new[i].log = logs[i]
  <2>1. new = [i \in 1 .. k |-> [log |-> logs[i], end |-> end]]
    BY <1>3
  <2>2. \A i \in 1 .. k : logs[i] \in Seq(Nat)
    BY <1>3, ElementOfSeq DEF Lists
  <2>3. end \in Nat
    BY <1>5, <1>7
  <2> HIDE DEF new, k
  <2>4. \A i \in 1 .. k : [log |-> logs[i], end |-> end] \in [log : Seq(Nat), end : Nat]
    BY <2>2, <2>3
  <2>5. new \in [1 .. k -> [log : Seq(Nat), end : Nat]]
    BY <2>1, <2>4
  <2>6. k \in Nat
    BY <1>3
  <2>7. new \in WrittenLogs /\ Len(new) = k
    <3>1. ASSUME NEW R, NEW f \in [1 .. k -> R] PROVE f \in Seq(R) /\ Len(f) = k
      BY <2>6
    <3> QED BY <2>5, <3>1 DEF WrittenLogs
  <2> QED BY <2>1, <2>7
<1>10. next = [bytes |-> long, logs |-> all, next |-> st.next + k, torn |-> FALSE]
  BY DEF Written, logs, block, end, long, new, k
<1> HIDE DEF new, k, long
<1>11. /\ all \in WrittenLogs /\ Len(all) = Len(st.logs) + k /\ Len(st.logs) \in Nat
       /\ \A i \in 1 .. Len(st.logs) : all[i] = st.logs[i]
       /\ \A i \in 1 .. k : all[Len(st.logs) + i] = new[i]
  <2> DEFINE n == Len(st.logs)
  <2>1. /\ all \in WrittenLogs /\ Len(all) = n + Len(new) /\ n \in Nat
        /\ \A i \in 1 .. n + Len(new) : all[i] = IF i <= n THEN st.logs[i] ELSE new[i - n]
    BY <1>0, <1>9, ConcatProperties, LenProperties, ZenonT(30) DEF WrittenLogs
  <2> HIDE DEF all, n
  <2>2. ASSUME NEW i \in 1 .. n PROVE all[i] = st.logs[i]
    <3>1. i \in 1 .. n + Len(new) /\ i <= n
      BY <1>3, <1>9, <2>1
    <3> QED BY <2>1, <3>1
  <2>3. ASSUME NEW i \in 1 .. k PROVE all[n + i] = new[i]
    <3>1. n + i \in 1 .. n + Len(new) /\ ~ (n + i <= n) /\ (n + i) - n = i
      BY <1>3, <1>9, <2>1
    <3> QED BY <2>1, <3>1
  <2> QED BY <1>9, <2>1, <2>2, <2>3 DEF n
<1>a. long = bytes \o block
  BY DEF long
<1>b. all = st.logs \o new
  OBVIOUS
<1> HIDE DEF all
<1>12. LogsEnd(long, all)
  <2> DEFINE n == Len(st.logs)
  <2>0. ASSUME NEW i \in 1 .. Len(all), ~ (i <= n) PROVE all[i].end = end
    <3>1. i - n \in 1 .. k /\ n + (i - n) = i
      BY <1>3, <1>11, <2>0
    <3>2. all[n + (i - n)] = new[i - n]
      BY <1>11, <3>1
    <3> QED BY <1>9, <3>1, <3>2
  <2>1. ASSUME NEW i \in 1 .. Len(all), i <= n
        PROVE  all[i].end \in 1 .. m /\ long[all[i].end] = SEPARATOR /\ i \in 1 .. n /\ all[i] = st.logs[i]
    <3>1. i \in 1 .. n /\ all[i] = st.logs[i]
      BY <1>11, <2>1
    <3>2. st.logs[i].end \in 1 .. m /\ bytes[st.logs[i].end] = SEPARATOR
      BY <1>0, <3>1 DEF LogsEnd
    <3> HIDE DEF n
    <3> QED BY <1>8, <3>1, <3>2
  <2>2. \A i \in 1 .. Len(all) : all[i].end \in 1 .. Len(long) /\ long[all[i].end] = SEPARATOR
    <3>1. end \in 1 .. Len(long) /\ 1 .. m \subseteq 1 .. Len(long)
      <4> HIDE DEF l, m
      <4> QED BY <1>5, <1>7
    <3> HIDE DEF n, m
    <3> QED BY <1>8, <2>0, <2>1, <3>1
  <2>3. ASSUME NEW i \in 1 .. Len(all), NEW j \in 1 .. Len(all), i <= j PROVE all[i].end <= all[j].end
    <3>1. CASE j <= n
      <4>1. i <= n
        BY <1>11, <2>3, <3>1
      <4>2. st.logs[i].end <= st.logs[j].end
        BY <1>0, <2>1, <2>3, <3>1, <4>1 DEF LogsEnd
      <4> QED BY <2>1, <3>1, <4>1, <4>2
    <3>2. CASE ~ (j <= n)
      <4>1. all[j].end = end
        BY <2>0, <3>2
      <4>2. all[i].end \in 1 .. end
        BY <1>7, <2>2
      <4> QED BY <4>1, <4>2
    <3> QED BY <3>1, <3>2
  <2> QED BY <2>2, <2>3 DEF LogsEnd
<1>13. ASSUME NEW x \in Nat, NEW y \in Nat, OneBlock(long, x, y) PROVE Holds(long, all, x, y)
  <2>1. CASE y <= m
    <3>1. \A i \in 1 .. Len(new) : new[i].end > Len(bytes)
      BY <1>5, <1>7, <1>9
    <3> QED BY <1>0, <1>6, <1>9, <1>13, <1>a, <1>b, <2>1, <3>1, OldBlocksHold
  <2>2. CASE ~ (y <= m)
    <3>1. y = end
      <4>1. y <= Len(long) /\ long[y] = SEPARATOR
        BY <1>13 DEF OneBlock
      <4> HIDE DEF l, m
      <4> QED BY <1>5, <1>7, <1>8, <2>2, <4>1
    <3>2. x = z
      <4>1. z <= m /\ IsBoundary(bytes, z) /\ Bare(bytes, z, m)
        BY <1>1 DEF RestAt
      <4>2. x <= m
        <5>1. x < end /\ (x = 0 \/ long[x] = SEPARATOR)
          BY <1>13, <3>1 DEF OneBlock, IsBoundary
        <5> HIDE DEF l, m
        <5> QED BY <1>5, <1>7, <1>8, <5>1
      <4>3. ~ (x < z)
        <5>1. SUFFICES ASSUME x < z PROVE FALSE
          OBVIOUS
        <5>2. z # 0 /\ bytes[z] = SEPARATOR /\ z \in 1 .. m
          BY <1>7, <4>1, <5>1 DEF IsBoundary
        <5>3. long[z] = SEPARATOR /\ z \in x + 1 .. y - 1
          <6> HIDE DEF l, m
          <6> QED BY <1>5, <1>7, <1>8, <3>1, <4>1, <5>1, <5>2
        <5> QED BY <1>13, <5>3 DEF OneBlock, Bare
      <4>4. ~ (z < x)
        <5>1. SUFFICES ASSUME z < x PROVE FALSE
          OBVIOUS
        <5>2. x # 0 /\ long[x] = SEPARATOR /\ x \in 1 .. m
          BY <1>7, <1>13, <4>2, <5>1 DEF OneBlock, IsBoundary
        <5>3. bytes[x] = SEPARATOR /\ x \in z + 1 .. m
          BY <1>8, <5>1, <5>2
        <5> QED BY <4>1, <5>3 DEF Bare
      <4> QED BY <4>3, <4>4
    <3> DEFINE a == Len(st.logs) + 1
               b == Len(st.logs) + k
    <3>3. a \in Nat /\ b \in Nat /\ 1 <= a /\ a <= b /\ b <= Len(all)
      BY <1>3, <1>11
    <3>4. ASSUME NEW i \in 1 .. Len(all) PROVE all[i].end = y <=> a <= i /\ i <= b
      <4>1. CASE i <= Len(st.logs)
        <5>1. i \in 1 .. Len(st.logs) /\ all[i] = st.logs[i]
          BY <1>11, <4>1
        <5>2. st.logs[i].end \in 1 .. m
          BY <1>0, <5>1 DEF LogsEnd
        <5>3. ~ (a <= i)
          BY <1>11, <4>1
        <5> QED BY <1>5, <1>7, <3>1, <5>1, <5>2, <5>3
      <4>2. CASE ~ (i <= Len(st.logs))
        <5>1. i - Len(st.logs) \in 1 .. k /\ Len(st.logs) + (i - Len(st.logs)) = i /\ a <= i /\ i <= b
          BY <1>3, <1>11, <4>2
        <5>2. all[Len(st.logs) + (i - Len(st.logs))] = new[i - Len(st.logs)]
          BY <1>11, <5>1
        <5> QED BY <1>9, <3>1, <5>1, <5>2
      <4> QED BY <4>1, <4>2
    <3>5. EndIn(all, y, a, b)
      <4> HIDE DEF a, b
      <4> QED BY <3>3, <3>4 DEF EndIn
    <3>6. ASSUME ~ MayTearEscape PROVE Reads(SubSeq(long, x + 1, y), all, a, b)
      <4> DEFINE cut == SubSeq(long, x + 1, y)
      <4>1. rest \in Seq(Nat) /\ Piece(rest, bytes, z, m)
        <5>1. z <= m
          BY <1>1 DEF RestAt
        <5>2. Piece(SubSeq(bytes, z + 1, m), bytes, z, m)
          BY <1>0, <1>7, <5>1, PieceIs
        <5> QED BY <5>2 DEF Piece
      <4>2. LET state == Unescaped(NoBytes, rest) IN state.ok /\ ~ state.escape
        BY <1>1, <3>6 DEF RestAt
      <4>3. cut = rest \o block
        <5>1. Piece(cut, long, z, end)
          <6>1. z \in Nat /\ end \in Nat /\ z <= end /\ end <= Len(long)
            BY <1>1, <1>5, <1>7 DEF RestAt
          <6> QED BY <1>7, <3>1, <3>2, <6>1, PieceIs
        <5>2. Piece(rest, long, z, m)
          <6>0. z \in Nat /\ z <= m
            BY <1>1 DEF RestAt
          <6>1. \A i \in 1 .. m - z : z + i \in 1 .. m
            BY <1>7, <6>0
          <6>2. \A i \in 1 .. m - z : long[z + i] = bytes[z + i]
            BY <1>8, <6>1
          <6> HIDE DEF rest, m
          <6> QED BY <4>1, <6>2 DEF Piece
        <5>3. Piece(block, long, m, end)
          <6>1. end - m = Len(block)
            <7> HIDE DEF l, m
            <7> QED BY <1>5, <1>7
          <6>2. \A i \in 1 .. Len(block) : long[m + i] = block[i]
            BY <1>6 DEF Longer
          <6> QED BY <1>5, <6>1, <6>2 DEF Piece
        <5>4. Piece(rest \o block, long, z, end)
          <6>1. z \in Int /\ m \in Int /\ end \in Int /\ z <= m /\ m <= end
            BY <1>1, <1>5, <1>7 DEF RestAt
          <6> HIDE DEF rest, m
          <6> QED BY <5>2, <5>3, <6>1, PiecesMeet
        <5> HIDE DEF cut, rest
        <5> QED BY <5>1, <5>4, SamePiece
      <4>4. Parses(cut) /\ parseEach(cut) = logs
        <5>1. cut = rest \o (body \o <<SEPARATOR>>)
          BY <1>4, <4>3
        <5>2. ~ (marked \/ rest = <<>>) => FALSE
          BY <1>2
        <5> DEFINE state == Unescaped(NoBytes, rest)
        <5>3. state.ok /\ ~ state.escape
          BY <4>2
        <5>4. ReadOn(rest)
          BY <5>3 DEF ReadOn
        <5>5. OpensInto(body, marked, logs)
          BY <1>4 DEF OpensInto
        <5>6. AreRecords(logs)
          BY <1>3 DEF AreRecords
        <5>7. rest \in Seq(Nat)
          BY <4>1
        <5> HIDE DEF rest, cut, state
        <5>8. Follows(marked, rest)
          BY <1>2 DEF Follows
        <5>9. ReadAs(cut, logs)
          BY <1>2, <1>3, <5>1, <5>4, <5>5, <5>6, <5>7, <5>8, BlockIsRead
        <5> QED BY <5>9 DEF ReadAs
      <4> HIDE DEF cut
      <4>5. Len(logs) = b - a + 1
        BY <1>3, <1>11 DEF k
      <4>6. ASSUME NEW i \in 1 .. b - a + 1 PROVE logs[i] = all[a + i - 1].log
        <5>1. i \in 1 .. k /\ a + i - 1 = Len(st.logs) + i
          BY <1>3, <1>11
        <5> HIDE DEF a, b
        <5> QED BY <1>9, <1>11, <5>1
      <4> HIDE DEF a, b
      <4>7. Reads(cut, all, a, b)
        BY <1>3, <4>4, <4>5, <4>6 DEF Reads
      <4> QED BY <4>7 DEF cut
    <3> HIDE DEF a, b
    <3> QED BY <3>3, <3>5, <3>6 DEF Holds
  <2> QED BY <2>1, <2>2
<1>14. RestAt(long, end, FALSE)
  <2>1. end \in Nat /\ end <= Len(long) /\ end = Len(long)
    BY <1>5, <1>7
  <2>2. IsBoundary(long, end) /\ Bare(long, end, Len(long))
    BY <1>8, <2>1 DEF IsBoundary, Bare
  <2>3. Unescaped(NoBytes, SubSeq(long, end + 1, Len(long))) = NoBytes
    <3>1. SubSeq(long, end + 1, Len(long)) = <<>>
      BY <2>1, SubSeqEmpty
    <3>2. NoBytes \in States
      BY DEF NoBytes, States
    <3> QED BY <3>1, <3>2, UnescapedNothing
  <2>4. NoBytes.ok /\ ~ NoBytes.escape
    BY DEF NoBytes
  <2> QED BY <2>1, <2>2, <2>3, <2>4 DEF RestAt
<1>15. WellWritten([bytes |-> long, logs |-> all, next |-> st.next + k, torn |-> FALSE])
  <2> DEFINE r == [bytes |-> long, logs |-> all, next |-> st.next + k, torn |-> FALSE]
  <2>1. r.bytes = long /\ r.logs = all /\ r.next = st.next + k /\ r.torn = FALSE
    OBVIOUS
  <2>2. st.next + k \in Nat /\ st.next + k >= Header
    BY <1>0, <1>3 DEF Header
  <2>3. r \in StreamOf
    BY <1>7, <1>11, <2>2 DEF StreamOf
  <2>4. BlocksHold(long, all)
    BY <1>13 DEF BlocksHold
  <2>5. end \in Nat
    BY <1>5, <1>7
  <2> HIDE DEF r
  <2>6. r.next >= Header
    BY <2>1, <2>2
  <2>7. \E q \in Nat : RestAt(r.bytes, q, r.torn)
    BY <1>14, <2>1, <2>5
  <2>8. WellWritten(r)
    BY <1>12, <2>1, <2>3, <2>4, <2>6, <2>7 DEF WellWritten
  <2> QED BY <2>8 DEF r
<1> HIDE DEF next
<1> QED BY <1>10, <1>15 DEF next

\* A block of which only the first part is written.
LEMMA TornIs ==
  ASSUME NEW st, WellWritten(st), NEW contents \in Blocks, NEW marked \in Marked(st),
         NEW length \in 1 .. Len(BlockOf(Numbered(st.next, contents), marked)) - 1,
         NEW next, next = Torn(st, contents, marked, length),
         ~ MayTearEscape => Last(next.bytes) # ESCAPE
  PROVE  WellWritten(next)
<1> DEFINE logs == Numbered(st.next, contents)
           block == BlockOf(logs, marked)
           bytes == st.bytes
           part == SubSeq(block, 1, length)
           long == bytes \o part
           m == Len(bytes)
           k == Len(contents)
<1>0. /\ bytes \in Seq(Nat) /\ st.logs \in WrittenLogs /\ st.next \in Nat /\ st.next >= Header
      /\ LogsEnd(bytes, st.logs) /\ BlocksHold(bytes, st.logs) /\ st \in StreamOf
  BY DEF WellWritten, StreamOf
<1>1. PICK z \in Nat : RestAt(bytes, z, st.torn)
  BY DEF WellWritten
<1> DEFINE rest == SubSeq(bytes, z + 1, m)
<1>2. marked \in BOOLEAN /\ Follows(marked, rest)
  BY <1>0, <1>1, MarkedIs DEF Follows
<1>3. logs \in Lists /\ k \in Nat
  BY <1>0, NumberedIs
<1>10. next = [bytes |-> long, logs |-> st.logs, next |-> st.next + k, torn |-> TRUE]
  BY DEF Torn
<1> HIDE DEF logs
<1>4. PICK body \in Seq(Nat) :
        /\ body \in Seq(Unseparated)
        /\ block = body \o <<SEPARATOR>>
        /\ \A s \in Seq(Nat) : marked \/ s = <<>> =>
             Unescaped(Reading(s), body) = Reading(FlattenSeq(logs))
  BY <1>2, <1>3, BlockIs
<1>a. length \in 1 .. Len(block) - 1
  BY DEF logs
<1> HIDE DEF block
<1> DEFINE l == Len(body)
           tail == SubSeq(body, length + 1, l)
<1>5. l \in Nat /\ length \in 1 .. l /\ length \in Nat /\ block \in Seq(Nat)
      /\ \A i \in 1 .. length : block[i] = body[i]
  <2> DEFINE e == <<SEPARATOR>>
  <2>1. e \in Seq(Nat) /\ Len(e) = 1
    BY DEF SEPARATOR
  <2> HIDE DEF e
  <2>2. Longer(body, e, body \o e)
    BY <2>1, ConcatIsLonger
  <2>3. Longer(body, e, block)
    BY <1>4, <2>2 DEF e
  <2>4. l \in Nat /\ Len(block) = l + 1 /\ block \in Seq(Nat) /\ \A i \in 1 .. l : block[i] = body[i]
    BY <2>1, <2>3 DEF Longer
  <2> HIDE DEF l
  <2> QED BY <1>a, <2>4
<1>6. part = SubSeq(body, 1, length) /\ part \in Seq(Nat) /\ Len(part) = length
      /\ \A i \in 1 .. length : part[i] = body[i]
  <2>1. \A i \in 1 .. length : block[i] \in Nat /\ body[i] \in Nat
    <3>1. \A i \in 1 .. l : body[i] \in Nat
      BY ElementOfSeq
    <3> HIDE DEF l
    <3> QED BY <1>5, <3>1
  <2> DEFINE p == SubSeq(body, 1, length)
             q == SubSeq(block, 1, length)
  <2>2. p \in Seq(Nat) /\ Len(p) = length /\ \A i \in 1 .. length : p[i] = body[i]
    BY <1>5, <2>1, SubSeqProperties
  <2>3. q \in Seq(Nat) /\ Len(q) = length /\ \A i \in 1 .. length : q[i] = block[i]
    BY <1>5, <2>1, SubSeqProperties
  <2> HIDE DEF p, q
  <2>4. q = p
    BY <1>5, <2>2, <2>3, SeqEqual
  <2>5. part = q
    BY DEF q
  <2> QED BY <2>2, <2>4, <2>5 DEF p
<1> HIDE DEF part
<1>7. Longer(bytes, part, long)
  BY <1>0, <1>6, ConcatIsLonger
<1>8. m \in Nat /\ Len(long) = m + length /\ long \in Seq(Nat) /\ \A i \in 1 .. m : long[i] = bytes[i]
  BY <1>6, <1>7 DEF Longer
<1>9. \A i \in m + 1 .. m + length : long[i] = part[i - m] /\ long[i] # SEPARATOR
  <2> SUFFICES ASSUME NEW i \in m + 1 .. m + length PROVE long[i] = part[i - m] /\ long[i] # SEPARATOR
    OBVIOUS
  <2>1. i - m \in 1 .. length /\ i - m \in 1 .. l /\ m + (i - m) = i
    <3> HIDE DEF l, m
    <3> QED BY <1>5, <1>8
  <2>2. long[m + (i - m)] = part[i - m]
    BY <1>6, <1>7, <2>1 DEF Longer
  <2>3. body[i - m] \in Unseparated
    BY <1>4, <2>1, ElementOfSeq
  <2> QED BY <1>6, <2>1, <2>2, <2>3 DEF Unseparated
<1>b. long = bytes \o part
  OBVIOUS
<1> HIDE DEF long
<1>11. LogsEnd(long, st.logs)
  <2>1. ASSUME NEW i \in 1 .. Len(st.logs)
        PROVE  st.logs[i].end \in 1 .. Len(long) /\ long[st.logs[i].end] = SEPARATOR
    <3>1. st.logs[i].end \in 1 .. m /\ bytes[st.logs[i].end] = SEPARATOR
      BY <1>0 DEF LogsEnd
    <3>2. long[st.logs[i].end] = bytes[st.logs[i].end]
      <4> HIDE DEF m
      <4> QED BY <1>8, <3>1
    <3>3. st.logs[i].end \in 1 .. Len(long)
      <4> HIDE DEF m
      <4>1. \A e \in 1 .. m : e \in 1 .. Len(long)
        BY <1>5, <1>8
      <4> QED BY <3>1, <4>1
    <3> QED BY <3>1, <3>2, <3>3
  <2> QED BY <1>0, <2>1 DEF LogsEnd
<1>12. ASSUME NEW x \in Nat, NEW y \in Nat, OneBlock(long, x, y) PROVE Holds(long, st.logs, x, y)
  <2>1. y <= m
    <3>1. y <= Len(long) /\ long[y] = SEPARATOR
      BY <1>12 DEF OneBlock
    <3> HIDE DEF m
    <3> QED BY <1>8, <1>9, <3>1
  <2> DEFINE new == <<>>
  <2>2. new \in WrittenLogs /\ st.logs = st.logs \o new /\ Len(new) = 0
    BY <1>0, ConcatEmptySeq DEF WrittenLogs
  <2> HIDE DEF new
  <2>3. \A i \in 1 .. Len(new) : new[i].end > Len(bytes)
    BY <2>2
  <2> QED BY <1>0, <1>7, <1>12, <1>b, <2>1, <2>2, <2>3, OldBlocksHold
<1>13. RestAt(long, z, TRUE)
  <2>1. z <= m /\ z <= Len(long) /\ IsBoundary(bytes, z) /\ Bare(bytes, z, m)
    BY <1>1, <1>5, <1>8 DEF RestAt
  <2>2. IsBoundary(long, z)
    BY <1>8, <2>1, SMTT(30) DEF IsBoundary
  <2>3. Bare(long, z, Len(long))
    <3>1. ASSUME NEW i \in z + 1 .. Len(long) PROVE long[i] # SEPARATOR
      <4>1. CASE i <= m
        <5>1. i \in 1 .. m /\ i \in z + 1 .. m
          BY <1>8, <2>1, <4>1
        <5> QED BY <1>8, <2>1, <5>1 DEF Bare
      <4>2. CASE ~ (i <= m)
        <5> HIDE DEF m
        <5> QED BY <1>8, <1>9, <2>1, <4>2
      <4> QED BY <4>1, <4>2
    <3> QED BY <3>1 DEF Bare
  <2> DEFINE torn == SubSeq(long, z + 1, Len(long))
             state == Unescaped(NoBytes, torn)
  <2>4. ASSUME ~ MayTearEscape PROVE state.ok /\ ~ state.escape
    <3>1. rest \in Seq(Nat) /\ Piece(rest, bytes, z, m)
      <4>1. Piece(SubSeq(bytes, z + 1, m), bytes, z, m)
        BY <1>0, <1>8, <2>1, PieceIs
      <4> QED BY <4>1 DEF Piece
    <3>2. ReadOn(rest)
      BY <1>1, <2>4 DEF RestAt, ReadOn
    <3>3. OpensInto(body, marked, logs)
      BY <1>4 DEF OpensInto
    <3>4. Unescaped(NoBytes, rest \o body) = Reading(FlattenSeq(logs))
      <4> HIDE DEF rest
      <4> QED BY <1>2, <1>3, <3>1, <3>2, <3>3, BodyIsRead
    <3>5. torn = rest \o part
      <4>1. Piece(torn, long, z, m + length)
        <5>1. m + length \in Nat /\ z <= m + length /\ m + length <= Len(long) /\ Len(long) = m + length
          BY <1>5, <1>8, <2>1
        <5>2. Piece(SubSeq(long, z + 1, m + length), long, z, m + length)
          BY <1>8, <5>1, PieceIs
        <5> QED BY <5>1, <5>2
      <4>2. Piece(rest, long, z, m)
        <5>1. \A i \in 1 .. m - z : z + i \in 1 .. m
          BY <1>8, <2>1
        <5>2. \A i \in 1 .. m - z : long[z + i] = bytes[z + i]
          BY <1>8, <5>1
        <5> HIDE DEF rest, m
        <5> QED BY <3>1, <5>2 DEF Piece
      <4>3. Piece(part, long, m, m + length)
        <5>1. (m + length) - m = length
          BY <1>5, <1>8
        <5>2. \A i \in 1 .. length : long[m + i] = part[i]
          BY <1>6, <1>7 DEF Longer
        <5> QED BY <1>6, <5>1, <5>2 DEF Piece
      <4>4. Piece(rest \o part, long, z, m + length)
        <5>1. z \in Int /\ m \in Int /\ m + length \in Int /\ z <= m /\ m <= m + length
          BY <1>5, <1>8, <2>1
        <5> HIDE DEF rest, m
        <5> QED BY <4>2, <4>3, <5>1, PiecesMeet
      <4> HIDE DEF torn, rest
      <4> QED BY <4>1, <4>4, SamePiece
    <3>6. tail \in Seq(Nat) /\ part \o tail = body
      <4>1. Piece(tail, body, length, l) /\ Piece(part, body, 0, length) /\ Piece(body, body, 0, l)
        <5>1. Piece(SubSeq(body, length + 1, l), body, length, l)
          BY <1>5, PieceIs
        <5>2. Piece(part, body, 0, length)
          <6>1. length - 0 = length /\ \A i \in 1 .. length : 0 + i = i
            BY <1>5
          <6>2. \A i \in 1 .. length : part[i] = body[0 + i]
            BY <1>6, <6>1
          <6> QED BY <1>6, <6>1, <6>2 DEF Piece
        <5>3. Piece(body, body, 0, l)
          <6>1. l - 0 = l /\ \A i \in 1 .. l : 0 + i = i
            BY <1>5
          <6> QED BY <6>1 DEF Piece
        <5> QED BY <5>1, <5>2, <5>3
      <4>2. Piece(part \o tail, body, 0, l)
        <5>1. 0 \in Int /\ length \in Int /\ l \in Int /\ 0 <= length /\ length <= l
          BY <1>5
        <5> HIDE DEF tail, l
        <5> QED BY <4>1, <5>1, PiecesMeet
      <4>3. part \o tail = body
        <5> HIDE DEF tail, l
        <5> QED BY <4>1, <4>2, SamePiece
      <4> QED BY <4>1, <4>3 DEF Piece
    <3>7. NoBytes \in States /\ torn \in Seq(Nat)
      <4>1. rest \o part \in Seq(Nat)
        BY <1>6, <3>1, ConcatProperties
      <4>2. NoBytes \in States
        BY DEF NoBytes, States
      <4> HIDE DEF torn, rest
      <4> QED BY <3>5, <4>1, <4>2
    <3>8. torn \o tail = rest \o body
      <4> HIDE DEF torn, rest, tail
      <4>1. rest \in Seq(Nat) /\ part \in Seq(Nat) /\ tail \in Seq(Nat)
        BY <1>6, <3>1, <3>6
      <4>2. torn = rest \o part /\ body = part \o tail
        BY <3>5, <3>6
      <4>3. Equal(torn \o tail, rest \o body)
        BY <4>1, <4>2, Associates
      <4> QED BY <4>3 DEF Equal
    <3>9. state \in States
      <4> HIDE DEF torn
      <4> QED BY <3>7, UnescapedType
    <3>10. Unescaped(state, tail).ok
      <4> HIDE DEF torn, tail, rest
      <4>1. Unescaped(NoBytes, torn \o tail) = Unescaped(Unescaped(NoBytes, torn), tail)
        BY <3>6, <3>7, UnescapedBoth
      <4>2. Unescaped(state, tail) = Reading(FlattenSeq(logs))
        BY <3>4, <3>8, <4>1
      <4> QED BY <4>2 DEF Reading
    <3>11. state.ok
      <4> HIDE DEF state, tail
      <4> QED BY <3>6, <3>9, <3>10, OkIsOnlyLost
    <3>12. torn # <<>> /\ torn[Len(torn)] = long[Len(long)]
      <4>1. Piece(torn, long, z, m + length)
        <5>1. m + length \in Nat /\ z <= m + length /\ m + length <= Len(long) /\ Len(long) = m + length
          BY <1>5, <1>8, <2>1
        <5>2. Piece(SubSeq(long, z + 1, m + length), long, z, m + length)
          BY <1>8, <5>1, PieceIs
        <5> QED BY <5>1, <5>2
      <4> HIDE DEF torn, m
      <4>2. Len(torn) = (m + length) - z
        BY <4>1 DEF Piece
      <4>3. Len(torn) \in 1 .. (m + length) - z /\ z + Len(torn) = Len(long) /\ Len(torn) # 0
        BY <1>5, <1>8, <2>1, <4>2
      <4>4. torn[Len(torn)] = long[z + Len(torn)]
        BY <4>1, <4>3 DEF Piece
      <4>5. torn # <<>>
        BY <4>3, EmptySeq
      <4> QED BY <4>3, <4>4, <4>5
    <3>13. long[Len(long)] # ESCAPE
      <4>1. next.bytes = long
        BY <1>10
      <4>2. Last(long) # ESCAPE
        BY <2>4, <4>1
      <4> QED BY <4>2 DEF Last
    <3>14. ~ state.escape
      <4> HIDE DEF torn
      <4> QED BY <3>7, <3>12, <3>13, EscapeIsLast
    <3> QED BY <3>11, <3>14
  <2> HIDE DEF state
  <2>5. ~ MayTearEscape => LET r == Unescaped(NoBytes, SubSeq(long, z + 1, Len(long))) IN r.ok /\ ~ r.escape
    BY <2>4 DEF state
  <2> QED BY <2>1, <2>2, <2>3, <2>5 DEF RestAt
<1>15. WellWritten([bytes |-> long, logs |-> st.logs, next |-> st.next + k, torn |-> TRUE])
  <2> DEFINE r == [bytes |-> long, logs |-> st.logs, next |-> st.next + k, torn |-> TRUE]
  <2>1. r.bytes = long /\ r.logs = st.logs /\ r.next = st.next + k /\ r.torn = TRUE
    OBVIOUS
  <2>2. st.next + k \in Nat /\ st.next + k >= Header
    BY <1>0, <1>3 DEF Header
  <2>3. r \in StreamOf
    BY <1>0, <1>8, <2>2 DEF StreamOf
  <2>4. BlocksHold(long, st.logs)
    BY <1>12 DEF BlocksHold
  <2> HIDE DEF r
  <2>6. r.next >= Header
    BY <2>1, <2>2
  <2>7. \E q \in Nat : RestAt(r.bytes, q, r.torn)
    BY <1>13, <2>1
  <2>8. WellWritten(r)
    BY <1>11, <2>1, <2>3, <2>4, <2>6, <2>7 DEF WellWritten
  <2> QED BY <2>8 DEF r
<1> HIDE DEF k
<1> QED BY <1>10, <1>15

\* All that can be in the files.
Possible == {st \in StreamOf : WellWritten(st) /\ Len(st.bytes) <= MaxBytes}

\* What is written next can be in the files.
LEMMA ExtensionsArePossible ==
  ASSUME NEW st \in Possible
  PROVE  Extensions(st) \subseteq Possible
<1>1. WellWritten(st) /\ st \in StreamOf
  BY DEF Possible
<1>2. ASSUME NEW next \in Extensions(st) PROVE next \in Possible
  <2>1. PICK contents \in Blocks, marked \in Marked(st) :
          next \in {Written(st, contents, marked)} \cup
                   {Torn(st, contents, marked, length) :
                      length \in 1 .. Len(BlockOf(Numbered(st.next, contents), marked)) - 1}
    BY DEF Extensions
  <2>2. Len(next.bytes) <= MaxBytes /\ (next.torn /\ ~ MayTearEscape => Last(next.bytes) # ESCAPE)
    BY DEF Extensions
  <2>3. CASE next = Written(st, contents, marked)
    <3>1. WellWritten(next)
      BY <1>1, <2>3, WrittenIs
    <3>2. next \in StreamOf
      BY <3>1 DEF WellWritten
    <3> QED BY <2>2, <3>1, <3>2 DEF Possible
  <2>4. ASSUME NEW length \in 1 .. Len(BlockOf(Numbered(st.next, contents), marked)) - 1,
               next = Torn(st, contents, marked, length)
        PROVE  next \in Possible
    <3>1. next.torn = TRUE
      BY <2>4 DEF Torn
    <3>2. ~ MayTearEscape => Last(next.bytes) # ESCAPE
      BY <2>2, <3>1
    <3>3. WellWritten(next)
      BY <1>1, <2>4, <3>2, TornIs
    <3>4. next \in StreamOf
      BY <3>3 DEF WellWritten
    <3> QED BY <2>2, <3>3, <3>4 DEF Possible
  <2> QED BY <2>1, <2>3, <2>4
<1> QED BY <1>2

\* reached[n] holds the streams after n steps, some of which are at their end.
IsReached(r) ==
  r = [n \in 0 .. MaxBytes |->
         IF n = 0 THEN {Empty}
         ELSE UNION {IF Extensions(st) = {} THEN {st} ELSE Extensions(st) : st \in r[n - 1]}]

\* What holds of the empty stream, and of each stream that extends one of which it
\* holds, holds of all streams.
LEMMA StreamsStay ==
  ASSUME NEW P, Empty \in P, \A st \in P : Extensions(st) \subseteq P
  PROVE  Streams \subseteq P
<1> DEFINE X == SUBSET P
           after(sts) == UNION {IF Extensions(st) = {} THEN {st} ELSE Extensions(st) : st \in sts}
           step == [n \in 1 .. MaxBytes |-> [sts \in X |-> after(sts)]]
           start == {Empty}
<1>0. MaxBytes \in Nat
  BY ScannerAssumption
<1>1. ASSUME NEW sts \in X PROVE after(sts) \in X
  OBVIOUS
<1>2. start \in X
  OBVIOUS
<1> HIDE DEF X, after
<1>3. StepsOf(X, MaxBytes, step)
  BY <1>1 DEF StepsOf
<1> HIDE DEF step, start
<1>4. PICK g : IsChain(X, start, MaxBytes, step, g)
  BY <1>0, <1>2, <1>3, ChainExists
<1>5. g = [n \in 0 .. MaxBytes |-> g[n]] /\ g[0] = start /\ \A n \in 0 .. MaxBytes : g[n] \in X
  BY <1>4 DEF IsChain
<1>6. ASSUME NEW n \in 1 .. MaxBytes PROVE g[n] = after(g[n - 1])
  <2>1. g[n - 1] \in X
    BY <1>0, <1>5
  <2>2. g[n] = step[n][g[n - 1]]
    BY <1>4 DEF IsChain
  <2> QED BY <2>1, <2>2 DEF step
<1>7. IsReached(g)
  <2>1. \A n \in 0 .. MaxBytes : g[n] = IF n = 0 THEN {Empty} ELSE after(g[n - 1])
    <3> SUFFICES ASSUME NEW n \in 0 .. MaxBytes
                 PROVE  g[n] = IF n = 0 THEN {Empty} ELSE after(g[n - 1])
      OBVIOUS
    <3>1. CASE n = 0
      BY <1>5, <3>1 DEF start
    <3>2. CASE n # 0
      <4>1. n \in 1 .. MaxBytes
        BY <1>0, <3>2
      <4> QED BY <1>6, <3>2, <4>1
    <3> QED BY <3>1, <3>2
  <2>2. g = [n \in 0 .. MaxBytes |-> IF n = 0 THEN {Empty} ELSE after(g[n - 1])]
    BY <1>5, <2>1
  <2> QED BY <2>2 DEF IsReached, after
<1> DEFINE f == CHOOSE r : IsReached(r)
<1>8. IsReached(f)
  BY <1>7
<1>9. Streams = f[MaxBytes]
  BY Zenon DEF Streams, IsReached
<1> HIDE DEF f
<1>10. /\ f[0] = start
       /\ \A n \in 1 .. MaxBytes : f[n] = after(f[n - 1])
  <2>1. f = [n \in 0 .. MaxBytes |-> IF n = 0 THEN {Empty} ELSE after(f[n - 1])]
    BY <1>8 DEF IsReached, after
  <2>2. 0 \in 0 .. MaxBytes /\ \A n \in 1 .. MaxBytes : n \in 0 .. MaxBytes /\ n # 0
    BY <1>0
  <2>3. f[0] = start
    BY <2>1, <2>2 DEF start
  <2>4. \A n \in 1 .. MaxBytes : f[n] = after(f[n - 1])
    BY <2>1, <2>2
  <2> QED BY <2>3, <2>4
<1>11. GoAlike(f, g, MaxBytes)
  BY <1>5, <1>6, <1>10 DEF GoAlike
<1>12. f[MaxBytes] = g[MaxBytes]
  BY <1>0, <1>11, GoAlikeAllAlong
<1>13. g[MaxBytes] \in X
  BY <1>0, <1>5
<1> QED BY <1>9, <1>12, <1>13 DEF X

\* Before anything is written.
LEMMA EmptyIsPossible == Empty \in Possible
<1>1. WellWritten(Empty)
  BY EmptyIsWellWritten
<1>2. Empty \in StreamOf
  BY <1>1 DEF WellWritten
<1>3. Len(Empty.bytes) <= MaxBytes
  BY ScannerAssumption DEF Empty
<1> QED BY <1>1, <1>2, <1>3 DEF Possible

\* All streams are well written.
LEMMA StreamsArePossible == Streams \subseteq Possible
BY EmptyIsPossible, ExtensionsArePossible, StreamsStay

-----------------------------------------------------------------------------
(* 3. Where a scanner is.                                                   *)

\* The offset at which a page starts.
Start(n) == n * PageSize

ScannerOf ==
  [chunk : Seq(Nat), chunkOffset : Nat, page : Int, boundary : BOOLEAN, tail : Int,
   nextLogs : Lists, prevLogs : Lists, nextOffset : Nat, prevOffset : Nat, totalSize : Nat]

\* Where the chunk starts and ends in the stream: a tail that is in front of the
\* page is positive, one that is behind it negative.
From(s) == IF s.page < 0 THEN 0 ELSE Start(s.page) - (IF s.tail > 0 THEN s.tail ELSE 0)

To(s) == From(s) + Len(s.chunk)

PagesOf(s) == CeilDiv(s.totalSize, PageSize)

\* Before the first page is read.
Fresh(s) == s.chunk = <<>> /\ s.tail = 0 /\ s.boundary /\ s.nextLogs = <<>>

\* The chunk is a page, the tail that goes with it, and all that is known of it.
Spans(s, bytes, size) ==
  /\ Start(s.page) < s.totalSize
  /\ 0 <= From(s)
  /\ Piece(s.chunk, bytes, From(s), To(s))
  /\ To(s) <= size /\ To(s) <= Start(PagesOf(s))
  /\ s.tail >= 0 => /\ s.tail <= Len(s.chunk)
                    /\ To(s) <= Start(s.page + 1)
                    /\ To(s) >= Start(s.page + 1) \/ To(s) >= s.totalSize
  /\ s.tail < 0 => To(s) = Start(s.page + 1) - s.tail

Laid(s, bytes, size) ==
  /\ s \in ScannerOf
  /\ s.totalSize >= 1 /\ s.totalSize <= size
  /\ s.page >= -1 /\ s.chunkOffset <= Len(s.chunk)
  /\ s.page = -1 => Fresh(s)
  /\ s.page >= 0 => Spans(s, bytes, size)

At(s) == From(s) + s.chunkOffset

\* At a block boundary, as far as the scanner knows one.
Resting(s, bytes) == s.boundary => IsBoundary(bytes, At(s))

\* In a block, on the way to nextOffset.
Entered(s, bytes) ==
  /\ s.boundary
  /\ s.page >= 0
  /\ s.nextOffset <= Len(s.chunk) /\ s.prevOffset <= Len(s.chunk)
  /\ \/ OneBlock(bytes, From(s) + s.prevOffset, From(s) + s.nextOffset)
     \/ OneBlock(bytes, From(s) + s.nextOffset, From(s) + s.prevOffset)

Heading(s) == IF s.prevOffset < s.nextOffset THEN "forward" ELSE "backward"

\* What a scan that has run to its end has left.
Finished(s, direction, bytes) ==
  /\ s.nextLogs = <<>>
  /\ direction = "backward" => At(s) = 0 /\ s.boundary
  /\ direction = "forward" =>
       /\ s.tail >= 0 /\ s.page >= 0 /\ To(s) >= s.totalSize
       /\ s.boundary => Bare(bytes, At(s), To(s))
       /\ ~ s.boundary => At(s) = To(s)

\* Where a scanner is, p being what it does, d its direction, and e whether the
\* scan has run to its end.
IsAt(s, bytes, size, p, d, e) ==
  /\ p \in {"idle", "scan", "block", "thrown"}
  /\ d \in {"forward", "backward"}
  /\ e \in BOOLEAN
  /\ size \in Nat /\ size <= Len(bytes)
  /\ Laid(s, bytes, size)
  /\ p # "block" /\ s.nextLogs = <<>> => Resting(s, bytes)
  /\ p = "block" \/ s.nextLogs # <<>> =>
       Entered(s, bytes) /\ Heading(s) = d /\ p \in {"block", "idle"}
  /\ e => p = "idle" /\ Finished(s, d, bytes)

Whereabouts == IsAt(sc, stream.bytes, visible, pc, scan, ended)

ScanInv == stream \in Possible /\ Whereabouts

\* The arithmetic of pages, done once: from here on only these facts are used.
LEMMA StartIs ==
  ASSUME NEW n \in Int
  PROVE  /\ Start(n) \in Int /\ Start(0) = 0
         /\ Start(n + 1) = Start(n) + PageSize /\ Start(n - 1) = Start(n) - PageSize
         /\ PageSize \in Nat /\ PageSize > 0
<1>1. PageSize \in Nat /\ PageSize > 0
  BY ScannerAssumption
<1>2. n * PageSize \in Int /\ 0 * PageSize = 0
  BY <1>1
<1>3. (n + 1) * PageSize = n * PageSize + PageSize
  BY <1>1
<1>4. (n - 1) * PageSize = n * PageSize - PageSize
  BY <1>1
<1> QED BY <1>1, <1>2, <1>3, <1>4 DEF Start

\* Pages come one behind the other.
LEMMA StartsInOrder ==
  ASSUME NEW n \in Int, NEW m \in Int, n < m
  PROVE  Start(n) + PageSize <= Start(m)
<1>1. PageSize \in Nat /\ PageSize > 0
  BY ScannerAssumption
<1>2. PICK k \in Nat : m = n + 1 + k
  <2>1. m - n - 1 \in Nat /\ m = n + 1 + (m - n - 1)
    OBVIOUS
  <2> QED BY <2>1
<1>3. (n + 1 + k) * PageSize = n * PageSize + PageSize + k * PageSize
  BY <1>1
<1>4. k * PageSize \in Nat
  BY <1>1
<1>5. n * PageSize \in Int
  BY <1>1
<1> QED BY <1>1, <1>2, <1>3, <1>4, <1>5 DEF Start

LEMMA StartIsNat ==
  ASSUME NEW n \in Nat
  PROVE  Start(n) \in Nat
<1>1. PageSize \in Nat
  BY ScannerAssumption
<1> QED BY <1>1 DEF Start

LEMMA NextStart ==
  ASSUME NEW n \in Nat
  PROVE  Start(n) \in Nat /\ Start(n + 1) = Start(n) + PageSize /\ PageSize \in Nat /\ PageSize > 0
<1>1. n \in Int
  OBVIOUS
<1> QED BY <1>1, StartIs, StartIsNat

\* CeilDiv rounds up.
LEMMA CeilIs ==
  ASSUME NEW t \in Int
  PROVE  /\ CeilDiv(t, PageSize) \in Int
         /\ Start(CeilDiv(t, PageSize)) >= t
         /\ Start(CeilDiv(t, PageSize)) < t + PageSize
<1>1. PageSize \in Nat \ {0}
  BY ScannerAssumption
<1> QED BY <1>1, RoundedUp DEF Start, CeilDiv

\* All that is known of a source lies in its pages.
LEMMA PagesAre ==
  ASSUME NEW t \in Int, NEW n \in Int
  PROVE  n < CeilDiv(t, PageSize) <=> Start(n) < t
<1> DEFINE c == CeilDiv(t, PageSize)
<1>1. c \in Int /\ Start(c) >= t /\ Start(c) < t + PageSize
  BY CeilIs
<1> HIDE DEF c
<1>2. PageSize \in Nat /\ PageSize > 0 /\ Start(n) \in Int /\ Start(c) \in Int
  BY <1>1, StartIs
<1>3. n < c => Start(n) + PageSize <= Start(c)
  BY <1>1, StartsInOrder
<1>4. c < n => Start(c) + PageSize <= Start(n)
  BY <1>1, StartsInOrder
<1>5. n < c <=> Start(n) < t
  <2>1. CASE n < c
    BY <1>1, <1>2, <1>3, <2>1
  <2>2. CASE c < n
    BY <1>1, <1>2, <1>4, <2>2
  <2>3. CASE c = n
    BY <1>1, <1>2, <2>3
  <2> QED BY <1>1, <2>1, <2>2, <2>3
<1> QED BY <1>5 DEF c

\* The page in which an offset lies.
LEMMA PageOfIs ==
  ASSUME NEW o \in Nat
  PROVE  /\ o \div PageSize \in Nat /\ o % PageSize \in Nat /\ o % PageSize < PageSize
         /\ o = Start(o \div PageSize) + (o % PageSize)
<1>1. PageSize \in Nat \ {0}
  BY ScannerAssumption
<1>2. o \div PageSize \in Nat
  BY <1>1, QuotientIs
<1>3. /\ o % PageSize \in Nat /\ o % PageSize < PageSize
      /\ o = (o \div PageSize) * PageSize + (o % PageSize)
  BY <1>1, LeftOverDivision
<1> QED BY <1>2, <1>3 DEF Start

\* A page before another ends where that one starts, or before.
LEMMA SumOfPages ==
  ASSUME NEW n \in Int, NEW d \in Int
  PROVE  /\ Start(n + d) = Start(n) + Start(d)
         /\ d * PageSize = Start(d)
<1>1. PageSize \in Nat
  BY ScannerAssumption
<1>2. (n + d) * PageSize = n * PageSize + d * PageSize
  BY <1>1
<1> QED BY <1>2 DEF Start

\* Where indexOf and lastIndexOf find a separator, told of the stream.
LEMMA FoundForward ==
  ASSUME NEW bytes, NEW chunk, NEW x \in Nat, NEW y \in Nat, x <= y, Piece(chunk, bytes, x, y),
         NEW from \in Nat, from <= y - x
  PROVE  /\ indexOf(chunk, from) \in Int
         /\ indexOf(chunk, from) >= 0 =>
              /\ from <= indexOf(chunk, from) /\ indexOf(chunk, from) < y - x
              /\ bytes[x + indexOf(chunk, from) + 1] = SEPARATOR
              /\ Bare(bytes, x + from, x + indexOf(chunk, from))
         /\ indexOf(chunk, from) < 0 => Bare(bytes, x + from, y)
<1> DEFINE S == {i \in Separators(chunk) : i >= from}
           f == indexOf(chunk, from)
<1>1. f = IF S = {} THEN -1 ELSE Min(S)
  BY DEF indexOf
<1>2. \A i \in 0 .. y - x - 1 : i \in S <=> i >= from /\ bytes[x + i + 1] = SEPARATOR
  <2> TAKE i \in 0 .. y - x - 1
  <2>1. i + 1 \in 1 .. y - x /\ x + i + 1 = x + (i + 1)
    OBVIOUS
  <2>2. chunk[i + 1] = bytes[x + i + 1] /\ Len(chunk) = y - x
    BY <2>1 DEF Piece
  <2> QED BY <2>2 DEF Separators
<1>3. S \subseteq 0 .. y - x - 1
  BY DEF Separators, Piece
<1> HIDE DEF f, S
<1>4. CASE S = {}
  <2>1. f = -1
    BY <1>1, <1>4
  <2>2. ASSUME NEW k \in x + from + 1 .. y PROVE bytes[k] # SEPARATOR
    <3>1. k - x - 1 \in 0 .. y - x - 1 /\ k - x - 1 >= from /\ x + (k - x - 1) + 1 = k
      OBVIOUS
    <3> QED BY <1>2, <1>4, <3>1
  <2> QED BY <2>1, <2>2 DEF Bare, f
<1>5. CASE S # {}
  <2>0. S \subseteq Nat
    BY <1>3
  <2>1. \E m \in S : \A n \in S : m <= n
    BY <2>0, <1>5, LeastNumber
  <2>2. Min(S) \in S /\ \A n \in S : Min(S) <= n
    BY <2>1, Zenon DEF Min
  <2>3. f \in S /\ \A n \in S : f <= n
    BY <1>1, <1>5, <2>2
  <2>4. f \in 0 .. y - x - 1 /\ f >= from /\ bytes[x + f + 1] = SEPARATOR
    BY <1>2, <1>3, <2>3
  <2>5. ASSUME NEW k \in x + from + 1 .. x + f PROVE bytes[k] # SEPARATOR
    <3>1. k - x - 1 \in 0 .. y - x - 1 /\ k - x - 1 >= from /\ x + (k - x - 1) + 1 = k
          /\ k - x - 1 < f
      BY <2>4
    <3>2. k - x - 1 \notin S
      BY <2>3, <2>4, <3>1
    <3> QED BY <1>2, <3>1, <3>2
  <2> QED BY <2>4, <2>5 DEF Bare, f
<1> QED BY <1>4, <1>5

LEMMA FoundBackward ==
  ASSUME NEW bytes, NEW chunk, NEW x \in Nat, NEW y \in Nat, x <= y, Piece(chunk, bytes, x, y),
         NEW upTo \in Int, upTo < y - x
  PROVE  /\ lastIndexOf(chunk, upTo) \in Int
         /\ lastIndexOf(chunk, upTo) >= 0 =>
              /\ lastIndexOf(chunk, upTo) <= upTo
              /\ bytes[x + lastIndexOf(chunk, upTo) + 1] = SEPARATOR
              /\ Bare(bytes, x + lastIndexOf(chunk, upTo) + 1, x + upTo + 1)
         /\ lastIndexOf(chunk, upTo) < 0 => Bare(bytes, x, x + upTo + 1)
<1> DEFINE S == {i \in Separators(chunk) : i <= upTo}
           f == lastIndexOf(chunk, upTo)
<1>1. f = IF S = {} THEN -1 ELSE Max(S)
  BY DEF lastIndexOf
<1>2. \A i \in 0 .. y - x - 1 : i \in S <=> i <= upTo /\ bytes[x + i + 1] = SEPARATOR
  <2> TAKE i \in 0 .. y - x - 1
  <2>1. i + 1 \in 1 .. y - x /\ x + i + 1 = x + (i + 1)
    OBVIOUS
  <2>2. chunk[i + 1] = bytes[x + i + 1] /\ Len(chunk) = y - x
    BY <2>1 DEF Piece
  <2> QED BY <2>2 DEF Separators
<1>3. S \subseteq 0 .. y - x - 1
  BY DEF Separators, Piece
<1> HIDE DEF f, S
<1>4. CASE S = {}
  <2>1. f = -1
    BY <1>1, <1>4
  <2>2. ASSUME NEW k \in x + 1 .. x + upTo + 1 PROVE bytes[k] # SEPARATOR
    <3>1. k - x - 1 \in 0 .. y - x - 1 /\ k - x - 1 <= upTo /\ x + (k - x - 1) + 1 = k
      OBVIOUS
    <3> QED BY <1>2, <1>4, <3>1
  <2> QED BY <2>1, <2>2 DEF Bare, f
<1>5. CASE S # {}
  <2>0. S \subseteq 0 .. y - x /\ y - x \in Nat
    BY <1>3
  <2>2. Max(S) \in S /\ \A n \in S : n <= Max(S)
    BY <2>0, <1>5, GreatestNumber
  <2>3. f \in S /\ \A n \in S : n <= f
    BY <1>1, <1>5, <2>2
  <2>4. f \in 0 .. y - x - 1 /\ f <= upTo /\ bytes[x + f + 1] = SEPARATOR
    BY <1>2, <1>3, <2>3
  <2>5. ASSUME NEW k \in x + f + 1 + 1 .. x + upTo + 1 PROVE bytes[k] # SEPARATOR
    <3>1. k - x - 1 \in 0 .. y - x - 1 /\ k - x - 1 <= upTo /\ x + (k - x - 1) + 1 = k
          /\ k - x - 1 > f
      BY <2>4
    <3>2. k - x - 1 \notin S
      BY <2>3, <2>4, <3>1
    <3> QED BY <1>2, <3>1, <3>2
  <2> QED BY <2>4, <2>5 DEF Bare, f
<1> QED BY <1>4, <1>5

-----------------------------------------------------------------------------
(* Reads.                                                                   *)

\* A page that has bytes to be seen is read up to its end, or to theirs.
LEMMA ReadPageIs ==
  ASSUME stream.bytes \in Seq(Nat), visible \in Nat, visible <= Len(stream.bytes),
         NEW n \in Nat, Start(n) <= visible,
         NEW to \in Nat, to = MinOf(Start(n + 1), visible)
  PROVE  Piece(ReadPage(n), stream.bytes, Start(n), to) /\ Start(n) <= to
<1>1. Start(n) \in Nat /\ Start(n + 1) = Start(n) + PageSize /\ PageSize \in Nat
  BY StartIs, StartIsNat
<1>2. ReadPage(n) = SubSeq(stream.bytes, Start(n) + 1, to)
  <2>1. n * PageSize = Start(n)
    BY DEF Start
  <2>2. Min({Start(n) + PageSize, visible}) = to
    BY <1>1, MinIs
  <2> QED BY <2>1, <2>2 DEF ReadPage, Read, subarray
<1>3. Start(n) <= to /\ to <= visible
  BY <1>1 DEF MinOf
<1>4. to <= Len(stream.bytes)
  BY <1>3, LenProperties
<1> QED BY <1>1, <1>2, <1>3, <1>4, PieceIs

\* What the chunk is, for the actions that look into it.
Known(s, bytes, size) ==
  /\ bytes \in Seq(Nat) /\ Len(bytes) \in Nat
  /\ size \in Nat /\ size <= Len(bytes)
  /\ s \in ScannerOf
  /\ From(s) \in Nat /\ To(s) \in Nat /\ From(s) <= To(s)
  /\ Piece(s.chunk, bytes, From(s), To(s))
  /\ Len(s.chunk) = To(s) - From(s)
  /\ To(s) <= size
  /\ s.chunkOffset \in Nat /\ s.chunkOffset <= Len(s.chunk)
  /\ s.totalSize \in Nat /\ s.totalSize >= 1 /\ s.totalSize <= size
  /\ s.page \in Int /\ s.page >= -1
  /\ s.tail \in Int
  /\ s.boundary \in BOOLEAN
  /\ s.nextLogs \in Lists /\ s.prevLogs \in Lists
  /\ s.nextOffset \in Nat /\ s.prevOffset \in Nat

\* The types of a stream.
LEMMA PossibleIs ==
  ASSUME stream \in Possible
  PROVE  stream.bytes \in Seq(Nat) /\ Len(stream.bytes) \in Nat /\ WellWritten(stream)
<1>1. stream \in StreamOf /\ WellWritten(stream)
  BY DEF Possible
<1>2. stream.bytes \in Seq(Nat)
  BY <1>1 DEF StreamOf
<1> QED BY <1>1, <1>2, LenProperties

\* What the invariant says of a chunk is what the actions need of it.
LEMMA LaidIs ==
  ASSUME NEW s, NEW bytes \in Seq(Nat), NEW size \in Nat, size <= Len(bytes),
         Laid(s, bytes, size)
  PROVE  Known(s, bytes, size)
<1>1. /\ s \in ScannerOf
      /\ s.totalSize >= 1 /\ s.totalSize <= size
      /\ s.page >= -1 /\ s.chunkOffset <= Len(s.chunk)
  BY DEF Laid
<1>2. /\ s.chunk \in Seq(Nat) /\ s.chunkOffset \in Nat /\ s.totalSize \in Nat
      /\ s.page \in Int /\ s.tail \in Int /\ s.boundary \in BOOLEAN
      /\ s.nextLogs \in Lists /\ s.prevLogs \in Lists
      /\ s.nextOffset \in Nat /\ s.prevOffset \in Nat
  BY <1>1 DEF ScannerOf
<1>3. Len(s.chunk) \in Nat /\ Len(bytes) \in Nat
  BY <1>2, LenProperties
<1>4. /\ From(s) \in Nat /\ To(s) \in Nat /\ From(s) <= To(s)
      /\ Piece(s.chunk, bytes, From(s), To(s))
      /\ Len(s.chunk) = To(s) - From(s)
      /\ To(s) <= size
  <2>1. CASE s.page = -1
    <3>1. s.chunk = <<>>
      BY <2>1 DEF Laid, Fresh
    <3>2. Len(s.chunk) = 0
      BY <3>1
    <3>3. From(s) = 0 /\ To(s) = 0
      BY <2>1, <3>2 DEF From, To
    <3>4. Piece(s.chunk, bytes, From(s), To(s))
      BY <1>2, <3>2, <3>3 DEF Piece
    <3> QED BY <3>2, <3>3, <3>4
  <2>2. CASE s.page >= 0
    <3>1. Spans(s, bytes, size)
      BY <2>2 DEF Laid
    <3>2. Start(s.page) \in Int
      BY <1>2, StartIs
    <3>3. From(s) \in Nat
      BY <1>2, <2>2, <3>1, <3>2 DEF From, Spans
    <3>4. To(s) = From(s) + Len(s.chunk)
      BY DEF To
    <3> QED BY <1>3, <3>1, <3>3, <3>4 DEF Spans
  <2> QED BY <1>1, <1>2, <2>1, <2>2
<1> QED BY <1>1, <1>2, <1>3, <1>4 DEF Known

\* A chunk ends with its page, or with what was known of the source.
EndsWithPage(n, to, totalSize, size) ==
  to <= size /\ to <= Start(n + 1) /\ (to >= Start(n + 1) \/ to >= totalSize)

\* A chunk lies in the pages, with a tail in front or none.
LiesAt(s, bytes, size, n, t, from, to) ==
  /\ s.page = n /\ s.tail = t /\ s.totalSize >= 1 /\ s.totalSize <= size
  /\ from = Start(n) - t /\ from <= to /\ Piece(s.chunk, bytes, from, to)
  /\ s.chunkOffset <= to - from
  /\ Start(n) < s.totalSize /\ Start(n) <= to

\* Where a chunk lies tells its page and its tail.
LEMMA LaysWithin ==
  ASSUME NEW s \in ScannerOf, NEW bytes, NEW size \in Nat, NEW n \in Nat, NEW t \in Nat,
         NEW from \in Nat, NEW to \in Nat,
         LiesAt(s, bytes, size, n, t, from, to),
         EndsWithPage(n, to, s.totalSize, size)
  PROVE  Laid(s, bytes, size) /\ From(s) = from /\ To(s) = to
<1>0. /\ s.page = n /\ s.tail = t /\ s.totalSize >= 1 /\ s.totalSize <= size
      /\ from = Start(n) - t /\ from <= to /\ Piece(s.chunk, bytes, from, to)
      /\ s.chunkOffset <= to - from
      /\ Start(n) < s.totalSize /\ Start(n) <= to
  BY DEF LiesAt
<1>1. Start(n) \in Nat /\ Start(n + 1) \in Nat
  BY StartIs, StartIsNat
<1>2. From(s) = from
  BY <1>0, <1>1 DEF From
<1>3. Len(s.chunk) = to - from
  BY <1>0 DEF Piece
<1>4. To(s) = to
  BY <1>2, <1>3 DEF To
<1>5. to <= size /\ to <= Start(n + 1) /\ (to >= Start(n + 1) \/ to >= s.totalSize)
  BY DEF EndsWithPage
<1>6. n < PagesOf(s)
  BY <1>0, PagesAre DEF PagesOf, ScannerOf
<1>7. to <= Start(PagesOf(s))
  <2>1. PagesOf(s) \in Int
    BY CeilIs DEF PagesOf, ScannerOf
  <2>2. Start(n) + PageSize <= Start(PagesOf(s)) /\ Start(n + 1) = Start(n) + PageSize
    BY <1>6, <2>1, StartsInOrder, StartIs
  <2>3. Start(PagesOf(s)) \in Int
    BY <2>1, StartIs
  <2> QED BY <1>1, <1>5, <2>2, <2>3
<1>8. Spans(s, bytes, size)
  BY <1>0, <1>1, <1>2, <1>3, <1>4, <1>5, <1>7 DEF Spans
<1>9. Laid(s, bytes, size)
  BY <1>0, <1>3, <1>8 DEF Laid
<1> QED BY <1>2, <1>4, <1>9

\* A page that has just been read, behind a tail or none.
LEMMA LaysInFront ==
  ASSUME NEW s \in ScannerOf, NEW bytes, NEW size \in Nat, NEW n \in Nat, NEW t \in Nat,
         NEW from \in Nat, NEW to \in Nat,
         s.page = n, s.tail = t, s.totalSize >= 1, s.totalSize <= size,
         from = Start(n) - t, from <= to, Piece(s.chunk, bytes, from, to),
         s.chunkOffset <= to - from,
         Start(n) < s.totalSize, Start(n) <= to,
         to = MinOf(Start(n + 1), size)
  PROVE  Laid(s, bytes, size) /\ From(s) = from /\ To(s) = to
<1>1. Start(n + 1) \in Nat /\ s.totalSize \in Nat
  BY NextStart, StartIsNat DEF ScannerOf
<1>2. EndsWithPage(n, to, s.totalSize, size)
  BY <1>1 DEF MinOf, EndsWithPage
<1>3. LiesAt(s, bytes, size, n, t, from, to)
  BY DEF LiesAt
<1> QED BY <1>2, <1>3, LaysWithin

-----------------------------------------------------------------------------
(* The actions.                                                             *)

\* What the actions know of where they are.
Placed(s) ==
  /\ Known(s, stream.bytes, visible)
  /\ Laid(s, stream.bytes, visible)
  /\ stream.bytes \in Seq(Nat) /\ Len(stream.bytes) \in Nat
  /\ visible \in Nat /\ visible <= Len(stream.bytes)

\* A scanner on a page, or before the first one.
LEMMA ScannerIsPlaced ==
  ASSUME stream \in Possible, Whereabouts
  PROVE  Placed(sc)
<1>1. stream.bytes \in Seq(Nat) /\ Len(stream.bytes) \in Nat
  BY PossibleIs
<1>2. visible \in Nat /\ visible <= Len(stream.bytes) /\ Laid(sc, stream.bytes, visible)
  BY DEF Whereabouts, IsAt
<1>3. Known(sc, stream.bytes, visible)
  BY <1>1, <1>2, LaidIs
<1> QED BY <1>1, <1>2, <1>3 DEF Placed

\* A step that leaves the scanner where it is, as far as it knows, and in no block.
Quiet ==
  /\ sc.nextLogs = <<>> /\ sc'.nextLogs = <<>>
  /\ sc.boundary => sc'.boundary /\ At(sc') = At(sc)
  /\ pc' \in {"idle", "scan"}

\* A step that goes behind a block, or in front of it, and enters it.
Enters ==
  /\ sc.boundary
  /\ \E co \in Nat, block \in Seq(Nat) :
       /\ co <= Len(sc.chunk) /\ co # sc.chunkOffset
       /\ EnterBlock([sc EXCEPT !.chunkOffset = co], block, sc.chunkOffset)
       /\ scan = "forward" => /\ sc.chunkOffset < co
                              /\ OneBlock(stream.bytes, At(sc), From(sc) + co)
                              /\ Piece(block, stream.bytes, At(sc), From(sc) + co)
       /\ scan = "backward" => /\ sc.chunkOffset > co
                               /\ OneBlock(stream.bytes, From(sc) + co, At(sc))
                               /\ Piece(block, stream.bytes, From(sc) + co, At(sc))

\* Readers see more, the scanner stays where it is.
LEMMA SourceGrowsInv ==
  ASSUME stream \in Possible, Whereabouts, SourceGrows
  PROVE  Whereabouts'
<1>1. Placed(sc)
  BY ScannerIsPlaced
<1>2. visible' \in Nat /\ visible <= visible' /\ visible' <= Len(stream.bytes) /\ visible \in Nat
  BY <1>1 DEF SourceGrows, Placed
<1>3. UNCHANGED <<stream, sc, pc, scan, ended>>
  BY DEF SourceGrows
<1>5. Laid(sc, stream.bytes, visible')
  <2>1. Laid(sc, stream.bytes, visible) /\ Known(sc, stream.bytes, visible)
    BY <1>1 DEF Placed
  <2>2. /\ To(sc) \in Nat /\ To(sc) <= visible
        /\ sc.totalSize \in Nat /\ sc.totalSize <= visible
    BY <2>1 DEF Known
  <2>3. To(sc) <= visible' /\ sc.totalSize <= visible'
    BY <1>2, <2>2
  <2>4. sc.page >= 0 => Spans(sc, stream.bytes, visible')
    BY <2>1, <2>3 DEF Laid, Spans
  <2> QED BY <2>1, <2>3, <2>4 DEF Laid
<1>6. IsAt(sc, stream.bytes, visible', pc, scan, ended)
  BY <1>2, <1>5 DEF Whereabouts, IsAt
<1> QED BY <1>3, <1>6 DEF Whereabouts

\* Where a scan goes on, or has been left, outside a block.
LEMMA GoesOn ==
  ASSUME NEW s, NEW bytes, NEW size \in Nat, size <= Len(bytes),
         NEW p \in {"idle", "scan", "thrown"}, NEW d \in {"forward", "backward"},
         Laid(s, bytes, size), s.nextLogs = <<>>, Resting(s, bytes)
  PROVE  IsAt(s, bytes, size, p, d, FALSE)
BY DEF IsAt

\* A scan that begins in a block turns it in its direction.
LEMMA StartScanInv ==
  ASSUME stream \in Possible, Whereabouts, NEW d \in {"forward", "backward"}, StartScan(d)
  PROVE  Whereabouts'
<1>1. Placed(sc)
  BY ScannerIsPlaced
<1>2. /\ pc = "idle" /\ sc' = Turned(sc, d)
      /\ pc' = IF sc.nextLogs # <<>> THEN "block" ELSE "scan"
      /\ scan' = d /\ ended' = FALSE /\ stream' = stream /\ visible' = visible
  BY DEF StartScan
<1>3. CASE sc.nextLogs = <<>>
  <2>1. sc' = sc /\ pc' = "scan"
    BY <1>2, <1>3 DEF Turned
  <2>2. Resting(sc, stream.bytes)
    BY <1>2, <1>3 DEF Whereabouts, IsAt
  <2>3. IsAt(sc, stream.bytes, visible, "scan", d, FALSE)
    BY <1>1, <1>3, <2>2, GoesOn DEF Placed
  <2> QED BY <1>2, <2>1, <2>3 DEF Whereabouts
<1>4. CASE sc.nextLogs # <<>>
  <2>1. Entered(sc, stream.bytes) /\ Heading(sc) = scan
    BY <1>4 DEF Whereabouts, IsAt
  <2>2. sc.nextOffset # sc.prevOffset
    <3>1. From(sc) \in Nat /\ sc.nextOffset \in Nat /\ sc.prevOffset \in Nat
      BY <1>1 DEF Placed, Known
    <3> QED BY <2>1, <3>1 DEF Entered, OneBlock
  <2>3. Laid(sc', stream.bytes, visible) /\ Entered(sc', stream.bytes) /\ Heading(sc') = d
    <3> DEFINE turns == \/ d = "forward" /\ sc.nextOffset < sc.prevOffset
                        \/ d = "backward" /\ sc.nextOffset > sc.prevOffset
    <3>0. /\ sc.nextOffset \in Nat /\ sc.prevOffset \in Nat
          /\ sc' = IF turns THEN _reverseBlock(sc) ELSE sc
      BY <1>1, <1>2, <1>4 DEF Placed, Known, Turned
    <3>1. CASE ~ turns
      <4>1. sc' = sc
        BY <3>0, <3>1
      <4>2. Heading(sc) = d
        BY <2>2, <3>0, <3>1 DEF Heading
      <4> QED BY <1>1, <2>1, <4>1, <4>2 DEF Placed
    <3>2. CASE turns
      <4>0. sc' = _reverseBlock(sc)
        BY <3>0, <3>2
      <4>1. sc \in ScannerOf
        BY <1>1 DEF Placed, Known
      <4>2. /\ sc' \in ScannerOf
            /\ sc'.chunk = sc.chunk /\ sc'.chunkOffset = sc.chunkOffset /\ sc'.page = sc.page
            /\ sc'.boundary = sc.boundary /\ sc'.tail = sc.tail
            /\ sc'.totalSize = sc.totalSize
            /\ sc'.nextOffset = sc.prevOffset /\ sc'.prevOffset = sc.nextOffset
        BY <4>0, <4>1 DEF _reverseBlock, ScannerOf
      <4>3. From(sc') = From(sc) /\ To(sc') = To(sc) /\ PagesOf(sc') = PagesOf(sc)
        BY <4>2 DEF From, To, PagesOf
      <4>4. Spans(sc, stream.bytes, visible) => Spans(sc', stream.bytes, visible)
        BY <4>2, <4>3 DEF Spans
      <4>5. sc.page >= 0
        BY <2>1 DEF Entered
      <4>6. Laid(sc', stream.bytes, visible)
        BY <1>1, <4>2, <4>4, <4>5 DEF Placed, Laid
      <4>7. Entered(sc', stream.bytes)
        BY <2>1, <4>2, <4>3 DEF Entered
      <4>8. Heading(sc') = d
        BY <3>0, <3>2, <4>2 DEF Heading
      <4> QED BY <4>6, <4>7, <4>8
    <3> QED BY <3>1, <3>2
  <2>4. pc' = "block"
    BY <1>2, <1>4
  <2>5. IsAt(sc', stream.bytes, visible, "block", d, FALSE)
    BY <1>1, <2>3 DEF Placed, IsAt
  <2> QED BY <1>2, <2>4, <2>5 DEF Whereabouts
<1> QED BY <1>3, <1>4

-----------------------------------------------------------------------------
(* The actions, one by one.                                                 *)

\* A jump reads one page, and only its very first offset is a boundary.
LEMMA gotoInv ==
  ASSUME stream \in Possible, Whereabouts, NEW n \in SearchPages, goto(n * SearchPage)
  PROVE  Whereabouts' /\ sc'.nextLogs = <<>> /\ (sc'.boundary => At(sc') = 0)
<1> DEFINE o == n * SearchPage
           page == o \div PageSize
           rem == o % PageSize
           to == MinOf(Start(page + 1), visible)
           x == Start(page)
<1>1. Placed(sc)
  BY ScannerIsPlaced
<1>2. sc.totalSize \in Nat /\ sc.totalSize >= 1 /\ sc.totalSize <= visible /\ visible \in Nat
  BY <1>1 DEF Placed, Known
<1>3. o \in Nat /\ o < sc.totalSize
  <2>1. SearchPage \in Nat /\ SearchPage > 0
    BY ScannerAssumption
  <2>2. CASE n = 0
    BY <1>2, <2>1, <2>2
  <2>3. CASE n # 0
    <3> DEFINE u == sc.totalSize + SearchPage - 1
               p == SearchPage
    <3>1. n \in 0 .. (u \div SearchPage) - 1
      BY <2>3 DEF SearchPages, CeilDiv
    <3>2. u \in Nat /\ u = sc.totalSize + p - 1
      BY <1>2, <2>1
    <3> HIDE DEF u, p
    <3>3. p \in Nat /\ p > 0
      BY <2>1 DEF p
    <3>a. u \in Int
      BY <3>2
    <3>4. u \div p \in Int /\ u % p \in 0 .. p - 1 /\ u = p * (u \div p) + (u % p)
      BY <3>a, <3>3
    <3>5. p * (u \div p) <= u
      BY <3>3, <3>4
    <3>6. PICK k \in Nat : u \div p = n + 1 + k
      <4>1. u \div p - n - 1 \in Nat /\ u \div p = n + 1 + (u \div p - n - 1)
        BY <3>1, <3>4 DEF p
      <4> QED BY <4>1
    <3>7. p * (n + 1 + k) = n * p + p + p * k /\ p * k \in Nat /\ n * p \in Nat
      BY <3>1, <3>3
    <3>8. n * p \in Nat /\ n * p < sc.totalSize
      BY <1>2, <3>2, <3>3, <3>5, <3>6, <3>7
    <3> QED BY <3>8 DEF p
  <2> QED BY <2>2, <2>3
<1>4. page \in Nat /\ rem \in Nat /\ rem < PageSize /\ o = x + rem
  BY <1>3, PageOfIs
<1> HIDE DEF page, rem, o
<1>5. x \in Nat /\ Start(page + 1) = x + PageSize /\ PageSize \in Nat
  BY <1>4, StartIs, StartIsNat
<1>6. x < sc.totalSize /\ x <= visible
  BY <1>2, <1>3, <1>4, <1>5
<1>7. to \in Nat /\ x <= to
  BY <1>2, <1>5, <1>6 DEF MinOf
<1>8. Piece(ReadPage(page), stream.bytes, x, to)
  <2> HIDE DEF x, to
  <2>1. Start(page) <= visible /\ to = MinOf(Start(page + 1), visible)
    BY <1>6 DEF x, to
  <2> QED BY <1>1, <1>4, <1>7, <2>1, ReadPageIs DEF Placed, x
<1> DEFINE chunk == ReadPage(page)
           offset == Min({rem, Len(chunk)})
<1> HIDE DEF chunk
<1>9. Len(chunk) = to - x /\ chunk \in Seq(Nat)
  BY <1>8 DEF Piece, chunk
<1>10. offset \in Nat /\ offset <= to - x
  <2>1. offset = MinOf(rem, Len(chunk))
    BY <1>4, <1>5, <1>7, <1>9, MinIs
  <2> QED BY <1>4, <1>5, <1>7, <1>9, <2>1 DEF MinOf
<1> DEFINE b == AtBoundary(page, offset)
           zero == 0
           e == <<>>
<1> HIDE DEF offset
<1>12. b \in BOOLEAN /\ <<>> \in Lists
  BY DEF AtBoundary, Lists
<1>b. b => page = 0 /\ offset = 0
  BY DEF AtBoundary
<1>c. zero \in Int /\ e \in Lists /\ zero = 0 /\ e = <<>> /\ page \in Int
  BY <1>4, <1>12
<1> HIDE DEF b, zero, e
<1>11. /\ sc' = [sc EXCEPT !.chunk = chunk, !.chunkOffset = offset, !.page = page,
                           !.boundary = b, !.tail = zero,
                           !.nextLogs = e, !.prevLogs = e,
                           !.nextOffset = 0, !.prevOffset = 0]
       /\ pc = "idle" /\ scan' = "forward" /\ ended' = FALSE
       /\ stream' = stream /\ visible' = visible /\ pc' = pc
  BY DEF goto, page, o, rem, offset, chunk, b, zero, e
<1>13. sc \in ScannerOf
  BY <1>1 DEF Placed, Known
<1>14. /\ sc' \in ScannerOf /\ sc'.chunk = chunk /\ sc'.chunkOffset = offset /\ sc'.page = page
       /\ sc'.tail = 0 /\ sc'.nextLogs = <<>> /\ sc'.totalSize = sc.totalSize
       /\ sc'.boundary = b
  <2>1. /\ sc'.chunk = chunk /\ sc'.chunkOffset = offset /\ sc'.page = page
        /\ sc'.tail = zero /\ sc'.nextLogs = e /\ sc'.totalSize = sc.totalSize
        /\ sc'.boundary = b
    BY <1>11, <1>13 DEF ScannerOf
  <2>2. chunk \in Seq(Nat) /\ offset \in Nat
    BY <1>9, <1>10
  <2>3. sc' \in ScannerOf
    BY <1>c, <1>12, <1>11, <1>13, <2>2 DEF ScannerOf
  <2> QED BY <2>1, <2>3, <1>c
<1>15. Laid(sc', stream.bytes, visible) /\ From(sc') = x
  <2>0. Piece(sc'.chunk, stream.bytes, x, to)
    BY <1>8, <1>14 DEF chunk
  <2>1. to = MinOf(Start(page + 1), visible) /\ x = Start(page)
    OBVIOUS
  <2>2. /\ x \in Nat /\ to \in Nat /\ page \in Nat /\ 0 \in Nat /\ x <= to
        /\ x = Start(page) - 0 /\ sc'.page = page /\ sc'.tail = 0
        /\ sc'.totalSize >= 1 /\ sc'.totalSize <= visible
        /\ sc'.chunkOffset <= to - x /\ Start(page) < sc'.totalSize /\ Start(page) <= to
    BY <1>2, <1>4, <1>5, <1>6, <1>7, <1>10, <1>14
  <2> HIDE DEF x, to
  <2> QED BY <1>2, <1>14, <2>0, <2>1, <2>2, LaysInFront
<1>16. Resting(sc', stream.bytes)
  <2>1. sc'.boundary => page = 0 /\ offset = 0
    BY <1>b, <1>14
  <2>2. Start(0) = 0
    BY StartIs
  <2>3. sc'.boundary => At(sc') = 0
    BY <1>14, <1>15, <2>1, <2>2 DEF At
  <2> QED BY <2>3 DEF Resting, IsBoundary
<1>17. IsAt(sc', stream.bytes, visible, "idle", "forward", FALSE)
  BY <1>1, <1>2, <1>14, <1>15, <1>16, GoesOn DEF Placed
<1>18. sc'.nextLogs = <<>> /\ (sc'.boundary => At(sc') = 0)
  <2>1. Start(0) = 0
    BY StartIs
  <2> QED BY <1>b, <1>14, <1>15, <2>1 DEF At
<1> QED BY <1>11, <1>17, <1>18 DEF Whereabouts

\* Parsing a block gives a list of records.
LEMMA ParseType ==
  ASSUME NEW block \in Seq(Nat), Len(block) > 0
  PROVE  parseEach(block) \in Lists
<1>1. Front(block) \in Seq(Nat)
  <2>1. \A i \in 1 .. Len(block) - 1 : block[i] \in Nat
    BY ElementOfSeq, LenProperties
  <2>2. SubSeq(block, 1, Len(block) - 1) \in Seq(Nat)
    BY <2>1, SubSeqProperties, LenProperties
  <2> QED BY <2>2 DEF Front
<1>2. NoBytes \in States
  BY DEF NoBytes, States
<1>3. Unescaped(NoBytes, Front(block)) \in States
  BY <1>1, <1>2, UnescapedType
<1>4. unwrapBlock(block).out \in Seq(Nat)
  BY <1>3 DEF unwrapBlock, unescapeBlock, States
<1> QED BY <1>4, RecordsType DEF parseEach

\* A block between two boundaries is entered.
LEMMA EntersBlock ==
  ASSUME NEW s, Placed(s), Laid(s, stream.bytes, visible), s.boundary, s.page >= 0,
         s.nextLogs = <<>>,
         NEW block \in Seq(Nat), Len(block) > 0,
         NEW prev \in Nat, prev <= Len(s.chunk),
         scan \in {"forward", "backward"},
         EnterBlock(s, block, prev),
         scan = "forward" => /\ prev < s.chunkOffset
                             /\ OneBlock(stream.bytes, From(s) + prev, From(s) + s.chunkOffset),
         scan = "backward" => /\ prev > s.chunkOffset
                              /\ OneBlock(stream.bytes, From(s) + s.chunkOffset, From(s) + prev),
         Resting(s, stream.bytes),
         stream' = stream, visible' = visible, scan' = scan, ended' = FALSE
  PROVE  Whereabouts'
<1>1. CASE Parses(block)
  <2>0. parseEach(block) \in Lists /\ Reverse(parseEach(block)) \in Lists /\ <<>> \in Lists
    BY ParseType, ReverseIsSeq DEF Lists
  <2> DEFINE logs == IF scan = "forward" THEN Reverse(parseEach(block)) ELSE parseEach(block)
  <2>1. logs \in Lists
    BY <2>0
  <2> HIDE DEF logs
  <2>2. s \in ScannerOf /\ s.chunkOffset \in Nat /\ s.chunkOffset <= Len(s.chunk)
        /\ Len(s.chunk) \in Int /\ From(s) \in Nat
    BY DEF Placed, Known
  <2>3. /\ sc' = [s EXCEPT !.nextLogs = logs, !.prevLogs = <<>>,
                           !.nextOffset = s.chunkOffset, !.prevOffset = prev]
        /\ pc' = "block"
    BY <1>1 DEF EnterBlock, logs
  <2>4. /\ sc' \in ScannerOf
        /\ sc'.chunk = s.chunk /\ sc'.chunkOffset = s.chunkOffset /\ sc'.page = s.page
        /\ sc'.boundary = s.boundary /\ sc'.tail = s.tail
        /\ sc'.totalSize = s.totalSize
        /\ sc'.nextOffset = s.chunkOffset /\ sc'.prevOffset = prev
    BY <2>0, <2>1, <2>2, <2>3 DEF ScannerOf
  <2>5. From(sc') = From(s) /\ To(sc') = To(s) /\ PagesOf(sc') = PagesOf(s)
    BY <2>4 DEF From, To, PagesOf
  <2>6. Spans(s, stream.bytes, visible) => Spans(sc', stream.bytes, visible)
    BY <2>4, <2>5 DEF Spans
  <2>7. Laid(sc', stream.bytes, visible)
    BY <2>4, <2>6 DEF Laid
  <2>8. Entered(sc', stream.bytes)
    BY <2>2, <2>4, <2>5 DEF Entered
  <2>9. Heading(sc') = scan
    BY <2>2, <2>4 DEF Heading
  <2>10. IsAt(sc', stream.bytes, visible, "block", scan, FALSE)
    BY <2>7, <2>8, <2>9 DEF Placed, IsAt
  <2> QED BY <2>3, <2>10 DEF Whereabouts
<1>2. CASE ~ Parses(block)
  <2>1. sc' = s /\ pc' = "thrown"
    BY <1>2 DEF EnterBlock
  <2>2. IsAt(s, stream.bytes, visible, "thrown", scan, FALSE)
    BY GoesOn DEF Placed
  <2> QED BY <2>1, <2>2 DEF Whereabouts
<1> QED BY <1>1, <1>2

\* Outside a block.
LEMMA OutsideIs ==
  ASSUME Whereabouts, pc = "scan"
  PROVE  sc.nextLogs = <<>> /\ Resting(sc, stream.bytes) /\ ended = FALSE
BY DEF Whereabouts, IsAt

\* The last record of a block leaves the scanner behind the block.
LEMMA YieldLogInv ==
  ASSUME stream \in Possible, Whereabouts, YieldLog
  PROVE  Whereabouts'
<1>1. Placed(sc)
  BY ScannerIsPlaced
<1>2. Entered(sc, stream.bytes) /\ Heading(sc) = scan /\ scan \in {"forward", "backward"}
      /\ ended = FALSE /\ pc = "block"
  BY DEF Whereabouts, IsAt, YieldLog
<1>3. stream' = stream /\ visible' = visible /\ scan' = scan /\ ended' = FALSE
  BY <1>2 DEF YieldLog
<1>4. sc \in ScannerOf /\ sc.nextLogs \in Lists /\ sc.prevLogs \in Lists /\ sc.page >= 0
      /\ sc.boundary = TRUE
  BY <1>1, <1>2 DEF Placed, Known, Entered
<1> DEFINE rest == Front(sc.nextLogs)
<1>5. CASE rest # <<>>
  <2>1. /\ sc' = [sc EXCEPT !.nextLogs = rest, !.prevLogs = Append(@, out')]
        /\ out' = Last(sc.nextLogs)
        /\ pc' \in {"block", "idle"}
    BY <1>5 DEF YieldLog
  <2>2. Len(sc.nextLogs) \in Nat /\ Len(sc.nextLogs) >= 2
    <3>1. rest = SubSeq(sc.nextLogs, 1, Len(sc.nextLogs) - 1)
      BY DEF Front
    <3>2. Len(sc.nextLogs) \in Nat
      BY <1>4, LenProperties DEF Lists
    <3> HIDE DEF rest
    <3> QED BY <1>4, <1>5, <3>1, <3>2, SubSeqEmpty DEF Lists
  <2>3. rest \in Lists
    <3>1. \A i \in 1 .. Len(sc.nextLogs) - 1 : sc.nextLogs[i] \in Seq(Nat)
      BY <1>4, <2>2, ElementOfSeq DEF Lists
    <3>2. SubSeq(sc.nextLogs, 1, Len(sc.nextLogs) - 1) \in Seq(Seq(Nat))
      BY <3>1, SubSeqProperties, <2>2
    <3> QED BY <3>2 DEF Front, Lists
  <2>4. out' \in Seq(Nat)
    BY <1>4, <2>1, <2>2, ElementOfSeq DEF Last, Lists
  <2>5. Append(sc.prevLogs, out') \in Lists
    BY <1>4, <2>4, AppendProperties DEF Lists
  <2> HIDE DEF rest
  <2>6. /\ sc' \in ScannerOf
        /\ sc'.chunk = sc.chunk /\ sc'.chunkOffset = sc.chunkOffset /\ sc'.page = sc.page
        /\ sc'.boundary = sc.boundary /\ sc'.tail = sc.tail
        /\ sc'.totalSize = sc.totalSize
        /\ sc'.nextOffset = sc.nextOffset /\ sc'.prevOffset = sc.prevOffset
        /\ sc'.nextLogs = rest
    BY <1>4, <2>1, <2>3, <2>5 DEF ScannerOf
  <2>7. From(sc') = From(sc) /\ To(sc') = To(sc) /\ PagesOf(sc') = PagesOf(sc)
    BY <2>6 DEF From, To, PagesOf
  <2>8. Spans(sc, stream.bytes, visible) => Spans(sc', stream.bytes, visible)
    BY <2>6, <2>7 DEF Spans
  <2>9. Laid(sc', stream.bytes, visible)
    BY <1>1, <1>4, <2>6, <2>8 DEF Laid, Placed
  <2>10. Entered(sc', stream.bytes)
    BY <1>2, <2>6, <2>7 DEF Entered
  <2>11. Heading(sc') = scan
    BY <1>2, <2>6 DEF Heading
  <2>12. IsAt(sc', stream.bytes, visible, pc', scan, FALSE)
    BY <1>1, <1>2, <1>5, <2>1, <2>6, <2>9, <2>10, <2>11 DEF Placed, IsAt
  <2> QED BY <1>3, <2>12 DEF Whereabouts
<1>6. CASE rest = <<>>
  <2> DEFINE zero == 0
             e == <<>>
  <2>0. zero \in Nat /\ e \in Lists /\ e = <<>>
    BY DEF Lists
  <2>1. /\ sc' = [sc EXCEPT !.nextLogs = e, !.prevLogs = e, !.chunkOffset = sc.nextOffset,
                            !.nextOffset = zero, !.prevOffset = zero]
        /\ pc' \in {"scan", "idle"}
    BY <1>6 DEF YieldLog
  <2> HIDE DEF zero, e
  <2>2. sc.nextOffset \in Nat /\ sc.nextOffset <= Len(sc.chunk) /\ From(sc) \in Nat
    BY <1>1, <1>2 DEF Placed, Known, Entered
  <2>6. /\ sc' \in ScannerOf
        /\ sc'.chunk = sc.chunk /\ sc'.chunkOffset = sc.nextOffset /\ sc'.page = sc.page
        /\ sc'.boundary = sc.boundary /\ sc'.tail = sc.tail
        /\ sc'.totalSize = sc.totalSize /\ sc'.nextLogs = e
    BY <1>4, <2>0, <2>1, <2>2 DEF ScannerOf
  <2>7. From(sc') = From(sc) /\ To(sc') = To(sc) /\ PagesOf(sc') = PagesOf(sc)
    BY <2>6 DEF From, To, PagesOf
  <2>8. Spans(sc, stream.bytes, visible) => Spans(sc', stream.bytes, visible)
    BY <2>6, <2>7 DEF Spans
  <2>9. Laid(sc', stream.bytes, visible)
    BY <1>1, <1>4, <2>2, <2>6, <2>8 DEF Laid, Placed
  <2>10. IsBoundary(stream.bytes, From(sc) + sc.nextOffset)
    BY <1>2, <2>2 DEF Entered, OneBlock, IsBoundary
  <2>11. Resting(sc', stream.bytes)
    BY <2>6, <2>7, <2>10 DEF Resting, At
  <2>12. IsAt(sc', stream.bytes, visible, pc', scan, FALSE)
    <3>1. sc'.nextLogs = <<>> /\ pc' \in {"idle", "scan", "thrown"}
      BY <2>0, <2>1, <2>6
    <3> QED BY <1>1, <1>2, <2>9, <2>11, <3>1, GoesOn DEF Placed
  <2> QED BY <1>3, <2>12 DEF Whereabouts
<1> QED BY <1>5, <1>6

-----------------------------------------------------------------------------
\* A forward scan that ended has read the last page it knew of.
LEMMA EndedOnLastPage ==
  ASSUME NEW s, Known(s, stream.bytes, visible), Laid(s, stream.bytes, visible),
         s.tail >= 0, s.page >= 0, To(s) >= s.totalSize
  PROVE  /\ s.page = CeilDiv(s.totalSize, PageSize) - 1
         /\ Start(s.page) <= To(s) /\ From(s) = Start(s.page) - s.tail
         /\ Start(s.page) \in Nat /\ Start(s.page) < s.totalSize /\ s.tail <= Len(s.chunk)
<1>1. Spans(s, stream.bytes, visible)
  BY DEF Laid
<1>2. s.page \in Nat /\ s.totalSize \in Nat /\ s.tail \in Nat
  BY DEF Known
<1>3. Start(s.page) \in Nat /\ Start(s.page + 1) = Start(s.page) + PageSize /\ PageSize \in Nat
  <2> DEFINE n == s.page
  <2>1. n \in Nat
    BY <1>2
  <2> HIDE DEF n
  <2>2. Start(n) \in Nat /\ Start(n + 1) = Start(n) + PageSize /\ PageSize \in Nat
    BY <2>1, NextStart
  <2> QED BY <2>2 DEF n
<1>4. To(s) <= Start(s.page + 1) /\ Start(s.page) < s.totalSize /\ s.tail <= Len(s.chunk)
  BY <1>1 DEF Spans
<1> DEFINE c == CeilDiv(s.totalSize, PageSize)
<1>5. s.page < c /\ ~ (s.page + 1 < c)
  <2>1. s.totalSize <= Start(s.page + 1)
    BY <1>2, <1>3, <1>4 DEF Known
  <2>2. s.page + 1 \in Int /\ ~ (Start(s.page + 1) < s.totalSize)
    BY <1>2, <1>3, <2>1
  <2> QED BY <1>2, <1>4, <2>2, PagesAre
<1>6. c \in Int
  BY <1>2, CeilIs
<1> HIDE DEF c
<1>7. s.page = c - 1
  BY <1>2, <1>5, <1>6
<1>8. From(s) = Start(s.page) - s.tail
  BY <1>2, <1>3 DEF From
<1>9. To(s) \in Nat
  BY DEF Known
<1>10. Start(s.page) <= To(s)
  BY <1>2, <1>3, <1>4, <1>9
<1> QED BY <1>3, <1>4, <1>7, <1>8, <1>10 DEF c

\* The last page is read again, longer, behind its tail.
LEMMA updateSizeInv ==
  ASSUME stream \in Possible, Whereabouts, NEW size \in 1 .. visible, updateSize(size)
  PROVE  Whereabouts' /\ Quiet
<1>1. Placed(sc) /\ Known(sc, stream.bytes, visible) /\ visible \in Nat /\ stream.bytes \in Seq(Nat)
      /\ Laid(sc, stream.bytes, visible) /\ visible <= Len(stream.bytes)
  BY ScannerIsPlaced DEF Placed
<1>2. /\ pc = "idle" /\ ended /\ scan = "forward" /\ size > sc.totalSize
      /\ sc' = [sc EXCEPT !.chunk = Reloaded(sc.page), !.totalSize = size]
      /\ ended' = FALSE /\ stream' = stream /\ visible' = visible /\ pc' = pc /\ scan' = scan
  BY DEF updateSize
<1>3. Finished(sc, scan, stream.bytes)
  BY <1>2 DEF Whereabouts, IsAt
<1>4. sc.nextLogs = <<>> /\ sc.tail >= 0 /\ sc.page >= 0 /\ To(sc) >= sc.totalSize
  BY <1>2, <1>3 DEF Finished
<1>5. Resting(sc, stream.bytes)
  BY <1>2, <1>4 DEF Whereabouts, IsAt
<1> DEFINE x == From(sc)
           y == Start(sc.page)
           n == sc.page
           t == sc.tail
           to == MinOf(Start(n + 1), visible)
           chunk == subarray(sc.chunk, 0, t) \o ReadPage(n)
<1>6. /\ n = CeilDiv(sc.totalSize, PageSize) - 1
      /\ y <= To(sc) /\ x = y - t /\ y \in Nat /\ y < sc.totalSize /\ t <= Len(sc.chunk)
  BY <1>1, <1>4, EndedOnLastPage
<1>7. /\ x \in Nat /\ n \in Nat /\ t \in Nat /\ sc \in ScannerOf /\ sc.totalSize \in Nat
      /\ sc.totalSize <= visible /\ sc.totalSize >= 1 /\ To(sc) <= visible /\ To(sc) \in Nat
      /\ sc.chunkOffset \in Nat /\ sc.chunkOffset <= Len(sc.chunk)
      /\ Len(sc.chunk) = To(sc) - x
      /\ Piece(sc.chunk, stream.bytes, x, To(sc))
      /\ sc.boundary \in BOOLEAN
  BY <1>1, <1>4, SMTT(30) DEF Known
<1>8. sc'.chunk = chunk /\ sc'.chunkOffset = sc.chunkOffset /\ sc'.page = n
      /\ sc'.tail = t /\ sc'.totalSize = size /\ sc'.nextLogs = <<>> /\ sc'.boundary = sc.boundary
      /\ sc' = [sc EXCEPT !.chunk = chunk, !.totalSize = size]
  <2>1. Reloaded(sc.page) = chunk
    BY <1>4, <1>6 DEF Reloaded, pageCount
  <2> HIDE DEF chunk
  <2> QED BY <1>2, <1>4, <1>7, <2>1 DEF ScannerOf
<1>9. Start(n + 1) = y + PageSize /\ PageSize \in Nat
  <2> HIDE DEF n
  <2>1. Start(n + 1) = Start(n) + PageSize /\ PageSize \in Nat
    BY <1>7, StartIs
  <2> QED BY <2>1 DEF n
<1>a. to = MinOf(Start(n + 1), visible) /\ y = Start(n)
  OBVIOUS
<1>10. to \in Nat /\ y <= to /\ To(sc) <= to
  <2>1. To(sc) <= Start(n + 1)
    <3>1. Spans(sc, stream.bytes, visible)
      BY <1>1, <1>4 DEF Laid
    <3> QED BY <1>4, <3>1 DEF Spans
  <2> HIDE DEF n, x, y, to
  <2>2. /\ visible \in Nat /\ y \in Nat /\ PageSize \in Nat /\ To(sc) \in Nat
        /\ y < visible /\ y <= To(sc) /\ To(sc) <= visible /\ To(sc) <= y + PageSize
    BY <1>1, <1>6, <1>7, <1>9, <2>1
  <2>3. to = MinOf(y + PageSize, visible)
    BY <1>9, <1>a
  <2> QED BY <2>2, <2>3 DEF MinOf
<1>11. Piece(subarray(sc.chunk, 0, t), stream.bytes, x, y)
  <2> DEFINE w == SubSeq(sc.chunk, 0 + 1, t)
  <2>1. Piece(w, stream.bytes, x + 0, x + t)
    <3>1. 0 \in Nat /\ 0 <= t /\ x + t <= To(sc)
      BY <1>6, <1>7
    <3> QED BY <1>1, <1>7, <3>1, PieceOfPiece
  <2> HIDE DEF w
  <2>2. x + 0 = x /\ x + t = y
    BY <1>6, <1>7
  <2>3. Piece(w, stream.bytes, x, y)
    BY <2>1, <2>2
  <2> QED BY <2>3 DEF w, subarray
<1>12. Piece(ReadPage(n), stream.bytes, y, to)
  <2> HIDE DEF n, y, to
  <2>1. Start(n) <= visible /\ to = MinOf(Start(n + 1), visible)
    BY <1>1, <1>6, <1>7, <1>a
  <2> QED BY <1>1, <1>7, <1>10, <1>a, <2>1, ReadPageIs
<1>13. Piece(chunk, stream.bytes, x, to)
  <2>1. x \in Int /\ y \in Int /\ to \in Int /\ x <= y /\ y <= to
    BY <1>6, <1>7, <1>10
  <2> QED BY <1>11, <1>12, <2>1, PiecesMeet
<1>14. sc' \in ScannerOf
  <2>1. chunk \in Seq(Nat) /\ size \in Nat
    BY <1>13 DEF Piece
  <2> HIDE DEF chunk
  <2> QED BY <1>7, <1>8, <2>1 DEF ScannerOf
<1>15. Laid(sc', stream.bytes, visible) /\ From(sc') = x
  <2>1. /\ sc'.page = n /\ sc'.tail = t /\ sc'.totalSize >= 1 /\ sc'.totalSize <= visible
        /\ x = Start(n) - t /\ x <= to /\ Piece(sc'.chunk, stream.bytes, x, to)
        /\ sc'.chunkOffset <= to - x
        /\ Start(n) < sc'.totalSize /\ Start(n) <= to
        /\ to = MinOf(Start(n + 1), visible)
        /\ n \in Nat /\ t \in Nat /\ x \in Nat /\ to \in Nat
    <3> HIDE DEF n, y, t, x, to, chunk
    <3> QED BY <1>2, <1>6, <1>7, <1>8, <1>10, <1>13, <1>a, SMTT(30)
  <2> HIDE DEF n, t, x, to
  <2> QED BY <1>1, <1>14, <2>1, LaysInFront
<1>16. Resting(sc', stream.bytes)
  BY <1>5, <1>8, <1>15 DEF Resting, At
<1>17. IsAt(sc', stream.bytes, visible, "idle", "forward", FALSE)
  BY <1>1, <1>8, <1>15, <1>16, GoesOn
<1>18. Quiet
  <2>1. At(sc') = At(sc)
    BY <1>8, <1>15 DEF At
  <2>2. pc' = "idle"
    BY <1>2
  <2> QED BY <1>4, <1>8, <2>1, <2>2 DEF Quiet
<1> QED BY <1>2, <1>17, <1>18 DEF Whereabouts

\* What a step of a scan starts from.
LEMMA ScanningIs ==
  ASSUME stream \in Possible, Whereabouts, NEW d \in {"forward", "backward"}, Scanning(d)
  PROVE  /\ Placed(sc) /\ Known(sc, stream.bytes, visible) /\ Laid(sc, stream.bytes, visible)
         /\ visible \in Nat /\ stream.bytes \in Seq(Nat) /\ visible <= Len(stream.bytes)
         /\ sc.nextLogs = <<>> /\ Resting(sc, stream.bytes) /\ ended = FALSE
         /\ pc = "scan" /\ scan = d
         /\ stream' = stream /\ visible' = visible /\ scan' = scan
BY ScannerIsPlaced, OutsideIs DEF Scanning, Placed

\* A page at which the position is, without a tail.
LEMMA OnPage ==
  ASSUME NEW s \in ScannerOf, NEW n \in Nat, NEW at \in Nat,
         stream.bytes \in Seq(Nat), visible \in Nat, visible <= Len(stream.bytes),
         s.page = n, s.tail = 0, s.chunk = ReadPage(n),
         s.chunkOffset = at - Start(n),
         s.totalSize >= 1, s.totalSize <= visible,
         Start(n) < s.totalSize, Start(n) <= at, at <= Start(n + 1), at <= visible
  PROVE  Laid(s, stream.bytes, visible) /\ At(s) = at
<1> DEFINE x == Start(n)
           to == MinOf(Start(n + 1), visible)
<1>1. x \in Nat /\ Start(n + 1) = x + PageSize /\ PageSize \in Nat
  BY NextStart
<1>2. s.totalSize \in Nat
  BY DEF ScannerOf
<1>a. x = Start(n) /\ to = MinOf(Start(n + 1), visible)
  OBVIOUS
<1> HIDE DEF x, to
<1>3. to \in Nat /\ x <= to /\ at <= to /\ x <= visible
  BY <1>1, <1>2, <1>a, SMTT(30) DEF MinOf
<1>4. Piece(ReadPage(n), stream.bytes, x, to)
  BY <1>3, <1>a, ReadPageIs
<1>5. /\ 0 \in Nat /\ x = Start(n) - 0 /\ Piece(s.chunk, stream.bytes, x, to)
      /\ s.chunkOffset <= to - x /\ Start(n) <= to
  BY <1>1, <1>3, <1>4, <1>a
<1>6. Laid(s, stream.bytes, visible) /\ From(s) = x
  BY <1>1, <1>3, <1>5, <1>a, LaysInFront
<1>7. At(s) = at
  BY <1>1, <1>6, <1>a DEF At
<1> QED BY <1>6, <1>7

\* A tail behind the page is dropped, or the page goes on to the position.
LEMMA ForwardDropTailInv ==
  ASSUME stream \in Possible, Whereabouts, ForwardDropTail
  PROVE  Whereabouts' /\ Quiet
<1> DEFINE n == sc.page
           t == sc.tail
           co == sc.chunkOffset
           x == Start(n)
           at == x + co
<1>1. Scanning("forward") /\ t < 0 /\ pc' = pc /\ ended' = ended
  BY DEF ForwardDropTail
<1>2. /\ Placed(sc) /\ Known(sc, stream.bytes, visible) /\ Laid(sc, stream.bytes, visible)
      /\ visible \in Nat /\ stream.bytes \in Seq(Nat) /\ visible <= Len(stream.bytes)
      /\ sc.nextLogs = <<>> /\ Resting(sc, stream.bytes) /\ ended = FALSE
      /\ pc = "scan" /\ scan = "forward"
      /\ stream' = stream /\ visible' = visible /\ scan' = scan
  BY <1>1, ScanningIs
<1>3. /\ n \in Nat /\ t \in Int /\ co \in Nat /\ co <= Len(sc.chunk) /\ sc \in ScannerOf
      /\ sc.totalSize \in Nat /\ sc.totalSize >= 1 /\ sc.totalSize <= visible
      /\ To(sc) \in Nat /\ To(sc) <= visible /\ Len(sc.chunk) = To(sc) - From(sc)
      /\ Piece(sc.chunk, stream.bytes, From(sc), To(sc))
  <2>1. sc.page # -1
    BY <1>1, <1>2 DEF Laid, Fresh
  <2> QED BY <1>2, <2>1 DEF Known
<1>4. Spans(sc, stream.bytes, visible)
  BY <1>2, <1>3 DEF Laid
<1>5. /\ From(sc) = x /\ To(sc) = Start(n + 1) - t /\ To(sc) <= Start(PagesOf(sc))
      /\ x < sc.totalSize
  <2>1. x \in Int
    <3> HIDE DEF n
    <3> QED BY <1>3, NextStart
  <2> QED BY <1>1, <1>3, <1>4, <2>1 DEF Spans, From
<1>6. At(sc) = at
  BY <1>5 DEF At
<1> HIDE DEF n
<1>7. x \in Nat /\ Start(n + 1) = x + PageSize /\ PageSize \in Nat /\ PageSize > 0
  BY <1>3, NextStart
<1> HIDE DEF t, co, x
<1> DEFINE kept == subarray(sc.chunk, 0, Len(sc.chunk) + t)
           overflow == co - Len(kept)
           delta == CeilDiv(overflow, PageSize)
           zero == 0
<1>8. Piece(kept, stream.bytes, x, x + PageSize) /\ Len(sc.chunk) + t = PageSize
  <2>1. Len(sc.chunk) + t = PageSize
    BY <1>3, <1>5, <1>7
  <2>2. 0 \in Nat /\ 0 <= PageSize /\ x + PageSize <= To(sc) /\ 0 + 1 = 1 /\ x + 0 = x
    BY <1>1, <1>3, <1>5, <1>7
  <2> DEFINE w == SubSeq(sc.chunk, 0 + 1, PageSize)
  <2>3. Piece(w, stream.bytes, x + 0, x + PageSize)
    BY <1>2, <1>3, <1>5, <1>7, <2>2, PieceOfPiece
  <2>4. kept = w
    BY <2>1 DEF subarray
  <2> HIDE DEF w, kept
  <2> QED BY <2>1, <2>2, <2>3, <2>4
<1> HIDE DEF kept
<1>9. Len(kept) = PageSize /\ kept \in Seq(Nat)
  BY <1>7, <1>8 DEF Piece
<1>10. overflow = co - PageSize /\ overflow \in Int
  BY <1>3, <1>7, <1>9
<1> HIDE DEF overflow
<1>11. zero \in Int /\ zero = 0
  OBVIOUS
<1> HIDE DEF zero
<1>12. CASE overflow > 0
  <2> DEFINE m == n + delta
             chunk == ReadPage(m)
             offset == overflow - (delta - 1) * PageSize
  <2>0. m = n + delta
    OBVIOUS
  <2>1. sc' = [sc EXCEPT !.chunk = chunk, !.tail = zero, !.chunkOffset = offset, !.page = m]
    BY <1>12, <1>11 DEF ForwardDropTail, n, t, co, kept, overflow
  <2>2. delta \in Int /\ Start(delta) >= overflow /\ Start(delta) < overflow + PageSize
    BY <1>10, CeilIs
  <2>d. offset = overflow - (delta - 1) * PageSize
    OBVIOUS
  <2> HIDE DEF delta, offset
  <2>3. Start(delta) \in Int /\ Start(delta - 1) = Start(delta) - PageSize
    BY <2>2, StartIs
  <2>4. (delta - 1) * PageSize = Start(delta - 1)
    BY DEF Start
  <2>5. Start(m) = x + Start(delta) /\ m \in Int
    <3> HIDE DEF m
    <3>1. Start(n + delta) = Start(n) + Start(delta)
      BY <1>3, <2>2, SumOfPages
    <3> QED BY <1>3, <2>0, <2>2, <3>1 DEF x
  <2>6. delta > 0
    <3>1. delta < 0 => Start(delta) + PageSize <= Start(0)
      BY <2>2, StartsInOrder
    <3>2. Start(0) = 0
      BY StartIs
    <3>3. delta = 0 => Start(delta) = 0
      BY <3>2
    <3> QED BY <1>7, <1>10, <1>12, <2>2, <2>3, <3>1, <3>2, <3>3
  <2> HIDE DEF m
  <2>7. m \in Nat
    BY <1>3, <2>0, <2>2, <2>5, <2>6
  <2>8. Start(m + 1) = Start(m) + PageSize /\ Start(m) \in Nat
    BY <2>7, NextStart
  <2>9. offset = at - Start(m)
    BY <1>3, <1>7, <1>10, <2>3, <2>4, <2>5, <2>d
  <2>10. Start(m) <= at /\ at <= Start(m + 1) /\ Start(m) < at
    <3>1. at = x + co /\ x \in Int /\ co \in Int /\ PageSize \in Int
      BY <1>3, <1>7
    <3>2. overflow = co - PageSize /\ Start(m) = x + Start(delta)
      BY <1>10, <2>5
    <3> HIDE DEF x, co, at
    <3> QED BY <2>2, <2>3, <2>8, <3>1, <3>2
  <2>11. at <= To(sc) /\ at \in Nat
    BY <1>3, <1>5, <1>7
  <2>12. Start(m) < sc.totalSize
    <3> DEFINE c == PagesOf(sc)
    <3>1. c = CeilDiv(sc.totalSize, PageSize) /\ c \in Int
      <4>1. sc.totalSize \in Int
        BY <1>3
      <4>2. CeilDiv(sc.totalSize, PageSize) \in Int
        BY <4>1, CeilIs
      <4> QED BY <4>2 DEF PagesOf
    <3> HIDE DEF c
    <3>2. To(sc) <= Start(c)
      BY <1>5 DEF c
    <3>3. Start(c) \in Int
      BY <3>1, StartIs
    <3>4. Start(m) < Start(c)
      BY <1>3, <2>8, <2>10, <2>11, <3>2, <3>3
    <3>5. c <= m => Start(c) <= Start(m)
      <4>1. c < m => Start(c) + PageSize <= Start(m)
        BY <2>7, <3>1, StartsInOrder
      <4>2. CASE c < m
        BY <1>7, <2>8, <3>3, <4>1, <4>2
      <4>3. CASE c = m
        BY <2>8, <4>3
      <4> QED BY <2>7, <3>1, <4>2, <4>3
    <3>6. m < c
      BY <2>7, <2>8, <3>1, <3>3, <3>4, <3>5
    <3> QED BY <1>3, <2>7, <3>1, <3>6, PagesAre
  <2>13. chunk \in Seq(Nat) /\ offset \in Nat
    <3> DEFINE to == MinOf(Start(m + 1), visible)
    <3>1. to \in Nat
      BY <1>2, <1>7, <2>8 DEF MinOf
    <3>2. to = MinOf(Start(m + 1), visible)
      OBVIOUS
    <3> HIDE DEF to
    <3>3. Start(m) <= visible
      BY <1>2, <1>3, <2>8, <2>12
    <3>4. Piece(ReadPage(m), stream.bytes, Start(m), to)
      BY <1>2, <2>7, <3>1, <3>2, <3>3, ReadPageIs
    <3> QED BY <2>8, <2>9, <2>10, <2>11, <3>4 DEF Piece
  <2>c. chunk = ReadPage(m)
    OBVIOUS
  <2> HIDE DEF chunk
  <2>14. /\ sc' \in ScannerOf /\ sc'.chunk = chunk /\ sc'.chunkOffset = offset /\ sc'.page = m
         /\ sc'.tail = zero /\ sc'.totalSize = sc.totalSize /\ sc'.nextLogs = sc.nextLogs
         /\ sc'.boundary = sc.boundary
    BY <1>3, <1>11, <2>1, <2>5, <2>13 DEF ScannerOf
  <2>15. Laid(sc', stream.bytes, visible) /\ At(sc') = at
    <3> HIDE DEF at
    <3>1. /\ sc'.page = m /\ sc'.tail = 0 /\ sc'.chunk = ReadPage(m)
          /\ sc'.chunkOffset = at - Start(m) /\ sc'.totalSize >= 1 /\ sc'.totalSize <= visible
          /\ Start(m) < sc'.totalSize /\ Start(m) <= at /\ at <= Start(m + 1) /\ at <= visible
      BY <1>2, <1>3, <1>11, <2>9, <2>10, <2>11, <2>12, <2>14, <2>c
    <3> QED BY <1>2, <2>7, <2>11, <2>14, <3>1, OnPage
  <2>16. Resting(sc', stream.bytes)
    BY <1>2, <1>6, <2>14, <2>15 DEF Resting
  <2>17. IsAt(sc', stream.bytes, visible, "scan", "forward", FALSE)
    BY <1>2, <2>14, <2>15, <2>16, GoesOn
  <2>18. Quiet
    BY <1>1, <1>2, <1>6, <2>14, <2>15 DEF Quiet
  <2> QED BY <1>1, <1>2, <2>17, <2>18 DEF Whereabouts
<1>13. CASE ~ (overflow > 0)
  <2>1. sc' = [sc EXCEPT !.chunk = kept, !.tail = zero]
    BY <1>13, <1>11 DEF ForwardDropTail, n, t, co, kept, overflow
  <2>2. /\ sc' \in ScannerOf /\ sc'.chunk = kept /\ sc'.chunkOffset = co /\ sc'.page = n
        /\ sc'.tail = zero /\ sc'.totalSize = sc.totalSize /\ sc'.nextLogs = sc.nextLogs
        /\ sc'.boundary = sc.boundary
    BY <1>3, <1>9, <1>11, <2>1 DEF ScannerOf, co, n
  <2>3. Laid(sc', stream.bytes, visible) /\ From(sc') = x
    <3> DEFINE to == x + PageSize
    <3>0. to = x + PageSize
      OBVIOUS
    <3> HIDE DEF to
    <3>1. to <= visible
      BY <1>1, <1>2, <1>3, <1>5, <1>7, <3>0
    <3>2. /\ sc'.page = n /\ sc'.tail = 0 /\ sc'.totalSize >= 1 /\ sc'.totalSize <= visible
          /\ x = Start(n) - 0 /\ x <= to /\ Piece(sc'.chunk, stream.bytes, x, to)
          /\ sc'.chunkOffset <= to - x
          /\ Start(n) < sc'.totalSize /\ Start(n) <= to /\ 0 \in Nat /\ to \in Nat
          /\ n \in Nat /\ x \in Nat
      <4>1. x = Start(n)
        BY DEF x
      <4>2. Piece(sc'.chunk, stream.bytes, x, to)
        BY <1>8, <2>2, <3>0
      <4>3. co <= PageSize
        BY <1>3, <1>7, <1>10, <1>13
      <4>4. Start(n) - 0 = Start(n) /\ to - x = PageSize /\ to \in Nat /\ x <= to
        BY <1>7, <3>0, <4>1
      <4>5. sc'.page = n /\ sc'.tail = 0 /\ sc'.totalSize = sc.totalSize /\ sc'.chunkOffset = co
        BY <1>11, <2>2
      <4>6. sc'.totalSize >= 1 /\ sc'.totalSize <= visible
        BY <1>3, <4>5
      <4>7. Start(n) < sc'.totalSize /\ Start(n) <= to
        BY <1>5, <4>1, <4>4, <4>5
      <4> QED BY <1>3, <1>7, <4>1, <4>2, <4>3, <4>4, <4>5, <4>6, <4>7
    <3>3. to = MinOf(Start(n + 1), visible)
      BY <1>2, <1>7, <3>0, <3>1 DEF MinOf
    <3>4. sc' \in ScannerOf /\ visible \in Nat
      BY <1>2, <2>2
    <3> QED BY <3>2, <3>3, <3>4, LaysInFront
  <2>4. At(sc') = at
    BY <2>2, <2>3 DEF At
  <2>5. Resting(sc', stream.bytes)
    BY <1>2, <1>6, <2>2, <2>4 DEF Resting
  <2>6. IsAt(sc', stream.bytes, visible, "scan", "forward", FALSE)
    BY <1>2, <2>2, <2>3, <2>5, GoesOn
  <2>7. Quiet
    BY <1>1, <1>2, <1>6, <2>2, <2>4 DEF Quiet
  <2> QED BY <1>1, <1>2, <2>6, <2>7 DEF Whereabouts
<1> QED BY <1>12, <1>13

\* What is between the position and the end of the chunk.
LEMMA LeftOverIs ==
  ASSUME NEW s, NEW bytes, NEW size, Known(s, bytes, size)
  PROVE  Piece(subarray(s.chunk, s.chunkOffset, Len(s.chunk)), bytes, At(s), To(s))
<1> DEFINE x == From(s)
           y == To(s)
           a == s.chunkOffset
           b == Len(s.chunk)
           w == SubSeq(s.chunk, a + 1, b)
<1>1. /\ bytes \in Seq(Nat) /\ x \in Nat /\ y \in Nat /\ Piece(s.chunk, bytes, x, y)
      /\ a \in Nat /\ b \in Nat /\ a <= b /\ x + b = y
  BY DEF Known
<1> HIDE DEF x, y, a, b
<1>2. Piece(w, bytes, x + a, x + b)
  <2>1. x + b <= y
    BY <1>1
  <2> QED BY <1>1, <2>1, PieceOfPiece
<1> HIDE DEF w
<1>3. Piece(w, bytes, x + a, y)
  BY <1>1, <1>2
<1>4. w = subarray(s.chunk, s.chunkOffset, Len(s.chunk)) /\ x + a = At(s) /\ y = To(s)
  BY DEF w, x, a, y, b, subarray, At
<1> QED BY <1>3, <1>4

\* What is between the start of the chunk and the position.
LEMMA PassedIs ==
  ASSUME NEW s, NEW bytes, NEW size, Known(s, bytes, size)
  PROVE  Piece(subarray(s.chunk, 0, s.chunkOffset), bytes, From(s), At(s))
<1> DEFINE x == From(s)
           y == To(s)
           b == s.chunkOffset
           w == SubSeq(s.chunk, 0 + 1, b)
<1>1. /\ bytes \in Seq(Nat) /\ x \in Nat /\ y \in Nat /\ Piece(s.chunk, bytes, x, y)
      /\ b \in Nat /\ x + b <= y
  BY SMTT(30) DEF Known
<1> HIDE DEF x, y, b
<1>2. Piece(w, bytes, x + 0, x + b)
  <2>1. 0 \in Nat /\ 0 <= b
    BY <1>1
  <2> QED BY <1>1, <2>1, PieceOfPiece
<1> HIDE DEF w
<1>3. Piece(w, bytes, x, x + b)
  <2>1. x + 0 = x
    BY <1>1
  <2> QED BY <1>2, <2>1
<1>4. w = subarray(s.chunk, 0, s.chunkOffset) /\ x + b = At(s) /\ x = From(s)
  BY DEF w, x, b, subarray, At
<1> QED BY <1>3, <1>4

\* The position moves within the chunk, to a boundary or not.
Moved(s, t, co, b) ==
  /\ t \in ScannerOf
  /\ t.chunk = s.chunk /\ t.chunkOffset = co /\ t.page = s.page /\ t.boundary = b
  /\ t.tail = s.tail /\ t.totalSize = s.totalSize
  /\ t.nextLogs = s.nextLogs /\ t.prevLogs = s.prevLogs
  /\ t.nextOffset = s.nextOffset /\ t.prevOffset = s.prevOffset

LEMMA MovedIs ==
  ASSUME NEW s \in ScannerOf, NEW co \in Nat
  PROVE  /\ s.boundary = TRUE => Moved(s, [s EXCEPT !.chunkOffset = co], co, TRUE)
         /\ s.boundary = FALSE => Moved(s, [s EXCEPT !.chunkOffset = co], co, FALSE)
         /\ Moved(s, [[s EXCEPT !.chunkOffset = co] EXCEPT !.boundary = TRUE], co, TRUE)
<1>1. ASSUME s.boundary = TRUE PROVE Moved(s, [s EXCEPT !.chunkOffset = co], co, TRUE)
  BY <1>1 DEF Moved, ScannerOf
<1>2. ASSUME s.boundary = FALSE PROVE Moved(s, [s EXCEPT !.chunkOffset = co], co, FALSE)
  BY <1>2 DEF Moved, ScannerOf
<1>3. Moved(s, [[s EXCEPT !.chunkOffset = co] EXCEPT !.boundary = TRUE], co, TRUE)
  BY DEF Moved, ScannerOf
<1> QED BY <1>1, <1>2, <1>3

\* The position moves, the chunk stays where it lies.
LEMMA MovesWithin ==
  ASSUME NEW s, NEW bytes, NEW size \in Nat, Known(s, bytes, size), Laid(s, bytes, size),
         s.page >= 0, NEW co \in Nat, co <= Len(s.chunk), NEW b \in BOOLEAN,
         NEW t, Moved(s, t, co, b)
  PROVE  /\ Laid(t, bytes, size) /\ Known(t, bytes, size)
         /\ From(t) = From(s) /\ To(t) = To(s) /\ At(t) = From(s) + co
<1>2. /\ t \in ScannerOf
      /\ t.chunk = s.chunk /\ t.chunkOffset = co /\ t.page = s.page /\ t.boundary = b
      /\ t.tail = s.tail /\ t.totalSize = s.totalSize
      /\ t.nextLogs = s.nextLogs /\ t.prevLogs = s.prevLogs
      /\ t.nextOffset = s.nextOffset /\ t.prevOffset = s.prevOffset
  BY DEF Moved
<1>3. From(t) = From(s) /\ To(t) = To(s) /\ PagesOf(t) = PagesOf(s)
  BY <1>2 DEF From, To, PagesOf
<1>4. Spans(t, bytes, size)
  <2>1. Spans(s, bytes, size)
    BY DEF Laid
  <2> QED BY <1>2, <1>3, <2>1 DEF Spans
<1>5. Laid(t, bytes, size)
  BY <1>2, <1>4 DEF Laid
<1>6. At(t) = From(s) + co
  BY <1>2, <1>3 DEF At
<1>7. Known(t, bytes, size)
  <2> USE <1>2, <1>3
  <2>1. Known(s, bytes, size)
    OBVIOUS
  <2> QED BY <2>1 DEF Known
<1> QED BY <1>3, <1>5, <1>6, <1>7

\* A chunk is empty only before the first page is read.
LEMMA HasPage ==
  ASSUME NEW s, NEW bytes, NEW size, Known(s, bytes, size), Laid(s, bytes, size),
         Len(s.chunk) > 0 \/ s.tail # 0 \/ ~ s.boundary
  PROVE  s.page \in Nat
BY DEF Known, Laid, Fresh

\* A scan meets a boundary it was not looking for as one.
LEMMA MeetsBoundary ==
  ASSUME stream \in Possible, Whereabouts, NEW d \in {"forward", "backward"}, Scanning(d),
         sc.page >= 0, ~ sc.boundary, NEW found \in Nat, found < Len(sc.chunk),
         stream.bytes[From(sc) + found + 1] = SEPARATOR,
         sc' = [[sc EXCEPT !.chunkOffset = found + 1] EXCEPT !.boundary = TRUE],
         UNCHANGED <<pc, ended>>
  PROVE  Whereabouts' /\ Quiet
<1>1. /\ Known(sc, stream.bytes, visible) /\ Laid(sc, stream.bytes, visible)
      /\ visible \in Nat /\ visible <= Len(stream.bytes)
      /\ sc.nextLogs = <<>> /\ ended = FALSE /\ pc = "scan" /\ scan = d
      /\ stream' = stream /\ visible' = visible /\ scan' = scan
  BY ScanningIs
<1> DEFINE co == found + 1
           t == [[sc EXCEPT !.chunkOffset = co] EXCEPT !.boundary = TRUE]
<1>2. co \in Nat /\ co <= Len(sc.chunk) /\ sc \in ScannerOf /\ From(sc) \in Nat
  <2>1. Len(sc.chunk) \in Int /\ sc \in ScannerOf /\ From(sc) \in Nat
    BY <1>1 DEF Known
  <2> QED BY <2>1
<1>c. co = found + 1
  OBVIOUS
<1> HIDE DEF co
<1>3. Moved(sc, t, co, TRUE)
  BY <1>2, MovedIs
<1>4. sc' = t
  BY DEF co
<1> HIDE DEF t
<1>5. Laid(t, stream.bytes, visible) /\ At(t) = From(sc) + co
  BY <1>1, <1>2, <1>3, MovesWithin
<1>6. Resting(t, stream.bytes)
  <2>1. From(sc) + co = From(sc) + found + 1
    BY <1>2, <1>c
  <2> QED BY <1>5, <2>1 DEF Resting, IsBoundary
<1>7. t.nextLogs = <<>>
  BY <1>1, <1>3 DEF Moved
<1>8. IsAt(t, stream.bytes, visible, "scan", d, FALSE)
  BY <1>1, <1>5, <1>6, <1>7, GoesOn
<1>9. Quiet
  BY <1>1, <1>4, <1>7 DEF Quiet
<1> QED BY <1>1, <1>4, <1>8, <1>9 DEF Whereabouts

\* A scan goes behind a block, or in front of it, and enters it.
LEMMA MeetsBlock ==
  ASSUME stream \in Possible, Whereabouts, NEW d \in {"forward", "backward"}, Scanning(d),
         sc.page >= 0, sc.boundary, NEW co \in Nat, co <= Len(sc.chunk),
         NEW block \in Seq(Nat), Len(block) > 0,
         EnterBlock([sc EXCEPT !.chunkOffset = co], block, sc.chunkOffset), UNCHANGED ended,
         IsBoundary(stream.bytes, From(sc) + co),
         d = "forward" => sc.chunkOffset < co /\ OneBlock(stream.bytes, At(sc), From(sc) + co),
         d = "backward" => sc.chunkOffset > co /\ OneBlock(stream.bytes, From(sc) + co, At(sc))
  PROVE  Whereabouts'
<1>1. /\ Placed(sc) /\ Known(sc, stream.bytes, visible) /\ Laid(sc, stream.bytes, visible)
      /\ visible \in Nat /\ visible <= Len(stream.bytes) /\ stream.bytes \in Seq(Nat)
      /\ sc.nextLogs = <<>> /\ ended = FALSE /\ pc = "scan" /\ scan = d
      /\ stream' = stream /\ visible' = visible /\ scan' = scan
  BY ScanningIs
<1> DEFINE t == [sc EXCEPT !.chunkOffset = co]
           prev == sc.chunkOffset
<1>2. sc \in ScannerOf /\ sc.boundary = TRUE /\ prev \in Nat /\ prev <= Len(sc.chunk)
  BY <1>1 DEF Known
<1>3. Moved(sc, t, co, TRUE)
  BY <1>2, MovedIs
<1>4. EnterBlock(t, block, prev) /\ At(sc) = From(sc) + prev
  BY DEF At
<1> HIDE DEF t
<1>5. /\ Laid(t, stream.bytes, visible) /\ Known(t, stream.bytes, visible)
      /\ From(t) = From(sc) /\ At(t) = From(sc) + co
  <2>1. /\ Known(sc, stream.bytes, visible) /\ Laid(sc, stream.bytes, visible)
        /\ visible \in Nat /\ TRUE \in BOOLEAN
    BY <1>1
  <2> QED BY <1>3, <2>1, MovesWithin
<1>6. Placed(t)
  BY <1>1, <1>5 DEF Placed
<1>7. t.boundary /\ t.page >= 0 /\ t.nextLogs = <<>> /\ t.chunk = sc.chunk /\ t.chunkOffset = co
  BY <1>1, <1>3 DEF Moved
<1>8. Resting(t, stream.bytes)
  BY <1>5 DEF Resting
<1> HIDE DEF prev
<1>9. /\ scan = "forward" => prev < t.chunkOffset
                             /\ OneBlock(stream.bytes, From(t) + prev, From(t) + t.chunkOffset)
      /\ scan = "backward" => prev > t.chunkOffset
                              /\ OneBlock(stream.bytes, From(t) + t.chunkOffset, From(t) + prev)
  BY <1>1, <1>4, <1>5, <1>7 DEF prev
<1>10. prev \in Nat /\ prev <= Len(t.chunk) /\ ended' = FALSE
  BY <1>1, <1>2, <1>7
<1> QED BY <1>1, <1>4, <1>5, <1>6, <1>7, <1>8, <1>9, <1>10, EntersBlock

\* A forward scan that has found no boundary has read its page to its end.
LEMMA PageIsRead ==
  ASSUME NEW s, Known(s, stream.bytes, visible), Laid(s, stream.bytes, visible),
         s.tail >= 0, s.page + 1 < CeilDiv(s.totalSize, PageSize)
  PROVE  /\ s.page + 1 \in Nat /\ To(s) = Start(s.page + 1)
         /\ Start(s.page + 1) < s.totalSize
<1> DEFINE n == s.page + 1
<1>1. n \in Nat /\ s.page \in Int /\ s.totalSize \in Int /\ To(s) \in Nat
  <2>1. s.page \in Int /\ s.page >= -1 /\ s.totalSize \in Nat /\ To(s) \in Nat
    BY DEF Known
  <2> QED BY <2>1
<1>2. Start(n) < s.totalSize /\ Start(n) \in Nat
  <2> HIDE DEF n
  <2>1. n < CeilDiv(s.totalSize, PageSize)
    BY DEF n
  <2>2. n \in Int
    BY <1>1
  <2> QED BY <1>1, <2>1, <2>2, PagesAre, NextStart
<1>3. CASE s.page = -1
  <2>1. Len(s.chunk) = 0
    BY <1>3 DEF Laid, Fresh
  <2>2. To(s) = 0 /\ n = 0
    BY <1>3, <2>1 DEF To, From
  <2>3. Start(0) = 0
    BY StartIs
  <2> QED BY <1>1, <1>2, <2>2, <2>3
<1>4. CASE s.page # -1
  <2>1. Spans(s, stream.bytes, visible)
    BY <1>1, <1>4 DEF Laid, Known
  <2>2. To(s) <= Start(n) /\ (To(s) >= Start(n) \/ To(s) >= s.totalSize)
    BY <2>1 DEF Spans
  <2>3. To(s) = Start(n)
    <3> HIDE DEF n
    <3> QED BY <1>1, <1>2, <2>2
  <2> QED BY <1>1, <1>2, <2>3
<1> QED BY <1>3, <1>4

\* The next page, behind what is left of this one.
LEMMA ForwardPageInv ==
  ASSUME stream \in Possible, Whereabouts, Scanning("forward"), sc.tail >= 0,
         sc.page + 1 < pageCount, sc' = ForwardPage(ReadPage(sc.page + 1)),
         UNCHANGED <<pc, ended>>
  PROVE  Whereabouts' /\ Quiet
<1> DEFINE n == sc.page + 1
           left == IF sc.boundary THEN LeftOver ELSE <<>>
           t == Len(left)
           x == To(sc) - t
           y == To(sc)
           to == MinOf(Start(n + 1), visible)
           chunk == left \o ReadPage(n)
           zero == 0
<1>1. /\ Known(sc, stream.bytes, visible) /\ Laid(sc, stream.bytes, visible)
      /\ visible \in Nat /\ visible <= Len(stream.bytes) /\ stream.bytes \in Seq(Nat)
      /\ sc.nextLogs = <<>> /\ ended = FALSE /\ pc = "scan" /\ scan = "forward"
      /\ Resting(sc, stream.bytes)
      /\ stream' = stream /\ visible' = visible /\ scan' = scan
  BY ScanningIs
<1>2. n \in Nat /\ y = Start(n) /\ Start(n) < sc.totalSize
  BY <1>1, PageIsRead DEF pageCount
<1>3. /\ y \in Nat /\ sc \in ScannerOf /\ sc.totalSize \in Nat /\ sc.totalSize <= visible
      /\ sc.totalSize >= 1 /\ At(sc) \in Nat /\ At(sc) <= y /\ sc.boundary \in BOOLEAN
  <2>1. Known(sc, stream.bytes, visible)
    BY <1>1
  <2>2. /\ From(sc) \in Nat /\ To(sc) \in Nat /\ Len(sc.chunk) = To(sc) - From(sc)
        /\ sc.chunkOffset \in Nat /\ sc.chunkOffset <= Len(sc.chunk)
    BY <2>1 DEF Known
  <2>3. At(sc) \in Nat /\ At(sc) <= y
    BY <2>2 DEF At
  <2> QED BY <2>1, <2>2, <2>3 DEF Known
<1>4. Piece(left, stream.bytes, x, y) /\ t \in Nat /\ x \in Nat /\ x <= y
      /\ (sc.boundary => x = At(sc))
  <2>1. CASE sc.boundary
    <3>1. Piece(LeftOver, stream.bytes, At(sc), y)
      BY <1>1, LeftOverIs DEF LeftOver
    <3> HIDE DEF y
    <3>2. t = y - At(sc)
      BY <2>1, <3>1 DEF Piece
    <3>3. x = At(sc) /\ t \in Nat
      BY <1>3, <3>2 DEF y
    <3> HIDE DEF x, t
    <3> QED BY <1>3, <2>1, <3>1, <3>3
  <2>2. CASE ~ sc.boundary
    <3>1. left = <<>> /\ t = 0
      BY <2>2
    <3>2. x = y
      BY <1>3, <3>1
    <3> HIDE DEF x, t
    <3>3. Piece(<<>>, stream.bytes, y, y)
      <4> HIDE DEF y
      <4> QED BY <1>3 DEF Piece
    <3> QED BY <1>3, <2>2, <3>1, <3>2, <3>3
  <2> QED BY <2>1, <2>2
<1>a. x = y - t /\ zero \in Nat /\ zero = 0
  OBVIOUS
<1>b. to = MinOf(Start(n + 1), visible) /\ n = sc.page + 1
  OBVIOUS
<1>5. /\ sc' = [sc EXCEPT !.chunk = IF sc.boundary THEN left \o ReadPage(n) ELSE ReadPage(n),
                          !.chunkOffset = zero, !.page = n, !.tail = t]
      /\ ~ sc.boundary => left = <<>>
  <2>1. CASE sc.boundary
    BY <2>1 DEF ForwardPage
  <2>2. CASE ~ sc.boundary
    BY <2>2 DEF ForwardPage
  <2> QED BY <2>1, <2>2
<1> HIDE DEF x, t, left, n, y, to, zero
<1>6. Start(n + 1) = Start(n) + PageSize /\ PageSize \in Nat /\ PageSize > 0
  BY <1>2, NextStart
<1>7. to \in Nat /\ y <= to /\ Start(n) <= visible
  <2>1. Start(n) <= visible /\ visible \in Nat /\ Start(n) \in Nat /\ y = Start(n)
    BY <1>1, <1>2, <1>3, <1>b
  <2> QED BY <1>6, <1>b, <2>1 DEF MinOf
<1>8. Piece(ReadPage(n), stream.bytes, y, to)
  BY <1>1, <1>2, <1>7, <1>b, ReadPageIs
<1>9. Piece(chunk, stream.bytes, x, to)
  <2>1. x \in Int /\ y \in Int /\ to \in Int /\ x <= y /\ y <= to
    BY <1>3, <1>4, <1>7
  <2> QED BY <1>4, <1>8, <2>1, PiecesMeet
<1>c. sc' = [sc EXCEPT !.chunk = chunk, !.chunkOffset = zero, !.page = n, !.tail = t]
  <2>1. ReadPage(n) \in Seq(Nat)
    BY <1>8 DEF Piece
  <2> DEFINE page == ReadPage(n)
  <2>2. <<>> \o page = page
    <3> HIDE DEF page
    <3> QED BY <2>1, ConcatEmptySeq DEF page
  <2>3. (IF sc.boundary THEN left \o ReadPage(n) ELSE ReadPage(n)) = chunk
    BY <1>5, <2>2
  <2> HIDE DEF chunk
  <2> QED BY <1>5, <2>3
<1> HIDE DEF chunk
<1>10. /\ sc'.chunk = chunk /\ sc'.chunkOffset = 0 /\ sc'.page = n
       /\ sc'.tail = t /\ sc'.totalSize = sc.totalSize /\ sc'.nextLogs = <<>>
       /\ sc'.boundary = sc.boundary /\ sc' \in ScannerOf
  <2>1. chunk \in Seq(Nat) /\ n \in Int /\ t \in Int
    BY <1>2, <1>4, <1>9 DEF Piece
  <2>2. sc' \in ScannerOf
    BY <1>3, <1>c, <1>a, <2>1 DEF ScannerOf
  <2>3. /\ sc'.chunk = chunk /\ sc'.chunkOffset = zero /\ sc'.page = n
        /\ sc'.tail = t /\ sc'.totalSize = sc.totalSize /\ sc'.nextLogs = sc.nextLogs
        /\ sc'.boundary = sc.boundary
    BY <1>3, <1>c DEF ScannerOf
  <2> QED BY <1>1, <1>a, <2>2, <2>3
<1>11. Laid(sc', stream.bytes, visible) /\ From(sc') = x
  <2>1. /\ sc'.page = n /\ sc'.tail = t /\ sc'.totalSize >= 1 /\ sc'.totalSize <= visible
        /\ x = Start(n) - t /\ x <= to /\ Piece(sc'.chunk, stream.bytes, x, to)
        /\ sc'.chunkOffset <= to - x
        /\ Start(n) < sc'.totalSize /\ Start(n) <= to
        /\ n \in Nat /\ t \in Nat /\ x \in Nat /\ to \in Nat
    BY <1>2, <1>3, <1>4, <1>7, <1>9, <1>10, <1>a
  <2>2. sc' \in ScannerOf /\ visible \in Nat
    BY <1>1, <1>10
  <2>3. to = MinOf(Start(n + 1), visible)
    BY <1>b
  <2> QED BY <2>1, <2>2, <2>3, LaysInFront
<1>12. Resting(sc', stream.bytes)
  <2>1. At(sc') = x
    BY <1>4, <1>10, <1>11 DEF At
  <2>2. sc'.boundary = sc.boundary
    BY <1>10
  <2> QED BY <1>1, <1>4, <2>1, <2>2 DEF Resting
<1>13. IsAt(sc', stream.bytes, visible, "scan", "forward", FALSE)
  BY <1>1, <1>10, <1>11, <1>12, GoesOn
<1>14. Quiet
  <2>1. At(sc') = x
    BY <1>4, <1>10, <1>11 DEF At
  <2> QED BY <1>1, <1>4, <1>10, <2>1 DEF Quiet
<1> QED BY <1>1, <1>13, <1>14 DEF Whereabouts

\* No page is left: the forward scan has read all that it knows of.
LEMMA ForwardEndInv ==
  ASSUME stream \in Possible, Whereabouts, Scanning("forward"), sc.tail >= 0,
         indexOf(sc.chunk, sc.chunkOffset) < 0, ~ (sc.page + 1 < pageCount),
         EndScan(IF sc.boundary THEN sc ELSE [sc EXCEPT !.chunkOffset = Len(sc.chunk)])
  PROVE  Whereabouts' /\ Quiet
<1>1. /\ Known(sc, stream.bytes, visible) /\ Laid(sc, stream.bytes, visible)
      /\ visible \in Nat /\ visible <= Len(stream.bytes) /\ stream.bytes \in Seq(Nat)
      /\ sc.nextLogs = <<>> /\ ended = FALSE /\ pc = "scan" /\ scan = "forward"
      /\ Resting(sc, stream.bytes)
      /\ stream' = stream /\ visible' = visible /\ scan' = scan
  BY ScanningIs
<1>2. /\ sc.totalSize \in Nat /\ sc.totalSize >= 1 /\ To(sc) \in Nat /\ From(sc) \in Nat
      /\ sc.page \in Int /\ sc.page >= -1 /\ Len(sc.chunk) = To(sc) - From(sc)
      /\ From(sc) <= To(sc) /\ sc.chunkOffset \in Nat /\ sc.chunkOffset <= Len(sc.chunk)
      /\ Piece(sc.chunk, stream.bytes, From(sc), To(sc)) /\ sc \in ScannerOf
      /\ sc.boundary \in BOOLEAN
  BY <1>1 DEF Known
<1>3. sc.page \in Nat /\ Start(sc.page + 1) >= sc.totalSize
  <2> DEFINE n == sc.page + 1
             size == sc.totalSize
  <2>1. ~ (n < CeilDiv(size, PageSize)) /\ n \in Int /\ size \in Int /\ size >= 1 /\ n >= 0
    BY <1>2 DEF pageCount
  <2>2. Start(n) >= size
    <3> HIDE DEF n, size
    <3>1. ~ (Start(n) < size)
      BY <2>1, PagesAre
    <3>2. Start(n) \in Int
      BY <2>1, StartIs
    <3> QED BY <2>1, <3>1, <3>2
  <2>3. n # 0
    <3>1. Start(0) = 0
      BY StartIs
    <3> HIDE DEF n
    <3> QED BY <2>1, <2>2, <3>1
  <2> QED BY <1>2, <2>1, <2>2, <2>3
<1>4. To(sc) >= sc.totalSize
  <2>1. Spans(sc, stream.bytes, visible)
    BY <1>1, <1>3 DEF Laid
  <2>2. To(sc) >= Start(sc.page + 1) \/ To(sc) >= sc.totalSize
    BY <2>1 DEF Spans
  <2>3. Start(sc.page + 1) \in Int
    <3> DEFINE n == sc.page
    <3>1. n \in Nat
      BY <1>3
    <3> HIDE DEF n
    <3>2. Start(n + 1) \in Int
      BY <3>1, NextStart
    <3> QED BY <3>2 DEF n
  <2> QED BY <1>2, <1>3, <2>2, <2>3
<1>5. Bare(stream.bytes, At(sc), To(sc))
  <2> DEFINE x == From(sc)
             y == To(sc)
             from == sc.chunkOffset
  <2>1. /\ x \in Nat /\ y \in Nat /\ x <= y /\ Piece(sc.chunk, stream.bytes, x, y)
        /\ from \in Nat /\ from <= y - x /\ At(sc) = x + from /\ y = To(sc)
        /\ indexOf(sc.chunk, from) < 0
    BY <1>2 DEF At
  <2> HIDE DEF x, y, from
  <2>2. Bare(stream.bytes, x + from, y)
    BY <2>1, FoundForward
  <2> QED BY <2>1, <2>2
<1>6. CASE sc.boundary
  <2>1. sc' = sc /\ pc' = "idle" /\ ended' = TRUE
    BY <1>6 DEF EndScan
  <2>2. Finished(sc, "forward", stream.bytes)
    BY <1>1, <1>3, <1>4, <1>5, <1>6 DEF Finished
  <2>3. IsAt(sc, stream.bytes, visible, "idle", "forward", TRUE)
    BY <1>1, <2>2 DEF IsAt
  <2>4. Quiet
    BY <1>1, <2>1 DEF Quiet
  <2> QED BY <1>1, <2>1, <2>3, <2>4 DEF Whereabouts
<1>7. CASE ~ sc.boundary
  <2> DEFINE t == [sc EXCEPT !.chunkOffset = Len(sc.chunk)]
             co == Len(sc.chunk)
  <2>1. sc' = t /\ pc' = "idle" /\ ended' = TRUE
    BY <1>7 DEF EndScan
  <2>2. co \in Nat /\ co <= Len(sc.chunk) /\ From(sc) + co = To(sc) /\ sc.boundary = FALSE
    BY <1>2, <1>7
  <2>3. Moved(sc, t, co, FALSE)
    <3> HIDE DEF co
    <3> QED BY <1>2, <2>2, MovedIs DEF co
  <2> HIDE DEF t, co
  <2>4. /\ Laid(t, stream.bytes, visible)
        /\ From(t) = From(sc) /\ To(t) = To(sc) /\ At(t) = From(sc) + co
    <3>1. /\ FALSE \in BOOLEAN /\ sc.page >= 0 /\ co \in Nat /\ co <= Len(sc.chunk)
          /\ Known(sc, stream.bytes, visible) /\ Laid(sc, stream.bytes, visible)
          /\ visible \in Nat
      BY <1>1, <1>3, <2>2
    <3> QED BY <2>3, <3>1, MovesWithin
  <2>5. t.nextLogs = <<>> /\ t.tail = sc.tail /\ t.page = sc.page /\ t.totalSize = sc.totalSize
        /\ t.boundary = FALSE
    BY <1>1, <2>3 DEF Moved
  <2>6. Finished(t, "forward", stream.bytes)
    BY <1>3, <1>4, <2>2, <2>4, <2>5 DEF Finished
  <2>7. Resting(t, stream.bytes)
    BY <2>5 DEF Resting
  <2>8. IsAt(t, stream.bytes, visible, "idle", "forward", TRUE)
    BY <1>1, <2>4, <2>5, <2>6, <2>7 DEF IsAt
  <2>9. Quiet
    BY <1>1, <1>7, <2>1, <2>5 DEF Quiet
  <2> QED BY <1>1, <2>1, <2>8, <2>9 DEF Whereabouts
<1> QED BY <1>2, <1>6, <1>7

\* A step of a forward scan.
LEMMA ForwardStepInv ==
  ASSUME stream \in Possible, Whereabouts, ForwardStep
  PROVE  Whereabouts' /\ (Quiet \/ Enters)
<1> DEFINE x == From(sc)
           y == To(sc)
           from == sc.chunkOffset
           found == indexOf(sc.chunk, sc.chunkOffset)
           behind == [sc EXCEPT !.chunkOffset = found + 1]
           block == subarray(sc.chunk, sc.chunkOffset, found + 1)
<1>1. Scanning("forward") /\ sc.tail >= 0
  BY DEF ForwardStep
<1>2. /\ Known(sc, stream.bytes, visible) /\ Laid(sc, stream.bytes, visible)
      /\ visible <= Len(stream.bytes) /\ stream.bytes \in Seq(Nat) /\ Len(stream.bytes) \in Nat
      /\ Resting(sc, stream.bytes) /\ visible \in Nat
  BY <1>1, ScanningIs, LenProperties
<1>3. /\ x \in Nat /\ y \in Nat /\ x <= y /\ y <= visible /\ from \in Nat /\ from <= y - x
      /\ Piece(sc.chunk, stream.bytes, x, y) /\ Len(sc.chunk) = y - x /\ At(sc) = x + from
  BY <1>2 DEF Known, At
<1>4. \/ found >= 0 /\ sc.boundary /\ EnterBlock(behind, block, sc.chunkOffset) /\ UNCHANGED ended
      \/ /\ found >= 0 /\ ~ sc.boundary /\ sc' = [behind EXCEPT !.boundary = TRUE]
         /\ UNCHANGED <<pc, ended>>
      \/ /\ sc.page + 1 < pageCount /\ sc' = ForwardPage(ReadPage(sc.page + 1))
         /\ UNCHANGED <<pc, ended>>
      \/ /\ found < 0 /\ ~ (sc.page + 1 < pageCount)
         /\ EndScan(IF sc.boundary THEN sc ELSE [sc EXCEPT !.chunkOffset = Len(sc.chunk)])
  <2>1. sc.page \in Int /\ pageCount \in Int
    <3>1. sc.page \in Int /\ sc.totalSize \in Int
      BY <1>2 DEF Known
    <3>2. CeilDiv(sc.totalSize, PageSize) \in Int
      BY <3>1, CeilIs
    <3> QED BY <3>1, <3>2 DEF pageCount
  <2> QED BY <2>1 DEF ForwardStep
<1> HIDE DEF x, y
<1>5. /\ found \in Int
      /\ found >= 0 => /\ from <= found /\ found < y - x
                       /\ stream.bytes[x + found + 1] = SEPARATOR
                       /\ Bare(stream.bytes, x + from, x + found)
  BY <1>3, FoundForward
<1> HIDE DEF found
<1>6. ASSUME found >= 0
      PROVE  /\ found \in Nat /\ found < Len(sc.chunk) /\ sc.page \in Nat
             /\ stream.bytes[From(sc) + found + 1] = SEPARATOR
  <2>1. Len(sc.chunk) > 0 /\ found \in Nat /\ found < Len(sc.chunk)
    BY <1>3, <1>5, <1>6
  <2>2. sc.page \in Nat
    BY <1>2, <2>1, HasPage
  <2> QED BY <1>5, <1>6, <2>1, <2>2 DEF x
<1>7. CASE found >= 0 /\ sc.boundary /\ EnterBlock(behind, block, sc.chunkOffset) /\ UNCHANGED ended
  <2> DEFINE co == found + 1
  <2>1. co \in Nat /\ co <= Len(sc.chunk) /\ from < co
    BY <1>3, <1>5, <1>6, <1>7
  <2>2. block \in Seq(Nat) /\ Len(block) > 0 /\ Piece(block, stream.bytes, x + from, x + co)
    <3> DEFINE w == SubSeq(sc.chunk, from + 1, co)
    <3>1. Piece(w, stream.bytes, x + from, x + co)
      <4>1. from <= co /\ x + co <= y
        BY <1>3, <2>1
      <4> HIDE DEF from, co
      <4> QED BY <1>2, <1>3, <2>1, <4>1, PieceOfPiece
    <3>2. w = block
      BY DEF subarray
    <3> HIDE DEF w
    <3>3. w \in Seq(Nat) /\ Len(w) > 0
      BY <1>3, <2>1, <3>1 DEF Piece
    <3> QED BY <3>1, <3>2, <3>3
  <2>3. OneBlock(stream.bytes, x + from, x + co)
    <3>1. x + from \in Nat /\ x + co \in Nat /\ x + from < x + co /\ x + co <= Len(stream.bytes)
      <4> HIDE DEF from, co
      <4> QED BY <1>2, <1>3, <2>1
    <3>2. IsBoundary(stream.bytes, x + from)
      BY <1>2, <1>3, <1>7 DEF Resting
    <3>3. x + co = x + found + 1 /\ (x + co) - 1 = x + found
      BY <1>3, <1>5
    <3> HIDE DEF co
    <3> QED BY <1>5, <1>7, <3>1, <3>2, <3>3 DEF OneBlock
  <2>4. IsBoundary(stream.bytes, From(sc) + co)
    BY <2>3 DEF OneBlock, IsBoundary, x
  <2>5. EnterBlock([sc EXCEPT !.chunkOffset = co], block, sc.chunkOffset) /\ sc.page >= 0
    BY <1>6, <1>7
  <2>6. sc.chunkOffset < co /\ OneBlock(stream.bytes, At(sc), From(sc) + co)
    BY <1>3, <2>1, <2>3 DEF x
  <2>7. Piece(block, stream.bytes, At(sc), From(sc) + co)
    <3> HIDE DEF block, co
    <3> QED BY <1>3, <2>2 DEF x
  <2> HIDE DEF co, block
  <2>8. scan = "forward"
    BY <1>1 DEF Scanning
  <2>9. Enters
    <3>1. co # sc.chunkOffset
      BY <1>3, <2>1, <2>6
    <3> QED BY <1>7, <2>1, <2>2, <2>5, <2>6, <2>7, <2>8, <3>1 DEF Enters
  <2> QED BY <1>1, <1>7, <2>1, <2>2, <2>4, <2>5, <2>6, <2>9, MeetsBlock
<1>8. CASE found >= 0 /\ ~ sc.boundary /\ sc' = [behind EXCEPT !.boundary = TRUE]
           /\ UNCHANGED <<pc, ended>>
  <2>1. /\ found \in Nat /\ found < Len(sc.chunk) /\ sc.page >= 0 /\ ~ sc.boundary
        /\ stream.bytes[From(sc) + found + 1] = SEPARATOR
        /\ sc' = [[sc EXCEPT !.chunkOffset = found + 1] EXCEPT !.boundary = TRUE]
        /\ UNCHANGED <<pc, ended>>
    BY <1>6, <1>8
  <2> QED BY <1>1, <2>1, MeetsBoundary
<1>9. CASE /\ sc.page + 1 < pageCount /\ sc' = ForwardPage(ReadPage(sc.page + 1))
           /\ UNCHANGED <<pc, ended>>
  BY <1>1, <1>9, ForwardPageInv
<1>10. CASE /\ found < 0 /\ ~ (sc.page + 1 < pageCount)
            /\ EndScan(IF sc.boundary THEN sc ELSE [sc EXCEPT !.chunkOffset = Len(sc.chunk)])
  BY <1>1, <1>10, ForwardEndInv DEF found
<1> QED BY <1>4, <1>7, <1>8, <1>9, <1>10

\* A tail in front of the page is dropped, or the page goes back to the position.
LEMMA BackwardDropTailInv ==
  ASSUME stream \in Possible, Whereabouts, BackwardDropTail
  PROVE  Whereabouts' /\ Quiet
<1> DEFINE n == sc.page
           t == sc.tail
           co == sc.chunkOffset
           x == Start(n)
           at == At(sc)
           zero == 0
<1>1. Scanning("backward") /\ t > 0 /\ pc' = pc /\ ended' = ended
  BY DEF BackwardDropTail
<1>2. /\ Known(sc, stream.bytes, visible) /\ Laid(sc, stream.bytes, visible)
      /\ visible \in Nat /\ stream.bytes \in Seq(Nat) /\ visible <= Len(stream.bytes)
      /\ sc.nextLogs = <<>> /\ Resting(sc, stream.bytes) /\ ended = FALSE
      /\ pc = "scan" /\ scan = "backward"
      /\ stream' = stream /\ visible' = visible /\ scan' = scan
  BY <1>1, ScanningIs
<1>3. /\ t \in Nat /\ co \in Nat /\ co <= Len(sc.chunk) /\ sc \in ScannerOf
      /\ sc.totalSize \in Nat /\ sc.totalSize >= 1 /\ sc.totalSize <= visible
      /\ To(sc) \in Nat /\ To(sc) <= visible /\ Len(sc.chunk) = To(sc) - From(sc)
      /\ From(sc) \in Nat /\ Piece(sc.chunk, stream.bytes, From(sc), To(sc))
      /\ at = From(sc) + co
  BY <1>1, <1>2 DEF Known, At
<1>4. n \in Nat
  <2>1. sc.tail # 0
    BY <1>1, <1>3
  <2> QED BY <1>2, <2>1, HasPage
<1>5. Spans(sc, stream.bytes, visible)
  BY <1>2, <1>4 DEF Laid
<1>6. x \in Nat /\ Start(n + 1) = x + PageSize /\ PageSize \in Nat /\ PageSize > 0
  <2> HIDE DEF n
  <2> QED BY <1>4, NextStart
<1>7. /\ From(sc) = x - t /\ x < sc.totalSize /\ t <= Len(sc.chunk)
      /\ To(sc) <= Start(n + 1) /\ (To(sc) >= Start(n + 1) \/ To(sc) >= sc.totalSize)
  BY <1>1, <1>3, <1>4, <1>5 DEF Spans, From
<1>8. at \in Nat /\ at <= To(sc)
  BY <1>3
<1> HIDE DEF at
<1> DEFINE offset == co - t
           back == CeilDiv(-offset, PageSize)
           delta == -back
<1>9. offset \in Int /\ offset = at - x
  BY <1>3, <1>6, <1>7, SMTT(30)
<1>10. zero \in Int /\ zero = 0
  OBVIOUS
<1> HIDE DEF zero
<1>11. CASE offset < 0
  <2> DEFINE m == n + delta
             chunk == ReadPage(m)
             new == offset - delta * PageSize
  <2>1. sc' = [sc EXCEPT !.chunk = chunk, !.tail = zero, !.chunkOffset = new, !.page = m]
    BY <1>10, <1>11 DEF BackwardDropTail
  <2> HIDE DEF n, t, co
  <2>2. back \in Int /\ Start(back) >= -offset /\ Start(back) < (-offset) + PageSize
    <3>1. -offset \in Int
      BY <1>9
    <3> HIDE DEF offset
    <3> QED BY <3>1, CeilIs
  <2> HIDE DEF offset, back
  <2>3. Start(back) \in Int /\ Start(-back) = -Start(back) /\ Start(-back) \in Int
    <3>1. back + (-back) = 0 /\ -back \in Int
      BY <2>2
    <3>2. Start(back + (-back)) = Start(back) + Start(-back)
      BY <2>2, <3>1, SumOfPages
    <3>3. Start(0) = 0 /\ Start(back) \in Int /\ Start(-back) \in Int
      BY <2>2, <3>1, StartIs
    <3>4. Start(0) = Start(back) + Start(-back)
      BY <3>1, <3>2
    <3> QED BY <3>3, <3>4
  <2>4. delta * PageSize = Start(-back)
    BY DEF Start
  <2>5. Start(m) = x - Start(back) /\ m \in Int
    <3>1. Start(n + (-back)) = Start(n) + Start(-back)
      <4>1. -back \in Int
        BY <2>2
      <4> QED BY <1>4, <4>1, SumOfPages
    <3>2. m = n + (-back) /\ m \in Int
      BY <1>4, <2>2
    <3> HIDE DEF m
    <3> QED BY <1>6, <2>3, <3>1, <3>2
  <2>n. new = offset - Start(-back)
    BY <2>4
  <2> HIDE DEF m, new
  <2>6. new = at - Start(m)
    BY <1>6, <1>8, <1>9, <2>3, <2>5, <2>n
  <2>7. Start(m) <= at /\ at < Start(m) + PageSize /\ Start(m) < x
    BY <1>6, <1>8, <1>9, <1>11, <2>2, <2>3, <2>5
  <2>8. m \in Nat
    <3>1. m < 0 => Start(m) + PageSize <= Start(0)
      BY <2>5, StartsInOrder
    <3>2. Start(0) = 0 /\ Start(m) \in Int
      BY <2>5, StartIs
    <3> QED BY <1>6, <1>8, <2>5, <2>7, <3>1, <3>2
  <2>9. Start(m + 1) = Start(m) + PageSize /\ Start(m) \in Nat
    BY <2>8, NextStart
  <2>10. Start(m) < sc.totalSize /\ Start(m) <= visible /\ at <= visible
    <3>1. x < sc.totalSize /\ at <= visible
      <4>1. at <= To(sc) /\ at \in Nat /\ To(sc) \in Nat /\ To(sc) <= visible /\ visible \in Nat
        BY <1>2, <1>3, <1>8
      <4> QED BY <1>7, <4>1
    <3>2. x \in Int /\ sc.totalSize \in Int /\ visible \in Int
      BY <1>2, <1>3, <1>6
    <3> HIDE DEF x, at
    <3> QED BY <1>3, <2>7, <2>9, <3>1, <3>2
  <2>13. chunk \in Seq(Nat) /\ new \in Nat
    <3> DEFINE to == MinOf(Start(m + 1), visible)
    <3>1. to \in Nat
      BY <1>2, <1>6, <2>9 DEF MinOf
    <3>2. to = MinOf(Start(m + 1), visible)
      OBVIOUS
    <3> HIDE DEF to
    <3>4. Piece(ReadPage(m), stream.bytes, Start(m), to)
      BY <1>2, <2>8, <2>10, <3>1, <3>2, ReadPageIs
    <3> QED BY <1>8, <2>6, <2>7, <2>9, <3>4 DEF Piece
  <2>c. chunk = ReadPage(m)
    OBVIOUS
  <2> HIDE DEF chunk
  <2>14. /\ sc' \in ScannerOf /\ sc'.chunk = chunk /\ sc'.chunkOffset = new /\ sc'.page = m
         /\ sc'.tail = zero /\ sc'.totalSize = sc.totalSize /\ sc'.nextLogs = sc.nextLogs
         /\ sc'.boundary = sc.boundary
    BY <1>3, <1>10, <2>1, <2>5, <2>13 DEF ScannerOf
  <2>15. Laid(sc', stream.bytes, visible) /\ At(sc') = at
    <3>1. /\ sc'.page = m /\ sc'.tail = 0 /\ sc'.chunk = ReadPage(m)
          /\ sc'.chunkOffset = at - Start(m) /\ sc'.totalSize >= 1 /\ sc'.totalSize <= visible
          /\ Start(m) < sc'.totalSize /\ Start(m) <= at /\ at <= Start(m + 1) /\ at <= visible
      BY <1>3, <1>6, <1>8, <1>10, <2>6, <2>7, <2>9, <2>10, <2>14, <2>c
    <3> QED BY <1>2, <1>8, <2>8, <2>14, <3>1, OnPage
  <2>16. Resting(sc', stream.bytes)
    BY <1>2, <2>14, <2>15 DEF Resting, at
  <2>17. IsAt(sc', stream.bytes, visible, "scan", "backward", FALSE)
    BY <1>2, <2>14, <2>15, <2>16, GoesOn
  <2>18. Quiet
    BY <1>1, <1>2, <2>14, <2>15 DEF Quiet, at
  <2> QED BY <1>1, <1>2, <2>17, <2>18 DEF Whereabouts
<1>12. CASE ~ (offset < 0)
  <2> DEFINE kept == subarray(sc.chunk, t, Len(sc.chunk))
             y == To(sc)
  <2>1. sc' = [sc EXCEPT !.chunk = kept, !.tail = zero, !.chunkOffset = offset]
    BY <1>10, <1>12 DEF BackwardDropTail
  <2>2. Piece(kept, stream.bytes, x, y)
    <3> DEFINE from == From(sc)
               len == Len(sc.chunk)
               w == SubSeq(sc.chunk, t + 1, len)
    <3>1. /\ from \in Nat /\ len \in Nat /\ t \in Nat /\ t <= len /\ y \in Nat /\ from + len = y
          /\ from + t = x /\ Piece(sc.chunk, stream.bytes, from, y) /\ from + len <= y
      <4>1. from = x - t /\ t <= len
        BY <1>7
      <4>2. /\ from \in Nat /\ y \in Nat /\ len = y - from /\ t \in Nat
            /\ Piece(sc.chunk, stream.bytes, from, y)
        BY <1>3
      <4> HIDE DEF from, len, x, t, y
      <4> QED BY <1>6, <4>1, <4>2
    <3>2. w = kept
      BY DEF subarray
    <3> HIDE DEF from, len, t, x, y, kept
    <3>3. Piece(w, stream.bytes, from + t, from + len)
      BY <1>2, <3>1, PieceOfPiece
    <3> HIDE DEF w
    <3> QED BY <3>1, <3>2, <3>3
  <2>3. x <= y /\ y \in Nat /\ offset <= y - x /\ offset \in Nat
    BY <1>3, <1>6, <1>8, <1>9, <1>12, SMTT(30)
  <2>4. sc.page = n /\ y <= visible /\ y <= Start(n + 1)
        /\ (y >= Start(n + 1) \/ y >= sc.totalSize)
    BY <1>3, <1>7
  <2>5. kept \in Seq(Nat)
    BY <2>2 DEF Piece
  <2>a. x = Start(n)
    OBVIOUS
  <2> HIDE DEF kept, offset, y, x
  <2>6. /\ sc' \in ScannerOf /\ sc'.chunk = kept /\ sc'.chunkOffset = offset /\ sc'.page = sc.page
        /\ sc'.tail = zero /\ sc'.totalSize = sc.totalSize /\ sc'.nextLogs = sc.nextLogs
        /\ sc'.boundary = sc.boundary
    BY <1>3, <1>10, <2>1, <2>3, <2>5 DEF ScannerOf
  <2>7. Laid(sc', stream.bytes, visible) /\ From(sc') = x
    <3> HIDE DEF n
    <3>1. /\ sc'.page = n /\ sc'.tail = 0 /\ sc'.totalSize >= 1 /\ sc'.totalSize <= visible
          /\ x = Start(n) - 0 /\ x <= y /\ Piece(sc'.chunk, stream.bytes, x, y)
          /\ sc'.chunkOffset <= y - x
          /\ Start(n) < sc'.totalSize /\ Start(n) <= y /\ 0 \in Nat /\ y \in Nat
          /\ n \in Nat /\ x \in Nat
          /\ EndsWithPage(n, y, sc'.totalSize, visible)
      <4>1. EndsWithPage(n, y, sc'.totalSize, visible)
        BY <2>4, <2>6 DEF EndsWithPage
      <4> QED BY <4>1, <1>3, <1>4, <1>6, <1>7, <1>10, <2>2, <2>3, <2>4, <2>6, <2>a
    <3>2. sc' \in ScannerOf /\ visible \in Nat
      BY <1>2, <2>6
    <3>3. LiesAt(sc', stream.bytes, visible, n, 0, x, y)
      BY <3>1 DEF LiesAt
    <3> QED BY <3>1, <3>2, <3>3, LaysWithin
  <2>8. At(sc') = at
    BY <1>6, <1>8, <1>9, <2>6, <2>7 DEF At
  <2>9. Resting(sc', stream.bytes)
    BY <1>2, <2>6, <2>8 DEF Resting, at
  <2>10. IsAt(sc', stream.bytes, visible, "scan", "backward", FALSE)
    BY <1>2, <2>6, <2>7, <2>9, GoesOn
  <2>11. Quiet
    BY <1>1, <1>2, <2>6, <2>8 DEF Quiet, at
  <2> QED BY <1>1, <1>2, <2>10, <2>11 DEF Whereabouts
<1> QED BY <1>11, <1>12

\* The page before, with what is left of this one behind it.
LEMMA BackwardPageInv ==
  ASSUME stream \in Possible, Whereabouts, Scanning("backward"), sc.tail <= 0,
         sc.page > 0, sc' = BackwardPage(ReadPage(sc.page - 1)),
         UNCHANGED <<pc, ended>>
  PROVE  Whereabouts' /\ Quiet
<1> DEFINE m == sc.page - 1
           left == IF sc.boundary THEN subarray(sc.chunk, 0, sc.chunkOffset) ELSE <<>>
           l == Len(left)
           x == Start(m)
           y == From(sc)
           e == y + l
           chunk == ReadPage(m) \o left
           tail == -l
           total == sc.totalSize
           c == PagesOf(sc)
           at == At(sc)
<1>1. /\ Known(sc, stream.bytes, visible) /\ Laid(sc, stream.bytes, visible)
      /\ visible \in Nat /\ visible <= Len(stream.bytes) /\ stream.bytes \in Seq(Nat)
      /\ sc.nextLogs = <<>> /\ ended = FALSE /\ pc = "scan" /\ scan = "backward"
      /\ Resting(sc, stream.bytes)
      /\ stream' = stream /\ visible' = visible /\ scan' = scan
  BY ScanningIs
<1>2. /\ sc \in ScannerOf /\ sc.totalSize \in Nat /\ sc.totalSize <= visible
      /\ sc.totalSize >= 1 /\ sc.boundary \in BOOLEAN
      /\ y \in Nat /\ To(sc) \in Nat /\ Len(sc.chunk) = To(sc) - y /\ To(sc) <= visible
      /\ sc.chunkOffset \in Nat /\ sc.chunkOffset <= Len(sc.chunk)
      /\ sc.page \in Int /\ sc.tail \in Int
      /\ Piece(sc.chunk, stream.bytes, y, To(sc))
  BY <1>1 DEF Known
<1>3. at \in Nat /\ y <= at /\ at <= To(sc) /\ at = y + sc.chunkOffset /\ m \in Nat
  BY <1>2 DEF At
<1>4. /\ Start(sc.page) < sc.totalSize /\ To(sc) <= Start(c)
  <2>0. sc.page >= 0
    BY <1>2
  <2>1. Spans(sc, stream.bytes, visible)
    BY <1>1, <2>0 DEF Laid
  <2> QED BY <2>1 DEF Spans
<1>5. /\ x \in Nat /\ Start(m + 1) = x + PageSize /\ PageSize \in Nat /\ PageSize > 0
      /\ Start(m + 1) = Start(sc.page)
  <2>1. m + 1 = sc.page
    BY <1>2
  <2> HIDE DEF m
  <2> QED BY <1>3, <2>1, NextStart
<1>6. y = Start(m + 1)
  <2>1. Start(sc.page) \in Int
    BY <1>5
  <2> QED BY <1>2, <1>5, <2>1 DEF From
<1> HIDE DEF y, at
<1>7. Piece(left, stream.bytes, y, e) /\ l \in Nat /\ e \in Nat /\ e <= To(sc)
      /\ (sc.boundary => e = at)
  <2>1. CASE sc.boundary
    <3>1. Piece(subarray(sc.chunk, 0, sc.chunkOffset), stream.bytes, y, at)
      BY <1>1, PassedIs DEF y, at
    <3>2. left = subarray(sc.chunk, 0, sc.chunkOffset)
      BY <2>1
    <3> HIDE DEF left
    <3>3. l = at - y
      BY <3>1, <3>2 DEF Piece
    <3> HIDE DEF l
    <3>4. e = at
      BY <1>2, <1>3, <3>3
    <3> HIDE DEF e
    <3> QED BY <1>2, <1>3, <2>1, <3>1, <3>2, <3>3, <3>4
  <2>2. CASE ~ sc.boundary
    <3>1. left = <<>> /\ l = 0
      BY <2>2
    <3> HIDE DEF left, l
    <3>2. e = y
      BY <1>2, <3>1
    <3> HIDE DEF e
    <3>3. Piece(<<>>, stream.bytes, y, y)
      BY <1>2 DEF Piece
    <3> QED BY <1>2, <1>3, <2>2, <3>1, <3>2, <3>3
  <2> QED BY <2>1, <2>2
<1>8. sc' = [sc EXCEPT !.chunk = chunk, !.chunkOffset = Len(chunk), !.page = m, !.tail = tail]
  BY DEF BackwardPage
<1>9. tail = -l /\ e = y + l
  OBVIOUS
<1> HIDE DEF l, e, tail, left, m
<1>10. x < total /\ y <= visible /\ x <= visible
  <2>1. Start(sc.page) < total /\ total \in Nat /\ total <= visible /\ visible \in Nat
    BY <1>1, <1>2, <1>4
  <2>2. Start(sc.page) = x + PageSize /\ y = x + PageSize
    BY <1>5, <1>6
  <2> HIDE DEF total, x
  <2> QED BY <1>5, <2>1, <2>2
<1>11. Piece(ReadPage(m), stream.bytes, x, y)
  <2>1. y = MinOf(Start(m + 1), visible)
    BY <1>2, <1>3, <1>6, <1>10, <1>1 DEF MinOf
  <2>2. Start(m) <= visible
    BY <1>10
  <2> QED BY <1>1, <1>2, <1>3, <2>1, <2>2, ReadPageIs
<1> HIDE DEF x
<1>12. Piece(chunk, stream.bytes, x, e)
  <2>1. x \in Int /\ y \in Int /\ e \in Int /\ x <= y /\ y <= e
    BY <1>2, <1>5, <1>6, <1>7, <1>9, SMTT(30)
  <2> QED BY <1>7, <1>11, <2>1, PiecesMeet
<1> HIDE DEF chunk
<1>13. Len(chunk) = e - x /\ chunk \in Seq(Nat) /\ Len(chunk) \in Nat
  <2>1. Len(chunk) = e - x /\ chunk \in Seq(Nat)
    BY <1>12 DEF Piece
  <2> QED BY <2>1, LenProperties
<1> DEFINE co == Len(chunk)
<1>a. co = Len(chunk)
  OBVIOUS
<1> HIDE DEF co
<1>14. /\ sc'.chunk = chunk /\ sc'.chunkOffset = co /\ sc'.page = m
       /\ sc'.tail = tail /\ sc'.totalSize = total /\ sc'.nextLogs = <<>>
       /\ sc'.boundary = sc.boundary /\ sc' \in ScannerOf
  <2>0. sc' = [sc EXCEPT !.chunk = chunk, !.chunkOffset = co, !.page = m, !.tail = tail]
    BY <1>8, <1>a
  <2>1. m \in Int /\ tail \in Int /\ co \in Nat
    BY <1>3, <1>7, <1>9, <1>13, <1>a
  <2>2. sc' \in ScannerOf
    BY <1>2, <1>13, <2>0, <2>1 DEF ScannerOf
  <2>3. /\ sc'.chunk = chunk /\ sc'.chunkOffset = co /\ sc'.page = m
        /\ sc'.tail = tail /\ sc'.totalSize = sc.totalSize /\ sc'.nextLogs = sc.nextLogs
        /\ sc'.boundary = sc.boundary
    BY <1>2, <2>0 DEF ScannerOf
  <2> QED BY <1>1, <2>2, <2>3
<1>15. From(sc') = x /\ To(sc') = e /\ PagesOf(sc') = c
  <2>1. From(sc') = x
    <3>1. tail <= 0 /\ m >= 0 /\ tail \in Int /\ m \in Int
      BY <1>3, <1>7, <1>9
    <3>2. From(sc') = Start(m) - 0
      <4>1. sc'.page = m /\ sc'.tail = tail
        BY <1>14
      <4>2. ~ (sc'.page < 0) /\ ~ (sc'.tail > 0)
        BY <3>1, <4>1
      <4> QED BY <4>1, <4>2 DEF From
    <3> QED BY <1>5, <3>2 DEF x
  <2>2. To(sc') = e
    BY <1>5, <1>7, <1>13, <1>14, <2>1 DEF To
  <2>3. PagesOf(sc') = c
    BY <1>14 DEF PagesOf
  <2> QED BY <2>1, <2>2, <2>3
<1>16. Spans(sc', stream.bytes, visible)
  <2> HIDE DEF c, total
  <2>1. Start(m) < total /\ 0 <= x /\ e <= visible
    BY <1>1, <1>2, <1>5, <1>7, <1>10 DEF x
  <2>2. e <= Start(c)
    <3>1. c \in Int
      <4>1. total \in Int
        BY <1>2 DEF total
      <4> QED BY <4>1, CeilIs DEF c, PagesOf, total
    <3>2. Start(c) \in Int
      BY <3>1, StartIs
    <3> QED BY <1>2, <1>4, <1>7, <3>2
  <2>3. tail >= 0 => tail = 0 /\ e = Start(m + 1)
    BY <1>2, <1>6, <1>7, <1>9
  <2>4. e = Start(m + 1) - tail
    BY <1>2, <1>6, <1>7, <1>9
  <2>5. Start(m + 1) \in Nat /\ tail \in Int
    BY <1>5, <1>7, <1>9
  <2>6. Piece(sc'.chunk, stream.bytes, From(sc'), To(sc'))
    BY <1>12, <1>14, <1>15
  <2>7. sc'.tail >= 0 => /\ sc'.tail <= Len(sc'.chunk)
                         /\ To(sc') <= Start(sc'.page + 1)
                         /\ To(sc') >= Start(sc'.page + 1) \/ To(sc') >= sc'.totalSize
    BY <1>13, <1>14, <1>15, <2>3, <2>5
  <2>8. sc'.tail < 0 => To(sc') = Start(sc'.page + 1) - sc'.tail
    BY <1>14, <1>15, <2>4
  <2>9. Start(sc'.page) < sc'.totalSize /\ 0 <= From(sc') /\ To(sc') <= visible
        /\ To(sc') <= Start(PagesOf(sc'))
    BY <1>14, <1>15, <2>1, <2>2 DEF total, c
  <2> QED BY <2>6, <2>7, <2>8, <2>9 DEF Spans
<1>17. Laid(sc', stream.bytes, visible)
  <2>1. sc'.totalSize >= 1 /\ sc'.totalSize <= visible /\ sc'.page >= 0
        /\ sc'.chunkOffset <= Len(sc'.chunk)
    BY <1>2, <1>3, <1>13, <1>14, <1>a
  <2> QED BY <1>3, <1>14, <1>16, <2>1 DEF Laid
<1>18. Resting(sc', stream.bytes)
  <2>1. At(sc') = e
    BY <1>5, <1>7, <1>13, <1>14, <1>15, <1>a DEF At
  <2>2. sc'.boundary = sc.boundary
    BY <1>14
  <2> QED BY <1>1, <1>7, <2>1, <2>2 DEF Resting, at
<1>19. IsAt(sc', stream.bytes, visible, "scan", "backward", FALSE)
  BY <1>1, <1>14, <1>17, <1>18, GoesOn
<1>20. Quiet
  <2>1. At(sc') = e
    BY <1>5, <1>7, <1>13, <1>14, <1>15, <1>a DEF At
  <2> QED BY <1>1, <1>7, <1>14, <2>1 DEF Quiet, at
<1> QED BY <1>1, <1>19, <1>20 DEF Whereabouts

\* Without a tail in front, and on the first page, a chunk starts with the stream.
LEMMA StartsAtZero ==
  ASSUME NEW s, NEW bytes, NEW size, Known(s, bytes, size), s.page <= 0, s.tail <= 0
  PROVE  From(s) = 0
<1>1. s.page \in Int /\ s.page >= -1 /\ s.tail \in Int
  BY DEF Known
<1>2. Start(0) = 0
  BY StartIs
<1>3. CASE s.page < 0
  BY <1>3 DEF From
<1>4. CASE s.page = 0
  BY <1>1, <1>2, <1>4 DEF From
<1> QED BY <1>1, <1>3, <1>4

\* No page is left: the backward scan has come to the first byte.
LEMMA BackwardEndInv ==
  ASSUME stream \in Possible, Whereabouts, Scanning("backward"), sc.tail <= 0, sc.page <= 0,
         ~ (sc.boundary /\ sc.chunkOffset > 0),
         EndScan([[sc EXCEPT !.chunkOffset = 0] EXCEPT !.boundary = TRUE])
  PROVE  Whereabouts' /\ Quiet
<1> DEFINE t == [[sc EXCEPT !.chunkOffset = 0] EXCEPT !.boundary = TRUE]
<1>1. /\ Known(sc, stream.bytes, visible) /\ Laid(sc, stream.bytes, visible)
      /\ visible \in Nat /\ visible <= Len(stream.bytes) /\ stream.bytes \in Seq(Nat)
      /\ sc.nextLogs = <<>> /\ ended = FALSE /\ pc = "scan" /\ scan = "backward"
      /\ stream' = stream /\ visible' = visible /\ scan' = scan
  BY ScanningIs
<1>2. sc' = t /\ pc' = "idle" /\ ended' = TRUE
  BY DEF EndScan
<1>3. From(sc) = 0
  BY <1>1, StartsAtZero
<1>4. sc \in ScannerOf /\ 0 \in Nat /\ 0 <= Len(sc.chunk) /\ sc.page >= -1 /\ sc.page \in Int
  <2>1. sc \in ScannerOf /\ To(sc) \in Nat /\ From(sc) <= To(sc) /\ From(sc) \in Nat
        /\ Len(sc.chunk) = To(sc) - From(sc) /\ sc.page >= -1 /\ sc.page \in Int
    BY <1>1 DEF Known
  <2> QED BY <2>1
<1>5. Moved(sc, t, 0, TRUE)
  BY <1>4, MovedIs
<1> HIDE DEF t
<1>6. t.nextLogs = <<>> /\ t.boundary = TRUE /\ t.page = sc.page /\ t.tail = sc.tail
      /\ t.chunk = sc.chunk /\ t.chunkOffset = 0 /\ t \in ScannerOf
  BY <1>1, <1>5 DEF Moved
<1>7. Laid(t, stream.bytes, visible) /\ At(t) = 0
  <2>1. CASE sc.page >= 0
    <3>1. TRUE \in BOOLEAN /\ Known(sc, stream.bytes, visible) /\ Laid(sc, stream.bytes, visible)
          /\ visible \in Nat /\ 0 \in Nat /\ 0 <= Len(sc.chunk)
      BY <1>1, <1>4
    <3>2. Laid(t, stream.bytes, visible) /\ At(t) = From(sc) + 0
      BY <1>5, <2>1, <3>1, MovesWithin
    <3> QED BY <1>3, <3>2
  <2>2. CASE sc.page = -1
    <3>1. Fresh(sc) /\ t.totalSize = sc.totalSize
      BY <1>1, <1>5, <2>2 DEF Laid, Moved
    <3>2. Fresh(t)
      BY <1>6, <3>1 DEF Fresh
    <3>3. From(t) = 0
      BY <1>6, <2>2 DEF From
    <3>4. Laid(t, stream.bytes, visible)
      BY <1>1, <1>4, <1>6, <2>2, <3>1, <3>2 DEF Laid
    <3>5. At(t) = 0
      BY <1>6, <3>3 DEF At
    <3> QED BY <3>4, <3>5
  <2> QED BY <1>4, <2>1, <2>2
<1>8. Resting(t, stream.bytes) /\ Finished(t, "backward", stream.bytes)
  BY <1>6, <1>7 DEF Resting, IsBoundary, Finished
<1>9. IsAt(t, stream.bytes, visible, "idle", "backward", TRUE)
  BY <1>1, <1>6, <1>7, <1>8 DEF IsAt
<1>10. Quiet
  <2>1. sc.boundary => At(sc) = 0
    <3>1. sc.chunkOffset \in Nat
      BY <1>1 DEF Known
    <3> QED BY <1>3, <3>1 DEF At
  <2> QED BY <1>1, <1>2, <1>6, <1>7, <2>1 DEF Quiet
<1> QED BY <1>1, <1>2, <1>9, <1>10 DEF Whereabouts

\* A step of a backward scan.
LEMMA BackwardStepInv ==
  ASSUME stream \in Possible, Whereabouts, BackwardStep
  PROVE  Whereabouts' /\ (Quiet \/ Enters)
<1> DEFINE x == From(sc)
           y == To(sc)
           co == sc.chunkOffset
           upTo == co - (IF sc.boundary THEN 2 ELSE 1)
           found == lastIndexOf(sc.chunk, upTo)
           behind == [sc EXCEPT !.chunkOffset = found + 1]
           start == [sc EXCEPT !.chunkOffset = 0]
           block == subarray(sc.chunk, found + 1, sc.chunkOffset)
           first == subarray(sc.chunk, 0, sc.chunkOffset)
<1>1. Scanning("backward") /\ sc.tail <= 0
  BY DEF BackwardStep
<1>2. /\ Known(sc, stream.bytes, visible) /\ Laid(sc, stream.bytes, visible)
      /\ visible <= Len(stream.bytes) /\ stream.bytes \in Seq(Nat) /\ Len(stream.bytes) \in Nat
      /\ Resting(sc, stream.bytes) /\ visible \in Nat
  BY <1>1, ScanningIs, LenProperties
<1>3. /\ x \in Nat /\ y \in Nat /\ x <= y /\ y <= visible /\ co \in Nat /\ co <= y - x
      /\ Piece(sc.chunk, stream.bytes, x, y) /\ Len(sc.chunk) = y - x /\ At(sc) = x + co
      /\ sc.boundary \in BOOLEAN
  BY <1>2 DEF Known, At
<1>4. \/ found >= 0 /\ sc.boundary /\ EnterBlock(behind, block, sc.chunkOffset) /\ UNCHANGED ended
      \/ /\ found >= 0 /\ ~ sc.boundary /\ sc' = [behind EXCEPT !.boundary = TRUE]
         /\ UNCHANGED <<pc, ended>>
      \/ /\ sc.page > 0 /\ sc' = BackwardPage(ReadPage(sc.page - 1))
         /\ UNCHANGED <<pc, ended>>
      \/ /\ found < 0 /\ sc.page <= 0 /\ sc.boundary /\ sc.chunkOffset > 0
         /\ EnterBlock(start, first, sc.chunkOffset) /\ UNCHANGED ended
      \/ /\ sc.page <= 0 /\ ~ (sc.boundary /\ sc.chunkOffset > 0)
         /\ EndScan([start EXCEPT !.boundary = TRUE])
  BY DEF BackwardStep
<1>5. upTo \in Int /\ upTo < y - x /\ (sc.boundary => upTo = co - 2) /\ upTo < co
  <2>1. co \in Nat /\ co <= y - x /\ x \in Nat /\ y \in Nat
    BY <1>3
  <2> HIDE DEF co, x, y
  <2> QED BY <2>1
<1> HIDE DEF x, y, upTo
<1>6. /\ found \in Int
      /\ found >= 0 => /\ found <= upTo
                       /\ stream.bytes[x + found + 1] = SEPARATOR
                       /\ Bare(stream.bytes, x + found + 1, x + upTo + 1)
      /\ found < 0 => Bare(stream.bytes, x, x + upTo + 1)
  BY <1>3, <1>5, FoundBackward
<1> HIDE DEF found, co
<1>7. ASSUME found >= 0
      PROVE  /\ found \in Nat /\ found < Len(sc.chunk) /\ sc.page \in Nat
             /\ stream.bytes[From(sc) + found + 1] = SEPARATOR
  <2>1. Len(sc.chunk) > 0 /\ found \in Nat /\ found < Len(sc.chunk)
    BY <1>3, <1>5, <1>6, <1>7
  <2>2. sc.page \in Nat
    BY <1>2, <2>1, HasPage
  <2> QED BY <1>6, <1>7, <2>1, <2>2 DEF x
<1>8. ASSUME sc.boundary, co > 0 PROVE stream.bytes[x + co] = SEPARATOR
  <2>1. IsBoundary(stream.bytes, x + co)
    BY <1>2, <1>3, <1>8 DEF Resting
  <2>2. x + co # 0
    BY <1>3, <1>8
  <2> QED BY <2>1, <2>2 DEF IsBoundary
<1>9. ASSUME sc.boundary, co > 0, NEW b \in Nat, b < co, IsBoundary(stream.bytes, x + b),
             Bare(stream.bytes, x + b, x + upTo + 1)
      PROVE  /\ OneBlock(stream.bytes, x + b, x + co)
             /\ subarray(sc.chunk, b, sc.chunkOffset) \in Seq(Nat)
             /\ Len(subarray(sc.chunk, b, sc.chunkOffset)) > 0
             /\ Piece(subarray(sc.chunk, b, sc.chunkOffset), stream.bytes, x + b, x + co)
  <2>1. OneBlock(stream.bytes, x + b, x + co)
    <3>1. x + b \in Nat /\ x + co \in Nat /\ x + b < x + co /\ x + co <= Len(stream.bytes)
      BY <1>2, <1>3, <1>9
    <3>2. (x + co) - 1 = x + upTo + 1
      BY <1>3, <1>5, <1>9
    <3> QED BY <1>8, <1>9, <3>1, <3>2 DEF OneBlock
  <2> DEFINE w == SubSeq(sc.chunk, b + 1, co)
  <2>2. Piece(w, stream.bytes, x + b, x + co)
    <3>1. b <= co /\ x + co <= y
      BY <1>3, <1>9
    <3> QED BY <1>2, <1>3, <1>9, <3>1, PieceOfPiece
  <2>3. w = subarray(sc.chunk, b, sc.chunkOffset)
    BY DEF subarray, co
  <2> HIDE DEF w
  <2>4. w \in Seq(Nat) /\ Len(w) > 0
    BY <1>3, <1>9, <2>2 DEF Piece
  <2> QED BY <2>1, <2>2, <2>3, <2>4
<1>10. CASE found >= 0 /\ sc.boundary /\ EnterBlock(behind, block, sc.chunkOffset)
            /\ UNCHANGED ended
  <2> DEFINE b == found + 1
  <2>1. b \in Nat /\ b <= Len(sc.chunk) /\ b < co /\ co > 0
    BY <1>3, <1>5, <1>6, <1>7, <1>10, SMTT(30)
  <2>2. x + b = x + found + 1
    BY <1>3, <1>6
  <2>3. IsBoundary(stream.bytes, x + b)
    BY <1>6, <1>10, <2>2 DEF IsBoundary
  <2>4. Bare(stream.bytes, x + b, x + upTo + 1)
    BY <1>6, <1>10, <2>2
  <2>b. b = found + 1
    OBVIOUS
  <2> HIDE DEF b
  <2>5. /\ OneBlock(stream.bytes, x + b, x + co)
        /\ subarray(sc.chunk, b, sc.chunkOffset) \in Seq(Nat)
        /\ Len(subarray(sc.chunk, b, sc.chunkOffset)) > 0
        /\ Piece(subarray(sc.chunk, b, sc.chunkOffset), stream.bytes, x + b, x + co)
    BY <1>9, <1>10, <2>1, <2>3, <2>4
  <2> DEFINE w == subarray(sc.chunk, b, sc.chunkOffset)
  <2>6. EnterBlock([sc EXCEPT !.chunkOffset = b], w, sc.chunkOffset)
    BY <1>10, <2>b
  <2>7. /\ w \in Seq(Nat) /\ Len(w) > 0 /\ sc.page >= 0 /\ sc.boundary
        /\ IsBoundary(stream.bytes, From(sc) + b)
        /\ sc.chunkOffset > b /\ OneBlock(stream.bytes, From(sc) + b, At(sc))
        /\ Piece(w, stream.bytes, From(sc) + b, At(sc))
        /\ UNCHANGED ended
    BY <1>3, <1>7, <1>10, <2>1, <2>3, <2>5 DEF x, co
  <2> HIDE DEF w
  <2>9. Enters
    <3>1. scan = "backward" /\ b # sc.chunkOffset
      BY <1>1, <1>3, <2>1 DEF Scanning, co
    <3> QED BY <2>1, <2>6, <2>7, <3>1 DEF Enters
  <2> QED BY <1>1, <2>1, <2>6, <2>7, <2>9, MeetsBlock
<1>11. CASE found >= 0 /\ ~ sc.boundary /\ sc' = [behind EXCEPT !.boundary = TRUE]
            /\ UNCHANGED <<pc, ended>>
  <2>1. /\ found \in Nat /\ found < Len(sc.chunk) /\ sc.page >= 0 /\ ~ sc.boundary
        /\ stream.bytes[From(sc) + found + 1] = SEPARATOR
        /\ sc' = [[sc EXCEPT !.chunkOffset = found + 1] EXCEPT !.boundary = TRUE]
        /\ UNCHANGED <<pc, ended>>
    BY <1>7, <1>11
  <2> QED BY <1>1, <2>1, MeetsBoundary
<1>12. CASE /\ sc.page > 0 /\ sc' = BackwardPage(ReadPage(sc.page - 1))
            /\ UNCHANGED <<pc, ended>>
  BY <1>1, <1>12, BackwardPageInv
<1>13. CASE /\ found < 0 /\ sc.page <= 0 /\ sc.boundary /\ sc.chunkOffset > 0
            /\ EnterBlock(start, first, sc.chunkOffset) /\ UNCHANGED ended
  <2> DEFINE b == 0
  <2>1. x = 0 /\ b \in Nat /\ b < co /\ co > 0 /\ x + b = x
    BY <1>1, <1>2, <1>3, <1>13, StartsAtZero DEF x, co
  <2>3. IsBoundary(stream.bytes, x + b)
    BY <2>1 DEF IsBoundary
  <2>4. Bare(stream.bytes, x + b, x + upTo + 1)
    BY <1>6, <1>13, <2>1
  <2>b. b = 0
    OBVIOUS
  <2> HIDE DEF b
  <2>5. /\ OneBlock(stream.bytes, x + b, x + co)
        /\ subarray(sc.chunk, b, sc.chunkOffset) \in Seq(Nat)
        /\ Len(subarray(sc.chunk, b, sc.chunkOffset)) > 0
        /\ Piece(subarray(sc.chunk, b, sc.chunkOffset), stream.bytes, x + b, x + co)
    BY <1>9, <1>13, <2>1, <2>3, <2>4
  <2> DEFINE w == subarray(sc.chunk, b, sc.chunkOffset)
  <2>6. EnterBlock([sc EXCEPT !.chunkOffset = b], w, sc.chunkOffset)
    BY <1>13, <2>b
  <2>8. sc.page >= 0
    <3>1. Len(sc.chunk) > 0
      BY <1>3, <2>1
    <3>2. sc.page \in Nat
      BY <1>2, <3>1, HasPage
    <3> QED BY <3>2
  <2>7. /\ w \in Seq(Nat) /\ Len(w) > 0 /\ sc.page >= 0 /\ sc.boundary
        /\ IsBoundary(stream.bytes, From(sc) + b)
        /\ sc.chunkOffset > b /\ OneBlock(stream.bytes, From(sc) + b, At(sc))
        /\ Piece(w, stream.bytes, From(sc) + b, At(sc))
        /\ UNCHANGED ended /\ b <= Len(sc.chunk)
    BY <1>3, <1>13, <2>1, <2>3, <2>5, <2>8 DEF x, co
  <2> HIDE DEF w
  <2>9. Enters
    <3>1. scan = "backward" /\ b # sc.chunkOffset
      BY <1>1, <1>3, <2>1 DEF Scanning, co
    <3> QED BY <2>1, <2>6, <2>7, <3>1 DEF Enters
  <2> QED BY <1>1, <2>1, <2>6, <2>7, <2>9, MeetsBlock
<1>14. CASE /\ sc.page <= 0 /\ ~ (sc.boundary /\ sc.chunkOffset > 0)
            /\ EndScan([start EXCEPT !.boundary = TRUE])
  BY <1>1, <1>14, BackwardEndInv
<1> QED BY <1>4, <1>10, <1>11, <1>12, <1>13, <1>14

-----------------------------------------------------------------------------
\* A scanner that has read nothing.
LEMMA InitInv ==
  ASSUME Init, ~ MayStartEmpty
  PROVE  ScanInv
<1>1. stream \in Possible
  BY StreamsArePossible DEF Init
<1>2. stream.bytes \in Seq(Nat) /\ Len(stream.bytes) \in Nat
  BY <1>1, PossibleIs
<1>3. visible \in Nat /\ visible <= Len(stream.bytes) /\ visible > 0
  BY <1>2 DEF Init
<1> DEFINE e == <<>>
           m == -1
           zero == 0
<1>4. e \in Seq(Nat) /\ e \in Lists /\ e = <<>> /\ m \in Int /\ m = -1 /\ zero \in Nat /\ zero \in Int
      /\ zero = 0 /\ Len(e) = 0
  BY DEF Lists
<1>5. sc = [chunk |-> e, chunkOffset |-> zero, page |-> m, boundary |-> TRUE,
            tail |-> zero, nextLogs |-> e, prevLogs |-> e,
            nextOffset |-> zero, prevOffset |-> zero, totalSize |-> visible]
  BY DEF Init
<1> HIDE DEF e, m, zero
<1>6. /\ sc.chunk = <<>> /\ sc.chunkOffset = 0 /\ sc.page = -1 /\ sc.boundary = TRUE
      /\ sc.tail = 0 /\ sc.nextLogs = <<>> /\ sc.totalSize = visible
  BY <1>4, <1>5
<1>7. sc \in ScannerOf
  BY <1>3, <1>4, <1>5 DEF ScannerOf
<1>8. Laid(sc, stream.bytes, visible)
  <2>1. Len(sc.chunk) = 0
    BY <1>6
  <2> QED BY <1>3, <1>6, <1>7, <2>1 DEF Laid, Fresh
<1>9. Resting(sc, stream.bytes)
  BY <1>6 DEF Resting, At, From, IsBoundary
<1>10. IsAt(sc, stream.bytes, visible, "idle", "forward", FALSE)
  BY <1>3, <1>6, <1>8, <1>9, GoesOn
<1>11. pc = "idle" /\ scan = "forward" /\ ended = FALSE
  BY DEF Init
<1> QED BY <1>1, <1>10, <1>11 DEF ScanInv, Whereabouts

\* Each action keeps the scanner where it knows.
LEMMA NextInv ==
  ASSUME ScanInv, [Next]_vars
  PROVE  ScanInv'
<1>1. stream \in Possible /\ Whereabouts
  BY DEF ScanInv
<1>2. Whereabouts' /\ stream' = stream
  <2>1. CASE SourceGrows
    BY <1>1, <2>1, SourceGrowsInv DEF SourceGrows
  <2>2. CASE \E page \in SearchPages : goto(page * SearchPage)
    <3>1. PICK n \in SearchPages : goto(n * SearchPage)
      BY <2>2
    <3> QED BY <1>1, <3>1, gotoInv DEF goto
  <2>3. CASE \E direction \in {"forward", "backward"} : StartScan(direction)
    BY <1>1, <2>3, StartScanInv DEF StartScan
  <2>4. CASE YieldLog
    BY <1>1, <2>4, YieldLogInv DEF YieldLog
  <2>5. CASE ForwardDropTail
    BY <1>1, <2>5, ForwardDropTailInv DEF ForwardDropTail, Scanning
  <2>6. CASE ForwardStep
    BY <1>1, <2>6, ForwardStepInv DEF ForwardStep, Scanning
  <2>7. CASE BackwardDropTail
    BY <1>1, <2>7, BackwardDropTailInv DEF BackwardDropTail, Scanning
  <2>8. CASE BackwardStep
    BY <1>1, <2>8, BackwardStepInv DEF BackwardStep, Scanning
  <2>9. CASE \E size \in 1 .. visible : updateSize(size)
    BY <1>1, <2>9, updateSizeInv DEF updateSize
  <2>10. CASE UNCHANGED vars
    BY <1>1, <2>10 DEF vars, Whereabouts
  <2> QED BY <2>1, <2>2, <2>3, <2>4, <2>5, <2>6, <2>7, <2>8, <2>9, <2>10 DEF Next
<1> QED BY <1>1, <1>2 DEF ScanInv

\* The invariant holds throughout.
LEMMA ScannerKnows ==
  ASSUME ~ MayStartEmpty
  PROVE  Spec => []ScanInv
<1>1. Init => ScanInv
  BY InitInv
<1>2. ScanInv /\ [Next]_vars => ScanInv'
  BY NextInv
<1> QED BY <1>1, <1>2, PTL DEF Spec

\* What the invariant says of types.
LEMMA TypeOKHolds ==
  ASSUME ScanInv
  PROVE  TypeOK
<1>1. stream \in Possible /\ Whereabouts /\ Placed(sc)
  BY ScannerIsPlaced DEF ScanInv
<1>2. Known(sc, stream.bytes, visible) /\ Laid(sc, stream.bytes, visible)
      /\ visible \in Nat /\ visible <= Len(stream.bytes) /\ Len(stream.bytes) \in Nat
  BY <1>1 DEF Placed
<1>3. /\ sc.chunkOffset \in Nat /\ sc.chunkOffset <= Len(sc.chunk)
      /\ sc.page \in Int /\ sc.page >= -1 /\ sc.tail \in Int
      /\ sc.totalSize \in Nat /\ sc.totalSize <= visible /\ sc.boundary \in BOOLEAN
      /\ From(sc) \in Nat /\ To(sc) \in Nat /\ Len(sc.chunk) = To(sc) - From(sc)
      /\ From(sc) <= To(sc)
  BY <1>2 DEF Known
<1>4. Len(stream.bytes) <= MaxBytes /\ MaxBytes \in Nat
  BY <1>1, ScannerAssumption DEF Possible
<1> DEFINE c == CeilDiv(MaxBytes, PageSize)
<1>5. c \in Int /\ c >= 0
  <2>1. MaxBytes \in Int
    BY <1>4
  <2>2. c \in Int /\ Start(c) >= MaxBytes
    BY <2>1, CeilIs
  <2> HIDE DEF c
  <2>3. c < 0 => Start(c) + PageSize <= Start(0)
    BY <2>2, StartsInOrder
  <2>4. Start(0) = 0 /\ PageSize \in Nat /\ PageSize > 0 /\ Start(c) \in Int
    BY <2>2, StartIs
  <2> QED BY <1>4, <2>2, <2>3, <2>4
<1>6. sc.page \in -1 .. c /\ sc.tail \in -Len(sc.chunk) .. Len(sc.chunk)
  <2> HIDE DEF c
  <2>1. CASE sc.page = -1
    <3>1. sc.tail = 0
      BY <1>2, <2>1 DEF Laid, Fresh
    <3> QED BY <1>3, <1>5, <2>1, <3>1
  <2>2. CASE sc.page # -1
    <3> DEFINE n == sc.page
               x == Start(n)
    <3>1. n \in Nat /\ Spans(sc, stream.bytes, visible)
      BY <1>2, <1>3, <2>2 DEF Laid
    <3>2. x < sc.totalSize
      BY <3>1 DEF Spans
    <3>3. n < c
      <4> HIDE DEF n
      <4>1. x \in Nat
        BY <3>1, NextStart
      <4>2. x < MaxBytes
        BY <1>2, <1>3, <1>4, <3>2, <4>1
      <4> QED BY <1>4, <3>1, <4>2, PagesAre DEF c
    <3>4. CASE sc.tail >= 0
      <4>1. sc.tail <= Len(sc.chunk)
        BY <3>1, <3>4 DEF Spans
      <4> QED BY <1>3, <1>5, <3>1, <3>3, <3>4, <4>1
    <3>5. CASE sc.tail < 0
      <4>1. x \in Nat /\ Start(n + 1) = x + PageSize /\ PageSize \in Nat
        <5> HIDE DEF n
        <5> QED BY <3>1, NextStart
      <4>2. From(sc) = x
        BY <1>3, <3>1, <3>5, <4>1 DEF From
      <4>3. To(sc) = Start(n + 1) - sc.tail
        BY <3>1, <3>5 DEF Spans
      <4> HIDE DEF x
      <4>4. Len(sc.chunk) = PageSize - sc.tail
        BY <1>3, <4>1, <4>2, <4>3
      <4> QED BY <1>3, <1>5, <3>1, <3>3, <3>5, <4>1, <4>4, SMTT(30)
    <3> QED BY <1>3, <3>4, <3>5
  <2> QED BY <2>1, <2>2
<1>7. /\ pc \in {"idle", "scan", "block", "thrown"} /\ scan \in {"forward", "backward"}
      /\ ended \in BOOLEAN
  BY <1>1 DEF Whereabouts, IsAt
<1>8. /\ visible \in 0 .. Len(stream.bytes)
      /\ sc.chunkOffset \in 0 .. Len(sc.chunk)
      /\ sc.totalSize \in 0 .. visible
  <2>1. Len(sc.chunk) \in Nat
    BY <1>3
  <2> QED BY <1>2, <1>3, <2>1
<1> QED BY <1>3, <1>6, <1>7, <1>8 DEF TypeOK

\* A scanner keeps its chunk, position, page and tail within their bounds, whatever
\* pages it reads and drops in whatever order of directions, jumps and resizes, and
\* knows no more of the source than there is (scanner.js:15-58).  Without
\* MayStartEmpty, as in all that follows: a reader that came before the first byte
\* reads that page late, if at all (run scanner_empty).
THEOREM ScannerTypes ==
  ASSUME ~ MayStartEmpty
  PROVE  Spec => []TypeOK
BY ScannerKnows, TypeOKHolds, PTL

-----------------------------------------------------------------------------
(* 4. Positions, counted in records.                                        *)

\* The records that end within an offset.
Ended(offset) == {i \in DOMAIN stream.logs : stream.logs[i].end <= offset}

\* The records of a stream, and where they end.
LEMMA LogsOfStream ==
  ASSUME stream \in Possible
  PROVE  /\ Len(stream.logs) \in Nat /\ DOMAIN stream.logs = 1 .. Len(stream.logs)
         /\ \A i \in 1 .. Len(stream.logs) :
              /\ stream.logs[i].end \in Nat /\ stream.logs[i].end >= 1
              /\ stream.bytes[stream.logs[i].end] = SEPARATOR
<1>1. WellWritten(stream) /\ stream.bytes \in Seq(Nat) /\ Len(stream.bytes) \in Nat
  BY PossibleIs
<1>2. stream.logs \in WrittenLogs /\ LogsEnd(stream.bytes, stream.logs)
  BY <1>1 DEF WellWritten, StreamOf
<1>3. Len(stream.logs) \in Nat /\ DOMAIN stream.logs = 1 .. Len(stream.logs)
  BY <1>2, LenProperties DEF WrittenLogs
<1> QED BY <1>1, <1>2, <1>3 DEF LogsEnd

\* LogsBefore counts the records that end within an offset.
LEMMA LogsBeforeIs ==
  ASSUME stream \in Possible, NEW x
  PROVE  LogsBefore(x) \in Nat /\ LogsBefore(x) = Cardinality(Ended(x)) /\ IsFiniteSet(Ended(x))
<1> DEFINE n == Len(stream.logs)
<1>1. n \in Nat /\ DOMAIN stream.logs = 1 .. n
  BY LogsOfStream
<1>2. Ended(x) \subseteq 1 .. n
  BY <1>1 DEF Ended
<1> HIDE DEF n
<1>3. n \in Int /\ 1 \in Int
  BY <1>1
<1>4. IsFiniteSet(1 .. n)
  BY <1>3, FS_Interval
<1>5. IsFiniteSet(Ended(x))
  BY <1>2, <1>4, FS_Subset
<1>6. Cardinality(Ended(x)) \in Nat
  BY <1>5, FS_CardinalityType
<1> QED BY <1>5, <1>6 DEF LogsBefore, Ended

\* No record ends between two offsets that have no separator between them.
LEMMA NoLogsInBare ==
  ASSUME stream \in Possible, NEW x \in Nat, NEW y \in Nat, NEW z \in Nat, z <= y,
         Bare(stream.bytes, x, y)
  PROVE  LogsBefore(z) <= LogsBefore(x)
<1>1. ASSUME NEW i \in Ended(z) PROVE i \in Ended(x)
  <2>1. i \in 1 .. Len(stream.logs) /\ i \in DOMAIN stream.logs /\ stream.logs[i].end <= z
    BY LogsOfStream DEF Ended
  <2> DEFINE end == stream.logs[i].end
  <2>2. end \in Nat /\ stream.bytes[end] = SEPARATOR /\ end <= z
    BY <2>1, LogsOfStream
  <2> HIDE DEF end
  <2>3. end <= x
    <3>1. SUFFICES ASSUME end > x PROVE FALSE
      BY <2>2
    <3>2. end \in x + 1 .. y
      BY <2>2, <3>1
    <3> QED BY <2>2, <3>2 DEF Bare
  <2> QED BY <2>1, <2>3 DEF Ended, end
<1>2. Ended(z) \subseteq Ended(x)
  BY <1>1
<1>3. Cardinality(Ended(z)) <= Cardinality(Ended(x))
  BY <1>2, LogsBeforeIs, FS_Subset
<1> QED BY <1>3, LogsBeforeIs

\* None ends before the first byte.
LEMMA NoLogsBeforeZero ==
  ASSUME stream \in Possible
  PROVE  LogsBefore(0) = 0
<1>1. Ended(0) = {}
  <2>1. ASSUME NEW i \in Ended(0) PROVE FALSE
    <3>1. i \in 1 .. Len(stream.logs) /\ stream.logs[i].end <= 0
      BY LogsOfStream DEF Ended
    <3> QED BY <3>1, LogsOfStream
  <2> QED BY <2>1
<1>2. Cardinality(Ended(0)) = 0
  BY <1>1, FS_EmptySet
<1> QED BY <1>2, LogsBeforeIs

\* The offset that calculateByteOffset() returns.
LEMMA ByteOffsetIs ==
  ASSUME NEW bytes, NEW size, Known(sc, bytes, size)
  PROVE  /\ sc.page >= 0 => calculateByteOffset =
              From(sc) + (IF sc.nextLogs # <<>> THEN sc.nextOffset ELSE sc.chunkOffset)
         /\ sc.page < 0 => calculateByteOffset = 0
<1>1. sc.tail \in Int /\ sc.nextOffset \in Nat /\ sc.chunkOffset \in Nat /\ sc.page \in Int
  BY DEF Known
<1>2. Max({0, sc.tail}) = IF sc.tail > 0 THEN sc.tail ELSE 0
  <2> DEFINE t == sc.tail
  <2>1. \E x \in {0, t} : \A y \in {0, t} : x >= y
    BY <1>1
  <2>2. Max({0, t}) \in {0, t} /\ \A y \in {0, t} : Max({0, t}) >= y
    BY <2>1, Zenon DEF Max
  <2> HIDE DEF t
  <2>3. t \in Int
    BY <1>1 DEF t
  <2>4. Max({0, t}) = IF t > 0 THEN t ELSE 0
    BY <2>2, <2>3
  <2> QED BY <2>4 DEF t
<1>3. sc.page * PageSize = Start(sc.page) /\ Start(sc.page) \in Int
  BY <1>1, StartIs DEF Start
<1>4. ASSUME sc.page >= 0
      PROVE  calculateByteOffset =
               From(sc) + (IF sc.nextLogs # <<>> THEN sc.nextOffset ELSE sc.chunkOffset)
  <2> DEFINE k == IF sc.nextLogs # <<>> THEN sc.nextOffset ELSE sc.chunkOffset
             t == IF sc.tail > 0 THEN sc.tail ELSE 0
             x == Start(sc.page)
  <2>1. calculateByteOffset = x + k - t
    BY <1>1, <1>2, <1>3, <1>4 DEF calculateByteOffset
  <2>2. From(sc) = x - t
    BY <1>1, <1>4 DEF From
  <2>3. k \in Int /\ t \in Int /\ x \in Int
    BY <1>1, <1>3
  <2> HIDE DEF k, t, x
  <2>4. calculateByteOffset = From(sc) + k
    BY <2>1, <2>2, <2>3
  <2> QED BY <2>4 DEF k
<1>5. sc.page < 0 => calculateByteOffset = 0
  BY DEF calculateByteOffset
<1> QED BY <1>4, <1>5

\* Outside a block that is the position of the scanner.
LEMMA OffsetOutside ==
  ASSUME NEW bytes, NEW size, Known(sc, bytes, size), Laid(sc, bytes, size), sc.nextLogs = <<>>
  PROVE  calculateByteOffset = At(sc) /\ At(sc) \in Nat
<1>1. /\ sc.page \in Int /\ sc.page >= -1 /\ sc.chunkOffset \in Nat /\ From(sc) \in Nat
      /\ sc.chunkOffset <= Len(sc.chunk)
  BY DEF Known
<1>2. CASE sc.page >= 0
  BY <1>1, <1>2, ByteOffsetIs DEF At
<1>3. CASE sc.page < 0
  <2>1. sc.page = -1
    BY <1>1, <1>3
  <2>2. Len(sc.chunk) = 0
    BY <2>1 DEF Laid, Fresh
  <2>3. From(sc) = 0 /\ sc.chunkOffset = 0
    BY <1>1, <1>3, <2>2 DEF From
  <2> QED BY <1>3, <2>3, ByteOffsetIs DEF At
<1> QED BY <1>1, <1>2, <1>3

\* The offset is that of the block in which the scanner is, or of its position.
LEMMA OffsetsCover ==
  ASSUME ScanInv
  PROVE  OffsetsCoverTheScan
<1> DEFINE at == calculateByteOffset
<1>1. SUFFICES ASSUME pc = "idle", Position # Unknown
               PROVE  /\ at = 0 \/ stream.bytes[at] = SEPARATOR
                      /\ IF scan = "forward" THEN LogsBefore(at) >= Position
                                             ELSE LogsBefore(at) <= Position
  BY DEF OffsetsCoverTheScan
<1>2. stream \in Possible /\ Whereabouts /\ Placed(sc)
  BY ScannerIsPlaced DEF ScanInv
<1>3. Known(sc, stream.bytes, visible) /\ Laid(sc, stream.bytes, visible)
  BY <1>2 DEF Placed
<1>4. /\ sc.nextOffset \in Nat /\ sc.prevOffset \in Nat /\ From(sc) \in Nat
      /\ sc.nextLogs \in Lists /\ Len(sc.nextLogs) \in Nat
  <2>1. sc.nextOffset \in Nat /\ sc.prevOffset \in Nat /\ From(sc) \in Nat /\ sc.nextLogs \in Lists
    BY <1>3 DEF Known
  <2> QED BY <2>1, LenProperties DEF Lists
<1>5. LogsBefore(at) \in Nat
  BY <1>2, LogsBeforeIs
<1>6. CASE sc.nextLogs # <<>>
  <2>1. Entered(sc, stream.bytes) /\ Heading(sc) = scan
    BY <1>2, <1>6 DEF Whereabouts, IsAt
  <2>2. at = From(sc) + sc.nextOffset
    BY <1>3, <1>6, <2>1, ByteOffsetIs DEF Entered
  <2>3. IsBoundary(stream.bytes, at)
    <3> HIDE DEF at
    <3> QED BY <1>4, <2>1, <2>2 DEF Entered, OneBlock, IsBoundary
  <2>4. sc.nextOffset # sc.prevOffset
    BY <1>4, <2>1 DEF Entered, OneBlock
  <2> HIDE DEF at
  <2>5. CASE sc.nextOffset > sc.prevOffset
    <3>1. scan = "forward"
      BY <1>4, <2>1, <2>5 DEF Heading
    <3>2. Position = LogsBefore(at) - Len(sc.nextLogs)
      BY <1>6, <2>5 DEF Position, at
    <3> QED BY <1>4, <1>5, <2>3, <3>1, <3>2 DEF IsBoundary
  <2>6. CASE ~ (sc.nextOffset > sc.prevOffset)
    <3>1. scan = "backward"
      BY <1>4, <2>1, <2>4, <2>6 DEF Heading
    <3>2. Position = LogsBefore(at) + Len(sc.nextLogs)
      BY <1>6, <2>6 DEF Position, at
    <3> QED BY <1>4, <1>5, <2>3, <3>1, <3>2 DEF IsBoundary
  <2> QED BY <2>5, <2>6
<1>7. CASE sc.nextLogs = <<>>
  <2>1. sc.boundary
    BY <1>1, <1>7 DEF Position
  <2>2. Resting(sc, stream.bytes)
    BY <1>1, <1>2, <1>7 DEF Whereabouts, IsAt
  <2>3. at = At(sc)
    BY <1>3, <1>7, OffsetOutside
  <2>4. IsBoundary(stream.bytes, at)
    BY <2>1, <2>2, <2>3 DEF Resting
  <2>5. Position = LogsBefore(at)
    BY <1>7, <2>1 DEF Position
  <2> HIDE DEF at
  <2> QED BY <1>5, <2>4, <2>5 DEF IsBoundary
<1> QED BY <1>6, <1>7

\* What is left when a scan has ended is nothing.
LEMMA ScansEnd ==
  ASSUME ScanInv
  PROVE  ScansReachTheEnds
<1> DEFINE at == calculateByteOffset
<1>1. SUFFICES ASSUME ended
               PROVE  IF scan = "backward" THEN Position = 0
                      ELSE \/ Position >= LogsBefore(sc.totalSize)
                           \/ Position = Unknown /\ at >= sc.totalSize
  BY DEF ScansReachTheEnds
<1>2. stream \in Possible /\ Whereabouts /\ Placed(sc)
  BY ScannerIsPlaced DEF ScanInv
<1>3. Known(sc, stream.bytes, visible) /\ Laid(sc, stream.bytes, visible)
  BY <1>2 DEF Placed
<1>4. Finished(sc, scan, stream.bytes) /\ scan \in {"forward", "backward"}
  BY <1>1, <1>2 DEF Whereabouts, IsAt
<1>5. sc.nextLogs = <<>>
  BY <1>4 DEF Finished
<1>6. at = At(sc) /\ at \in Nat
  BY <1>3, <1>5, OffsetOutside
<1>7. CASE scan = "backward"
  <2>1. at = 0 /\ sc.boundary
    BY <1>4, <1>6, <1>7 DEF Finished
  <2>2. Position = LogsBefore(at)
    BY <1>5, <2>1 DEF Position
  <2> HIDE DEF at
  <2> QED BY <1>2, <1>7, <2>1, <2>2, NoLogsBeforeZero
<1>8. CASE scan = "forward"
  <2>1. To(sc) \in Nat /\ sc.totalSize \in Nat /\ To(sc) >= sc.totalSize
    BY <1>3, <1>4, <1>8 DEF Known, Finished
  <2>2. CASE sc.boundary
    <3>1. Position = LogsBefore(at)
      BY <1>5, <2>2 DEF Position
    <3>2. Bare(stream.bytes, at, To(sc))
      BY <1>4, <1>6, <1>8, <2>2 DEF Finished
    <3> HIDE DEF at
    <3>3. LogsBefore(sc.totalSize) <= LogsBefore(at)
      BY <1>2, <1>6, <2>1, <3>2, NoLogsInBare
    <3>4. LogsBefore(at) \in Nat /\ LogsBefore(sc.totalSize) \in Nat
      BY <1>2, LogsBeforeIs
    <3> QED BY <1>8, <3>1, <3>3, <3>4
  <2>3. CASE ~ sc.boundary
    <3>1. Position = Unknown
      BY <1>5, <2>3 DEF Position
    <3>2. at = To(sc)
      BY <1>4, <1>6, <1>8, <2>3 DEF Finished
    <3> HIDE DEF at
    <3> QED BY <1>8, <2>1, <3>1, <3>2
  <2> QED BY <2>2, <2>3
<1> QED BY <1>4, <1>7, <1>8

\* Where the scan was left, the offset at which a bulk query cuts is a block boundary,
\* and on the far side of every record that the scan has handed out
\* (scanner.js:214-221, log-reader.js:255-278).
THEOREM ScannerOffsetsCover ==
  ASSUME ~ MayStartEmpty
  PROVE  Spec => []OffsetsCoverTheScan
BY ScannerKnows, OffsetsCover, PTL

\* A scan that ends has passed every block that was known, a forward scan up to the
\* size it knew, a backward scan down to the first one (scanner.js:117-124, 177-188).
THEOREM ScannerReachesTheEnds ==
  ASSUME ~ MayStartEmpty
  PROVE  Spec => []ScansReachTheEnds
BY ScannerKnows, ScansEnd, PTL

-----------------------------------------------------------------------------
(* What a block holds.                                                      *)

BlockHas(logs, up, down, y) ==
  \E a, b \in Nat : EndIn(logs, y, a, b) /\ Shares(logs, up, down, a, b)

\* A block is read as the records that it holds.
LEMMA BlockReads ==
  ASSUME stream \in Possible, ~ MayTearEscape, NEW x, NEW y, OneBlock(stream.bytes, x, y),
         NEW block, Piece(block, stream.bytes, x, y)
  PROVE  /\ Parses(block) /\ parseEach(block) \in Lists
         /\ BlockHas(stream.logs, <<>>, Reverse(parseEach(block)), y)
         /\ BlockHas(stream.logs, parseEach(block), <<>>, y)
<1>1. WellWritten(stream) /\ stream.bytes \in Seq(Nat)
  BY PossibleIs
<1>2. x \in Nat /\ y \in Nat /\ x < y /\ y <= Len(stream.bytes)
  BY DEF OneBlock
<1>3. Holds(stream.bytes, stream.logs, x, y)
  BY <1>1, <1>2 DEF WellWritten, BlocksHold
<1>4. PICK a, b \in Nat : /\ EndIn(stream.logs, y, a, b)
                          /\ Reads(SubSeq(stream.bytes, x + 1, y), stream.logs, a, b)
  BY <1>3 DEF Holds
<1>5. block = SubSeq(stream.bytes, x + 1, y)
  <2>1. Piece(SubSeq(stream.bytes, x + 1, y), stream.bytes, x, y)
    BY <1>1, <1>2, PieceIs
  <2> QED BY <1>2, <2>1, SamePiece
<1> DEFINE logs == parseEach(block)
           rev == Reverse(logs)
           none == <<>>
<1>6. /\ Parses(block) /\ logs \in Lists /\ Len(logs) = b - a + 1
      /\ \A k \in 1 .. b - a + 1 : logs[k] = stream.logs[a + k - 1].log
  BY <1>4, <1>5 DEF Reads
<1>7. a <= b /\ Len(none) = 0
  BY <1>4 DEF EndIn
<1> HIDE DEF logs
<1>8. /\ Len(rev) = Len(logs)
      /\ \A i \in 1 .. Len(logs) : rev[i] = logs[Len(logs) - i + 1]
  BY <1>6, ReverseIsSeq DEF Lists
<1> HIDE DEF rev, none
<1>9. Shares(stream.logs, none, rev, a, b)
  <2>1. Len(none) + Len(rev) = b - a + 1
    BY <1>6, <1>7, <1>8
  <2>2. \A k \in 1 .. Len(none) : none[k] = stream.logs[a + k - 1].log
    BY <1>7
  <2>3. ASSUME NEW k \in 1 .. Len(rev) PROVE rev[k] = stream.logs[b - k + 1].log
    <3> DEFINE i == Len(logs) - k + 1
    <3>1. i \in 1 .. b - a + 1 /\ a + i - 1 = b - k + 1
      BY <1>6, <1>7, <1>8
    <3>2. rev[k] = logs[i]
      BY <1>8
    <3> HIDE DEF i
    <3> QED BY <1>6, <3>1, <3>2
  <2> QED BY <2>1, <2>2, <2>3 DEF Shares
<1>10. Shares(stream.logs, logs, none, a, b)
  <2>1. Len(logs) + Len(none) = b - a + 1
    BY <1>6, <1>7
  <2>2. \A k \in 1 .. Len(none) : none[k] = stream.logs[b - k + 1].log
    BY <1>7
  <2>3. \A k \in 1 .. Len(logs) : logs[k] = stream.logs[a + k - 1].log
    BY <1>6
  <2> QED BY <2>1, <2>2, <2>3 DEF Shares
<1>11. BlockHas(stream.logs, none, rev, y) /\ BlockHas(stream.logs, logs, none, y)
  BY <1>4, <1>9, <1>10 DEF BlockHas
<1> QED BY <1>6, <1>11 DEF logs, rev, none

-----------------------------------------------------------------------------
(* No block fails to parse.                                                 *)

\* A block that is entered has all its records before it.
LEMMA EntersAsItParses ==
  ASSUME stream \in Possible, ~ MayTearEscape, Enters, scan \in {"forward", "backward"}
  PROVE  pc' = "block"
<1>1. PICK co \in Nat, block \in Seq(Nat) :
       /\ EnterBlock([sc EXCEPT !.chunkOffset = co], block, sc.chunkOffset)
       /\ scan = "forward" => /\ OneBlock(stream.bytes, At(sc), From(sc) + co)
                              /\ Piece(block, stream.bytes, At(sc), From(sc) + co)
       /\ scan = "backward" => /\ OneBlock(stream.bytes, From(sc) + co, At(sc))
                               /\ Piece(block, stream.bytes, From(sc) + co, At(sc))
  BY DEF Enters
<1>2. Parses(block)
  BY <1>1, BlockReads
<1> QED BY <1>1, <1>2 DEF EnterBlock

\* What a step may be.
LEMMA StepIs ==
  ASSUME ScanInv, Next
  PROVE  \/ SourceGrows
         \/ \E n \in SearchPages : goto(n * SearchPage) /\ sc'.nextLogs = <<>>
                                   /\ (sc'.boundary => At(sc') = 0)
         \/ \E direction \in {"forward", "backward"} : StartScan(direction)
         \/ YieldLog
         \/ Quiet /\ out' = NoLog /\ UNCHANGED <<stream, visible, scan>>
         \/ Enters /\ out' = NoLog /\ pc = "scan" /\ UNCHANGED <<stream, visible, scan>>
<1>1. stream \in Possible /\ Whereabouts
  BY DEF ScanInv
<1>2. CASE \E page \in SearchPages : goto(page * SearchPage)
  <2>1. PICK n \in SearchPages : goto(n * SearchPage)
    BY <1>2
  <2>2. sc'.nextLogs = <<>> /\ (sc'.boundary => At(sc') = 0)
    BY <1>1, <2>1, gotoInv
  <2> QED BY <2>1, <2>2
<1>3. CASE ForwardDropTail
  <2>1. Quiet
    BY <1>1, <1>3, ForwardDropTailInv
  <2> QED BY <1>3, <2>1 DEF ForwardDropTail, Scanning
<1>4. CASE ForwardStep
  <2>1. Quiet \/ Enters
    BY <1>1, <1>4, ForwardStepInv
  <2> QED BY <1>4, <2>1 DEF ForwardStep, Scanning
<1>5. CASE BackwardDropTail
  <2>1. Quiet
    BY <1>1, <1>5, BackwardDropTailInv
  <2> QED BY <1>5, <2>1 DEF BackwardDropTail, Scanning
<1>6. CASE BackwardStep
  <2>1. Quiet \/ Enters
    BY <1>1, <1>6, BackwardStepInv
  <2> QED BY <1>6, <2>1 DEF BackwardStep, Scanning
<1>7. CASE \E size \in 1 .. visible : updateSize(size)
  <2>1. PICK size \in 1 .. visible : updateSize(size)
    BY <1>7
  <2>2. Quiet
    BY <1>1, <2>1, updateSizeInv
  <2> QED BY <2>1, <2>2 DEF updateSize
<1> QED BY <1>2, <1>3, <1>4, <1>5, <1>6, <1>7 DEF Next

ParseInv == ScanInv /\ BlocksParse

\* No step throws, since each block that is met reads as its records.
LEMMA ParseNext ==
  ASSUME ~ MayTearEscape, ParseInv, [Next]_vars
  PROVE  ParseInv'
<1>1. ScanInv /\ pc # "thrown" /\ stream \in Possible /\ scan \in {"forward", "backward"}
  BY DEF ParseInv, BlocksParse, ScanInv, Whereabouts, IsAt
<1>2. ScanInv'
  BY <1>1, NextInv
<1>3. pc' # "thrown"
  <2>1. CASE Next
    <3>1. CASE SourceGrows
      BY <1>1, <3>1 DEF SourceGrows
    <3>2. CASE \E n \in SearchPages : goto(n * SearchPage)
      BY <1>1, <3>2 DEF goto
    <3>3. CASE \E direction \in {"forward", "backward"} : StartScan(direction)
      BY <3>3 DEF StartScan
    <3>4. CASE YieldLog
      BY <3>4 DEF YieldLog
    <3>5. CASE Quiet
      BY <3>5 DEF Quiet
    <3>6. CASE Enters
      BY <1>1, <3>6, EntersAsItParses
    <3> QED BY <1>1, <2>1, <3>1, <3>2, <3>3, <3>4, <3>5, <3>6, StepIs
  <2>2. CASE UNCHANGED vars
    BY <1>1, <2>2 DEF vars
  <2> QED BY <2>1, <2>2
<1> QED BY <1>2, <1>3 DEF ParseInv, BlocksParse

\* No scan throws: whatever blocks were written and wherever crashes cut them, what a
\* scanner takes for a block parses, unless a crash fell between an escape byte and
\* its code (block-parser.js:47-61, common.js:41-66; run TornEscape).
THEOREM ScannerBlocksParse ==
  ASSUME ~ MayStartEmpty, ~ MayTearEscape
  PROVE  Spec => []BlocksParse
<1>1. Init => ParseInv
  BY InitInv DEF ParseInv, BlocksParse, Init
<1>2. ParseInv /\ [Next]_vars => ParseInv'
  BY ParseNext
<1>3. ParseInv => BlocksParse
  BY DEF ParseInv
<1> QED BY <1>1, <1>2, <1>3, PTL DEF Spec

-----------------------------------------------------------------------------
(* The cursor in a block.                                                   *)

\* The block in which the scanner is: how many of its records are passed.
Ahead(s) == s.prevOffset < s.nextOffset

BlockEnd(s) == From(s) + (IF Ahead(s) THEN s.nextOffset ELSE s.prevOffset)

BlockStart(s) == From(s) + (IF Ahead(s) THEN s.prevOffset ELSE s.nextOffset)

Below(s) == IF Ahead(s) THEN s.prevLogs ELSE s.nextLogs

Above(s) == IF Ahead(s) THEN s.nextLogs ELSE s.prevLogs

\* In a block the scanner has the records that it has not handed out, and,
\* once it has been left, some that it has.
HasItsBlock(logs, s, p) ==
  /\ p = "block" => s.nextLogs # <<>>
  /\ s.nextLogs # <<>> => BlockHas(logs, Below(s), Above(s), BlockEnd(s))
  /\ p = "idle" /\ s.nextLogs # <<>> => s.prevLogs # <<>>

CursorInv == ParseInv /\ HasItsBlock(stream.logs, sc, pc)

\* The records of a block, counted from the start of the stream.
LEMMA LogsAtBlock ==
  ASSUME stream \in Possible, NEW x, NEW y, OneBlock(stream.bytes, x, y),
         NEW a \in Nat, NEW b \in Nat, EndIn(stream.logs, y, a, b)
  PROVE  LogsBefore(y) = b /\ LogsBefore(x) = a - 1 /\ 1 <= a /\ a <= b
<1> DEFINE n == Len(stream.logs)
<1>1. /\ n \in Nat /\ DOMAIN stream.logs = 1 .. n
      /\ \A i \in 1 .. n : /\ stream.logs[i].end \in Nat /\ stream.logs[i].end >= 1
                           /\ stream.bytes[stream.logs[i].end] = SEPARATOR
  BY LogsOfStream
<1>2. \A i, j \in 1 .. n : i <= j => stream.logs[i].end <= stream.logs[j].end
  BY PossibleIs DEF WellWritten, LogsEnd
<1>3. /\ 1 <= a /\ a <= b /\ b <= n
      /\ \A i \in 1 .. n : stream.logs[i].end = y <=> a <= i /\ i <= b
  BY DEF EndIn
<1>4. x \in Nat /\ y \in Nat /\ x < y /\ Bare(stream.bytes, x, y - 1)
  BY DEF OneBlock
<1> HIDE DEF n
<1>5. a \in 1 .. n /\ b \in 1 .. n /\ stream.logs[a].end = y /\ stream.logs[b].end = y
  BY <1>1, <1>3
<1>6. ASSUME NEW i \in 1 .. n PROVE /\ i <= b <=> stream.logs[i].end <= y
                                    /\ i <= a - 1 <=> stream.logs[i].end <= x
  <2> DEFINE e == stream.logs[i].end
  <2>1. e \in Nat /\ stream.bytes[e] = SEPARATOR /\ (e = y <=> a <= i /\ i <= b)
        /\ (i <= b => e <= y) /\ (b <= i => y <= e) /\ (i <= a => e <= y) /\ (a <= i => y <= e)
    BY <1>1, <1>2, <1>3, <1>5
  <2> HIDE DEF e
  <2>2. i <= b <=> e <= y
    BY <1>1, <1>3, <1>4, <2>1
  <2>3. e <= x \/ e >= y
    <3>1. SUFFICES ASSUME e > x, e < y PROVE FALSE
      BY <1>4, <2>1
    <3>2. e \in x + 1 .. y - 1
      BY <1>4, <2>1, <3>1
    <3> QED BY <1>4, <2>1, <3>2 DEF Bare
  <2>4. i <= a - 1 <=> e <= x
    BY <1>1, <1>3, <1>4, <2>1, <2>3
  <2> QED BY <2>2, <2>4 DEF e
<1>7. Ended(y) = 1 .. b /\ Ended(x) = 1 .. a - 1
  <2>1. ASSUME NEW i PROVE i \in Ended(y) <=> i \in 1 .. b
    <3>1. i \in Ended(y) <=> i \in 1 .. n /\ stream.logs[i].end <= y
      BY <1>1 DEF Ended
    <3>2. i \in 1 .. b <=> i \in 1 .. n /\ i <= b
      BY <1>1, <1>3
    <3> QED BY <1>6, <3>1, <3>2
  <2>2. ASSUME NEW i PROVE i \in Ended(x) <=> i \in 1 .. a - 1
    <3>1. i \in Ended(x) <=> i \in 1 .. n /\ stream.logs[i].end <= x
      BY <1>1 DEF Ended
    <3>2. i \in 1 .. a - 1 <=> i \in 1 .. n /\ i <= a - 1
      BY <1>1, <1>3
    <3> QED BY <1>6, <3>1, <3>2
  <2> QED BY <2>1, <2>2
<1>8. Cardinality(1 .. b) = b
  <2>1. 1 \in Int /\ b \in Int /\ ~ (1 > b) /\ b - 1 + 1 = b
    BY <1>3
  <2> QED BY <2>1, FS_Interval
<1>9. Cardinality(1 .. a - 1) = a - 1
  <2> DEFINE c == a - 1
  <2>1. 1 \in Int /\ c \in Int /\ (c >= 1 \/ c = 0)
    BY <1>3
  <2> HIDE DEF c
  <2>2. CASE c >= 1
    <3>1. ~ (1 > c) /\ c - 1 + 1 = c
      BY <2>1, <2>2
    <3> QED BY <2>1, <3>1, FS_Interval DEF c
  <2>3. CASE c = 0
    <3>1. 1 > c
      BY <2>3
    <3>2. Cardinality(1 .. c) = 0
      BY <2>1, <3>1, FS_Interval
    <3> QED BY <2>3, <3>2 DEF c
  <2> QED BY <2>1, <2>2, <2>3
<1> QED BY <1>3, <1>7, <1>8, <1>9, LogsBeforeIs

\* The further the offset, the more records end within it.
LEMMA LogsBeforeInOrder ==
  ASSUME stream \in Possible, NEW x \in Nat, NEW y \in Nat, x <= y
  PROVE  LogsBefore(x) <= LogsBefore(y)
<1>1. Ended(x) \subseteq Ended(y)
  <2>1. ASSUME NEW i \in Ended(x) PROVE i \in Ended(y)
    <3>1. i \in 1 .. Len(stream.logs) /\ i \in DOMAIN stream.logs /\ stream.logs[i].end <= x
      BY LogsOfStream DEF Ended
    <3>2. stream.logs[i].end \in Nat
      BY <3>1, LogsOfStream
    <3>3. stream.logs[i].end <= y
      BY <3>1, <3>2
    <3> QED BY <3>1, <3>3 DEF Ended
  <2> QED BY <2>1
<1>2. Cardinality(Ended(x)) <= Cardinality(Ended(y))
  BY <1>1, LogsBeforeIs, FS_Subset
<1> QED BY <1>2, LogsBeforeIs

\* How many records end within an offset.
Passed(logs, x) == Cardinality({i \in DOMAIN logs : logs[i].end <= x})

\* In a block, and where.
InBlock(logs, size, s, a, b) ==
  /\ a \in Nat /\ b \in Nat /\ 1 <= a /\ a <= b /\ b <= Len(logs)
  /\ Shares(logs, Below(s), Above(s), a, b)
  /\ Len(Below(s)) \in Nat /\ Len(Above(s)) \in Nat
  /\ Passed(logs, BlockEnd(s)) = b
  /\ Passed(logs, BlockStart(s)) = a - 1
  /\ BlockEnd(s) \in Nat /\ BlockEnd(s) <= size

\* The records from a to b are in the block, and none besides.
LEMMA InBlockIs ==
  ASSUME stream \in Possible, NEW s, Known(s, stream.bytes, visible), Entered(s, stream.bytes),
         BlockHas(stream.logs, Below(s), Above(s), BlockEnd(s))
  PROVE  \E a, b \in Nat : InBlock(stream.logs, visible, s, a, b)
<1>1. PICK a, b \in Nat : /\ EndIn(stream.logs, BlockEnd(s), a, b)
                          /\ Shares(stream.logs, Below(s), Above(s), a, b)
  BY DEF BlockHas
<1>2. /\ From(s) \in Nat /\ s.nextOffset \in Nat /\ s.prevOffset \in Nat
      /\ s.nextOffset <= Len(s.chunk) /\ s.prevOffset <= Len(s.chunk)
      /\ To(s) \in Nat /\ Len(s.chunk) = To(s) - From(s) /\ To(s) <= visible /\ visible \in Nat
      /\ s.nextLogs \in Lists /\ s.prevLogs \in Lists
  BY DEF Known, Entered
<1>3. OneBlock(stream.bytes, BlockStart(s), BlockEnd(s))
  BY <1>2, SMTT(30) DEF Entered, OneBlock, BlockStart, BlockEnd, Ahead
<1>4. LogsBefore(BlockEnd(s)) = b /\ LogsBefore(BlockStart(s)) = a - 1 /\ 1 <= a /\ a <= b
  BY <1>1, <1>3, LogsAtBlock
<1>5. Len(Below(s)) \in Nat /\ Len(Above(s)) \in Nat
  BY <1>2, LenProperties DEF Below, Above, Lists
<1>6. BlockEnd(s) \in Nat /\ BlockEnd(s) <= visible
  BY <1>2 DEF BlockEnd
<1>7. Passed(stream.logs, BlockEnd(s)) = b /\ Passed(stream.logs, BlockStart(s)) = a - 1
  BY <1>4 DEF LogsBefore, Passed
<1>8. b <= Len(stream.logs)
  BY <1>1 DEF EndIn
<1> QED BY <1>1, <1>4, <1>5, <1>6, <1>7, <1>8 DEF InBlock

\* The position, of the scanner and of the cursor.
Whereat(logs, size, s, pos) ==
  \/ /\ s.nextLogs = <<>> /\ s.boundary
     /\ pos = Passed(logs, At(s)) /\ pos \in Nat /\ At(s) \in Nat /\ At(s) <= size
  \/ s.nextLogs = <<>> /\ ~ s.boundary /\ pos = Unknown
  \/ /\ s.nextLogs # <<>>
     /\ \E a, b \in Nat : /\ InBlock(logs, size, s, a, b)
                          /\ pos = b - Len(Above(s)) /\ pos = a - 1 + Len(Below(s))

CursorAt == Whereat(stream.logs, visible, sc, Position)

\* The position that the cursor has is the one the scanner is at.
LEMMA CursorIsAt ==
  ASSUME CursorInv
  PROVE  CursorAt
<1>1. stream \in Possible /\ Whereabouts /\ Placed(sc) /\ HasItsBlock(stream.logs, sc, pc)
      /\ pc # "thrown"
  BY ScannerIsPlaced DEF CursorInv, ParseInv, ScanInv, BlocksParse
<1>2. Known(sc, stream.bytes, visible) /\ Laid(sc, stream.bytes, visible) /\ visible \in Nat
  BY <1>1 DEF Placed
<1>3. CASE sc.nextLogs = <<>>
  <2>1. calculateByteOffset = At(sc) /\ At(sc) \in Nat
    BY <1>2, <1>3, OffsetOutside
  <2>2. At(sc) <= visible
    <3>1. /\ From(sc) \in Nat /\ sc.chunkOffset \in Nat /\ sc.chunkOffset <= Len(sc.chunk)
          /\ Len(sc.chunk) = To(sc) - From(sc) /\ To(sc) \in Nat /\ To(sc) <= visible
      BY <1>2 DEF Known
    <3> QED BY <1>2, <3>1 DEF At
  <2>3. CASE sc.boundary
    <3>1. Position = LogsBefore(At(sc))
      BY <1>3, <2>1, <2>3 DEF Position
    <3>2. LogsBefore(At(sc)) \in Nat /\ LogsBefore(At(sc)) = Passed(stream.logs, At(sc))
      BY <1>1, LogsBeforeIs DEF LogsBefore, Passed
    <3> QED BY <1>3, <2>1, <2>2, <2>3, <3>1, <3>2 DEF CursorAt, Whereat
  <2>4. CASE ~ sc.boundary
    BY <1>3, <2>4 DEF Position, CursorAt, Whereat
  <2> QED BY <2>3, <2>4
<1>4. CASE sc.nextLogs # <<>>
  <2>1. Entered(sc, stream.bytes) /\ BlockHas(stream.logs, Below(sc), Above(sc), BlockEnd(sc))
    BY <1>1, <1>4 DEF Whereabouts, IsAt, HasItsBlock
  <2>2. PICK a, b \in Nat : InBlock(stream.logs, visible, sc, a, b)
    BY <1>1, <1>2, <2>1, InBlockIs
  <2>3. /\ Len(Below(sc)) + Len(Above(sc)) = b - a + 1
        /\ Len(Below(sc)) \in Nat /\ Len(Above(sc)) \in Nat
        /\ LogsBefore(BlockEnd(sc)) = b /\ LogsBefore(BlockStart(sc)) = a - 1
    BY <2>2 DEF InBlock, Shares, LogsBefore, Passed
  <2>4. calculateByteOffset = From(sc) + sc.nextOffset
    BY <1>2, <1>4, <2>1, ByteOffsetIs DEF Entered
  <2>5. sc.nextOffset \in Nat /\ sc.prevOffset \in Nat
    BY <1>2 DEF Known
  <2>6. CASE Ahead(sc)
    <3>1. sc.nextOffset > sc.prevOffset
      BY <2>5, <2>6 DEF Ahead
    <3>2. Position = LogsBefore(BlockEnd(sc)) - Len(Above(sc))
      BY <1>4, <2>4, <2>6, <3>1 DEF Position, BlockEnd, Above
    <3> QED BY <1>4, <2>2, <2>3, <3>2 DEF CursorAt, Whereat
  <2>7. CASE ~ Ahead(sc)
    <3>1. ~ (sc.nextOffset > sc.prevOffset)
      BY <2>5, <2>7 DEF Ahead
    <3>2. Position = LogsBefore(BlockStart(sc)) + Len(Below(sc))
      BY <1>4, <2>4, <2>7, <3>1 DEF Position, BlockStart, Below
    <3> QED BY <1>4, <2>2, <2>3, <3>2 DEF CursorAt, Whereat
  <2> QED BY <2>6, <2>7
<1> QED BY <1>3, <1>4

-----------------------------------------------------------------------------
(* A record is handed out.                                                  *)

\* A list that is not empty has a last record.
LEMMA NotNothing ==
  ASSUME NEW v \in Lists
  PROVE  Len(v) \in Nat /\ (v # <<>> <=> Len(v) >= 1)
<1>1. Len(v) \in Nat /\ (Len(v) = 0 <=> v = <<>>)
  BY EmptySeq, LenProperties DEF Lists
<1> QED BY <1>1

\* Two scanners are at the same place of the same block.
SameBlock(s, t) ==
  /\ Below(t) = Below(s) /\ Above(t) = Above(s)
  /\ BlockStart(t) = BlockStart(s) /\ BlockEnd(t) = BlockEnd(s)

\* A block that is turned round stays the same block.
LEMMA TurnsRound ==
  ASSUME CursorInv, NEW d \in {"forward", "backward"}, StartScan(d), sc.nextLogs # <<>>
  PROVE  SameBlock(sc, sc') /\ sc'.nextLogs # <<>> /\ pc' = "block"
<1>1. stream \in Possible /\ Whereabouts /\ Placed(sc) /\ HasItsBlock(stream.logs, sc, pc)
  BY ScannerIsPlaced DEF CursorInv, ParseInv, ScanInv
<1>2. sc \in ScannerOf /\ sc.nextOffset \in Nat /\ sc.prevOffset \in Nat /\ From(sc) \in Nat
  BY <1>1 DEF Placed, Known
<1>3. pc = "idle" /\ sc' = Turned(sc, d) /\ pc' = "block"
  BY DEF StartScan
<1>4. sc.prevLogs # <<>>
  BY <1>1, <1>3 DEF HasItsBlock
<1>5. Entered(sc, stream.bytes)
  BY <1>1 DEF Whereabouts, IsAt
<1>6. sc.nextOffset # sc.prevOffset
  BY <1>2, <1>5 DEF Entered, OneBlock
<1>7. CASE sc' = sc
  BY <1>3, <1>7 DEF SameBlock
<1>8. CASE sc' = _reverseBlock(sc)
  <2>1. /\ sc'.nextLogs = sc.prevLogs /\ sc'.prevLogs = sc.nextLogs
        /\ sc'.nextOffset = sc.prevOffset /\ sc'.prevOffset = sc.nextOffset
        /\ sc'.page = sc.page /\ sc'.tail = sc.tail
    BY <1>2, <1>8 DEF _reverseBlock, ScannerOf
  <2>2. From(sc') = From(sc)
    BY <2>1 DEF From
  <2>3. Ahead(sc') <=> ~ Ahead(sc)
    BY <1>2, <1>6, <2>1 DEF Ahead
  <2>4. SameBlock(sc, sc')
    BY <2>1, <2>2, <2>3 DEF SameBlock, Below, Above, BlockStart, BlockEnd
  <2> QED BY <1>3, <1>4, <2>1, <2>4
<1> QED BY <1>3, <1>7, <1>8 DEF Turned

\* A record that is handed out moves the position past itself.
LEMMA HandsOut ==
  ASSUME CursorInv, YieldLog
  PROVE  /\ sc.nextLogs \in Lists /\ sc.prevLogs \in Lists /\ Len(sc.nextLogs) >= 1
         /\ out' = Last(sc.nextLogs)
         /\ Ahead(sc) <=> scan = "forward"
         /\ \/ /\ sc'.nextLogs = Front(sc.nextLogs) /\ sc'.prevLogs = Append(sc.prevLogs, out')
               /\ sc'.nextLogs # <<>> /\ sc'.prevLogs # <<>>
               /\ Ahead(sc') = Ahead(sc)
               /\ BlockStart(sc') = BlockStart(sc) /\ BlockEnd(sc') = BlockEnd(sc)
            \/ /\ sc'.nextLogs = <<>> /\ sc'.boundary /\ Len(sc.nextLogs) = 1
               /\ pc' # "block"
               /\ At(sc') = IF Ahead(sc) THEN BlockEnd(sc) ELSE BlockStart(sc)
<1>1. stream \in Possible /\ Whereabouts /\ Placed(sc) /\ HasItsBlock(stream.logs, sc, pc)
  BY ScannerIsPlaced DEF CursorInv, ParseInv, ScanInv
<1>2. /\ sc \in ScannerOf /\ sc.nextOffset \in Nat /\ sc.prevOffset \in Nat /\ From(sc) \in Nat
      /\ sc.nextLogs \in Lists /\ sc.prevLogs \in Lists
  BY <1>1 DEF Placed, Known
<1>3. pc = "block" /\ out' = Last(sc.nextLogs)
  BY DEF YieldLog
<1>4. sc.nextLogs # <<>> /\ Entered(sc, stream.bytes) /\ Heading(sc) = scan
  BY <1>1, <1>3 DEF HasItsBlock, Whereabouts, IsAt
<1>5. Len(sc.nextLogs) \in Nat /\ Len(sc.nextLogs) >= 1
  BY <1>2, <1>4, NotNothing
<1>6. Ahead(sc) <=> scan = "forward"
  BY <1>4 DEF Heading, Ahead
<1> DEFINE rest == Front(sc.nextLogs)
<1>7. CASE rest # <<>>
  <2>1. sc' = [sc EXCEPT !.nextLogs = rest, !.prevLogs = Append(@, out')]
    BY <1>7 DEF YieldLog
  <2> HIDE DEF rest
  <2>2. /\ sc'.nextLogs = rest /\ sc'.prevLogs = Append(sc.prevLogs, out')
        /\ sc'.nextOffset = sc.nextOffset /\ sc'.prevOffset = sc.prevOffset
        /\ sc'.page = sc.page /\ sc'.tail = sc.tail
    BY <1>2, <2>1 DEF ScannerOf
  <2>3. From(sc') = From(sc)
    BY <2>2 DEF From
  <2>4. /\ Ahead(sc') = Ahead(sc)
        /\ BlockStart(sc') = BlockStart(sc) /\ BlockEnd(sc') = BlockEnd(sc)
    BY <2>2, <2>3 DEF Ahead, BlockStart, BlockEnd
  <2>5. Append(sc.prevLogs, out') # <<>>
    <3>1. out' \in Seq(Nat)
      BY <1>2, <1>3, <1>5, ElementOfSeq DEF Last, Lists
    <3> DEFINE v == sc.prevLogs
               w == Append(v, out')
    <3>2. w \in Lists /\ Len(w) = Len(v) + 1 /\ Len(v) \in Nat
      BY <1>2, <3>1, AppendProperties, LenProperties DEF Lists
    <3> HIDE DEF v, w
    <3>3. w # <<>>
      BY <3>2, NotNothing
    <3> QED BY <3>3 DEF v, w
  <2> QED BY <1>2, <1>3, <1>5, <1>6, <1>7, <2>2, <2>4, <2>5 DEF rest
<1>8. CASE rest = <<>>
  <2> DEFINE zero == 0
             e == <<>>
  <2>0. zero \in Nat /\ e \in Lists /\ e = <<>>
    BY DEF Lists
  <2>1. /\ sc' = [sc EXCEPT !.nextLogs = e, !.prevLogs = e, !.chunkOffset = sc.nextOffset,
                            !.nextOffset = zero, !.prevOffset = zero]
        /\ pc' \in {"scan", "idle"}
    BY <1>8 DEF YieldLog
  <2> HIDE DEF zero, e
  <2>2. /\ sc'.nextLogs = <<>> /\ sc'.chunkOffset = sc.nextOffset /\ sc'.boundary = sc.boundary
        /\ sc'.page = sc.page /\ sc'.tail = sc.tail
    BY <1>2, <2>0, <2>1 DEF ScannerOf
  <2>3. From(sc') = From(sc)
    BY <2>2 DEF From
  <2>4. At(sc') = From(sc) + sc.nextOffset
    BY <2>2, <2>3 DEF At
  <2>5. Len(sc.nextLogs) = 1
    <3> DEFINE l == Len(sc.nextLogs) - 1
    <3>1. rest = SubSeq(sc.nextLogs, 1, l)
      BY DEF Front
    <3>2. l \in Nat /\ \A i \in 1 .. l : sc.nextLogs[i] \in Seq(Nat)
      <4>1. \A i \in 1 .. Len(sc.nextLogs) : sc.nextLogs[i] \in Seq(Nat)
        BY <1>2, ElementOfSeq DEF Lists
      <4>2. l \in Nat /\ \A i \in 1 .. l : i \in 1 .. Len(sc.nextLogs)
        BY <1>5
      <4> QED BY <4>1, <4>2
    <3>3. Len(<<>>) = 0 /\ rest = <<>>
      BY <1>8
    <3> HIDE DEF l, rest
    <3>4. Len(rest) = IF 1 <= l THEN l - 1 + 1 ELSE 0
      BY <3>1, <3>2, SubSeqProperties
    <3>5. l = 0
      BY <3>2, <3>3, <3>4
    <3> QED BY <1>5, <3>5 DEF l
  <2>6. At(sc') = IF Ahead(sc) THEN BlockEnd(sc) ELSE BlockStart(sc)
    BY <2>4 DEF BlockEnd, BlockStart
  <2>7. sc'.boundary
    BY <1>4, <2>2 DEF Entered
  <2> QED BY <1>2, <1>3, <1>5, <1>6, <2>1, <2>2, <2>5, <2>6, <2>7
<1> QED BY <1>7, <1>8

\* Whoever enters a block is at that side of it.
LEMMA EntersAt ==
  ASSUME stream \in Possible, Whereabouts, ~ MayTearEscape, pc = "scan", Enters
  PROVE  /\ sc.nextLogs = <<>> /\ sc.boundary
         /\ sc'.nextLogs # <<>> /\ pc' = "block"
         /\ BlockHas(stream.logs, Below(sc'), Above(sc'), BlockEnd(sc'))
         /\ scan = "forward" => Below(sc') = <<>> /\ BlockStart(sc') = At(sc)
         /\ scan = "backward" => Above(sc') = <<>> /\ BlockEnd(sc') = At(sc)
<1>1. Placed(sc) /\ sc.nextLogs = <<>> /\ scan \in {"forward", "backward"}
  BY ScannerIsPlaced, OutsideIs DEF Whereabouts, IsAt
<1>2. sc \in ScannerOf /\ sc.chunkOffset \in Nat /\ From(sc) \in Nat
  BY <1>1 DEF Placed, Known
<1>3. PICK co \in Nat, block \in Seq(Nat) :
       /\ EnterBlock([sc EXCEPT !.chunkOffset = co], block, sc.chunkOffset)
       /\ scan = "forward" => /\ sc.chunkOffset < co
                              /\ OneBlock(stream.bytes, At(sc), From(sc) + co)
                              /\ Piece(block, stream.bytes, At(sc), From(sc) + co)
       /\ scan = "backward" => /\ sc.chunkOffset > co
                               /\ OneBlock(stream.bytes, From(sc) + co, At(sc))
                               /\ Piece(block, stream.bytes, From(sc) + co, At(sc))
  BY DEF Enters
<1> DEFINE t == [sc EXCEPT !.chunkOffset = co]
           logs == parseEach(block)
           new == IF scan = "forward" THEN Reverse(logs) ELSE logs
           e == <<>>
           prev == sc.chunkOffset
<1>4. /\ Parses(block) /\ logs \in Lists
      /\ scan = "forward" => BlockHas(stream.logs, e, Reverse(logs), From(sc) + co)
      /\ scan = "backward" => BlockHas(stream.logs, logs, e, At(sc))
  BY <1>1, <1>3, BlockReads
<1>5. e \in Lists /\ e = <<>> /\ new \in Lists /\ prev \in Nat /\ Len(e) = 0
  BY <1>2, <1>4, ReverseIsSeq DEF Lists
<1>6. Moved(sc, t, co, TRUE)
  BY <1>2, MovedIs DEF Enters
<1>7. /\ pc' = "block"
      /\ sc' = [t EXCEPT !.nextLogs = new, !.prevLogs = e, !.nextOffset = t.chunkOffset,
                         !.prevOffset = prev]
  BY <1>3, <1>4 DEF EnterBlock
<1>e. /\ scan = "forward" => BlockHas(stream.logs, e, new, From(sc) + co)
      /\ scan = "backward" => BlockHas(stream.logs, new, e, At(sc))
  BY <1>4
<1> HIDE DEF t, new, e, logs
<1>8. t \in ScannerOf /\ t.chunkOffset = co /\ t.page = sc.page /\ t.tail = sc.tail
  BY <1>6 DEF Moved
<1>9. /\ sc'.nextLogs = new /\ sc'.prevLogs = e /\ sc'.nextOffset = co /\ sc'.prevOffset = prev
      /\ sc'.page = sc.page /\ sc'.tail = sc.tail
  BY <1>5, <1>7, <1>8 DEF ScannerOf
<1>10. From(sc') = From(sc) /\ At(sc) = From(sc) + prev
  BY <1>9 DEF From, At
<1>11. new # <<>>
  <2>1. ASSUME NEW up \in Lists, NEW down \in Lists, NEW y, BlockHas(stream.logs, up, down, y)
        PROVE  Len(up) + Len(down) >= 1
    <3>1. PICK a, b \in Nat : EndIn(stream.logs, y, a, b) /\ Shares(stream.logs, up, down, a, b)
      BY <2>1 DEF BlockHas
    <3>2. a <= b /\ Len(up) + Len(down) = b - a + 1
      BY <3>1 DEF EndIn, Shares
    <3> QED BY <3>2
  <2>2. Len(new) >= 1
    <3>1. Len(new) \in Nat
      BY <1>5, NotNothing
    <3>2. Len(e) + Len(new) >= 1 \/ Len(new) + Len(e) >= 1
      BY <1>1, <1>5, <1>e, <2>1
    <3> QED BY <1>5, <3>1, <3>2
  <2> QED BY <1>5, <2>2, NotNothing
<1>12. CASE scan = "forward"
  <2>1. Ahead(sc')
    BY <1>3, <1>9, <1>12 DEF Ahead
  <2>2. /\ Below(sc') = e /\ Above(sc') = new
        /\ BlockEnd(sc') = From(sc) + co /\ BlockStart(sc') = At(sc)
    BY <1>9, <1>10, <2>1 DEF Below, Above, BlockEnd, BlockStart
  <2> QED BY <1>1, <1>5, <1>7, <1>9, <1>11, <1>12, <1>e, <2>2 DEF Enters
<1>13. CASE scan = "backward"
  <2>1. ~ Ahead(sc')
    BY <1>2, <1>3, <1>9, <1>13 DEF Ahead
  <2>2. /\ Below(sc') = new /\ Above(sc') = e
        /\ BlockEnd(sc') = At(sc) /\ BlockStart(sc') = From(sc) + co
    BY <1>9, <1>10, <2>1 DEF Below, Above, BlockEnd, BlockStart
  <2> QED BY <1>1, <1>5, <1>7, <1>9, <1>11, <1>13, <1>e, <2>2 DEF Enters
<1> QED BY <1>1, <1>12, <1>13

-----------------------------------------------------------------------------
(* The steps of the cursor.                                                 *)

\* What a block has is kept up by every step.
LEMMA BlockStays ==
  ASSUME ~ MayTearEscape, CursorInv, [Next]_vars
  PROVE  HasItsBlock(stream.logs, sc, pc)'
<1>1. /\ ScanInv /\ stream \in Possible /\ Whereabouts /\ HasItsBlock(stream.logs, sc, pc)
      /\ scan \in {"forward", "backward"}
  BY DEF CursorInv, ParseInv, ScanInv, Whereabouts, IsAt
<1>2. CASE SourceGrows
  BY <1>1, <1>2 DEF SourceGrows, HasItsBlock
<1>3. CASE \E n \in SearchPages : goto(n * SearchPage) /\ sc'.nextLogs = <<>>
  BY <1>3 DEF goto, HasItsBlock
<1>4. CASE \E direction \in {"forward", "backward"} : StartScan(direction)
  <2>1. PICK d \in {"forward", "backward"} : StartScan(d)
    BY <1>4
  <2>2. stream' = stream
    BY <2>1 DEF StartScan
  <2>3. CASE sc.nextLogs = <<>>
    <3>1. sc' = sc /\ pc' = "scan"
      BY <2>1, <2>3 DEF StartScan, Turned
    <3> QED BY <2>3, <3>1 DEF HasItsBlock
  <2>4. CASE sc.nextLogs # <<>>
    <3>1. SameBlock(sc, sc') /\ sc'.nextLogs # <<>> /\ pc' = "block"
      BY <2>1, <2>4, TurnsRound
    <3>2. BlockHas(stream.logs, Below(sc), Above(sc), BlockEnd(sc))
      BY <1>1, <2>4 DEF HasItsBlock
    <3> QED BY <2>2, <3>1, <3>2 DEF HasItsBlock, SameBlock
  <2> QED BY <2>3, <2>4
<1>5. CASE YieldLog
  <2>1. stream' = stream
    BY <1>5 DEF YieldLog
  <2>2. /\ sc.nextLogs \in Lists /\ sc.prevLogs \in Lists /\ Len(sc.nextLogs) >= 1
        /\ out' = Last(sc.nextLogs)
    BY <1>5, HandsOut
  <2>3. CASE /\ sc'.nextLogs = Front(sc.nextLogs) /\ sc'.prevLogs = Append(sc.prevLogs, out')
             /\ sc'.nextLogs # <<>> /\ sc'.prevLogs # <<>>
             /\ Ahead(sc') = Ahead(sc) /\ BlockEnd(sc') = BlockEnd(sc)
    <3>1. BlockHas(stream.logs, Below(sc), Above(sc), BlockEnd(sc))
      <4>1. sc.nextLogs # <<>>
        BY <2>2, NotNothing
      <4> QED BY <1>1, <4>1 DEF HasItsBlock
    <3>2. PICK a, b \in Nat : /\ EndIn(stream.logs, BlockEnd(sc), a, b)
                              /\ Shares(stream.logs, Below(sc), Above(sc), a, b)
      BY <3>1 DEF BlockHas
    <3>3. Shares(stream.logs, Below(sc'), Above(sc'), a, b)
      <4>1. CASE Ahead(sc)
        <5>1. Below(sc) = sc.prevLogs /\ Above(sc) = sc.nextLogs
          BY <4>1 DEF Below, Above
        <5>2. Below(sc') = Append(sc.prevLogs, Last(sc.nextLogs)) /\ Above(sc') = Front(sc.nextLogs)
          BY <2>2, <2>3, <4>1 DEF Below, Above
        <5>3. Shares(stream.logs, sc.prevLogs, sc.nextLogs, a, b)
          BY <3>2, <5>1
        <5>4. Shares(stream.logs, Append(sc.prevLogs, Last(sc.nextLogs)), Front(sc.nextLogs), a, b)
          BY <2>2, <5>3, SharesMove DEF Lists
        <5> QED BY <5>2, <5>4
      <4>2. CASE ~ Ahead(sc)
        <5>1. Below(sc) = sc.nextLogs /\ Above(sc) = sc.prevLogs
          BY <4>2 DEF Below, Above
        <5>2. Below(sc') = Front(sc.nextLogs) /\ Above(sc') = Append(sc.prevLogs, Last(sc.nextLogs))
          BY <2>2, <2>3, <4>2 DEF Below, Above
        <5>3. Shares(stream.logs, sc.nextLogs, sc.prevLogs, a, b)
          BY <3>2, <5>1
        <5>4. Shares(stream.logs, Front(sc.nextLogs), Append(sc.prevLogs, Last(sc.nextLogs)), a, b)
          BY <2>2, <5>3, SharesMove DEF Lists
        <5> QED BY <5>2, <5>4
      <4> QED BY <4>1, <4>2
    <3>4. BlockHas(stream.logs, Below(sc'), Above(sc'), BlockEnd(sc'))
      BY <2>3, <3>2, <3>3 DEF BlockHas
    <3> QED BY <2>1, <2>3, <3>4 DEF HasItsBlock
  <2>4. CASE sc'.nextLogs = <<>> /\ pc' # "block"
    BY <2>4 DEF HasItsBlock
  <2> QED BY <1>5, <2>3, <2>4, HandsOut
<1>6. CASE Quiet
  BY <1>6 DEF Quiet, HasItsBlock
<1>7. CASE Enters /\ pc = "scan" /\ stream' = stream
  <2>1. /\ sc'.nextLogs # <<>> /\ pc' = "block"
        /\ BlockHas(stream.logs, Below(sc'), Above(sc'), BlockEnd(sc'))
    BY <1>1, <1>7, EntersAt
  <2> QED BY <1>7, <2>1 DEF HasItsBlock
<1>8. CASE UNCHANGED vars
  BY <1>1, <1>8 DEF vars, HasItsBlock
<1> QED BY <1>1, <1>2, <1>3, <1>4, <1>5, <1>6, <1>7, <1>8, StepIs

\* The inductive invariant of the cursor.
LEMMA CursorNext ==
  ASSUME ~ MayTearEscape, CursorInv, [Next]_vars
  PROVE  CursorInv'
<1>1. ParseInv
  BY DEF CursorInv
<1>2. ParseInv'
  BY <1>1, ParseNext
<1> QED BY <1>2, BlockStays DEF CursorInv

-----------------------------------------------------------------------------
(* The steps of the abstract cursor.                                        *)

\* Nothing that readers see goes away.
Seen == LogsBefore(visible)

\* Readers see a stream that only grows.
LEMMA SeenIs ==
  ASSUME ScanInv, [Next]_vars
  PROVE  /\ Seen \in Nat /\ Seen' \in Nat /\ Seen <= Seen' /\ stream' = stream
         /\ visible' = visible => Seen' = Seen
         /\ \A x \in Nat : x <= visible => LogsBefore(x) <= Seen
<1>1. stream \in Possible /\ Whereabouts /\ ScanInv' /\ stream' = stream
  <2>1. stream' = stream
    BY DEF Next, SourceGrows, goto, StartScan, YieldLog, ForwardDropTail, ForwardStep,
           BackwardDropTail, BackwardStep, Scanning, updateSize, vars
  <2> QED BY <2>1, NextInv DEF ScanInv
<1>2. visible \in Nat /\ visible' \in Nat
  BY <1>1 DEF ScanInv, Whereabouts, IsAt
<1>3. visible <= visible'
  <2>1. CASE SourceGrows
    <3>1. Len(stream.bytes) \in Nat
      BY <1>1, PossibleIs
    <3> QED BY <1>2, <2>1, <3>1 DEF SourceGrows
  <2>2. CASE visible' = visible
    BY <1>2, <2>2
  <2> QED BY <2>1, <2>2 DEF Next, goto, StartScan, YieldLog, ForwardDropTail, ForwardStep,
                            BackwardDropTail, BackwardStep, Scanning, updateSize, vars
<1>4. Seen' = LogsBefore(visible')
  BY <1>1 DEF Seen, LogsBefore
<1>5. /\ LogsBefore(visible) \in Nat /\ LogsBefore(visible') \in Nat
      /\ LogsBefore(visible) <= LogsBefore(visible')
      /\ \A x \in Nat : x <= visible => LogsBefore(x) <= LogsBefore(visible)
  BY <1>1, <1>2, <1>3, LogsBeforeIs, LogsBeforeInOrder
<1> QED BY <1>1, <1>4, <1>5 DEF Seen

\* A step that moves no record leaves the cursor where it is, or somewhere known.
LEMMA RestIs ==
  ASSUME ScanInv, [Next]_vars, out' = NoLog, scan' \in {"forward", "backward"},
         \/ Position' = Position
         \/ Position = Unknown /\ Position' \in Nat /\ Position' <= Seen
  PROVE  Cursor!Rest
<1>1. Seen \in Nat /\ Seen' \in Nat /\ Seen <= Seen' /\ stream' = stream
  BY SeenIs
<1> DEFINE logs == [i \in 1 .. LogsBefore(visible) |-> stream.logs[i].log]
           n == Seen
           m == Seen'
           rec(i) == stream.logs[i].log
           after == [i \in 1 .. m |-> rec(i)]
           before == [i \in 1 .. n |-> rec(i)]
<1>2. logs = before /\ logs' = after
  <2>1. logs = before
    BY DEF Seen
  <2>2. logs' = after
    BY <1>1 DEF Seen
  <2> QED BY <2>1, <2>2
<1>3. Len(before) = n /\ Len(after) = m /\ SubSeq(after, 1, n) = before
  <2>1. n \in Nat /\ m \in Nat /\ n <= m
    BY <1>1
  <2> HIDE DEF n, m, rec
  <2>2. Len(before) = n /\ Len(after) = m
    BY <2>1
  <2>3. SubSeq(after, 1, n) = [i \in 1 .. n |-> after[i]]
    BY <2>1
  <2>4. \A i \in 1 .. n : after[i] = rec(i)
    BY <2>1
  <2> QED BY <2>2, <2>3, <2>4
<1>4. Len(logs) = n /\ Cursor!Grow
  <2> HIDE DEF n, m, rec, before, after
  <2>1. Len(logs) = n /\ Len(logs') = m /\ SubSeq(logs', 1, Len(logs)) = logs
    BY <1>2, <1>3
  <2>2. m >= n
    BY <1>1 DEF n, m
  <2> QED BY <2>1, <2>2 DEF Cursor!Grow
<1>5. Position' \in Cursor!Positions \cup {Position}
  <2>1. CASE Position' = Position
    BY <2>1
  <2>2. CASE Position = Unknown /\ Position' \in Nat /\ Position' <= Seen
    <3>1. Position' \in 0 .. Len(logs)
      <4>1. Len(logs) = Seen /\ Seen \in Nat
        BY <1>1, <1>4
      <4> HIDE DEF logs
      <4> QED BY <2>2, <4>1
    <3> QED BY <2>2, <3>1 DEF Cursor!Positions
  <2> QED BY <2>1, <2>2
<1> QED BY <1>4, <1>5 DEF Cursor!Rest

\* The record that is handed out is the one next to the cursor.
LEMMA HandsOutIs ==
  ASSUME ScanInv, [Next]_vars, visible' = visible, scan' = scan, Position \in Nat
  PROVE  /\ /\ scan = "forward" /\ Position < Seen /\ Position' = Position + 1
            /\ out' = stream.logs[Position + 1].log
            => Cursor!Forward
         /\ /\ scan = "backward" /\ Position > 0 /\ Position <= Seen /\ Position' = Position - 1
            /\ out' = stream.logs[Position].log
            => Cursor!Backward
<1>1. Seen \in Nat /\ Seen' = Seen /\ stream' = stream
  BY SeenIs
<1> DEFINE logs == [i \in 1 .. LogsBefore(visible) |-> stream.logs[i].log]
           n == Seen
<1>2. logs = [i \in 1 .. n |-> stream.logs[i].log]
  BY DEF Seen
<1>3. logs' = logs
  BY <1>1 DEF Seen
<1>4. Len(logs) = n /\ \A i \in 1 .. n : logs[i] = stream.logs[i].log
  <2> DEFINE rec(i) == stream.logs[i].log
             all == [i \in 1 .. n |-> rec(i)]
  <2>1. n \in Nat
    BY <1>1
  <2> HIDE DEF n, rec
  <2>2. Len(all) = n /\ \A i \in 1 .. n : all[i] = rec(i)
    BY <2>1
  <2> QED BY <1>2, <2>2 DEF rec
<1>5. Position \in Cursor!Positions
  BY DEF Cursor!Positions, Unknown
<1>6. ASSUME scan = "forward", Position < Seen, Position' = Position + 1,
             out' = stream.logs[Position + 1].log
      PROVE  Cursor!Forward
  <2>1. Position + 1 \in 1 .. n /\ Position < n
    BY <1>1, <1>6
  <2>2. out' = logs[Position + 1] /\ Position < Len(logs)
    BY <1>4, <1>6, <2>1
  <2> HIDE DEF logs
  <2> QED BY <1>3, <1>5, <1>6, <2>2 DEF Cursor!Forward, logs
<1>7. ASSUME scan = "backward", Position > 0, Position <= Seen, Position' = Position - 1,
             out' = stream.logs[Position].log
      PROVE  Cursor!Backward
  <2>1. Position \in 1 .. n
    BY <1>1, <1>7
  <2>2. out' = logs[Position]
    BY <1>4, <1>7, <2>1
  <2> HIDE DEF logs
  <2> QED BY <1>3, <1>5, <1>7, <2>2 DEF Cursor!Backward, logs
<1> QED BY <1>6, <1>7

LEMMA CursorIsAtNext == CursorInv' => CursorAt'
<1>1. CursorInv => CursorAt
  BY CursorIsAt
<1> QED BY <1>1, PTL

LEMMA SamePosition ==
  ASSUME stream' = stream, sc' = sc
  PROVE  Position' = Position
BY DEF Position, calculateByteOffset, LogsBefore, Unknown

\* A scan hands out a record.
LEMMA YieldIsAStep ==
  ASSUME CursorInv, YieldLog, CursorAt, CursorAt'
  PROVE  Cursor!Forward \/ Cursor!Backward
<1>1. /\ ScanInv /\ [Next]_vars /\ scan \in {"forward", "backward"}
  BY DEF CursorInv, ParseInv, ScanInv, Whereabouts, IsAt, Next
<1>2. stream' = stream /\ visible' = visible /\ scan' = scan
  BY DEF YieldLog
<1>3. /\ sc.nextLogs \in Lists /\ sc.prevLogs \in Lists /\ Len(sc.nextLogs) >= 1
      /\ out' = Last(sc.nextLogs) /\ (Ahead(sc) <=> scan = "forward")
  BY HandsOut
<1>4. sc.nextLogs # <<>>
  BY <1>3, NotNothing
<1>5. PICK a, b \in Nat : /\ InBlock(stream.logs, visible, sc, a, b)
                          /\ Position = b - Len(Above(sc)) /\ Position = a - 1 + Len(Below(sc))
  BY <1>4 DEF CursorAt, Whereat
<1>6. /\ 1 <= a /\ a <= b /\ b <= Len(stream.logs)
      /\ Shares(stream.logs, Below(sc), Above(sc), a, b)
      /\ Len(Below(sc)) \in Nat /\ Len(Above(sc)) \in Nat
      /\ Passed(stream.logs, BlockEnd(sc)) = b /\ Passed(stream.logs, BlockStart(sc)) = a - 1
      /\ BlockEnd(sc) \in Nat /\ BlockEnd(sc) <= visible
  BY <1>5 DEF InBlock
<1>7. Position \in Nat
  BY <1>5, <1>6
<1>8. b <= Seen /\ Seen \in Nat
  <2>1. LogsBefore(BlockEnd(sc)) <= Seen /\ Seen \in Nat
    BY <1>1, <1>6, SeenIs
  <2> QED BY <1>6, <2>1 DEF LogsBefore, Passed
<1>9. Below(sc) \in Lists /\ Above(sc) \in Lists
  BY <1>3 DEF Below, Above
<1> DEFINE left == /\ sc'.nextLogs = Front(sc.nextLogs)
                   /\ sc'.prevLogs = Append(sc.prevLogs, out')
                   /\ sc'.nextLogs # <<>>
                   /\ Ahead(sc') = Ahead(sc)
                   /\ BlockStart(sc') = BlockStart(sc)
           last == /\ sc'.nextLogs = <<>> /\ sc'.boundary /\ Len(sc.nextLogs) = 1
                   /\ At(sc') = IF Ahead(sc) THEN BlockEnd(sc) ELSE BlockStart(sc)
<1>10. left \/ last
  BY HandsOut
<1>11. ASSUME left PROVE Position' = a - 1 + Len(Below(sc'))
  <2>1. PICK c, d \in Nat : InBlock(stream.logs', visible', sc', c, d)
                            /\ Position' = c - 1 + Len(Below(sc'))
    BY <1>11 DEF CursorAt, Whereat
  <2>2. Passed(stream.logs, BlockStart(sc)) = c - 1
    BY <1>2, <1>11, <2>1 DEF InBlock
  <2>3. c = a
    BY <1>6, <2>2
  <2> QED BY <2>1, <2>3
<1>12. ASSUME last PROVE Position' = Passed(stream.logs, At(sc'))
  BY <1>2, <1>12 DEF CursorAt, Whereat
<1>13. CASE Ahead(sc)
  <2>1. Below(sc) = sc.prevLogs /\ Above(sc) = sc.nextLogs
    BY <1>13 DEF Below, Above
  <2>2. Shares(stream.logs, sc.prevLogs, sc.nextLogs, a, b)
    BY <1>6, <2>1
  <2>3. /\ Last(sc.nextLogs) = stream.logs[a + Len(sc.prevLogs)].log
        /\ Len(Append(sc.prevLogs, Last(sc.nextLogs))) = Len(sc.prevLogs) + 1
    BY <1>3, <2>2, SharesMove DEF Lists
  <2>4. out' = stream.logs[Position + 1].log
    <3>1. a + Len(sc.prevLogs) = Position + 1
      <4> DEFINE m == Len(sc.prevLogs)
      <4>1. m \in Nat /\ Position = a - 1 + m
        BY <1>5, <1>6, <2>1
      <4> HIDE DEF m
      <4>2. a + m = Position + 1
        BY <4>1
      <4> QED BY <4>2 DEF m
    <3> QED BY <1>3, <2>3, <3>1
  <2>5. Position < Seen
    BY <1>3, <1>5, <1>6, <1>8, <2>1
  <2>6. Position' = Position + 1
    <3>1. CASE left
      <4>1. Below(sc') = Append(sc.prevLogs, Last(sc.nextLogs))
        BY <1>3, <1>13, <3>1 DEF Below
      <4>2. Position' = a - 1 + (Len(sc.prevLogs) + 1)
        BY <1>11, <2>3, <3>1, <4>1
      <4> DEFINE m == Len(sc.prevLogs)
      <4>3. m \in Nat /\ Position = a - 1 + m /\ Position' = a - 1 + (m + 1)
        BY <1>5, <1>6, <2>1, <4>2
      <4> HIDE DEF m
      <4> QED BY <4>3
    <3>2. CASE last
      <4>1. Position' = b
        BY <1>6, <1>12, <1>13, <3>2
      <4> QED BY <1>5, <1>6, <2>1, <3>2, <4>1
    <3> QED BY <1>10, <3>1, <3>2
  <2>7. scan = "forward"
    BY <1>3, <1>13
  <2> QED BY <1>1, <1>2, <1>7, <2>4, <2>5, <2>6, <2>7, HandsOutIs
<1>14. CASE ~ Ahead(sc)
  <2>1. Below(sc) = sc.nextLogs /\ Above(sc) = sc.prevLogs
    BY <1>14 DEF Below, Above
  <2>2. Shares(stream.logs, sc.nextLogs, sc.prevLogs, a, b)
    BY <1>6, <2>1
  <2>3. /\ Last(sc.nextLogs) = stream.logs[a + Len(sc.nextLogs) - 1].log
        /\ Len(Front(sc.nextLogs)) = Len(sc.nextLogs) - 1
    <3> DEFINE up == sc.nextLogs
               down == sc.prevLogs
    <3>1. up \in Seq(Seq(Nat)) /\ down \in Seq(Seq(Nat)) /\ Len(up) >= 1
          /\ Shares(stream.logs, up, down, a, b)
      BY <1>3, <2>2 DEF Lists
    <3> HIDE DEF up, down
    <3>2. /\ Shares(stream.logs, Front(up), Append(down, Last(up)), a, b)
          /\ Last(up) = stream.logs[a + Len(up) - 1].log
          /\ Len(Front(up)) = Len(up) - 1
      BY <3>1, SharesMove
    <3> QED BY <3>2 DEF up
  <2>4. out' = stream.logs[Position].log
    <3>1. a + Len(sc.nextLogs) - 1 = Position
      <4> DEFINE m == Len(sc.nextLogs)
      <4>1. m \in Nat /\ Position = a - 1 + m
        BY <1>5, <1>6, <2>1
      <4> HIDE DEF m
      <4>2. a + m - 1 = Position
        BY <4>1
      <4> QED BY <4>2 DEF m
    <3> QED BY <1>3, <2>3, <3>1
  <2>5. Position > 0 /\ Position <= Seen
    BY <1>3, <1>5, <1>6, <1>8, <2>1
  <2>6. Position' = Position - 1
    <3>1. CASE left
      <4>1. Below(sc') = Front(sc.nextLogs)
        BY <1>14, <3>1 DEF Below
      <4>2. Position' = a - 1 + (Len(sc.nextLogs) - 1)
        BY <1>11, <2>3, <3>1, <4>1
      <4> DEFINE m == Len(sc.nextLogs)
      <4>3. m \in Nat /\ Position = a - 1 + m /\ Position' = a - 1 + (m - 1)
        BY <1>5, <1>6, <2>1, <4>2
      <4> HIDE DEF m
      <4> QED BY <4>3
    <3>2. CASE last
      <4>1. Position' = a - 1
        BY <1>6, <1>12, <1>14, <3>2
      <4> QED BY <1>5, <1>6, <2>1, <3>2, <4>1
    <3> QED BY <1>10, <3>1, <3>2
  <2>7. scan = "backward"
    BY <1>1, <1>3, <1>14
  <2> QED BY <1>1, <1>2, <1>7, <2>4, <2>5, <2>6, <2>7, HandsOutIs
<1> QED BY <1>13, <1>14

\* Each step of the scanner is one of the cursor, or leaves it as it is.
LEMMA NextIsAStep ==
  ASSUME ~ MayTearEscape, CursorInv, [Next]_vars
  PROVE  [Cursor!Next]_(Cursor!vars)
<1>1. /\ ScanInv /\ stream \in Possible /\ Whereabouts /\ scan \in {"forward", "backward"}
  BY DEF CursorInv, ParseInv, ScanInv, Whereabouts, IsAt
<1>2. CursorAt /\ CursorAt'
  BY CursorIsAt, CursorNext, CursorIsAtNext
<1>3. stream' = stream
  BY <1>1, SeenIs
<1>4. CASE SourceGrows
  <2>1. Position' = Position
    BY <1>3, <1>4, SamePosition DEF SourceGrows
  <2>2. Cursor!Rest
    BY <1>1, <1>4, <2>1, RestIs DEF SourceGrows
  <2> QED BY <2>2 DEF Cursor!Next
<1>5. CASE \E n \in SearchPages : goto(n * SearchPage) /\ sc'.nextLogs = <<>>
                                  /\ (sc'.boundary => At(sc') = 0)
  <2>1. /\ scan' = "forward" /\ out' = NoLog /\ visible' = visible
        /\ sc'.nextLogs = <<>> /\ (sc'.boundary => At(sc') = 0)
    BY <1>5 DEF goto
  <2>2. Passed(stream.logs, 0) = 0
    BY <1>1, NoLogsBeforeZero DEF LogsBefore, Passed
  <2>3. Position' \in {0, Unknown}
    BY <1>2, <1>3, <2>1, <2>2 DEF CursorAt, Whereat, Unknown
  <2>4. Cursor!Jump
    BY <1>3, <2>1, <2>3 DEF Cursor!Jump, LogsBefore
  <2> QED BY <2>4 DEF Cursor!Next
<1>6. CASE \E direction \in {"forward", "backward"} : StartScan(direction)
  <2>1. PICK d \in {"forward", "backward"} : StartScan(d)
    BY <1>6
  <2>2. Position' = Position
    <3>1. CASE sc.nextLogs = <<>>
      <4>1. sc' = sc
        BY <2>1, <3>1 DEF StartScan, Turned
      <4> QED BY <1>3, <4>1, SamePosition
    <3>2. CASE sc.nextLogs # <<>>
      <4>1. SameBlock(sc, sc') /\ sc'.nextLogs # <<>>
        BY <2>1, <3>2, TurnsRound
      <4>2. PICK a, b \in Nat : /\ InBlock(stream.logs, visible, sc, a, b)
                                /\ Position = a - 1 + Len(Below(sc))
        BY <1>2, <3>2 DEF CursorAt, Whereat
      <4>3. PICK c, e \in Nat : /\ InBlock(stream.logs', visible', sc', c, e)
                                /\ Position' = c - 1 + Len(Below(sc'))
        BY <1>2, <4>1 DEF CursorAt, Whereat
      <4>4. a - 1 = c - 1
        BY <1>3, <4>1, <4>2, <4>3 DEF InBlock, SameBlock
      <4> QED BY <4>1, <4>2, <4>3, <4>4 DEF SameBlock
    <3> QED BY <3>1, <3>2
  <2>3. out' = NoLog /\ scan' \in {"forward", "backward"}
    BY <2>1 DEF StartScan
  <2>4. Cursor!Rest
    BY <1>1, <2>2, <2>3, RestIs
  <2> QED BY <2>4 DEF Cursor!Next
<1>7. CASE YieldLog
  BY <1>2, <1>7, YieldIsAStep DEF Cursor!Next
<1>8. CASE Quiet /\ out' = NoLog /\ UNCHANGED <<stream, visible, scan>>
  <2>1. /\ sc.nextLogs = <<>> /\ sc'.nextLogs = <<>>
        /\ sc.boundary => sc'.boundary /\ At(sc') = At(sc)
    BY <1>8 DEF Quiet
  <2>2. \/ Position' = Position
        \/ Position = Unknown /\ Position' \in Nat /\ Position' <= Seen
    <3>1. CASE sc.boundary
      <4>1. Position = Passed(stream.logs, At(sc))
        BY <1>2, <2>1, <3>1 DEF CursorAt, Whereat
      <4>2. Position' = Passed(stream.logs, At(sc'))
        BY <1>2, <1>3, <2>1, <3>1 DEF CursorAt, Whereat
      <4> QED BY <2>1, <3>1, <4>1, <4>2
    <3>2. CASE ~ sc.boundary
      <4>1. Position = Unknown
        BY <1>2, <2>1, <3>2 DEF CursorAt, Whereat
      <4>2. CASE ~ sc'.boundary
        <5>1. Position' = Unknown
          BY <1>2, <2>1, <4>2 DEF CursorAt, Whereat, Unknown
        <5> QED BY <4>1, <5>1
      <4>3. CASE sc'.boundary
        <5>1. /\ Position' = Passed(stream.logs, At(sc')) /\ Position' \in Nat
              /\ At(sc') \in Nat /\ At(sc') <= visible
          BY <1>2, <1>3, <1>8, <2>1, <4>3 DEF CursorAt, Whereat
        <5>2. LogsBefore(At(sc')) <= Seen
          BY <1>1, <5>1, SeenIs
        <5>3. LogsBefore(At(sc')) = Passed(stream.logs, At(sc'))
          BY DEF LogsBefore, Passed
        <5> QED BY <4>1, <5>1, <5>2, <5>3
      <4> QED BY <4>2, <4>3
    <3> QED BY <3>1, <3>2
  <2>3. Cursor!Rest
    BY <1>1, <1>8, <2>2, RestIs
  <2> QED BY <2>3 DEF Cursor!Next
<1>9. CASE Enters /\ out' = NoLog /\ pc = "scan" /\ UNCHANGED <<stream, visible, scan>>
  <2>1. /\ sc.nextLogs = <<>> /\ sc.boundary /\ sc'.nextLogs # <<>>
        /\ scan = "forward" => Below(sc') = <<>> /\ BlockStart(sc') = At(sc)
        /\ scan = "backward" => Above(sc') = <<>> /\ BlockEnd(sc') = At(sc)
    BY <1>1, <1>9, EntersAt
  <2>2. Position = Passed(stream.logs, At(sc)) /\ Position \in Nat
    BY <1>2, <2>1 DEF CursorAt, Whereat
  <2>3. PICK a, b \in Nat : /\ InBlock(stream.logs', visible', sc', a, b)
                            /\ Position' = b - Len(Above(sc')) /\ Position' = a - 1 + Len(Below(sc'))
    BY <1>2, <2>1 DEF CursorAt, Whereat
  <2>4. Passed(stream.logs, BlockEnd(sc')) = b /\ Passed(stream.logs, BlockStart(sc')) = a - 1
    BY <1>3, <2>3 DEF InBlock
  <2>5. Len(<<>>) = 0
    OBVIOUS
  <2>6. Position' = Position
    <3>1. CASE scan = "forward"
      <4>1. Position = a - 1 /\ Len(Below(sc')) = 0
        BY <2>1, <2>2, <2>4, <2>5, <3>1
      <4> QED BY <2>3, <4>1
    <3>2. CASE scan = "backward"
      <4>1. Position = b /\ Len(Above(sc')) = 0
        BY <2>1, <2>2, <2>4, <2>5, <3>2
      <4> QED BY <2>3, <4>1
    <3> QED BY <1>1, <3>1, <3>2
  <2>7. Cursor!Rest
    BY <1>1, <1>9, <2>6, RestIs
  <2> QED BY <2>7 DEF Cursor!Next
<1>10. CASE UNCHANGED vars
  <2>1. Position' = Position
    BY <1>3, <1>10, SamePosition DEF vars
  <2> QED BY <1>3, <1>10, <2>1 DEF vars, Cursor!vars, LogsBefore
<1> QED BY <1>1, <1>4, <1>5, <1>6, <1>7, <1>8, <1>9, <1>10, StepIs

\* The cursor starts in front of the first record.
LEMMA CursorStarts ==
  ASSUME ~ MayStartEmpty, Init
  PROVE  CursorInv /\ Cursor!Init
<1>1. CursorInv
  BY InitInv DEF CursorInv, ParseInv, BlocksParse, HasItsBlock, Init
<1>2. Position = 0
  <2>1. sc.page = -1 /\ sc.nextLogs = <<>> /\ sc.boundary
    BY DEF Init
  <2>2. calculateByteOffset = 0
    BY <2>1 DEF calculateByteOffset
  <2>3. stream \in Possible
    BY <1>1 DEF CursorInv, ParseInv, ScanInv
  <2> QED BY <2>1, <2>2, <2>3, NoLogsBeforeZero DEF Position
<1> QED BY <1>1, <1>2 DEF Cursor!Init, Init

\* A scanner implements LogCursor: across pages, tails, changes of direction and a
\* growing source, a record is handed out exactly when the cursor passes it, each as
\* it was written, and none is left out or handed out twice (scanner.js:60-190).
THEOREM ScannerImplementsCursor ==
  ASSUME ~ MayStartEmpty, ~ MayTearEscape
  PROVE  Spec => CursorSpec
<1>1. Init => CursorInv /\ Cursor!Init
  BY CursorStarts
<1>2. CursorInv /\ [Next]_vars => CursorInv'
  BY CursorNext
<1>3. CursorInv /\ [Next]_vars => [Cursor!Next]_(Cursor!vars)
  BY NextIsAStep
<1> QED BY <1>1, <1>2, <1>3, PTL DEF Spec, CursorSpec, Cursor!CursorSpec

-----------------------------------------------------------------------------
(* 5. The loop of the binary search.                                       *)

\* g[at] is where the search ends from there.
IsSearch(bytes, size, desired, c, g) ==
  g = [at \in Places(c) |-> IF at.found \/ at.left > at.right THEN at.prev
                            ELSE g[Looked(bytes, size, desired, at)]]

Begin(c) == [left |-> 0, right |-> c - 1, prev |-> 0, found |-> FALSE]

LEMMA SearchIs ==
  ASSUME NEW bytes, NEW size, NEW desired
  PROVE  binarySearch(bytes, size, desired) =
           (CHOOSE g : IsSearch(bytes, size, desired, CeilDiv(Len(bytes), size), g))
             [Begin(CeilDiv(Len(bytes), size))]
BY Zenon DEF binarySearch, IsSearch, Begin

\* The pages with a block, all of which are pages of the source.
FullPages(bytes, size, c, full) ==
  /\ full = {n \in 0 .. c : HasBlock(bytes, n, size)}
  /\ \A n \in full : n < c

Searching(at) == ~ at.found /\ at.left <= at.right

HalfOf(at) == (at.left + at.right) \div 2

\* How far a search has to go.
Span(at) == IF Searching(at) THEN at.right - at.left + 1 ELSE 0

\* The first page with a block in the upper half.
IsFirst(full, at, p) ==
  /\ p \in full /\ HalfOf(at) <= p /\ p <= at.right
  /\ \A n \in full : HalfOf(at) <= n => p <= n

LEMMA HalfIs ==
  ASSUME NEW c \in Nat, NEW at \in Places(c), Searching(at)
  PROVE  HalfOf(at) \in Nat /\ at.left <= HalfOf(at) /\ HalfOf(at) <= at.right
<1>1. at.left \in Nat /\ at.right \in Int /\ at.left <= at.right
  BY DEF Places, Searching
<1> QED BY <1>1 DEF HalfOf

\* Where a pass leaves the search: no page was found, or a page before the
\* desired time, behind it, or at it.
Narrowed(at) == [at EXCEPT !.right = HalfOf(at) - 1]
Before(at, p) == [at EXCEPT !.left = p + 1, !.prev = p]
Behind(at, p) == [at EXCEPT !.right = HalfOf(at) - 1, !.prev = p]
Met(at, p) == [at EXCEPT !.prev = p, !.found = TRUE]

\* What a pass of the loop does.
LEMMA LookedIs ==
  ASSUME NEW c \in Nat, NEW at \in Places(c), Searching(at),
         NEW bytes, NEW size, NEW desired, NEW full, FullPages(bytes, size, c, full),
         NEW next, next = Looked(bytes, size, desired, at)
  PROVE     \/ /\ next = Narrowed(at)
               /\ \A n \in full : n < HalfOf(at) \/ n > at.right
            \/ \E p \in full :
                 /\ IsFirst(full, at, p)
                 /\ \/ desired > TimeOf(bytes, p, size) /\ next = Before(at, p)
                    \/ desired < TimeOf(bytes, p, size) /\ next = Behind(at, p)
                    \/ /\ ~ (desired > TimeOf(bytes, p, size))
                       /\ ~ (desired < TimeOf(bytes, p, size))
                       /\ next = Met(at, p)
<1> DEFINE m == HalfOf(at)
           here == {n \in m .. at.right : HasBlock(bytes, n, size)}
<1>1. m \in Nat /\ at.left <= m /\ m <= at.right /\ at.right \in Nat /\ at.right <= c
  BY HalfIs DEF Places
<1>2. here \subseteq full /\ \A n \in full : n \in here \/ n < m \/ n > at.right
  BY <1>1 DEF FullPages
<1>3. next = CASE here = {} -> Narrowed(at)
               [] here # {} /\ desired > TimeOf(bytes, Min(here), size) ->
                    Before(at, Min(here))
               [] here # {} /\ desired < TimeOf(bytes, Min(here), size) ->
                    Behind(at, Min(here))
               [] OTHER -> Met(at, Min(here))
  BY Zenon DEF Looked, HalfOf, Narrowed, Before, Behind, Met
<1>4. CASE here = {}
  <2>1. next = Narrowed(at)
    <3> HIDE DEF here, m
    <3> QED BY <1>3, <1>4
  <2> QED BY <1>2, <1>4, <2>1
<1>5. CASE here # {}
  <2> DEFINE p == Min(here)
             T == TimeOf(bytes, p, size)
  <2>1. p \in here /\ \A n \in here : p <= n
    <3>1. here \subseteq Nat
      BY <1>1
    <3>2. \E x \in here : \A n \in here : x <= n
      <4> HIDE DEF here
      <4> QED BY <1>5, <3>1, LeastNumber
    <3> QED BY <3>2, Zenon DEF Min
  <2>2. p \in full /\ IsFirst(full, at, p)
    <3>1. p \in full /\ m <= p /\ p <= at.right /\ p \in Nat
      BY <1>1, <1>2, <2>1
    <3>2. ASSUME NEW n \in full, m <= n PROVE p <= n
      <4>1. n \in Nat
        BY DEF FullPages
      <4> QED BY <1>1, <1>2, <2>1, <3>1, <3>2, <4>1
    <3> HIDE DEF p
    <3> QED BY <3>1, <3>2 DEF IsFirst
  <2>3. \/ desired > T /\ next = Before(at, p)
        \/ desired < T /\ next = Behind(at, p)
        \/ ~ (desired > T) /\ ~ (desired < T) /\ next = Met(at, p)
    <3> HIDE DEF here, m, p
    <3>1. next = CASE here = {} -> Narrowed(at)
                   [] here # {} /\ desired > T -> Before(at, p)
                   [] here # {} /\ desired < T -> Behind(at, p)
                   [] OTHER -> Met(at, p)
      BY <1>3, Zenon DEF p
    <3> DEFINE up == desired > T
               down == desired < T
    <3> HIDE DEF up, down
    <3>2. next = CASE here = {} -> Narrowed(at) [] here # {} /\ up -> Before(at, p)
                   [] here # {} /\ down -> Behind(at, p) [] OTHER -> Met(at, p)
      BY <3>1, Zenon DEF up, down
    <3>3. \/ up /\ next = Before(at, p)
          \/ down /\ next = Behind(at, p)
          \/ ~ up /\ ~ down /\ next = Met(at, p)
      BY <1>5, <3>2
    <3> QED BY <3>3 DEF up, down
  <2> HIDE DEF p
  <2> QED BY <2>2, <2>3
<1> QED BY <1>4, <1>5

\* It leaves the search in its bounds, and shorter.
LEMMA LookedIn ==
  ASSUME NEW c \in Nat, NEW at \in Places(c), Searching(at),
         NEW bytes, NEW size, NEW desired, NEW full, FullPages(bytes, size, c, full)
  PROVE  /\ Looked(bytes, size, desired, at) \in Places(c)
         /\ Span(Looked(bytes, size, desired, at)) < Span(at)
<1> DEFINE next == Looked(bytes, size, desired, at)
           m == HalfOf(at)
<1>1. /\ at = [left |-> at.left, right |-> at.right, prev |-> at.prev, found |-> at.found]
      /\ at.left \in Nat /\ at.right \in Nat /\ at.prev \in 0 .. c /\ at.found = FALSE
      /\ at.right <= c /\ at.left <= m /\ m <= at.right /\ m \in Nat
  BY HalfIs DEF Places, Searching
<1>2. Span(at) = at.right - at.left + 1
  BY DEF Span
<1>3. \/ next = Narrowed(at)
      \/ \E p \in full : /\ IsFirst(full, at, p)
                        /\ \/ next = Before(at, p)
                           \/ next = Behind(at, p)
                           \/ next = Met(at, p)
  <2> HIDE DEF next
  <2>1. next = Looked(bytes, size, desired, at)
    BY DEF next
  <2> QED BY <2>1, LookedIs
<1> HIDE DEF next, m
<1>4. CASE next = Narrowed(at)
  <2>1. next = [left |-> at.left, right |-> m - 1, prev |-> at.prev, found |-> FALSE]
    BY <1>1, <1>4 DEF Narrowed, m
  <2> QED BY <1>1, <1>2, <2>1 DEF Places, Span, Searching, next
<1>5. ASSUME NEW p \in full, IsFirst(full, at, p),
             next = Before(at, p) \/ next = Behind(at, p) \/ next = Met(at, p)
      PROVE  next \in Places(c) /\ Span(next) < Span(at)
  <2>1. p \in Nat /\ m <= p /\ p <= at.right /\ p < c
    BY <1>5 DEF IsFirst, FullPages, m
  <2>2. \/ next = [left |-> p + 1, right |-> at.right, prev |-> p, found |-> FALSE]
        \/ next = [left |-> at.left, right |-> m - 1, prev |-> p, found |-> FALSE]
        \/ next = [left |-> at.left, right |-> at.right, prev |-> p, found |-> TRUE]
    BY <1>1, <1>5 DEF Before, Behind, Met, m
  <2>3. /\ p + 1 \in 0 .. c /\ at.left \in 0 .. c /\ p \in 0 .. c
        /\ at.right \in -1 .. c /\ m - 1 \in -1 .. c
    BY <1>1, <2>1
  <2>4. next \in Places(c)
    <3>1. CASE next = [left |-> p + 1, right |-> at.right, prev |-> p, found |-> FALSE]
      BY <2>3, <3>1 DEF Places
    <3>2. CASE next = [left |-> at.left, right |-> m - 1, prev |-> p, found |-> FALSE]
      BY <2>3, <3>2 DEF Places
    <3>3. CASE next = [left |-> at.left, right |-> at.right, prev |-> p, found |-> TRUE]
      BY <2>3, <3>3 DEF Places
    <3> QED BY <2>2, <3>1, <3>2, <3>3
  <2>5. \/ next.left = p + 1 /\ next.right = at.right /\ next.found = FALSE
        \/ next.left = at.left /\ next.right = m - 1 /\ next.found = FALSE
        \/ next.found = TRUE
    BY <2>2
  <2>6. Span(next) < Span(at)
    BY <1>1, <1>2, <2>1, <2>5 DEF Span, Searching
  <2> QED BY <2>4, <2>6
<1> QED BY <1>3, <1>4, <1>5 DEF next

LEMMA SpanIs ==
  ASSUME NEW c \in Nat, NEW at \in Places(c)
  PROVE  Span(at) \in Nat /\ Span(at) <= c + 1
BY DEF Span, Places, Searching

\* So the loop has an end, wherever it begins.
LEMMA SearchExists ==
  ASSUME NEW c \in Nat, NEW bytes, NEW size, NEW desired, NEW full,
         FullPages(bytes, size, c, full)
  PROVE  \E g : IsSearch(bytes, size, desired, c, g)
<1> DEFINE D == Places(c)
           R == 0 .. c
           rank == [at \in D |-> Span(at)]
           Pass(G) == [at \in D |-> IF at.found \/ at.left > at.right THEN at.prev
                                    ELSE G[Looked(bytes, size, desired, at)]]
           step == [G \in [D -> R] |-> Pass(G)]
<1>0. \A at \in D : at.prev \in R /\ at.left \in Nat /\ at.right \in Int /\ at.found \in BOOLEAN
  BY DEF Places
<1>1. \A at \in D : ~ (at.found \/ at.left > at.right) => Searching(at)
  BY <1>0 DEF Searching
<1>2. rank \in [D -> Nat] /\ \A d \in D : rank[d] <= c + 1
  <2> HIDE DEF D
  <2>1. \A at \in D : Span(at) \in Nat /\ Span(at) <= c + 1
    BY SpanIs DEF D
  <2> QED BY <2>1
<1>3. \A at \in D : Searching(at) => /\ Looked(bytes, size, desired, at) \in D
                                     /\ Span(Looked(bytes, size, desired, at)) < Span(at)
  BY LookedIn
<1> HIDE DEF D, R
<1>4. step \in [[D -> R] -> [D -> R]]
  <2> SUFFICES ASSUME NEW G \in [D -> R] PROVE Pass(G) \in [D -> R]
    OBVIOUS
  <2> SUFFICES ASSUME NEW at \in D
               PROVE (IF at.found \/ at.left > at.right THEN at.prev
                      ELSE G[Looked(bytes, size, desired, at)]) \in R
    OBVIOUS
  <2> QED BY <1>0, <1>1, <1>3
<1>5. ASSUME NEW G \in [D -> R], NEW H \in [D -> R], NEW d \in D,
             \A e \in D : rank[e] < rank[d] => G[e] = H[e]
      PROVE  step[G][d] = step[H][d]
  <2>1. step[G][d] = Pass(G)[d] /\ step[H][d] = Pass(H)[d]
    BY <1>4
  <2>2. CASE d.found \/ d.left > d.right
    BY <2>1, <2>2
  <2>3. CASE ~ (d.found \/ d.left > d.right)
    <3> DEFINE e == Looked(bytes, size, desired, d)
    <3>1. e \in D /\ Span(e) < Span(d)
      BY <1>1, <1>3, <2>3
    <3> HIDE DEF e
    <3>2. G[e] = H[e]
      BY <1>5, <3>1
    <3> QED BY <2>1, <2>3, <3>2 DEF e
  <2> QED BY <2>2, <2>3
<1>6. Descends(D, R, rank, step)
  <2> HIDE DEF rank, step
  <2> QED BY <1>2, <1>4, <1>5 DEF Descends
<1>7. PICK g \in [D -> R] : g = step[g]
  <2>1. 0 \in R /\ c + 1 \in Nat
    BY DEF R
  <2> HIDE DEF rank, step
  <2> QED BY <1>2, <1>6, <2>1, FixedPoint
<1>8. g = Pass(g)
  BY <1>7
<1>9. IsSearch(bytes, size, desired, c, g)
  BY <1>8 DEF IsSearch, D
<1> QED BY <1>9

\* What each pass of the loop leaves true is true where the search ends.
LEMMA LoopEnds ==
  ASSUME NEW c \in Nat, NEW bytes, NEW size, NEW desired, NEW full,
         FullPages(bytes, size, c, full),
         NEW g, IsSearch(bytes, size, desired, c, g),
         NEW P, P \subseteq Places(c),
         \A at \in P : Searching(at) => Looked(bytes, size, desired, at) \in P,
         NEW from \in P
  PROVE  \E at \in P : ~ Searching(at) /\ g[from] = at.prev
<1> DEFINE Fine(at) == \E to \in P : ~ Searching(to) /\ g[at] = to.prev
           T == {Span(at) : at \in {x \in P : ~ Fine(x)}}
<1> SUFFICES ASSUME ~ Fine(from) PROVE FALSE
  OBVIOUS
<1>1. PICK at \in P : ~ Fine(at) /\ \A x \in P : ~ Fine(x) => Span(at) <= Span(x)
  <2>1. T \subseteq Nat
    <3> HIDE DEF Fine
    <3> QED BY SpanIs
  <2>2. T # {}
    OBVIOUS
  <2>3. \E m \in T : \A n \in T : m <= n
    <3> HIDE DEF T
    <3> QED BY <2>1, <2>2, LeastNumber
  <2> HIDE DEF Fine
  <2> QED BY <2>3
<1> DEFINE next == Looked(bytes, size, desired, at)
<1>2. at \in Places(c) /\ at.left \in Int /\ at.right \in Int /\ at.found \in BOOLEAN
  BY DEF Places
<1>3. g[at] = IF at.found \/ at.left > at.right THEN at.prev ELSE g[next]
  BY <1>2, Zenon DEF IsSearch
<1>4. CASE ~ Searching(at)
  <2>1. g[at] = at.prev
    BY <1>2, <1>3, <1>4 DEF Searching
  <2> QED BY <1>1, <1>4, <2>1
<1>5. CASE Searching(at)
  <2>1. next \in P /\ Span(next) < Span(at) /\ g[at] = g[next]
    BY <1>2, <1>3, <1>5, LookedIn DEF Searching
  <2>2. Span(next) \in Nat /\ Span(at) \in Nat
    BY <2>1, SpanIs
  <2> HIDE DEF next
  <2>3. Fine(next)
    <3> HIDE DEF Fine
    <3> QED BY <1>1, <2>1, <2>2
  <2> QED BY <1>1, <2>1, <2>3
<1> QED BY <1>4, <1>5

\* The times of the pages with a block, which rise.
Timed(bytes, size, full, desired) ==
  /\ desired \in Nat
  /\ \A n \in full : TimeOf(bytes, n, size) \in Nat
  /\ \A n, m \in full : n < m => TimeOf(bytes, n, size) < TimeOf(bytes, m, size)

\* What has been left out lies on its side of the desired time, and the page
\* that was found last is next to what is left.
Narrows(bytes, size, full, desired, at) ==
  /\ \A n \in full : n < at.left => TimeOf(bytes, n, size) < desired
  /\ \A n \in full : n > at.right => TimeOf(bytes, n, size) > desired
  /\ IF at.found THEN at.prev \in full /\ TimeOf(bytes, at.prev, size) = desired
     ELSE \/ at.prev = 0 /\ \A n \in full : at.left <= n /\ n <= at.right
          \/ /\ at.prev \in full /\ at.prev = at.left - 1
             /\ TimeOf(bytes, at.prev, size) < desired
          \/ /\ at.prev \in full /\ at.prev > at.right
             /\ TimeOf(bytes, at.prev, size) > desired
             /\ \A n \in full : n <= at.right \/ n >= at.prev

LEMMA LookedNarrows ==
  ASSUME NEW c \in Nat, NEW at \in Places(c), Searching(at),
         NEW bytes, NEW size, NEW desired, NEW full, FullPages(bytes, size, c, full),
         Timed(bytes, size, full, desired), Narrows(bytes, size, full, desired, at)
  PROVE  Narrows(bytes, size, full, desired, Looked(bytes, size, desired, at))
<1> DEFINE T(n) == TimeOf(bytes, n, size)
           m == HalfOf(at)
<1> SUFFICES ASSUME NEW next, next = Looked(bytes, size, desired, at)
             PROVE  Narrows(bytes, size, full, desired, next)
  OBVIOUS
<1>1. /\ at = [left |-> at.left, right |-> at.right, prev |-> at.prev, found |-> at.found]
      /\ at.left \in Nat /\ at.right \in Nat /\ at.prev \in Nat /\ at.found = FALSE
      /\ at.left <= m /\ m <= at.right /\ m \in Nat
  BY HalfIs DEF Places, Searching
<1>2. \A n \in full : n \in Nat
  BY DEF FullPages
<1>3. /\ desired \in Nat /\ \A n \in full : T(n) \in Nat
      /\ \A n, k \in full : n < k => T(n) < T(k)
  BY DEF Timed
<1>4. /\ \A n \in full : n < at.left => T(n) < desired
      /\ \A n \in full : n > at.right => T(n) > desired
      /\ \/ at.prev = 0 /\ \A n \in full : at.left <= n /\ n <= at.right
         \/ at.prev \in full /\ at.prev = at.left - 1 /\ T(at.prev) < desired
         \/ /\ at.prev \in full /\ at.prev > at.right /\ T(at.prev) > desired
            /\ \A n \in full : n <= at.right \/ n >= at.prev
  BY <1>1 DEF Narrows
<1>5. \/ next = Narrowed(at) /\ \A n \in full : n < m \/ n > at.right
      \/ \E p \in full :
           /\ IsFirst(full, at, p)
           /\ \/ desired > T(p) /\ next = Before(at, p)
              \/ desired < T(p) /\ next = Behind(at, p)
              \/ ~ (desired > T(p)) /\ ~ (desired < T(p)) /\ next = Met(at, p)
  BY LookedIs
<1> HIDE DEF T, m
<1>6. CASE next = Narrowed(at) /\ \A n \in full : n < m \/ n > at.right
  <2>1. /\ next.left = at.left /\ next.right = m - 1 /\ next.prev = at.prev
        /\ next.found = FALSE
    BY <1>1, <1>6 DEF Narrowed, m
  <2>2. \A n \in full : n < next.left => T(n) < desired
    BY <1>4, <2>1
  <2>3. \A n \in full : n > next.right => T(n) > desired
    BY <1>1, <1>2, <1>4, <1>6, <2>1
  <2>4. \/ next.prev = 0 /\ \A n \in full : next.left <= n /\ n <= next.right
        \/ next.prev \in full /\ next.prev = next.left - 1 /\ T(next.prev) < desired
        \/ /\ next.prev \in full /\ next.prev > next.right /\ T(next.prev) > desired
           /\ \A n \in full : n <= next.right \/ n >= next.prev
    BY <1>1, <1>2, <1>4, <1>6, <2>1
  <2> QED BY <2>1, <2>2, <2>3, <2>4 DEF Narrows, T
<1>7. ASSUME NEW p \in full, IsFirst(full, at, p), desired > T(p), next = Before(at, p)
      PROVE  Narrows(bytes, size, full, desired, next)
  <2>1. /\ next.left = p + 1 /\ next.right = at.right /\ next.prev = p
        /\ next.found = FALSE
    BY <1>1, <1>7 DEF Before
  <2>2. \A n \in full : n < next.left => T(n) < desired
    <3> SUFFICES ASSUME NEW n \in full, n < next.left PROVE T(n) < desired
      OBVIOUS
    <3>1. n \in Nat /\ p \in Nat /\ (n = p \/ n < p)
      BY <1>2, <2>1
    <3> QED BY <1>3, <1>7, <3>1
  <2>3. \A n \in full : n > next.right => T(n) > desired
    BY <1>4, <2>1
  <2>4. next.prev \in full /\ next.prev = next.left - 1 /\ T(next.prev) < desired
    BY <1>2, <1>3, <1>7, <2>1
  <2> QED BY <2>1, <2>2, <2>3, <2>4 DEF Narrows, T
<1>8. ASSUME NEW p \in full, IsFirst(full, at, p), desired < T(p), next = Behind(at, p)
      PROVE  Narrows(bytes, size, full, desired, next)
  <2>0. p \in Nat /\ m <= p /\ p <= at.right /\ \A n \in full : m <= n => p <= n
    BY <1>2, <1>8 DEF IsFirst, m
  <2>1. /\ next.left = at.left /\ next.right = m - 1 /\ next.prev = p
        /\ next.found = FALSE
    BY <1>1, <1>8 DEF Behind, m
  <2>2. \A n \in full : n < next.left => T(n) < desired
    BY <1>4, <2>1
  <2>3. \A n \in full : n > next.right => T(n) > desired
    <3> SUFFICES ASSUME NEW n \in full, n > next.right PROVE T(n) > desired
      OBVIOUS
    <3>1. n \in Nat /\ m <= n
      BY <1>1, <1>2, <2>1
    <3>2. n = p \/ p < n
      BY <2>0, <3>1
    <3> QED BY <1>3, <1>8, <3>2
  <2>4. next.prev \in full /\ next.prev > next.right /\ T(next.prev) > desired
    BY <1>1, <1>3, <1>8, <2>0, <2>1
  <2>5. \A n \in full : n <= next.right \/ n >= next.prev
    BY <1>1, <1>2, <2>0, <2>1
  <2> QED BY <2>1, <2>2, <2>3, <2>4, <2>5 DEF Narrows, T
<1>9. ASSUME NEW p \in full, IsFirst(full, at, p), ~ (desired > T(p)), ~ (desired < T(p)),
             next = Met(at, p)
      PROVE  Narrows(bytes, size, full, desired, next)
  <2>1. /\ next.left = at.left /\ next.right = at.right /\ next.prev = p
        /\ next.found = TRUE
    BY <1>1, <1>9 DEF Met
  <2>2. T(p) = desired
    BY <1>3, <1>9
  <2> QED BY <1>4, <2>1, <2>2 DEF Narrows, T
<1> QED BY <1>5, <1>6, <1>7, <1>8, <1>9

\* Where a search over rising times ends.
LEMMA SearchEndsThere ==
  ASSUME NEW bytes \in Seq(Nat), NEW size \in Nat \ {0}, NEW desired, NEW full,
         FullPages(bytes, size, CeilDiv(Len(bytes), size), full),
         CeilDiv(Len(bytes), size) \in Nat,
         Timed(bytes, size, full, desired),
         NEW found, found = binarySearch(bytes, size, desired)
  PROVE  /\ full = {} => found = 0
         /\ full # {} =>
              /\ found \in full
              /\ TimeOf(bytes, found, size) < desired =>
                   \A n \in full : n > found => TimeOf(bytes, n, size) > desired
              /\ TimeOf(bytes, found, size) > desired =>
                   \A n \in full : n < found => TimeOf(bytes, n, size) < desired
<1> DEFINE c == CeilDiv(Len(bytes), size)
           T(n) == TimeOf(bytes, n, size)
           f == CHOOSE g : IsSearch(bytes, size, desired, c, g)
           P == {at \in Places(c) : Narrows(bytes, size, full, desired, at)}
<1>1. IsSearch(bytes, size, desired, c, f)
  <2> HIDE DEF c
  <2>1. \E g : IsSearch(bytes, size, desired, c, g)
    BY SearchExists DEF c
  <2> QED BY <2>1, Zenon
<1>2. found = f[Begin(c)]
  BY SearchIs, Zenon
<1>3. \A n \in full : n \in Nat /\ n < c
  BY DEF FullPages
<1> HIDE DEF f, c
<1>4. c \in Nat /\ FullPages(bytes, size, c, full)
  BY DEF c
<1>5. Begin(c) \in P
  <2>1. Begin(c) \in Places(c)
    BY <1>4 DEF Begin, Places
  <2>2. /\ Begin(c).left = 0 /\ Begin(c).right = c - 1 /\ Begin(c).prev = 0
        /\ Begin(c).found = FALSE
    BY DEF Begin
  <2>3. \A n \in full : 0 <= n /\ n <= c - 1
    BY <1>3, <1>4
  <2>4. Narrows(bytes, size, full, desired, Begin(c))
    <3>1. ~ \E n \in full : n < 0 \/ n > c - 1
      BY <1>3, <1>4
    <3> QED BY <2>2, <2>3, <3>1 DEF Narrows
  <2> QED BY <2>1, <2>4
<1>6. PICK at \in P : ~ Searching(at) /\ f[Begin(c)] = at.prev
  <2>1. \A at \in P : Searching(at) => Looked(bytes, size, desired, at) \in P
    <3> SUFFICES ASSUME NEW at \in P, Searching(at)
                 PROVE  Looked(bytes, size, desired, at) \in P
      OBVIOUS
    <3>1. at \in Places(c) /\ Narrows(bytes, size, full, desired, at)
      OBVIOUS
    <3>2. Looked(bytes, size, desired, at) \in Places(c)
      BY <1>4, <3>1, LookedIn
    <3>3. Narrows(bytes, size, full, desired, Looked(bytes, size, desired, at))
      BY <1>4, <3>1, LookedNarrows
    <3> QED BY <3>2, <3>3
  <2>2. P \subseteq Places(c)
    OBVIOUS
  <2> HIDE DEF P
  <2> QED BY <1>1, <1>4, <1>5, <2>1, <2>2, LoopEnds
<1>7. /\ at.left \in Nat /\ at.right \in Int /\ at.found \in BOOLEAN /\ found = at.prev
      /\ at.found \/ at.left > at.right
  BY <1>2, <1>6 DEF Places, Searching
<1>8. /\ desired \in Nat /\ \A n \in full : T(n) \in Nat
  BY DEF Timed
<1> HIDE DEF T
<1>9. /\ \A n \in full : n < at.left => T(n) < desired
      /\ \A n \in full : n > at.right => T(n) > desired
      /\ \/ found \in full /\ T(found) = desired
         \/ /\ at.left > at.right
            /\ \/ found = 0 /\ \A n \in full : at.left <= n /\ n <= at.right
               \/ found \in full /\ found = at.left - 1 /\ T(found) < desired
               \/ /\ found \in full /\ found > at.right /\ T(found) > desired
                  /\ \A n \in full : n <= at.right \/ n >= found
  BY <1>7 DEF Narrows, T
<1>10. CASE found \in full /\ T(found) = desired
  <2>1. ~ (T(found) < desired) /\ ~ (T(found) > desired)
    BY <1>8, <1>10
  <2> QED BY <1>10, <2>1 DEF T
<1>11. CASE at.left > at.right /\ found = 0 /\ \A n \in full : at.left <= n /\ n <= at.right
  <2>1. full = {}
    BY <1>3, <1>7, <1>11
  <2> QED BY <1>11, <2>1
<1>12. CASE at.left > at.right /\ found \in full /\ found = at.left - 1 /\ T(found) < desired
  <2>1. ~ (T(found) > desired)
    BY <1>8, <1>12
  <2>2. \A n \in full : n > found => T(n) > desired
    BY <1>3, <1>7, <1>9, <1>12
  <2> QED BY <1>12, <2>1, <2>2 DEF T
<1>13. CASE /\ at.left > at.right /\ found \in full /\ found > at.right /\ T(found) > desired
            /\ \A n \in full : n <= at.right \/ n >= found
  <2>1. ~ (T(found) < desired)
    BY <1>8, <1>13
  <2>2. \A n \in full : n < found => T(n) < desired
    BY <1>3, <1>7, <1>9, <1>13
  <2> QED BY <1>13, <2>1, <2>2 DEF T
<1> QED BY <1>9, <1>10, <1>11, <1>12, <1>13

-----------------------------------------------------------------------------
(* Pages, and the times of their last blocks.                               *)

\* A page that starts within the bytes is one of the pages.
LEMMA PagesWithin ==
  ASSUME NEW size \in Nat \ {0}, NEW t \in Nat
  PROVE  /\ CeilDiv(t, size) \in Nat
         /\ \A n \in Nat : n * size < t => n < CeilDiv(t, size) /\ n <= t \div size
<1> DEFINE q == t \div size
           c == CeilDiv(t, size)
           u == t + size - 1
<1>0. u \in Nat /\ c = u \div size
  BY DEF CeilDiv
<1> HIDE DEF u
<1>1. c \in Nat /\ u < (c + 1) * size
  BY <1>0, QuotientIs
<1>2. q \in Nat /\ t < (q + 1) * size
  BY QuotientIs
<1> HIDE DEF c, q
<1>3. ASSUME NEW n \in Nat, n * size < t PROVE n < c /\ n <= q
  <2>1. n * size \in Nat /\ (c + 1) * size = c * size + size /\ c * size \in Nat
        /\ (q + 1) * size \in Nat
    BY <1>1, <1>2, MultipleOf
  <2>2. ~ (q < n)
    <3>1. ASSUME q < n PROVE (q + 1) * size <= n * size
      BY <1>2, <3>1, MultiplesInOrder
    <3> QED BY <1>2, <1>3, <2>1, <3>1
  <2>3. n * size < c * size
    BY <1>0, <1>1, <1>3, <2>1 DEF u
  <2>4. ~ (c < n) /\ c # n
    <3>1. ASSUME c < n PROVE (c + 1) * size <= n * size
      BY <1>1, <3>1, MultiplesInOrder
    <3> QED BY <1>1, <2>1, <2>3, <3>1
  <2> QED BY <1>1, <1>2, <2>2, <2>4
<1> QED BY <1>1, <1>3 DEF c, q

\* A page of any size is a piece of the bytes.
LEMMA PageIs ==
  ASSUME NEW bytes \in Seq(Nat), NEW size \in Nat \ {0}, NEW n \in Nat, n * size < Len(bytes),
         NEW to, to = MinOf((n + 1) * size, Len(bytes))
  PROVE  to \in Nat /\ n * size < to /\ to <= (n + 1) * size /\ to <= Len(bytes)
         /\ Piece(Page(bytes, n, size), bytes, n * size, to)
<1> DEFINE a == n * size
           b == (n + 1) * size
<1>1. a \in Nat /\ b \in Nat /\ a < b /\ Len(bytes) \in Nat /\ a < Len(bytes)
  BY MultipleOf, LenProperties
<1>2. Page(bytes, n, size) = SubSeq(bytes, a + 1, Min({b, Len(bytes)}))
  BY DEF Page, subarray
<1> HIDE DEF a, b
<1>3. Min({b, Len(bytes)}) = MinOf(b, Len(bytes))
  BY <1>1, MinIs
<1> DEFINE m == MinOf(b, Len(bytes))
<1>4. m \in Nat /\ a < m /\ m <= b /\ m <= Len(bytes)
  BY <1>1 DEF MinOf
<1>5. to = m
  BY DEF b
<1> HIDE DEF m
<1>6. Piece(SubSeq(bytes, a + 1, m), bytes, a, m)
  BY <1>1, <1>4, PieceIs
<1> QED BY <1>2, <1>3, <1>4, <1>5, <1>6 DEF a, b, m

LEMMA NoPage ==
  ASSUME NEW bytes \in Seq(Nat), NEW size \in Nat \ {0}, NEW n \in Nat, ~ (n * size < Len(bytes))
  PROVE  ~ HasBlock(bytes, n, size)
<1> DEFINE a == n * size
           b == (n + 1) * size
           w == SubSeq(bytes, a + 1, Len(bytes))
<1>1. a \in Nat /\ b \in Nat /\ a < b /\ Len(bytes) \in Nat /\ Len(bytes) <= a
  BY MultipleOf, LenProperties
<1>2. Page(bytes, n, size) = SubSeq(bytes, a + 1, Min({b, Len(bytes)}))
  BY DEF Page, subarray
<1> HIDE DEF a, b
<1>3. Min({b, Len(bytes)}) = MinOf(b, Len(bytes))
  BY <1>1, MinIs
<1>4. MinOf(b, Len(bytes)) = Len(bytes)
  BY <1>1 DEF MinOf
<1>5. Len(w) = 0
  <2> DEFINE m == a + 1
             k == Len(bytes)
  <2>1. m \in Int /\ k \in Int /\ ~ (m <= k)
    BY <1>1
  <2>2. \A i \in m .. k : bytes[i] \in Nat
    BY <2>1
  <2> HIDE DEF m, k
  <2>3. Len(SubSeq(bytes, m, k)) = IF m <= k THEN k - m + 1 ELSE 0
    BY <2>1, <2>2, SubSeqProperties
  <2> QED BY <2>1, <2>3 DEF m, k
<1> HIDE DEF w
<1>6. Separators(w) = {}
  BY <1>5 DEF Separators
<1> QED BY <1>2, <1>3, <1>4, <1>6 DEF HasBlock, w

\* The last block that ends on a page.
LEMMA LastBlockIs ==
  ASSUME NEW bytes \in Seq(Nat), NEW size \in Nat \ {0}, NEW n \in Nat, HasBlock(bytes, n, size)
  PROVE  /\ n * size < Len(bytes)
         /\ \E x, y \in Nat : /\ OneBlock(bytes, x, y)
                              /\ n * size < y /\ y <= (n + 1) * size
                              /\ readPageLastBlock(bytes, n, size) = SubSeq(bytes, x + 1, y)
<1>1. n * size < Len(bytes)
  BY NoPage
<1> DEFINE a == n * size
           b == (n + 1) * size
           to == MinOf(b, Len(bytes))
           page == Page(bytes, n, size)
           S == Separators(page)
           y == a + Max(S) + 1
<1>2. a \in Nat /\ b \in Nat /\ Len(bytes) \in Nat
  BY MultipleOf, LenProperties
<1>3. to \in Nat /\ a < to /\ to <= b /\ to <= Len(bytes) /\ Piece(page, bytes, a, to)
  BY <1>1, PageIs
<1> HIDE DEF to, a, b
<1>4. S # {} /\ S \subseteq 0 .. to - a - 1
  BY <1>2, <1>3 DEF HasBlock, Separators, Piece
<1>5. Max(S) \in S
  <2> HIDE DEF S
  <2>1. to - a - 1 \in Nat
    BY <1>2, <1>3
  <2> QED BY <1>4, <2>1, GreatestNumber
<1> DEFINE k == Max(S)
<1>6. k \in Nat /\ k < to - a /\ page[k + 1] = SEPARATOR
  BY <1>2, <1>3, <1>4, <1>5 DEF Separators
<1> HIDE DEF k
<1>7. bytes[a + (k + 1)] = SEPARATOR
  <2>1. k + 1 \in 1 .. to - a
    BY <1>2, <1>3, <1>6
  <2> QED BY <1>3, <1>6, <2>1 DEF Piece
<1>8. /\ y \in Nat /\ y = a + (k + 1) /\ 1 <= y /\ a < y /\ y <= b /\ y <= Len(bytes)
      /\ bytes[y] = SEPARATOR
  <2>1. y = a + k + 1
    BY DEF k
  <2> HIDE DEF y
  <2>2. y \in Nat /\ y = a + (k + 1)
    BY <1>2, <1>6, <2>1
  <2>3. 1 <= y /\ a < y /\ y <= b /\ y <= Len(bytes)
    BY <1>2, <1>3, <1>6, <2>2
  <2> QED BY <1>7, <2>2, <2>3
<1> HIDE DEF S, page
<1> DEFINE x == BeginsAt(bytes, n, size, y)
           chunk == subarray(bytes, 0, y - 1)
           f == lastIndexOf(chunk, y - 2)
<1>9. readPageLastBlock(bytes, n, size) = SubSeq(bytes, x + 1, y)
  BY DEF readPageLastBlock, subarray, S, page, a
<1>10. x = 1 + f
  BY DEF BeginsAt
<1> HIDE DEF y
<1>11. Piece(chunk, bytes, 0, y - 1)
  <2> DEFINE o == 0
             e == y - 1
  <2>1. o \in Nat /\ e \in Nat /\ o <= e /\ e <= Len(bytes)
    BY <1>2, <1>8
  <2> HIDE DEF o, e
  <2>2. Piece(SubSeq(bytes, o + 1, e), bytes, o, e)
    BY <2>1, PieceIs
  <2> QED BY <2>2 DEF o, e, subarray
<1>12. f = -1 \/ f \in Nat
  <2> DEFINE T == {i \in Separators(chunk) : i <= y - 2}
  <2>1. f = IF T = {} THEN -1 ELSE Max(T)
    BY DEF lastIndexOf
  <2>2. T \subseteq 0 .. y - 2
    BY <1>8, <1>11 DEF Separators, Piece
  <2>3. CASE T = {}
    BY <2>1, <2>3
  <2>4. CASE T # {}
    <3> HIDE DEF T, f
    <3>1. T \subseteq 0 .. y /\ y \in Nat
      BY <1>8, <2>2
    <3>2. Max(T) \in T
      BY <2>4, <3>1, GreatestNumber
    <3>3. Max(T) \in Nat
      <4>1. T \subseteq Nat
        BY <3>1
      <4> QED BY <3>2, <4>1, Zenon
    <3>4. f = Max(T)
      BY <2>1, <2>4
    <3> QED BY <3>3, <3>4
  <2> QED BY <2>3, <2>4
<1>13. /\ f >= 0 => f <= y - 2 /\ bytes[f + 1] = SEPARATOR /\ Bare(bytes, f + 1, y - 1)
       /\ f < 0 => Bare(bytes, 0, y - 1)
  <2> DEFINE o == 0
             e == y - 1
             upTo == y - 2
             h == lastIndexOf(chunk, upTo)
  <2>1. o \in Nat /\ e \in Nat /\ o <= e /\ upTo \in Int /\ upTo < e - o
        /\ Piece(chunk, bytes, o, e) /\ o + upTo + 1 = e
    BY <1>8, <1>11
  <2> HIDE DEF o, e, upTo, chunk
  <2>2. /\ h >= 0 => /\ h <= upTo
                     /\ bytes[o + h + 1] = SEPARATOR
                     /\ Bare(bytes, o + h + 1, o + upTo + 1)
        /\ h < 0 => Bare(bytes, o, o + upTo + 1)
    BY <2>1, FoundBackward
  <2>3. h = f
    BY DEF upTo, h
  <2> HIDE DEF h
  <2>4. o + h + 1 = f + 1
    BY <1>12, <2>3 DEF o
  <2> QED BY <2>1, <2>2, <2>3, <2>4 DEF o, e, upTo
<1> HIDE DEF f, x, chunk
<1>14. OneBlock(bytes, x, y)
  <2>1. CASE f = -1
    <3>1. x = 0 /\ Bare(bytes, 0, y - 1)
      BY <1>10, <1>13, <2>1
    <3> QED BY <1>8, <3>1 DEF OneBlock, IsBoundary
  <2>2. CASE f \in Nat
    <3>1. x \in Nat /\ x = f + 1 /\ x <= y - 1 /\ bytes[x] = SEPARATOR /\ Bare(bytes, x, y - 1)
      BY <1>8, <1>10, <1>13, <2>2
    <3> QED BY <1>8, <3>1 DEF OneBlock, IsBoundary
  <2> QED BY <1>12, <2>1, <2>2
<1>15. x \in Nat
  BY <1>14 DEF OneBlock
<1> QED BY <1>1, <1>8, <1>9, <1>14, <1>15 DEF a, b

\* The number with which a record starts, by its place.
NumberOf(logs, i) == logs[i].log[1]

\* Records are numbered in the order in which they are written.
Rising(st) ==
  /\ \A i \in 1 .. Len(st.logs) : NumberOf(st.logs, i) \in Nat /\ NumberOf(st.logs, i) < st.next
  /\ \A i, j \in 1 .. Len(st.logs) : i < j => NumberOf(st.logs, i) < NumberOf(st.logs, j)

LEMMA NumbersAre ==
  ASSUME NEW n \in Nat, NEW contents \in Blocks
  PROVE  /\ Len(contents) \in Nat
         /\ DOMAIN Numbered(n, contents) = 1 .. Len(contents)
         /\ \A i \in 1 .. Len(contents) : Numbered(n, contents)[i][1] = n + i - 1
<1> DEFINE k == Len(contents)
           logs == Numbered(n, contents)
<1>1. contents \in Seq(Seq(Byte))
  BY ScannerAssumption
<1>2. k \in Nat /\ DOMAIN contents = 1 .. k /\ \A i \in 1 .. k : contents[i] \in Seq(Byte)
  BY <1>1, LenProperties, ElementOfSeq
<1>3. logs = [i \in 1 .. k |-> <<n + i - 1>> \o contents[i]]
  BY <1>2 DEF Numbered
<1> HIDE DEF logs, k
<1>4. ASSUME NEW i \in 1 .. k PROVE logs[i][1] = n + i - 1
  <2> DEFINE c == contents[i]
             e == n + i - 1
             r == <<e>> \o c
  <2>1. c \in Seq(Byte) /\ Byte \subseteq Nat
    BY <1>2 DEF Byte
  <2>2. e \in Nat
    BY <1>2
  <2>3. logs[i] = r
    BY <1>3
  <2> HIDE DEF c, e
  <2>4. c \in Seq(Nat) /\ <<e>> \in Seq(Nat) /\ Len(<<e>>) = 1 /\ <<e>>[1] = e /\ Len(c) \in Nat
    <3>1. c \in Seq(Nat)
      BY <2>1, SeqMonotonic
    <3>2. <<e>> \in Seq(Nat) /\ Len(<<e>>) = 1 /\ <<e>>[1] = e
      BY <2>2
    <3> QED BY <3>1, <3>2, LenProperties
  <2>5. r[1] = e
    <3> DEFINE h == <<e>>
    <3>1. h \in Seq(Nat) /\ c \in Seq(Nat) /\ Len(h) = 1 /\ h[1] = e /\ Len(c) \in Nat
      BY <2>4
    <3> HIDE DEF h
    <3>2. \A j \in 1 .. Len(h) + Len(c) : (h \o c)[j] = IF j <= Len(h) THEN h[j] ELSE c[j - Len(h)]
      BY <3>1, ConcatProperties
    <3>3. (h \o c)[1] = e
      BY <3>1, <3>2
    <3> QED BY <3>3 DEF h
  <2> QED BY <2>3, <2>5 DEF e
<1> QED BY <1>2, <1>3, <1>4 DEF logs, k

LEMMA WrittenRises ==
  ASSUME NEW st \in Possible, Rising(st), NEW contents \in Blocks, NEW marked \in Marked(st)
  PROVE  Rising(Written(st, contents, marked))
<1> DEFINE logs == Numbered(st.next, contents)
           m == Len(st.bytes) + Len(BlockOf(logs, marked))
           new == [i \in DOMAIN logs |-> [log |-> logs[i], end |-> m]]
           all == st.logs \o new
           k == Len(contents)
           l == Len(st.logs)
           next == Written(st, contents, marked)
<1>1. st \in StreamOf /\ st.next \in Nat /\ st.logs \in WrittenLogs
  BY DEF Possible, StreamOf
<1>2. next.logs = all /\ next.next = st.next + Len(logs)
  BY DEF Written
<1>3. /\ k \in Nat /\ DOMAIN logs = 1 .. k /\ \A i \in 1 .. k : logs[i][1] = st.next + i - 1
      /\ Len(logs) = k
  <2>1. st.next >= Header
    BY DEF Possible, WellWritten
  <2> QED BY <1>1, <2>1, NumbersAre, NumberedIs
<1>4. l \in Nat
  BY <1>1, LenProperties DEF WrittenLogs
<1> HIDE DEF logs, k
<1>5. new = [i \in 1 .. k |-> [log |-> logs[i], end |-> m]]
  BY <1>3
<1> HIDE DEF new, m
<1>6. new \in Seq({new[i] : i \in 1 .. k}) /\ Len(new) = k
  BY <1>3, <1>5
<1>7. /\ Len(all) = l + k
      /\ \A i \in 1 .. l + k : all[i] = IF i <= l THEN st.logs[i] ELSE new[i - l]
  <2> DEFINE S == [log : Seq(Nat), end : Nat] \cup {new[i] : i \in 1 .. k}
  <2>1. st.logs \in Seq(S) /\ new \in Seq(S)
    <3>1. st.logs \in Seq([log : Seq(Nat), end : Nat])
      BY <1>1 DEF WrittenLogs
    <3>2. /\ [log : Seq(Nat), end : Nat] \subseteq S
          /\ {new[i] : i \in 1 .. k} \subseteq S
      OBVIOUS
    <3> HIDE DEF S
    <3> QED BY <1>6, <3>1, <3>2, SeqMonotonic
  <2> HIDE DEF S
  <2> QED BY <1>6, <2>1, ConcatProperties
<1> HIDE DEF all, l, next
<1>8. ASSUME NEW i \in 1 .. l + k
      PROVE  NumberOf(all, i) = IF i <= l THEN NumberOf(st.logs, i) ELSE st.next + (i - l) - 1
  <2>1. CASE i <= l
    BY <1>7, <2>1 DEF NumberOf
  <2>2. CASE ~ (i <= l)
    <3>1. i - l \in 1 .. k /\ all[i] = new[i - l]
      BY <1>3, <1>4, <1>7, <2>2
    <3>2. new[i - l].log = logs[i - l] /\ logs[i - l][1] = st.next + (i - l) - 1
      BY <1>3, <1>5, <3>1
    <3> QED BY <2>2, <3>1, <3>2 DEF NumberOf
  <2> QED BY <2>1, <2>2
<1>9. /\ \A i \in 1 .. l : NumberOf(st.logs, i) \in Nat /\ NumberOf(st.logs, i) < st.next
      /\ \A i, j \in 1 .. l : i < j => NumberOf(st.logs, i) < NumberOf(st.logs, j)
  BY DEF Rising, l
<1>10. ASSUME NEW i \in 1 .. l + k
       PROVE  NumberOf(all, i) \in Nat /\ NumberOf(all, i) < st.next + k
  <2>1. CASE i <= l
    <3>1. i \in 1 .. l
      BY <1>4, <2>1
    <3> QED BY <1>1, <1>3, <1>8, <1>9, <2>1, <3>1
  <2>2. CASE ~ (i <= l)
    BY <1>1, <1>3, <1>4, <1>8, <2>2
  <2> QED BY <2>1, <2>2
<1>11. ASSUME NEW i \in 1 .. l + k, NEW j \in 1 .. l + k, i < j
       PROVE  NumberOf(all, i) < NumberOf(all, j)
  <2>1. CASE j <= l
    <3>1. i \in 1 .. l /\ j \in 1 .. l /\ i <= l
      BY <1>3, <1>4, <1>11, <2>1
    <3> QED BY <1>8, <1>9, <1>11, <2>1, <3>1
  <2>2. CASE ~ (j <= l) /\ i <= l
    <3>1. i \in 1 .. l /\ j - l >= 1
      BY <1>3, <1>4, <2>2
    <3>2. NumberOf(all, i) < st.next /\ NumberOf(all, i) \in Nat
      BY <1>8, <1>9, <2>2, <3>1
    <3>3. NumberOf(all, j) = st.next + (j - l) - 1
      BY <1>8, <2>2
    <3> QED BY <1>1, <1>4, <3>1, <3>2, <3>3
  <2>3. CASE ~ (i <= l)
    <3>1. ~ (j <= l)
      BY <1>4, <1>11, <2>3
    <3>2. NumberOf(all, i) = st.next + (i - l) - 1 /\ NumberOf(all, j) = st.next + (j - l) - 1
      BY <1>8, <2>3, <3>1
    <3> QED BY <1>1, <1>4, <1>11, <3>2
  <2> QED BY <2>1, <2>2, <2>3
<1> QED BY <1>2, <1>3, <1>7, <1>10, <1>11 DEF Rising, next

LEMMA TornRises ==
  ASSUME NEW st \in Possible, Rising(st), NEW contents \in Blocks, NEW marked, NEW length
  PROVE  Rising(Torn(st, contents, marked, length))
<1> DEFINE next == Torn(st, contents, marked, length)
<1>1. next.logs = st.logs /\ next.next = st.next + Len(contents)
  BY DEF Torn
<1>2. st.next \in Nat
  BY DEF Possible, StreamOf
<1>3. Len(contents) \in Nat
  BY <1>2, NumbersAre
<1> HIDE DEF next
<1>4. \A i \in 1 .. Len(st.logs) : NumberOf(st.logs, i) \in Nat /\ NumberOf(st.logs, i) < st.next + Len(contents)
  BY <1>2, <1>3 DEF Rising
<1> QED BY <1>1, <1>4 DEF Rising, next

\* So the records of every stream are in the order of their numbers.
LEMMA StreamsRise ==
  ASSUME NEW st \in Streams
  PROVE  st \in Possible /\ Rising(st)
<1> DEFINE P == {s \in Possible : Rising(s)}
<1>1. Empty \in P
  <2>1. Empty \in Possible
    BY EmptyIsPossible
  <2>2. Empty.logs = <<>> /\ Len(<<>>) = 0
    BY DEF Empty
  <2>3. Rising(Empty)
    BY <2>2 DEF Rising
  <2> QED BY <2>1, <2>3
<1>2. ASSUME NEW s \in P PROVE Extensions(s) \subseteq P
  <2>1. s \in Possible /\ Rising(s)
    OBVIOUS
  <2>2. ASSUME NEW next \in Extensions(s) PROVE Rising(next)
    <3>1. PICK contents \in Blocks, marked \in Marked(s) :
            next \in {Written(s, contents, marked)} \cup
                     {Torn(s, contents, marked, length) :
                        length \in 1 .. Len(BlockOf(Numbered(s.next, contents), marked)) - 1}
      BY DEF Extensions
    <3>2. CASE next = Written(s, contents, marked)
      BY <2>1, <3>2, WrittenRises
    <3>3. ASSUME NEW length \in 1 .. Len(BlockOf(Numbered(s.next, contents), marked)) - 1,
                 next = Torn(s, contents, marked, length)
          PROVE  Rising(next)
      BY <2>1, <3>3, TornRises
    <3> QED BY <3>1, <3>2, <3>3
  <2>3. Extensions(s) \subseteq Possible
    BY <2>1, ExtensionsArePossible
  <2> QED BY <2>2, <2>3
<1> HIDE DEF P
<1>3. Streams \subseteq P
  BY <1>1, <1>2, StreamsStay
<1> QED BY <1>3 DEF P

-----------------------------------------------------------------------------
\* The last blocks of two pages, and the records in them, are in their order.
LEMMA TimesRise ==
  ASSUME stream \in Possible, Rising(stream), ~ MayTearEscape,
         NEW size \in Nat \ {0}, NEW full,
         \A n \in full : n \in Nat /\ HasBlock(stream.bytes, n, size)
  PROVE  /\ \A n \in full : TimeOf(stream.bytes, n, size) \in Nat
         /\ \A n, m \in full : n < m => TimeOf(stream.bytes, n, size) < TimeOf(stream.bytes, m, size)
<1> DEFINE bytes == stream.bytes
           logs == stream.logs
           T(n) == TimeOf(bytes, n, size)
           \* The block of a page, and its first record.
           Is(n, x, y, a) ==
             /\ OneBlock(bytes, x, y) /\ n * size < y /\ y <= (n + 1) * size
             /\ T(n) = NumberOf(logs, a)
             /\ LogsBefore(x) = a - 1 /\ a <= LogsBefore(y)
             /\ a \in 1 .. Len(logs)
<1>1. bytes \in Seq(Nat) /\ Len(bytes) \in Nat /\ WellWritten(stream)
  BY PossibleIs
<1>2. Len(logs) \in Nat
  BY LogsOfStream
<1>3. ASSUME NEW n \in full PROVE \E x, y, a \in Nat : Is(n, x, y, a)
  <2>1. n \in Nat /\ HasBlock(bytes, n, size)
    OBVIOUS
  <2>2. PICK x, y \in Nat : /\ OneBlock(bytes, x, y)
                            /\ n * size < y /\ y <= (n + 1) * size
                            /\ readPageLastBlock(bytes, n, size) = SubSeq(bytes, x + 1, y)
    BY <1>1, <2>1, LastBlockIs
  <2>3. Holds(bytes, logs, x, y)
    BY <1>1, <2>2 DEF WellWritten, BlocksHold
  <2> DEFINE block == SubSeq(bytes, x + 1, y)
  <2>4. PICK a, b \in Nat : EndIn(logs, y, a, b) /\ Reads(block, logs, a, b)
    BY <2>3 DEF Holds
  <2>5. LogsBefore(y) = b /\ LogsBefore(x) = a - 1 /\ 1 <= a /\ a <= b /\ b <= Len(logs)
    <3>1. b <= Len(logs)
      BY <2>4 DEF EndIn
    <3> QED BY <2>2, <2>4, <3>1, LogsAtBlock
  <2>6. parseEach(block)[1] = logs[a].log
    <3>1. 1 \in 1 .. b - a + 1 /\ a + 1 - 1 = a
      BY <2>5
    <3>2. \A k \in 1 .. b - a + 1 : parseEach(block)[k] = logs[a + k - 1].log
      BY <2>4 DEF Reads
    <3> QED BY <3>1, <3>2
  <2>7. T(n) = NumberOf(logs, a)
    <3> HIDE DEF block
    <3>1. readPageLastBlock(bytes, n, size) = block
      BY <2>2 DEF block
    <3> QED BY <2>6, <3>1 DEF TimeOf, NumberOf
  <2>8. a \in 1 .. Len(logs)
    BY <1>2, <2>5
  <2> HIDE DEF T, block
  <2>9. Is(n, x, y, a)
    BY <2>2, <2>5, <2>7, <2>8
  <2> QED BY <2>9
<1>4. /\ \A i \in 1 .. Len(logs) : NumberOf(logs, i) \in Nat
      /\ \A i, j \in 1 .. Len(logs) : i < j => NumberOf(logs, i) < NumberOf(logs, j)
  BY DEF Rising
<1>5. ASSUME NEW n \in full PROVE T(n) \in Nat
  <2>1. PICK x, y, a \in Nat : Is(n, x, y, a)
    BY <1>3
  <2> HIDE DEF T
  <2> QED BY <1>4, <2>1
<1>6. ASSUME NEW n \in full, NEW m \in full, n < m PROVE T(n) < T(m)
  <2>1. PICK x, y, a \in Nat : Is(n, x, y, a)
    BY <1>3
  <2>2. PICK u, v, d \in Nat : Is(m, u, v, d)
    BY <1>3
  <2> DEFINE p == (n + 1) * size
             q == m * size
  <2>3. n \in Nat /\ m \in Nat
    OBVIOUS
  <2>4. p <= q /\ p \in Nat /\ q \in Nat
    <3>1. n + 1 \in Nat
      BY <2>3
    <3> QED BY <1>6, <2>3, <3>1, MultiplesInOrder, MultipleOf
  <2>5. y <= p /\ q < v
    BY <2>1, <2>2
  <2> HIDE DEF p, q
  <2>6. y < v
    BY <2>4, <2>5
  <2>7. y <= u
    <3>1. SUFFICES ASSUME u < y PROVE FALSE
      OBVIOUS
    <3>2. bytes[y] = SEPARATOR /\ Bare(bytes, u, v - 1)
      BY <2>1, <2>2 DEF OneBlock
    <3>3. y \in u + 1 .. v - 1
      BY <2>6, <3>1
    <3> QED BY <3>2, <3>3 DEF Bare
  <2>8. LogsBefore(y) <= LogsBefore(u) /\ LogsBefore(y) \in Nat
    BY <2>7, LogsBeforeInOrder, LogsBeforeIs
  <2>9. a \in 1 .. Len(logs) /\ d \in 1 .. Len(logs) /\ a < d
    <3>1. a <= LogsBefore(y) /\ LogsBefore(u) = d - 1 /\ a \in 1 .. Len(logs) /\ d \in 1 .. Len(logs)
      BY <2>1, <2>2
    <3> QED BY <2>8, <3>1
  <2>10. T(n) = NumberOf(logs, a) /\ T(m) = NumberOf(logs, d)
    BY <2>1, <2>2
  <2> HIDE DEF T
  <2> QED BY <1>4, <2>9, <2>10
<1> QED BY <1>5, <1>6

-----------------------------------------------------------------------------
\* The search of every stream ends next to the bound.
LEMMA SearchesEnd ==
  ASSUME stream \in Streams, ~ MayTearEscape
  PROVE  SearchEndsNextToTheBound
<1> SUFFICES ASSUME Asked, NEW size \in 1 .. PageSize + 1, NEW desired \in Header - 1 .. stream.next
    PROVE LET found == binarySearch(stream.bytes, size, desired)
              times == [n \in {p \in 0 .. visible \div size : HasBlock(stream.bytes, p, size)} |->
                          TimeOf(stream.bytes, n, size)]
          IN IF times = <<>> THEN found = 0
             ELSE /\ found \in DOMAIN times
                  /\ times[found] < desired =>
                       \A n \in DOMAIN times : n > found => times[n] > desired
                  /\ times[found] > desired =>
                       \A n \in DOMAIN times : n < found => times[n] < desired
  BY Zenon DEF SearchEndsNextToTheBound
<1> DEFINE bytes == stream.bytes
           t == Len(bytes)
           c == CeilDiv(t, size)
           full == {n \in 0 .. c : HasBlock(bytes, n, size)}
           found == binarySearch(bytes, size, desired)
           times == [n \in {p \in 0 .. visible \div size : HasBlock(bytes, p, size)} |->
                       TimeOf(bytes, n, size)]
<1>1. stream \in Possible /\ Rising(stream)
  BY StreamsRise
<1>2. bytes \in Seq(Nat) /\ t \in Nat
  BY <1>1, PossibleIs
<1>3. size \in Nat \ {0}
  BY ScannerAssumption
<1>4. desired \in Nat
  BY DEF Header
<1>5. visible = t
  BY DEF Asked
<1>6. c \in Nat /\ \A n \in Nat : n * size < t => n < c /\ n <= t \div size
  BY <1>2, <1>3, PagesWithin
<1>7. t \div size \in Nat
  BY <1>2, <1>3, QuotientIs
<1>8. \A n \in Nat : HasBlock(bytes, n, size) => n * size < t
  BY <1>2, <1>3, NoPage
<1> HIDE DEF c
<1>9. \A n \in full : n \in Nat /\ n < c /\ HasBlock(bytes, n, size)
  <2> SUFFICES ASSUME NEW n \in full PROVE n \in Nat /\ n < c /\ HasBlock(bytes, n, size)
    OBVIOUS
  <2>1. n \in Nat /\ HasBlock(bytes, n, size)
    BY <1>6
  <2> QED BY <1>6, <1>8, <2>1
<1>10. FullPages(bytes, size, c, full)
  BY <1>9 DEF FullPages
<1>11. {p \in 0 .. t \div size : HasBlock(bytes, p, size)} = full
  <2>1. ASSUME NEW n, HasBlock(bytes, n, size) PROVE n \in 0 .. t \div size <=> n \in 0 .. c
    <3> DEFINE q == t \div size
    <3>1. ASSUME n \in Nat PROVE n < c /\ n <= q
      <4>1. n * size < t
        BY <1>8, <2>1, <3>1
      <4> QED BY <1>6, <3>1, <4>1
    <3>2. q \in Nat
      BY <1>7
    <3> HIDE DEF q
    <3>3. n \in 0 .. q => n \in 0 .. c
      <4>1. ASSUME n \in 0 .. q PROVE n \in 0 .. c
        <5>1. n \in Nat
          BY <3>2, <4>1
        <5> QED BY <1>6, <3>1, <5>1
      <4> QED BY <4>1
    <3>4. n \in 0 .. c => n \in 0 .. q
      <4>1. ASSUME n \in 0 .. c PROVE n \in 0 .. q
        <5>1. n \in Nat
          BY <1>6, <4>1
        <5> QED BY <3>1, <3>2, <5>1
      <4> QED BY <4>1
    <3> QED BY <3>3, <3>4 DEF q
  <2> QED BY <2>1
<1>12. times = [n \in full |-> TimeOf(bytes, n, size)]
  BY <1>5, <1>11
<1>13. Timed(bytes, size, full, desired)
  <2> HIDE DEF full
  <2> QED BY <1>1, <1>3, <1>4, <1>9, TimesRise DEF Timed
<1> HIDE DEF times, full
<1>14. DOMAIN times = full /\ \A n \in full : times[n] = TimeOf(bytes, n, size)
  BY <1>12
<1>15. times = <<>> <=> full = {}
  <2>1. DOMAIN <<>> = {}
    OBVIOUS
  <2>2. ASSUME full = {} PROVE times = <<>>
    <3>1. times \in Seq(Nat) /\ Len(times) = 0
      <4>1. times = [n \in {} |-> TimeOf(bytes, n, size)] /\ 1 .. 0 = {}
        BY <1>12, <2>2
      <4>2. times \in [1 .. 0 -> Nat]
        BY <4>1
      <4>3. times \in Seq(Nat)
        BY <4>2
      <4> QED BY <4>2, <4>3
    <3> QED BY <3>1, EmptySeq
  <2> QED BY <1>14, <2>1, <2>2
<1>16. /\ full = {} => found = 0
       /\ full # {} =>
            /\ found \in full
            /\ TimeOf(bytes, found, size) < desired =>
                 \A n \in full : n > found => TimeOf(bytes, n, size) > desired
            /\ TimeOf(bytes, found, size) > desired =>
                 \A n \in full : n < found => TimeOf(bytes, n, size) < desired
  <2> HIDE DEF found
  <2>1. found = binarySearch(bytes, size, desired)
    BY DEF found
  <2>2. FullPages(bytes, size, CeilDiv(Len(bytes), size), full) /\ CeilDiv(Len(bytes), size) \in Nat
    BY <1>6, <1>10 DEF c
  <2> QED BY <1>2, <1>3, <1>13, <2>1, <2>2, SearchEndsThere
<1> HIDE DEF found
<1>17. IF times = <<>> THEN found = 0
       ELSE /\ found \in DOMAIN times
            /\ times[found] < desired => \A n \in DOMAIN times : n > found => times[n] > desired
            /\ times[found] > desired => \A n \in DOMAIN times : n < found => times[n] < desired
  <2>1. CASE full = {}
    BY <1>15, <1>16, <2>1
  <2>2. CASE full # {}
    <3>1. found \in full
      BY <1>16, <2>2
    <3> QED BY <1>14, <1>15, <1>16, <2>2, <3>1
  <2> QED BY <2>1, <2>2
<1> QED BY <1>17 DEF times, found

\* The streams never change.
LEMMA StreamStays == Spec => [](stream \in Streams)
<1>1. Init => stream \in Streams
  BY DEF Init
<1>2. stream \in Streams /\ [Next]_vars => (stream \in Streams)'
  <2>1. ASSUME [Next]_vars PROVE stream' = stream
    BY <2>1 DEF Next, vars, SourceGrows, goto, StartScan, YieldLog, ForwardDropTail, ForwardStep,
                BackwardDropTail, BackwardStep, Scanning, updateSize
  <2> QED BY <2>1
<1> QED BY <1>1, <1>2, PTL DEF Spec

\* In every stream and for every desired time, over pages of any size, pages without a
\* block and blocks over many pages, the search ends at a page with the desired time,
\* or at one behind which all times are greater, or before which all are less, as it
\* lies on its side of the desired time (binary-search.js:15-62).
THEOREM ScannerSearchEnds ==
  ASSUME ~ MayTearEscape
  PROVE  Spec => []SearchEndsNextToTheBound
<1>1. stream \in Streams => SearchEndsNextToTheBound
  BY SearchesEnd
<1> QED BY <1>1, StreamStays, PTL

-----------------------------------------------------------------------------
(* 6. Offsets in their order, and blocks between them.                      *)

LEMMA InOrderIs ==
  ASSUME NEW bound \in Nat, NEW S, S \subseteq 0 .. bound
  PROVE  Sorts(InOrder(S, bound), S)
<1> DEFINE f == CHOOSE h : IsInOrder(S, bound, h)
<1>1. IsInOrder(S, bound, f)
  BY InOrderExists
<1>2. InOrder(S, bound) = f[bound + 1]
  BY Zenon DEF InOrder, IsInOrder
<1> HIDE DEF f
<1> QED BY <1>1, <1>2, InOrderSorts

\* So a sequence in that order is InOrder.
LEMMA InOrderUnique ==
  ASSUME NEW bound \in Nat, NEW S, S \subseteq 0 .. bound, NEW s, Sorts(s, S)
  PROVE  InOrder(S, bound) = s
BY InOrderIs, SortsUnique

-----------------------------------------------------------------------------
(* Blocks between offsets.                                                  *)

LEMMA BetweenIs ==
  ASSUME NEW bytes \in Seq(Nat), NEW S, S \subseteq 0 .. Len(bytes), NEW s, Sorts(s, S)
  PROVE  CutAt(Between(bytes, s), bytes, s)
<1> DEFINE m == Len(s)
           k == IF s = <<>> THEN 0 ELSE m - 1
           b == Between(bytes, s)
<1>0. m \in Nat /\ s \in Seq(Nat) /\ (s = <<>> <=> m = 0)
  BY LenProperties, EmptySeq DEF Sorts
<1>1. /\ \A i, j \in 1 .. m : i < j => s[i] < s[j]
      /\ \A i \in 1 .. m : s[i] \in 0 .. Len(bytes)
  BY DEF Sorts
<1>2. Max({0, m - 1}) = k /\ k \in Nat
  <2>1. \A x \in {0, m - 1} : x <= k
    BY <1>0
  <2>2. k \in {0, m - 1}
    BY <1>0
  <2> HIDE DEF m, k
  <2>3. \E x \in {0, m - 1} : \A y \in {0, m - 1} : x >= y
    BY <1>0
  <2>4. Max({0, m - 1}) \in {0, m - 1} /\ \A y \in {0, m - 1} : Max({0, m - 1}) >= y
    BY <2>3, Zenon DEF Max
  <2>5. k \in Nat
    BY <1>0 DEF k
  <2> QED BY <1>0, <2>1, <2>2, <2>4, <2>5
<1>3. b = [i \in 1 .. k |-> SubSeq(bytes, s[i] + 1, s[i + 1])]
  BY <1>2 DEF Between, subarray
<1> HIDE DEF b
<1>4. ASSUME NEW i \in 1 .. k PROVE Piece(SubSeq(bytes, s[i] + 1, s[i + 1]), bytes, s[i], s[i + 1])
  <2>1. i \in 1 .. m /\ i + 1 \in 1 .. m /\ i < i + 1
    BY <1>0
  <2>2. Len(bytes) \in Nat
    BY LenProperties
  <2>3. s[i] \in Nat /\ s[i + 1] \in Nat /\ s[i] <= s[i + 1] /\ s[i + 1] <= Len(bytes)
    BY <1>1, <2>1, <2>2
  <2> HIDE DEF m, k
  <2> QED BY <2>3, PieceIs
<1>5. \A i \in 1 .. k : SubSeq(bytes, s[i] + 1, s[i + 1]) \in Seq(Nat)
  BY <1>4 DEF Piece
<1>6. \A i \in 1 .. m - 1 : i \in 1 .. k
  BY <1>0
<1> HIDE DEF k
<1>7. b \in Seq(Seq(Nat)) /\ Len(b) = k /\ \A i \in 1 .. k : b[i] = SubSeq(bytes, s[i] + 1, s[i + 1])
  <2> DEFINE e(i) == SubSeq(bytes, s[i] + 1, s[i + 1])
  <2>1. \A i \in 1 .. k : e(i) \in Seq(Nat)
    BY <1>5
  <2>2. b = [i \in 1 .. k |-> e(i)]
    BY <1>3
  <2> HIDE DEF e
  <2>3. b \in Seq(Seq(Nat)) /\ Len(b) = k /\ \A i \in 1 .. k : b[i] = e(i)
    BY <1>2, <2>1, <2>2
  <2> QED BY <2>3 DEF e
<1>8. \A i \in 1 .. m - 1 : Piece(b[i], bytes, s[i], s[i + 1])
  BY <1>4, <1>6, <1>7
<1>9. CutAt(b, bytes, s)
  BY <1>7, <1>8 DEF CutAt, k
<1> QED BY <1>9 DEF b

-----------------------------------------------------------------------------
(* Where blocks end.                                                        *)

LEMMA EndsAre ==
  ASSUME NEW bytes \in Seq(Nat)
  PROVE  /\ Ends(bytes) \subseteq 1 .. Len(bytes)
         /\ \A e \in 1 .. Len(bytes) : e \in Ends(bytes) <=> bytes[e] = SEPARATOR
<1>0. Len(bytes) \in Nat
  BY LenProperties
<1>1. Ends(bytes) = {i + 1 : i \in {j \in 0 .. Len(bytes) - 1 : bytes[j + 1] = SEPARATOR}}
  BY DEF Ends, Separators
<1>2. ASSUME NEW e \in Ends(bytes) PROVE e \in 1 .. Len(bytes) /\ bytes[e] = SEPARATOR
  BY <1>0, <1>1, <1>2
<1>3. ASSUME NEW e \in 1 .. Len(bytes), bytes[e] = SEPARATOR PROVE e \in Ends(bytes)
  <2>1. e - 1 \in 0 .. Len(bytes) - 1 /\ (e - 1) + 1 = e
    BY <1>0
  <2> QED BY <1>1, <1>3, <2>1
<1> QED BY <1>2, <1>3

\* The ends of a stream behind an offset, up to another.
EndsIn(bytes, x, y) == {e \in Ends(bytes) : x < e /\ e <= y}

LEMMA EndsOfPiece ==
  ASSUME NEW bytes \in Seq(Nat), NEW x \in Nat, NEW y \in Nat, x <= y, y <= Len(bytes),
         NEW w, Piece(w, bytes, x, y)
  PROVE  /\ \A e \in Nat : e \in Ends(w) <=> e + x \in EndsIn(bytes, x, y)
         /\ {e + x : e \in Ends(w)} = EndsIn(bytes, x, y)
<1>0. Len(bytes) \in Nat /\ w \in Seq(Nat) /\ Len(w) = y - x
  BY LenProperties DEF Piece
<1>1. /\ Ends(bytes) \subseteq 1 .. Len(bytes)
      /\ \A e \in 1 .. Len(bytes) : e \in Ends(bytes) <=> bytes[e] = SEPARATOR
  BY EndsAre
<1>2. /\ Ends(w) \subseteq 1 .. y - x
      /\ \A e \in 1 .. y - x : e \in Ends(w) <=> w[e] = SEPARATOR
  BY <1>0, EndsAre
<1>3. ASSUME NEW e \in Nat PROVE e \in Ends(w) <=> e + x \in EndsIn(bytes, x, y)
  <2>1. CASE e \in 1 .. y - x
    <3>1. e + x \in 1 .. Len(bytes) /\ x < e + x /\ e + x <= y /\ x + e = e + x
      BY <1>0, <2>1
    <3>2. w[e] = bytes[x + e]
      BY <2>1 DEF Piece
    <3> QED BY <1>1, <1>2, <2>1, <3>1, <3>2 DEF EndsIn
  <2>2. CASE e \notin 1 .. y - x
    <3>1. ~ (x < e + x /\ e + x <= y)
      BY <2>2
    <3> QED BY <1>2, <2>2, <3>1 DEF EndsIn
  <2> QED BY <2>1, <2>2
<1>4. ASSUME NEW n \in EndsIn(bytes, x, y) PROVE n - x \in Nat /\ (n - x) + x = n
  BY <1>0, <1>1 DEF EndsIn
<1>5. \A e \in Ends(w) : e \in Nat
  BY <1>2
<1>6. {e + x : e \in Ends(w)} \subseteq EndsIn(bytes, x, y)
  BY <1>3, <1>5
<1>7. EndsIn(bytes, x, y) \subseteq {e + x : e \in Ends(w)}
  <2> SUFFICES ASSUME NEW n \in EndsIn(bytes, x, y) PROVE n \in {e + x : e \in Ends(w)}
    OBVIOUS
  <2>1. n - x \in Ends(w) /\ (n - x) + x = n
    BY <1>3, <1>4
  <2> QED BY <2>1
<1> QED BY <1>3, <1>6, <1>7

-----------------------------------------------------------------------------
(* Chunks.                                                                  *)

\* How many chunks a transfer has.
LEMMA CeilIsUp ==
  ASSUME NEW from \in Nat, NEW to \in Nat, from <= to, NEW page \in Nat \ {0}
  PROVE  StepsGo(from, to, page, CeilDiv(to - from, page))
<1> DEFINE t == to - from
           c == CeilDiv(t, page)
<1>1. t \in Nat
  OBVIOUS
<1> HIDE DEF t
<1>2. c \in Int /\ c * page >= t /\ c * page < t + page
  BY <1>1, RoundedUp DEF CeilDiv
<1> HIDE DEF c
<1>3. c \in Nat
  <2>1. SUFFICES ASSUME c < 0 PROVE FALSE
    BY <1>2
  <2>2. PICK k \in Nat : c = -1 - k
    <3>1. -1 - c \in Nat /\ c = -1 - (-1 - c)
      BY <1>2, <2>1
    <3> QED BY <3>1
  <2>3. (-1 - k) * page = -page - k * page /\ k * page \in Nat
    OBVIOUS
  <2> QED BY <1>1, <1>2, <2>2, <2>3
<1>4. StepsGo(from, to, page, c)
  BY <1>2, <1>3, UptoGoes DEF t
<1> QED BY <1>4 DEF c, t

\* The chunks of a transfer.
LEMMA ChunksAre ==
  ASSUME NEW bytes \in Seq(Nat), NEW from \in Nat, NEW to \in Nat, from <= to, to <= Len(bytes),
         NEW page \in Nat \ {0}
  PROVE  LET chunks == bulkChunks(bytes, from, to, page)
             c == CeilDiv(to - from, page)
         IN /\ chunks \in Seq(Seq(Nat)) /\ Len(chunks) = c
            /\ \A n \in 1 .. c : Piece(chunks[n], bytes, Upto(from, to, page, n - 1),
                                                         Upto(from, to, page, n))
<1> DEFINE chunks == bulkChunks(bytes, from, to, page)
           c == CeilDiv(to - from, page)
           x(n) == Upto(from, to, page, n - 1)
           y(n) == Upto(from, to, page, n)
<1>0. /\ c \in Nat
      /\ \A n \in 0 .. c : Upto(from, to, page, n) \in from .. to
      /\ \A n \in 1 .. c : /\ Upto(from, to, page, n - 1) = from + (n - 1) * page
                           /\ Upto(from, to, page, n - 1) < Upto(from, to, page, n)
  <2>1. StepsGo(from, to, page, c)
    BY CeilIsUp
  <2> HIDE DEF c
  <2> QED BY <2>1 DEF StepsGo
<1>1. \A n \in 1 .. c : x(n) \in Nat /\ y(n) \in Nat /\ x(n) <= y(n) /\ y(n) <= Len(bytes)
  <2> SUFFICES ASSUME NEW n \in 1 .. c
               PROVE  x(n) \in Nat /\ y(n) \in Nat /\ x(n) <= y(n) /\ y(n) <= Len(bytes)
    OBVIOUS
  <2>1. n \in 0 .. c /\ n - 1 \in 0 .. c /\ Len(bytes) \in Nat
    BY <1>0, LenProperties
  <2> HIDE DEF c
  <2>2. x(n) \in from .. to /\ y(n) \in from .. to /\ x(n) < y(n)
    BY <1>0, <2>1
  <2> QED BY <2>1, <2>2
<1>2. chunks = [n \in 1 .. c |-> SubSeq(bytes, x(n) + 1, y(n))]
  <2>1. ASSUME NEW n \in 1 .. c
        PROVE  Min({from + n * page, to}) = y(n) /\ from + (n - 1) * page = x(n)
    <3>1. from + n * page \in Int /\ to \in Int
      BY <1>0
    <3>2. Min({from + n * page, to}) = MinOf(from + n * page, to)
      BY <3>1, MinIs
    <3> QED BY <1>0, <3>2 DEF Upto
  <2> DEFINE f(n) == from + (n - 1) * page
             t(n) == Min({from + n * page, to})
             cuts == Cuts(from, to, page)
  <2>2. cuts = [n \in 1 .. c |-> [from |-> f(n), to |-> t(n)]]
    BY DEF Cuts
  <2>3. \A n \in 1 .. c : f(n) = x(n) /\ t(n) = y(n)
    BY <2>1
  <2> HIDE DEF f, t, x, y, c, cuts
  <2>4. DOMAIN cuts = 1 .. c /\ \A n \in 1 .. c : cuts[n].from = x(n) /\ cuts[n].to = y(n)
    BY <2>2, <2>3
  <2>5. chunks = [n \in DOMAIN cuts |-> SubSeq(bytes, cuts[n].from + 1, cuts[n].to)]
    BY DEF bulkChunks, subarray, cuts
  <2> QED BY <2>4, <2>5
<1> HIDE DEF x, y, c, chunks
<1>3. \A n \in 1 .. c : Piece(SubSeq(bytes, x(n) + 1, y(n)), bytes, x(n), y(n))
  BY <1>1, PieceIs
<1> DEFINE e(n) == SubSeq(bytes, x(n) + 1, y(n))
<1>4. /\ \A n \in 1 .. c : Piece(e(n), bytes, x(n), y(n)) /\ e(n) \in Seq(Nat)
      /\ chunks = [n \in 1 .. c |-> e(n)]
  BY <1>2, <1>3 DEF Piece
<1> HIDE DEF e
<1>5. chunks \in Seq(Seq(Nat)) /\ Len(chunks) = c /\ \A n \in 1 .. c : chunks[n] = e(n)
  BY <1>0, <1>4
<1>6. \A n \in 1 .. c : Piece(chunks[n], bytes, x(n), y(n))
  BY <1>4, <1>5
<1> QED BY <1>5, <1>6 DEF x, y, c, chunks

LEMMA ChunksFlatten ==
  ASSUME NEW bytes \in Seq(Nat), NEW from \in Nat, NEW to \in Nat, from <= to, to <= Len(bytes),
         NEW page \in Nat \ {0}
  PROVE  Piece(FlattenSeq(bulkChunks(bytes, from, to, page)), bytes, from, to)
<1> DEFINE chunks == bulkChunks(bytes, from, to, page)
           c == CeilDiv(to - from, page)
           at == [n \in 0 .. c |-> Upto(from, to, page, n)]
<1>1. /\ chunks \in Seq(Seq(Nat)) /\ Len(chunks) = c
      /\ \A n \in 1 .. c : Piece(chunks[n], bytes, Upto(from, to, page, n - 1),
                                                   Upto(from, to, page, n))
  BY ChunksAre
<1>2. /\ c \in Nat
      /\ \A n \in 0 .. c : Upto(from, to, page, n) \in from .. to
      /\ Upto(from, to, page, 0) = from
      /\ Upto(from, to, page, c) = to
      /\ \A n \in 1 .. c : Upto(from, to, page, n - 1) < Upto(from, to, page, n)
  <2>1. StepsGo(from, to, page, c)
    BY CeilIsUp
  <2> HIDE DEF c
  <2> QED BY <2>1 DEF StepsGo
<1> HIDE DEF chunks, c
<1>3. at \in [0 .. c -> Nat]
  BY <1>2
<1>4. ASSUME NEW n \in 1 .. c PROVE at[n - 1] <= at[n] /\ Piece(chunks[n], bytes, at[n - 1], at[n])
  <2>1. n \in 0 .. c /\ n - 1 \in 0 .. c
    BY <1>2
  <2>2. at[n - 1] = Upto(from, to, page, n - 1) /\ at[n] = Upto(from, to, page, n)
    BY <2>1
  <2>3. at[n - 1] \in Nat /\ at[n] \in Nat
    BY <1>3, <2>1
  <2> HIDE DEF at
  <2> QED BY <1>1, <1>2, <2>2, <2>3
<1>5. at[0] = from /\ at[c] = to
  BY <1>2
<1> HIDE DEF at
<1>6. Piece(FlattenSeq(chunks), bytes, at[0], at[c])
  BY <1>1, <1>3, <1>4, PiecesFlatten
<1> QED BY <1>5, <1>6 DEF chunks

-----------------------------------------------------------------------------
(* A bulk stream is read.                                                   *)

\* After the bytes up to an offset, the blocks that end there have been handed out,
\* and the rest is in the buffer.
ReadUpto(bytes, a, st, s) ==
  /\ Sorts(s, {0} \cup EndsIn(bytes, 0, a))
  /\ CutAt(st.blocks, bytes, s)
  /\ Piece(st.buffer, bytes, Last(s), a)

BulkStates == [buffer : Seq(Nat), blocks : Seq(Seq(Nat))]

AfterBytes(bytes, a) == {st \in BulkStates : \E s \in Seq(Nat) : ReadUpto(bytes, a, st, s)}

LEMMA ReadPieceKeeps ==
  ASSUME NEW bytes \in Seq(Nat), NEW a \in Nat, NEW b \in Nat, a <= b, b <= Len(bytes),
         NEW st \in AfterBytes(bytes, a), NEW data, Piece(data, bytes, a, b)
  PROVE  ReadPiece(st, data) \in AfterBytes(bytes, b)
<1>0. Len(bytes) \in Nat /\ Ends(bytes) \subseteq 1 .. Len(bytes)
  BY LenProperties, EndsAre
<1>1. PICK s \in Seq(Nat) : ReadUpto(bytes, a, st, s)
  BY DEF AfterBytes
<1>2. st.blocks \in Seq(Seq(Nat)) /\ st.buffer \in Seq(Nat)
  BY DEF AfterBytes, BulkStates
<1> DEFINE S == {0} \cup EndsIn(bytes, 0, a)
           L == Last(s)
<1>3. Sorts(s, S) /\ CutAt(st.blocks, bytes, s) /\ Piece(st.buffer, bytes, L, a)
  BY <1>1 DEF ReadUpto
<1>4. s # <<>>
  <2> HIDE DEF S
  <2>1. S # {}
    BY DEF S
  <2> QED BY <1>3, <2>1, SortsEmpty
<1>5. L \in S /\ (\A n \in S : n <= L) /\ L \in Nat /\ L <= a
  <2>1. L \in S /\ \A n \in S : n <= L
    <3> HIDE DEF S
    <3> QED BY <1>3, <1>4, SortsLast
  <2>2. \A n \in S : n \in Nat /\ n <= a
    BY <1>0 DEF EndsIn
  <2> HIDE DEF S, L
  <2> QED BY <2>1, <2>2
<1> DEFINE B == st.buffer \o data
           U == {0} \cup Ends(B)
           t == InOrder(U, Len(B))
<1>6. Piece(B, bytes, L, b)
  <2> HIDE DEF L
  <2>1. L \in Int /\ a \in Int /\ b \in Int /\ L <= a
    BY <1>5
  <2> QED BY <1>3, <2>1, PiecesMeet
<1> HIDE DEF S, L
<1>7. B \in Seq(Nat) /\ Len(B) = b - L /\ Len(B) \in Nat
  BY <1>5, <1>6 DEF Piece
<1> HIDE DEF B
<1>8. U \subseteq 0 .. Len(B)
  <2>1. Ends(B) \subseteq 1 .. Len(B)
    BY <1>7, EndsAre
  <2> QED BY <1>7, <2>1
<1>9. Sorts(t, U)
  <2> HIDE DEF U
  <2> QED BY <1>7, <1>8, InOrderIs
<1>10. t # <<>> /\ t[1] = 0 /\ Last(t) \in U /\ t \in Seq(Nat)
  <2>1. 0 \in U /\ \A n \in U : 0 <= n
    BY <1>7, <1>8
  <2> HIDE DEF U, t
  <2>2. t # <<>> /\ t[1] = 0
    BY <1>9, <2>1, SortsFirst
  <2>3. Last(t) \in U
    BY <1>9, <2>2, SortsLast
  <2>4. t \in Seq(Nat)
    BY <1>9 DEF Sorts
  <2> QED BY <2>2, <2>3, <2>4
<1> DEFINE m == MovedBy(t, L)
           list == Between(B, t)
           V == {n + L : n \in U}
<1>11. CutAt(list, B, t)
  <2> HIDE DEF U, t
  <2> QED BY <1>7, <1>8, <1>9, BetweenIs
<1>12. CutAt(list, bytes, m)
  <2>1. U \subseteq 0 .. b - L
    BY <1>7, <1>8
  <2> HIDE DEF U, t, list
  <2> QED BY <1>5, <1>6, <1>9, <1>11, <2>1, CutMoved
<1>13. Sorts(m, V)
  <2> HIDE DEF U, t
  <2> QED BY <1>5, <1>9, SortsMoved
<1>14. m # <<>> /\ m[1] = L /\ Last(m) = Last(t) + L /\ m \in Seq(Nat)
  <2> HIDE DEF t
  <2>1. m # <<>> /\ m[1] = t[1] + L /\ Last(m) = Last(t) + L
    BY <1>5, <1>10, MovedEnds
  <2>2. m \in Seq(Nat)
    BY <1>5, <1>10, MovedByIs
  <2> HIDE DEF m
  <2> QED BY <1>5, <1>10, <2>1, <2>2
<1>15. V \ {L} = EndsIn(bytes, L, b)
  <2>1. {e + L : e \in Ends(B)} = EndsIn(bytes, L, b)
    <3>1. L \in Nat /\ L <= b
      BY <1>5
    <3> QED BY <1>6, <3>1, EndsOfPiece
  <2>2. V = {L} \cup {e + L : e \in Ends(B)}
    <3>1. 0 + L = L
      BY <1>5
    <3> QED BY <3>1
  <2>3. L \notin EndsIn(bytes, L, b)
    BY <1>5 DEF EndsIn
  <2> HIDE DEF V
  <2> QED BY <2>1, <2>2, <2>3
<1> DEFINE u == s \o Later(m)
           W == {0} \cup EndsIn(bytes, 0, b)
<1>16. Sorts(u, W)
  <2> HIDE DEF m, V, t, U
  <2>1. Sorts(Later(m), V \ {m[1]}) /\ \A n \in V \ {m[1]} : m[1] < n
    BY <1>13, <1>14, SortsLater
  <2>2. \A x \in S : \A y \in V \ {L} : x < y
    <3>1. \A y \in V \ {L} : L < y /\ y \in Nat
      BY <1>0, <1>14, <1>15, <2>1 DEF EndsIn
    <3>2. \A x \in S : x \in Nat /\ x <= L
      BY <1>0, <1>5 DEF S, EndsIn
    <3> QED BY <1>5, <3>1, <3>2
  <2>3. Sorts(u, S \cup (V \ {L}))
    <3>1. Sorts(Later(m), V \ {L})
      BY <1>14, <2>1
    <3> DEFINE T == V \ {L}
    <3> HIDE DEF T
    <3> QED BY <1>3, <2>2, <3>1, SortsMeet DEF T
  <2>4. S \cup EndsIn(bytes, L, b) = W
    <3>1. \A e \in Ends(bytes) : e \in Nat /\ 0 < e
      BY <1>0
    <3>2. L = 0 \/ L \in EndsIn(bytes, 0, a)
      BY <1>5 DEF S
    <3>3. \A e \in Ends(bytes) : (0 < e /\ e <= b) <=> ((0 < e /\ e <= a) \/ (L < e /\ e <= b))
      BY <1>5, <3>1
    <3> QED BY <3>3 DEF S, EndsIn
  <2> QED BY <1>15, <2>3, <2>4
<1> DEFINE next == ReadPiece(st, data)
<1>17. next = [buffer |-> SubSeq(B, Last(t) + 1, Len(B)), blocks |-> st.blocks \o list]
  BY DEF ReadPiece, subarray, B, list, t, U
<1>18. CutAt(st.blocks \o list, bytes, u) /\ Last(u) = Last(m) /\ u \in Seq(Nat)
  <2> DEFINE r == st.blocks
  <2> HIDE DEF m, list, t, U, r
  <2>1. CutAt(r, bytes, s) /\ Last(s) = m[1]
    BY <1>3, <1>14 DEF r, L
  <2>2. m \in Seq(Nat) /\ m # <<>>
    BY <1>14
  <2>3. CutAt(r \o list, bytes, s \o Later(m))
    BY <1>4, <1>12, <2>1, <2>2, CutsMeet
  <2>4. Last(s \o Later(m)) = Last(m) /\ s \o Later(m) \in Seq(Nat)
    BY <1>4, <2>1, <2>2, JoinedIs
  <2> QED BY <2>3, <2>4 DEF r
<1>19. Piece(SubSeq(B, Last(t) + 1, Len(B)), bytes, Last(u), b)
  <2> DEFINE e == Last(t)
             n == Len(B)
  <2>1. e \in Nat /\ e <= n /\ n \in Nat /\ n <= b - L /\ n + L = b
    <3>1. e \in U /\ n \in Nat /\ n = b - L
      BY <1>7, <1>10
    <3>2. U \subseteq 0 .. n
      BY <1>8
    <3> HIDE DEF U, e, n
    <3> QED BY <1>5, <3>1, <3>2
  <2> DEFINE w == SubSeq(B, e + 1, n)
  <2>2. Piece(w, B, e, n)
    <3>1. n <= Len(B)
      BY <2>1
    <3> HIDE DEF e, n
    <3> QED BY <1>7, <2>1, <3>1, PieceIs
  <2> HIDE DEF w, e, n
  <2>3. Piece(w, bytes, e + L, n + L)
    BY <1>5, <1>6, <2>1, <2>2, PieceWithin
  <2>4. Last(u) = e + L
    BY <1>14, <1>18 DEF e
  <2> QED BY <2>1, <2>3, <2>4 DEF w, e, n
<1> DEFINE w == SubSeq(B, Last(t) + 1, Len(B))
           k == st.blocks \o list
<1> HIDE DEF u, W, next, list, t, m, V, U
<1>20. next.blocks = k /\ next.buffer = w /\ next \in BulkStates
  <2>1. w \in Seq(Nat)
    BY <1>19 DEF Piece
  <2>2. k \in Seq(Seq(Nat))
    BY <1>18 DEF CutAt
  <2> HIDE DEF w, k
  <2>3. next = [buffer |-> w, blocks |-> k]
    BY <1>17 DEF w, k
  <2> QED BY <2>1, <2>2, <2>3 DEF BulkStates
<1> HIDE DEF w, k
<1>21. ReadUpto(bytes, b, next, u)
  BY <1>16, <1>18, <1>19, <1>20 DEF ReadUpto, W, w, k
<1> QED BY <1>18, <1>20, <1>21 DEF AfterBytes, next

IsReadBulk(input, g) ==
  g = [n \in 0 .. Len(input) |-> IF n = 0 THEN [buffer |-> <<>>, blocks |-> <<>>]
                                 ELSE ReadPiece(g[n - 1], input[n])]

\* So the blocks of the stream are read, whatever its pieces.
\* The pieces in which a transport delivers, and how far each of them goes.
CutInto(input, bytes, c, up) ==
  /\ c = Len(input) /\ c \in Nat
  /\ \A n \in 0 .. c : up[n] \in 0 .. Len(bytes)
  /\ up[0] = 0 /\ up[c] = Len(bytes)
  /\ \A n \in 1 .. c : up[n - 1] <= up[n] /\ Piece(input[n], bytes, up[n - 1], up[n])

LEMMA PiecesAre ==
  ASSUME NEW bytes \in Seq(Nat), NEW size \in Nat \ {0}
  PROVE  \E c : \E up : CutInto(Pieces(bytes, size), bytes, c, up)
<1> DEFINE zero == 0
           to == Len(bytes)
           input == Pieces(bytes, size)
           c == CeilDiv(to - zero, size)
           up == [n \in 0 .. c |-> Upto(zero, to, size, n)]
<1>0. zero \in Nat /\ to \in Nat /\ zero <= to
  BY LenProperties
<1>1. input = bulkChunks(bytes, zero, to, size)
  BY DEF Pieces
<1> HIDE DEF zero, input
<1>2. /\ Len(input) = c
      /\ \A n \in 1 .. c : Piece(input[n], bytes, Upto(zero, to, size, n - 1), Upto(zero, to, size, n))
  <2> HIDE DEF to
  <2>1. to <= Len(bytes)
    BY <1>0 DEF to
  <2>2. /\ Len(bulkChunks(bytes, zero, to, size)) = c
        /\ \A n \in 1 .. c : Piece(bulkChunks(bytes, zero, to, size)[n], bytes,
                                  Upto(zero, to, size, n - 1), Upto(zero, to, size, n))
    BY <1>0, <2>1, ChunksAre
  <2> QED BY <1>1, <2>2
<1> HIDE DEF to
<1>3. StepsGo(zero, to, size, c)
  BY <1>0, CeilIsUp
<1> HIDE DEF c
<1>4. /\ c \in Nat /\ 0 \in 0 .. c /\ c \in 0 .. c
      /\ \A n \in 1 .. c : n \in 0 .. c /\ n - 1 \in 0 .. c
  BY <1>3 DEF StepsGo
<1>5. /\ \A n \in 0 .. c : up[n] = Upto(zero, to, size, n) /\ up[n] \in zero .. to
      /\ up[0] = zero /\ up[c] = to
  BY <1>3, <1>4 DEF StepsGo
<1> HIDE DEF up
<1>6. \A n \in 1 .. c : up[n - 1] <= up[n] /\ Piece(input[n], bytes, up[n - 1], up[n])
  <2> SUFFICES ASSUME NEW n \in 1 .. c
               PROVE  up[n - 1] <= up[n] /\ Piece(input[n], bytes, up[n - 1], up[n])
    OBVIOUS
  <2>1. up[n - 1] = Upto(zero, to, size, n - 1) /\ up[n] = Upto(zero, to, size, n)
        /\ up[n - 1] \in zero .. to /\ up[n] \in zero .. to
    BY <1>4, <1>5
  <2>2. up[n - 1] < up[n]
    BY <1>3, <2>1 DEF StepsGo
  <2> QED BY <1>0, <1>2, <2>1, <2>2
<1>7. CutInto(input, bytes, c, up)
  BY <1>2, <1>4, <1>5, <1>6 DEF CutInto, to, zero
<1> QED BY <1>7 DEF input

LEMMA ReadBulkIs ==
  ASSUME NEW bytes \in Seq(Nat), NEW size \in Nat \ {0}
  PROVE  \E s \in Seq(Nat) : /\ Sorts(s, {0} \cup EndsIn(bytes, 0, Len(bytes)))
                             /\ CutAt(readBulk(Pieces(bytes, size)), bytes, s)
<1> DEFINE input == Pieces(bytes, size)
           to == Len(bytes)
<1>0. to \in Nat /\ to <= Len(bytes)
  BY LenProperties
<1>a. PICK c : \E u : CutInto(input, bytes, c, u)
  BY PiecesAre
<1>c. PICK up : CutInto(input, bytes, c, up)
  BY <1>a
<1>1. c = Len(input) /\ \A n \in 1 .. c : Piece(input[n], bytes, up[n - 1], up[n])
  BY <1>c DEF CutInto
<1>2. /\ c \in Nat
      /\ \A n \in 0 .. c : up[n] \in 0 .. to
      /\ up[0] = 0 /\ up[c] = to
      /\ \A n \in 1 .. c : up[n - 1] <= up[n]
  BY <1>c DEF CutInto
<1> DEFINE start == [buffer |-> <<>>, blocks |-> <<>>]
           I == [n \in 0 .. c |-> AfterBytes(bytes, up[n])]
           step == [n \in 1 .. c |-> [st \in I[n - 1] |-> ReadPiece(st, input[n])]]
<1> HIDE DEF input, to
<1>3. start \in I[0]
  <2> DEFINE s == <<0>>
  <2>1. Sorts(s, {0}) /\ s \in Seq(Nat) /\ s # <<>> /\ Len(s) = 1 /\ s[1] = 0
    BY SortsOne
  <2>2. Last(s) = 0
    BY <2>1 DEF Last
  <2> HIDE DEF s
  <2>3. {0} \cup EndsIn(bytes, 0, 0) = {0}
    <3>1. \A e \in Ends(bytes) : e \in Nat
      BY EndsAre
    <3> QED BY <3>1 DEF EndsIn
  <2>4. CutAt(<<>>, bytes, s)
    <3>1. <<>> \in Seq(Seq(Nat)) /\ Len(<<>>) = 0 /\ 1 .. 1 - 1 = {}
      OBVIOUS
    <3> QED BY <2>1, <3>1 DEF CutAt
  <2>5. Piece(<<>>, bytes, 0, 0)
    BY DEF Piece
  <2>6. start.buffer = <<>> /\ start.blocks = <<>> /\ start \in BulkStates
    BY DEF BulkStates
  <2> HIDE DEF start
  <2>7. ReadUpto(bytes, 0, start, s)
    BY <2>1, <2>2, <2>3, <2>4, <2>5, <2>6 DEF ReadUpto
  <2>8. start \in AfterBytes(bytes, 0)
    BY <2>1, <2>6, <2>7 DEF AfterBytes
  <2>9. 0 \in 0 .. c
    BY <1>2
  <2> QED BY <1>2, <2>8, <2>9
<1>4. ASSUME NEW n \in 1 .. c, NEW st \in I[n - 1]
      PROVE  step[n][st] = ReadPiece(st, input[n]) /\ ReadPiece(st, input[n]) \in I[n]
  <2>1. n - 1 \in 0 .. c /\ n \in 0 .. c
    BY <1>2
  <2>2. st \in AfterBytes(bytes, up[n - 1]) /\ I[n] = AfterBytes(bytes, up[n])
    BY <1>4, <2>1
  <2>3. step[n][st] = ReadPiece(st, input[n])
    <3> HIDE DEF I
    <3> QED BY <1>4
  <2> HIDE DEF I, step
  <2>4. up[n - 1] \in Nat /\ up[n] \in Nat /\ up[n - 1] <= up[n] /\ up[n] <= Len(bytes)
    BY <1>0, <1>2, <2>1
  <2>5. Piece(input[n], bytes, up[n - 1], up[n])
    BY <1>1
  <2> QED BY <2>2, <2>3, <2>4, <2>5, ReadPieceKeeps
<1>5. PICK h : h = [n \in 0 .. c |-> h[n]] /\ StaysUp(I, start, c, step, h)
  <2>1. KeptUp(I, c, step)
    <3> HIDE DEF I, step
    <3> QED BY <1>4 DEF KeptUp
  <2> HIDE DEF I, step, start
  <2> QED BY <1>2, <1>3, <2>1, ChainIsFunction
<1>d. StaysUp(I, start, c, step, h)
  BY <1>5
<1> DEFINE f == CHOOSE x : IsReadBulk(input, x)
<1>6. IsReadBulk(input, h)
  <2> HIDE DEF I, step
  <2>1. \A n \in 0 .. c : n # 0 => n \in 1 .. c /\ n - 1 \in 0 .. c
    BY <1>2
  <2>2. \A n \in 1 .. c : h[n] = ReadPiece(h[n - 1], input[n])
    <3>1. \A n \in 1 .. c : h[n - 1] \in I[n - 1] /\ h[n] = step[n][h[n - 1]]
      BY <1>2, <1>d, <2>1 DEF StaysUp
    <3> QED BY <1>4, <3>1
  <2>3. \A n \in 0 .. c : h[n] = IF n = 0 THEN start ELSE ReadPiece(h[n - 1], input[n])
    <3> HIDE DEF start
    <3> QED BY <1>d, <2>1, <2>2 DEF StaysUp
  <2>4. h = [n \in 0 .. c |-> IF n = 0 THEN start ELSE ReadPiece(h[n - 1], input[n])]
    BY <1>5, <2>3, Zenon
  <2> QED BY <1>1, <2>4 DEF IsReadBulk
<1>7. IsReadBulk(input, f)
  BY <1>6
<1>8. readBulk(input) = f[c].blocks
  <2>1. readBulk(input) = (CHOOSE x : IsReadBulk(input, x))[Len(input)].blocks
    BY Zenon DEF readBulk, IsReadBulk
  <2> QED BY <1>1, <2>1
<1> HIDE DEF f
<1>9. f[0] = start /\ \A n \in 1 .. c : f[n] = ReadPiece(f[n - 1], input[n])
  <2> DEFINE more(n) == ReadPiece(f[n - 1], input[n])
  <2> HIDE DEF I, step, start
  <2>0. f = [n \in 0 .. c |-> IF n = 0 THEN start ELSE ReadPiece(f[n - 1], input[n])]
    BY <1>1, <1>7 DEF IsReadBulk, start
  <2>1. f = [n \in 0 .. c |-> IF n = 0 THEN start ELSE more(n)]
    BY <2>0, Zenon
  <2> HIDE DEF more
  <2>2. 0 \in 0 .. c /\ \A n \in 1 .. c : n \in 0 .. c /\ n # 0
    BY <1>2
  <2>3. f[0] = start /\ \A n \in 1 .. c : f[n] = more(n)
    BY <2>1, <2>2
  <2> QED BY <2>3 DEF more
<1>10. f[c] \in I[c]
  <2> HIDE DEF I, step, start
  <2>1. KeepsUp(I, c, f)
    BY <1>3, <1>4, <1>9 DEF KeepsUp
  <2> QED BY <1>2, <2>1, KeptToTheEnd
<1>11. f[c] \in AfterBytes(bytes, to)
  <2>1. c \in 0 .. c
    BY <1>2
  <2> QED BY <1>2, <1>10, <2>1
<1>12. PICK s \in Seq(Nat) : ReadUpto(bytes, to, f[c], s)
  BY <1>11 DEF AfterBytes
<1> QED BY <1>8, <1>12 DEF ReadUpto, input, to

-----------------------------------------------------------------------------
(* A reversed bulk stream: chunks with their lengths.                       *)

\* The bytes that are taken out of the chunks are the first.
LEMMA ExtractIs ==
  ASSUME NEW chunks \in Seq(Seq(Nat)), NEW d \in Nat, d <= Len(FlattenSeq(chunks))
  PROVE  LET x == extractSize(chunks, d)
         IN /\ x.data \in Seq(Nat) /\ Len(x.data) = d
            /\ x.chunks \in Seq(Seq(Nat))
            /\ FlattenSeq(chunks) = x.data \o FlattenSeq(x.chunks)
<1> DEFINE m == Len(chunks)
           first(n) == SubSeq(chunks, 1, n)
           needed == {n \in 0 .. m : Len(FlattenSeq(first(n))) >= d}
           count == Min(needed)
           flat == FlattenSeq(first(count))
           data == SubSeq(flat, 1, d)
           rest == SubSeq(flat, d + 1, Len(flat))
           others == SubSeq(chunks, count + 1, m)
           left == (IF rest = <<>> THEN <<>> ELSE <<rest>>) \o others
           x == extractSize(chunks, d)
<1>0. m \in Nat
  BY LenProperties
<1>1. x = [data |-> data, chunks |-> left]
  <2>1. SubSeq(flat, 0 + 1, d) = SubSeq(flat, 1, d)
    OBVIOUS
  <2> HIDE DEF m, flat
  <2> QED BY <2>1 DEF extractSize, subarray, flat, m
<1>2. count \in 0 .. m /\ Len(FlattenSeq(first(count))) >= d
  <2>1. m \in needed
    <3>1. first(m) = chunks
      BY SubSeqFull
    <3>2. m \in 0 .. m
      BY <1>0
    <3>3. Len(FlattenSeq(chunks)) \in Nat
      BY FlattenIsSeq, LenProperties
    <3> HIDE DEF m
    <3> QED BY <3>1, <3>2, <3>3
  <2>2. needed \subseteq Nat
    BY <1>0
  <2>3. PICK k \in needed : \A n \in needed : k <= n
    <3> HIDE DEF needed
    <3> QED BY <2>1, <2>2, LeastNumber
  <2>4. count \in needed
    <3> HIDE DEF needed
    <3> QED BY <2>3, Zenon DEF Min
  <2> HIDE DEF count
  <2> QED BY <2>4
<1> HIDE DEF count, needed
<1>3. /\ chunks = first(count) \o others
      /\ first(count) \in Seq(Seq(Nat)) /\ others \in Seq(Seq(Nat))
  <2>1. count \in Nat /\ count <= Len(chunks)
    BY <1>0, <1>2
  <2> QED BY <2>1, SplitAt
<1> HIDE DEF first, others
<1>4. FlattenSeq(chunks) = flat \o FlattenSeq(others) /\ flat \in Seq(Nat)
  <2> HIDE DEF m
  <2> QED BY <1>3, FlattenBoth, FlattenIsSeq
<1>5. d <= Len(flat)
  <2>1. Len(flat) \in Nat
    BY <1>4, LenProperties
  <2> QED BY <1>2, <2>1
<1> HIDE DEF flat
<1>6. flat = data \o rest /\ data \in Seq(Nat) /\ Len(data) = d /\ rest \in Seq(Nat)
  BY <1>4, <1>5, SplitAt
<1> HIDE DEF data, rest
<1>7. left \in Seq(Seq(Nat)) /\ FlattenSeq(left) = rest \o FlattenSeq(others)
  <2> DEFINE r == IF rest = <<>> THEN <<>> ELSE <<rest>>
  <2>1. r \in Seq(Seq(Nat)) /\ FlattenSeq(r) = rest
    <3>1. CASE rest = <<>>
      <4>1. r = <<>>
        BY <3>1
      <4>2. FlattenSeq(<<>>) = <<>>
        BY <1>6, FlattenSmall
      <4>3. <<>> \in Seq(Seq(Nat))
        OBVIOUS
      <4> HIDE DEF r
      <4> QED BY <3>1, <4>1, <4>2, <4>3
    <3>2. CASE rest # <<>>
      <4> DEFINE o == <<rest>>
      <4>1. r = o
        BY <3>2
      <4>2. o \in Seq(Seq(Nat)) /\ FlattenSeq(o) = rest
        BY <1>6, FlattenSmall
      <4> HIDE DEF r, o
      <4> QED BY <4>1, <4>2
    <3> QED BY <3>1, <3>2
  <2> HIDE DEF r
  <2>2. r \o others \in Seq(Seq(Nat))
    BY <1>3, <2>1, ConcatProperties
  <2>3. FlattenSeq(r \o others) = rest \o FlattenSeq(others)
    BY <1>3, <2>1, FlattenBoth
  <2> QED BY <2>2, <2>3 DEF r
<1> DEFINE more == FlattenSeq(others)
<1>8. more \in Seq(Nat)
  BY <1>3, FlattenIsSeq
<1>9. FlattenSeq(chunks) = flat \o more /\ FlattenSeq(left) = rest \o more
  BY <1>4, <1>7
<1> HIDE DEF left, more, m
<1>10. flat \o more = data \o FlattenSeq(left)
  <2> DEFINE back == rest \o more
             front == data \o rest
  <2>1. front = data \o rest /\ back = rest \o more
    OBVIOUS
  <2>2. flat = front /\ FlattenSeq(left) = back
    BY <1>6, <1>9
  <2> HIDE DEF front, back
  <2>3. Equal(front \o more, data \o back)
    BY <1>6, <1>8, <2>1, Associates
  <2> QED BY <2>2, <2>3 DEF Equal
<1>11. FlattenSeq(chunks) = data \o FlattenSeq(left)
  BY <1>9, <1>10
<1>12. x.data = data /\ x.chunks = left
  BY <1>1
<1> HIDE DEF x
<1> QED BY <1>6, <1>7, <1>11, <1>12 DEF x

LEMMA ShorterFits ==
  ASSUME NEW n \in Nat, NEW m \in Nat, m <= n, FitsFourBytes(n)
  PROVE  FitsFourBytes(m)
<1> DEFINE x == n \div 16777216
           y == m \div 16777216
           a == n % 16777216
           b == m % 16777216
<1>1. x < 256
  BY SMT DEF FitsFourBytes
<1>2. n = 16777216 * x + a /\ a >= 0 /\ a < 16777216 /\ x \in Int /\ a \in Int
  BY SMT
<1>3. m = 16777216 * y + b /\ b >= 0 /\ b < 16777216 /\ y \in Int /\ b \in Int
  BY SMT
<1> HIDE DEF x, y, a, b
<1>4. y < 256
  BY <1>1, <1>2, <1>3, SMT
<1> QED BY <1>4, SMT DEF FitsFourBytes, y

\* Four bytes hold such a length.
LEMMA LengthIsRead ==
  ASSUME NEW chunk \in Seq(Nat), FitsFourBytes(Len(chunk))
  PROVE  LET p == prependLength(chunk)
         IN /\ p \in Seq(Nat) /\ Len(p) = 4 + Len(chunk)
            /\ readUint32(p) = Len(chunk)
            /\ \A i \in 1 .. Len(chunk) : p[4 + i] = chunk[i]
<1> DEFINE n == Len(chunk)
           a == (n \div 16777216) % 256
           b == (n \div 65536) % 256
           c == (n \div 256) % 256
           d == n % 256
           h == <<a, b, c, d>>
           p == h \o chunk
<1>0. n \in Nat /\ n \div 16777216 < 256
  BY LenProperties, SMT DEF FitsFourBytes
<1>1. prependLength(chunk) = p
  BY SMT DEF prependLength
<1>2. a \in Nat /\ b \in Nat /\ c \in Nat /\ d \in Nat
      /\ 16777216 * a + 65536 * b + 256 * c + d = n
  <2> HIDE DEF n
  <2> QED BY <1>0, FourDigits, SMT
<1>4. h \in Seq(Nat) /\ Len(h) = 4 /\ h[1] = a /\ h[2] = b /\ h[3] = c /\ h[4] = d
  <2> HIDE DEF a, b, c, d
  <2> QED BY <1>2
<1> HIDE DEF h, a, b, c, d, n
<1>5. /\ p \in Seq(Nat) /\ Len(p) = 4 + n
      /\ \A i \in 1 .. 4 + n : p[i] = IF i <= 4 THEN h[i] ELSE chunk[i - 4]
  <2>1. /\ p \in Seq(Nat) /\ Len(p) = Len(h) + Len(chunk)
        /\ \A i \in 1 .. Len(h) + Len(chunk) : p[i] = IF i <= Len(h) THEN h[i] ELSE chunk[i - Len(h)]
    BY <1>4, ConcatProperties
  <2> HIDE DEF p
  <2> QED BY <1>4, <2>1 DEF n
<1> HIDE DEF p
<1>6. p[1] = a /\ p[2] = b /\ p[3] = c /\ p[4] = d
  <2>1. 1 \in 1 .. 4 + n /\ 2 \in 1 .. 4 + n /\ 3 \in 1 .. 4 + n /\ 4 \in 1 .. 4 + n
    BY <1>0
  <2> QED BY <1>4, <1>5, <2>1
<1>7. readUint32(p) = n
  BY <1>2, <1>6, SMT DEF readUint32
<1>8. ASSUME NEW i \in 1 .. n PROVE p[4 + i] = chunk[i]
  <2>1. 4 + i \in 1 .. 4 + n /\ ~ (4 + i <= 4) /\ (4 + i) - 4 = i
    BY <1>0
  <2> QED BY <1>5, <2>1
<1> HIDE DEF p, n
<1>9. /\ p \in Seq(Nat) /\ Len(p) = 4 + n /\ readUint32(p) = n
      /\ \A i \in 1 .. n : p[4 + i] = chunk[i]
  BY <1>5, <1>7, <1>8
<1> QED BY <1>1, <1>9, SMT DEF n

-----------------------------------------------------------------------------
(* The reader of a reversed stream takes the chunks.                        *)

\* A stretch of bytes on the wire, from the end down in chunks: after n chunks,
\* pos[n] bytes of the wire have gone by, and the bytes from down[n] on.
FramedAt(t, n) ==
  /\ t.down[n + 1] <= t.down[n]
  /\ t.pos[n + 1] = t.pos[n] + 4 + (t.down[n] - t.down[n + 1])
  /\ \A w : Piece(w, t.wire, t.pos[n], t.pos[n] + 4) => readUint32(w) = t.down[n] - t.down[n + 1]
  /\ \A w : Piece(w, t.wire, t.pos[n] + 4, t.pos[n + 1]) => Piece(w, t.bytes, t.down[n + 1], t.down[n])

Framed(t) ==
  /\ t.wire \in Seq(Nat) /\ t.bytes \in Seq(Nat) /\ t.count \in Nat
  /\ \A n \in 0 .. t.count : t.pos[n] \in Nat /\ t.down[n] \in Nat /\ t.pos[n] <= Len(t.wire)
  /\ t.pos[0] = 0 /\ t.pos[t.count] = Len(t.wire)
  /\ t.down[0] <= Len(t.bytes)
  /\ \A n \in 0 .. t.count - 1 : FramedAt(t, n)

ReversedStates ==
  [input : Seq(Seq(Nat)), current : Int, chunks : Seq(Seq(Nat)),
   output : Seq(Nat), boundary : BOOLEAN, blocks : Seq(Seq(Nat))]

\* The chunks after the k-th up to the j-th have been taken, the wire has been
\* heard up to an offset, and the rest of the state is as before.
TookTo(t, base, k, j, e, st) ==
  /\ Piece(FlattenSeq(st.input), t.wire, t.pos[j], e) /\ t.pos[j] <= e
  /\ st.current = -1 \/ (j < t.count /\ st.current = 4 + (t.down[j] - t.down[j + 1]))
  /\ Piece(FlattenSeq(Reverse(st.chunks)), t.bytes, t.down[j], t.down[k]) /\ t.down[j] <= t.down[k]
  /\ st.chunks = <<>> => j = k
  /\ st.output = base.output /\ st.boundary = base.boundary /\ st.blocks = base.blocks

Took(t, base, k, e, st) ==
  st \in ReversedStates /\ \E j \in 0 .. t.count : TookTo(t, base, k, j, e, st)

\* The next chunk, or its length, is not there yet.
Stuck(st) ==
  /\ st.current < 0 => Len(FlattenSeq(st.input)) < 4
  /\ st.current >= 0 => Len(FlattenSeq(st.input)) < st.current

LEMMA TakeChunkKeeps ==
  ASSUME NEW t, Framed(t), NEW base, NEW k \in 0 .. t.count, NEW e \in Nat, e <= Len(t.wire),
         NEW st, Took(t, base, k, e, st)
  PROVE  LET next == TakeChunk(st)
         IN /\ Took(t, base, k, e, next)
            /\ Stuck(st) => Stuck(next)
            /\ Stuck(next) \/ Len(FlattenSeq(next.input)) < Len(FlattenSeq(st.input))
<1>0. PICK j \in 0 .. t.count : TookTo(t, base, k, j, e, st)
  BY DEF Took
<1>1. /\ st.input \in Seq(Seq(Nat)) /\ st.current \in Int /\ st.chunks \in Seq(Seq(Nat))
      /\ st.output \in Seq(Nat) /\ st.boundary \in BOOLEAN /\ st.blocks \in Seq(Seq(Nat))
      /\ st \in ReversedStates
  BY DEF Took, ReversedStates
<1>2. /\ t.wire \in Seq(Nat) /\ t.count \in Nat
      /\ t.pos[j] \in Nat /\ t.down[j] \in Nat /\ t.down[k] \in Nat
      /\ j \in Nat /\ t.pos[t.count] = Len(t.wire)
  BY DEF Framed
<1>3. j # t.count => /\ FramedAt(t, j) /\ t.pos[j + 1] \in Nat /\ t.down[j + 1] \in Nat
                     /\ j < t.count /\ j + 1 \in 0 .. t.count
  <2>1. j # t.count => j \in 0 .. t.count - 1 /\ j + 1 \in 0 .. t.count /\ j < t.count
    BY <1>2
  <2> QED BY <2>1 DEF Framed
<1> DEFINE flat == FlattenSeq(st.input)
           size == Len(flat)
<1>4. flat \in Seq(Nat) /\ Piece(flat, t.wire, t.pos[j], e) /\ t.pos[j] <= e
      /\ size = e - t.pos[j] /\ size \in Nat
  BY <1>0, <1>2 DEF TookTo, Piece
<1>5. size >= 4 => j < t.count
  BY <1>2, <1>3, <1>4, SMTT(30)
<1> DEFINE current == IF st.current >= 0 THEN st.current
                      ELSE IF size < 4 THEN -1
                      ELSE readUint32(extractSize(st.input, 4).data) + 4
<1>6. \/ st.current = -1 /\ size < 4 /\ current = -1
      \/ /\ j < t.count /\ current = 4 + (t.down[j] - t.down[j + 1])
         /\ st.current = -1 => size >= 4
         /\ st.current # -1 => st.current = current
  <2>1. CASE st.current # -1
    <3>1. j < t.count /\ st.current = 4 + (t.down[j] - t.down[j + 1])
      BY <1>0, <2>1 DEF TookTo
    <3>2. st.current >= 0
      BY <1>2, <1>3, <3>1, SMTT(30) DEF FramedAt
    <3> QED BY <2>1, <3>1, <3>2
  <2>2. CASE st.current = -1 /\ size < 4
    BY <2>2
  <2>3. CASE st.current = -1 /\ size >= 4
    <3> DEFINE w == extractSize(st.input, 4).data
               r == FlattenSeq(extractSize(st.input, 4).chunks)
    <3>1. w \in Seq(Nat) /\ Len(w) = 4 /\ flat = w \o r /\ r \in Seq(Nat)
      <4>1. 4 \in Nat /\ 4 <= Len(FlattenSeq(st.input))
        BY <2>3, <1>4
      <4> QED BY <1>1, <4>1, ExtractIs, FlattenIsSeq
    <3> HIDE DEF w, r, flat
    <3>2. Piece(w, t.wire, t.pos[j], t.pos[j] + 4)
      <4>1. Piece(w, t.wire, t.pos[j], t.pos[j] + Len(w))
        BY <1>2, <1>4, <3>1, PieceSplit
      <4> QED BY <3>1, <4>1
    <3>3. readUint32(w) = t.down[j] - t.down[j + 1]
      BY <1>3, <1>5, <1>2, <2>3, <3>2 DEF FramedAt
    <3>4. current = readUint32(w) + 4
      BY <2>3 DEF w, flat
    <3> QED BY <1>2, <1>3, <1>5, <2>3, <3>3, <3>4, SMTT(30)
  <2> QED BY <1>4, <2>1, <2>2, <2>3
<1>a. j < t.count /\ current = 4 + (t.down[j] - t.down[j + 1])
      => /\ current \in Nat /\ current >= 4
         /\ t.down[j + 1] <= t.down[j] /\ t.pos[j + 1] = t.pos[j] + current
  <2> SUFFICES ASSUME j < t.count, current = 4 + (t.down[j] - t.down[j + 1])
               PROVE  /\ current \in Nat /\ current >= 4
                      /\ t.down[j + 1] <= t.down[j] /\ t.pos[j + 1] = t.pos[j] + current
    OBVIOUS
  <2> DEFINE x == t.down[j]
             y == t.down[j + 1]
             p == t.pos[j]
             q == t.pos[j + 1]
  <2>0. p \in Nat /\ q \in Nat
    BY <1>2, <1>3
  <2>1. x \in Nat /\ y \in Nat /\ y <= x /\ current = 4 + (x - y)
        /\ q = p + 4 + (x - y)
    BY <1>2, <1>3 DEF FramedAt
  <2> HIDE DEF current, x, y, p, q
  <2>2. current \in Nat /\ current >= 4
    BY <2>1
  <2>3. q = p + current
    BY <2>0, <2>1
  <2> QED BY <2>1, <2>2, <2>3 DEF x, y, p, q
<1> DEFINE next == TakeChunk(st)
           taken == extractSize(st.input, current)
<1>7. next = IF current >= 0 /\ size >= current
               THEN [st EXCEPT !.input = taken.chunks, !.current = -1,
                               !.chunks = Append(@, SubSeq(taken.data, 4 + 1, current))]
               ELSE [st EXCEPT !.current = current]
  BY Zenon DEF TakeChunk, subarray
<1> HIDE DEF current, next
<1>8. CASE ~ (current >= 0 /\ size >= current)
  <2>1. next = [st EXCEPT !.current = current]
    BY <1>7, <1>8
  <2>2. current \in Int
    BY <1>2, <1>3, <1>6, SMTT(30)
  <2>3. /\ next.input = st.input /\ next.current = current /\ next.chunks = st.chunks
        /\ next.output = st.output /\ next.boundary = st.boundary /\ next.blocks = st.blocks
        /\ next \in ReversedStates
    BY <1>1, <2>1, <2>2 DEF ReversedStates
  <2>4. TookTo(t, base, k, j, e, next)
    <3>1. next.current = -1 \/ (j < t.count /\ next.current = 4 + (t.down[j] - t.down[j + 1]))
      BY <1>6, <2>3
    <3> QED BY <1>0, <2>3, <3>1 DEF TookTo
  <2>5. Stuck(next)
    <3>1. current < 0 => size < 4
      BY <1>6, <1>a
    <3>2. current >= 0 => size < current
      BY <1>4, <1>8, <2>2
    <3> QED BY <2>3, <3>1, <3>2 DEF Stuck
  <2> QED BY <2>3, <2>4, <2>5 DEF Took, next
<1>9. CASE current >= 0 /\ size >= current
  <2>1. next = [st EXCEPT !.input = taken.chunks, !.current = -1,
                          !.chunks = Append(@, SubSeq(taken.data, 4 + 1, current))]
    BY <1>7, <1>9
  <2>2. j < t.count /\ current = 4 + (t.down[j] - t.down[j + 1]) /\ current \in Nat /\ current >= 4
        /\ t.down[j + 1] <= t.down[j] /\ t.pos[j + 1] = t.pos[j] + current
    <3>1. j < t.count /\ current = 4 + (t.down[j] - t.down[j + 1])
      BY <1>6, <1>9
    <3> QED BY <1>a, <3>1
  <2> DEFINE data == taken.data
             rest == FlattenSeq(taken.chunks)
             more == SubSeq(data, 4 + 1, current)
  <2>3. /\ data \in Seq(Nat) /\ Len(data) = current /\ taken.chunks \in Seq(Seq(Nat))
        /\ flat = data \o rest /\ rest \in Seq(Nat)
    <3>1. current <= Len(FlattenSeq(st.input))
      BY <1>9
    <3> QED BY <1>1, <2>2, <3>1, ExtractIs, FlattenIsSeq
  <2> HIDE DEF data, rest, flat, taken
  <2>4. /\ Piece(data, t.wire, t.pos[j], t.pos[j + 1])
        /\ Piece(rest, t.wire, t.pos[j + 1], e) /\ t.pos[j + 1] <= e
    <3>1. /\ t.pos[j] + Len(data) <= e
          /\ Piece(data, t.wire, t.pos[j], t.pos[j] + Len(data))
          /\ Piece(rest, t.wire, t.pos[j] + Len(data), e)
      BY <1>2, <1>4, <2>3, PieceSplit
    <3> QED BY <2>2, <2>3, <3>1
  <2>5. Piece(more, t.bytes, t.down[j + 1], t.down[j])
    <3>1. Piece(more, t.wire, t.pos[j] + 4, t.pos[j] + current)
      <4> DEFINE four == 4
                 y == t.pos[j + 1]
      <4>1. four \in Nat /\ four <= current /\ t.pos[j] + current <= y /\ y \in Nat
        BY <1>3, <2>2
      <4> HIDE DEF four
      <4>2. Piece(SubSeq(data, four + 1, current), t.wire, t.pos[j] + four, t.pos[j] + current)
        BY <1>2, <2>2, <2>4, <4>1, PieceOfPiece
      <4> QED BY <4>2 DEF four
    <3> HIDE DEF more
    <3> QED BY <1>2, <1>3, <2>2, <3>1 DEF FramedAt
  <2> HIDE DEF more
  <2>6. /\ next.input = taken.chunks /\ next.current = -1 /\ next.chunks = Append(st.chunks, more)
        /\ next.output = st.output /\ next.boundary = st.boundary /\ next.blocks = st.blocks
        /\ next \in ReversedStates
    <3>1. Append(st.chunks, more) \in Seq(Seq(Nat))
      BY <1>1, <2>5, AppendProperties DEF Piece
    <3> DEFINE list == Append(st.chunks, more)
               left == taken.chunks
    <3>2. next = [st EXCEPT !.input = left, !.current = -1, !.chunks = list]
      BY <2>1 DEF more, data
    <3>3. left \in Seq(Seq(Nat)) /\ list \in Seq(Seq(Nat))
      BY <2>3, <3>1
    <3> HIDE DEF left, list
    <3>4. /\ next.input = left /\ next.current = -1 /\ next.chunks = list
          /\ next.output = st.output /\ next.boundary = st.boundary /\ next.blocks = st.blocks
      BY <1>1, <3>2 DEF ReversedStates
    <3>5. next \in ReversedStates
      <4> DEFINE none == -1
      <4>1. none \in Int
        OBVIOUS
      <4>2. next = [st EXCEPT !.input = left, !.current = none, !.chunks = list]
        BY <3>2
      <4> HIDE DEF none
      <4> QED BY <1>1, <3>3, <4>1, <4>2 DEF ReversedStates
    <3> QED BY <3>4, <3>5 DEF left, list
  <2>7. /\ FlattenSeq(Reverse(next.chunks)) = more \o FlattenSeq(Reverse(st.chunks))
        /\ next.chunks # <<>>
    <3>1. more \in Seq(Nat)
      BY <2>5 DEF Piece
    <3> QED BY <1>1, <2>6, <3>1, FlattenLastFirst
  <2>8. Piece(FlattenSeq(Reverse(next.chunks)), t.bytes, t.down[j + 1], t.down[k])
        /\ t.down[j + 1] <= t.down[k]
    <3> DEFINE old == FlattenSeq(Reverse(st.chunks))
    <3>1. Piece(old, t.bytes, t.down[j], t.down[k]) /\ t.down[j] <= t.down[k]
      BY <1>0 DEF TookTo
    <3> HIDE DEF old
    <3>2. t.down[j + 1] \in Int /\ t.down[j] \in Int /\ t.down[k] \in Int
      BY <1>2, <1>3, <2>2, SMTT(30)
    <3>3. Piece(more \o old, t.bytes, t.down[j + 1], t.down[k])
      BY <2>2, <2>5, <3>1, <3>2, PiecesMeet
    <3> QED BY <2>2, <2>7, <3>1, <3>2, <3>3 DEF old
  <2>9. TookTo(t, base, k, j + 1, e, next)
    <3>1. FlattenSeq(next.input) = rest
      BY <2>6 DEF rest
    <3>2. next.output = base.output /\ next.boundary = base.boundary /\ next.blocks = base.blocks
      BY <1>0, <2>6 DEF TookTo
    <3> QED BY <2>4, <2>6, <2>7, <2>8, <3>1, <3>2 DEF TookTo
  <2>10. Took(t, base, k, e, next)
    <3>1. j + 1 \in 0 .. t.count
      BY <1>3, <2>2
    <3> QED BY <2>6, <2>9, <3>1 DEF Took
  <2>11. Len(FlattenSeq(next.input)) < size
    <3>1. size = current + Len(rest) /\ Len(rest) \in Nat
      BY <2>3, ConcatProperties, LenProperties
    <3>2. FlattenSeq(next.input) = rest
      BY <2>6 DEF rest
    <3> QED BY <2>2, <3>1, <3>2
  <2>12. ~ Stuck(st)
    <3>1. st.current < 0 => size >= 4
      BY <1>6, <2>2, <1>4, <1>1, <1>9
    <3>2. st.current >= 0 => size >= st.current
      BY <1>1, <1>6, <1>9, <2>2
    <3>3. st.current < 0 \/ st.current >= 0
      BY <1>1
    <3> QED BY <1>4, <1>1, <3>1, <3>2, <3>3 DEF Stuck, flat
  <2> QED BY <2>10, <2>11, <2>12 DEF next, flat
<1> QED BY <1>8, <1>9

IsTaking(st, b, g) == g = [n \in 0 .. b |-> IF n = 0 THEN st ELSE TakeChunk(g[n - 1])]

LEMMA TakeChunksKeeps ==
  ASSUME NEW t, Framed(t), NEW base, NEW k \in 0 .. t.count, NEW e \in Nat, e <= Len(t.wire),
         NEW st, Took(t, base, k, e, st)
  PROVE  Took(t, base, k, e, TakeChunks(st)) /\ Stuck(TakeChunks(st))
<1> DEFINE b == Len(FlattenSeq(st.input))
           left(x) == Len(FlattenSeq(x.input))
           Good(x, n) == Took(t, base, k, e, x) /\ (Stuck(x) \/ left(x) + n <= b)
           I == [n \in 0 .. b |-> {x \in ReversedStates : Good(x, n)}]
           step == [n \in 1 .. b |-> [x \in I[n - 1] |-> TakeChunk(x)]]
<1>0. \A x \in ReversedStates : left(x) \in Nat
  <2> SUFFICES ASSUME NEW x \in ReversedStates PROVE left(x) \in Nat
    OBVIOUS
  <2>1. x.input \in Seq(Seq(Nat))
    BY DEF ReversedStates
  <2> QED BY <2>1, FlattenIsSeq, LenProperties
<1>1. st \in ReversedStates /\ b \in Nat
  <2>1. st \in ReversedStates
    BY DEF Took
  <2> QED BY <1>0, <2>1
<1>2. st \in I[0]
  <2>1. left(st) + 0 <= b /\ 0 \in 0 .. b
    BY <1>1
  <2>2. Good(st, 0)
    BY <2>1
  <2> HIDE DEF Good, b
  <2> QED BY <1>1, <2>1, <2>2
<1>3. ASSUME NEW n \in 1 .. b, NEW x \in I[n - 1]
      PROVE  step[n][x] = TakeChunk(x) /\ TakeChunk(x) \in I[n]
  <2>1. n - 1 \in 0 .. b /\ n \in 0 .. b
    BY <1>1
  <2>2. step[n][x] = TakeChunk(x)
    <3> HIDE DEF I
    <3> QED BY <1>3
  <2>3. x \in ReversedStates /\ Good(x, n - 1)
    <3> HIDE DEF Good
    <3> QED BY <1>3, <2>1
  <2> DEFINE y == TakeChunk(x)
  <2> HIDE DEF y
  <2>4. /\ Took(t, base, k, e, y)
        /\ Stuck(x) => Stuck(y)
        /\ Stuck(y) \/ left(y) < left(x)
    BY <2>3, TakeChunkKeeps DEF y
  <2>5. y \in ReversedStates
    BY <2>4 DEF Took
  <2>6. Stuck(y) \/ left(y) + n <= b
    <3>1. Stuck(x) \/ left(x) + (n - 1) <= b
      BY <2>3
    <3>2. left(x) \in Nat /\ left(y) \in Nat
      BY <1>0, <2>3, <2>5
    <3> HIDE DEF left, b
    <3> QED BY <1>1, <2>4, <3>1, <3>2
  <2>7. Good(y, n)
    BY <2>4, <2>6
  <2> HIDE DEF Good, b, step
  <2> QED BY <2>1, <2>2, <2>5, <2>7 DEF y
<1> HIDE DEF b
<1>5. PICK h : h = [n \in 0 .. b |-> h[n]] /\ StaysUp(I, st, b, step, h)
  <2>1. KeptUp(I, b, step)
    <3> HIDE DEF I, step
    <3> QED BY <1>3 DEF KeptUp
  <2> HIDE DEF I, step
  <2> QED BY <1>1, <1>2, <2>1, ChainIsFunction
<1>d. StaysUp(I, st, b, step, h)
  BY <1>5
<1> DEFINE f == CHOOSE x : IsTaking(st, b, x)
<1>6. IsTaking(st, b, h)
  <2> HIDE DEF I, step
  <2>1. \A n \in 0 .. b : n # 0 => n \in 1 .. b /\ n - 1 \in 0 .. b
    BY <1>1
  <2>2. \A n \in 1 .. b : h[n] = TakeChunk(h[n - 1])
    <3>1. \A n \in 1 .. b : h[n - 1] \in I[n - 1] /\ h[n] = step[n][h[n - 1]]
      BY <1>1, <1>d, <2>1 DEF StaysUp
    <3> QED BY <1>3, <3>1
  <2>3. \A n \in 0 .. b : h[n] = IF n = 0 THEN st ELSE TakeChunk(h[n - 1])
    <3> QED BY <1>d, <2>1, <2>2 DEF StaysUp
  <2>4. h = [n \in 0 .. b |-> IF n = 0 THEN st ELSE TakeChunk(h[n - 1])]
    BY <1>5, <2>3, Zenon
  <2> QED BY <2>4 DEF IsTaking
<1>7. IsTaking(st, b, f)
  BY <1>6
<1>8. TakeChunks(st) = f[b]
  <2>1. TakeChunks(st) = (CHOOSE x : IsTaking(st, Len(FlattenSeq(st.input)), x))
                           [Len(FlattenSeq(st.input))]
    BY Zenon DEF TakeChunks, IsTaking
  <2> QED BY <2>1 DEF b
<1> HIDE DEF f
<1>9. f[0] = st /\ \A n \in 1 .. b : f[n] = TakeChunk(f[n - 1])
  <2> DEFINE more(n) == TakeChunk(f[n - 1])
  <2> HIDE DEF I, step
  <2>0. f = [n \in 0 .. b |-> IF n = 0 THEN st ELSE TakeChunk(f[n - 1])]
    BY <1>7 DEF IsTaking
  <2>1. f = [n \in 0 .. b |-> IF n = 0 THEN st ELSE more(n)]
    BY <2>0, Zenon
  <2> HIDE DEF more
  <2>2. 0 \in 0 .. b /\ \A n \in 1 .. b : n \in 0 .. b /\ n # 0
    BY <1>1
  <2>3. f[0] = st /\ \A n \in 1 .. b : f[n] = more(n)
    BY <2>1, <2>2
  <2> QED BY <2>3 DEF more
<1>10. f[b] \in I[b]
  <2> HIDE DEF I, step
  <2>1. KeepsUp(I, b, f)
    BY <1>2, <1>3, <1>9 DEF KeepsUp
  <2> QED BY <1>1, <2>1, KeptToTheEnd
<1> DEFINE z == f[b]
<1>11. Good(z, b) /\ z \in ReversedStates
  <2> HIDE DEF Good, z
  <2>1. b \in 0 .. b
    BY <1>1
  <2> QED BY <1>10, <2>1 DEF z
<1>12. Stuck(z)
  <2>1. CASE Stuck(z)
    BY <2>1
  <2>2. CASE left(z) + b <= b
    <3>1. left(z) = 0
      <4> DEFINE l == left(z)
      <4>1. l \in Nat /\ l + b <= b
        BY <1>0, <1>11, <2>2
      <4> HIDE DEF l
      <4>2. l = 0
        BY <1>1, <4>1
      <4> QED BY <4>2 DEF l
    <3>2. PICK j \in 0 .. t.count : TookTo(t, base, k, j, e, z)
      BY <1>11 DEF Took
    <3>3. z.current >= 0 => z.current > 0
      <4>1. CASE z.current = -1
        BY <4>1
      <4>2. CASE j < t.count /\ z.current = 4 + (t.down[j] - t.down[j + 1])
        <5>1. j \in 0 .. t.count - 1 /\ j \in 0 .. t.count /\ j + 1 \in 0 .. t.count
          BY <4>2 DEF Framed
        <5>2. t.down[j] \in Nat /\ t.down[j + 1] \in Nat /\ t.down[j + 1] <= t.down[j]
          BY <5>1 DEF Framed, FramedAt
        <5> DEFINE x == t.down[j]
                   y == t.down[j + 1]
        <5>3. z.current = 4 + (x - y) /\ x \in Nat /\ y \in Nat /\ y <= x
          BY <4>2, <5>2
        <5> HIDE DEF x, y
        <5> QED BY <5>3
      <4> QED BY <3>2, <4>1, <4>2 DEF TookTo
    <3> HIDE DEF z
    <3> QED BY <3>1, <3>3 DEF Stuck
  <2> QED BY <1>11, <2>1, <2>2
<1> QED BY <1>8, <1>11, <1>12

-----------------------------------------------------------------------------
(* The reader of a reversed stream finds whole blocks.                      *)

LEMMA EndsBeforeAre ==
  ASSUME NEW w \in Seq(Nat)
  PROVE  EndsBefore(w, FALSE) = Ends(w) /\ EndsBefore(w, TRUE) = Ends(w) \ {Len(w)}
<1> DEFINE n == Len(w)
           S == Separators(w)
<1>0. n \in Nat
  BY LenProperties
<1>1. S \subseteq 0 .. n - 1
  BY DEF Separators
<1>2. EndsBefore(w, FALSE) = {i + 1 : i \in {q \in S : q <= n - 1}}
  BY DEF EndsBefore
<1>3. EndsBefore(w, TRUE) = {i + 1 : i \in {q \in S : q <= n - 2}}
  BY DEF EndsBefore
<1>4. Ends(w) = {i + 1 : i \in S}
  BY DEF Ends
<1> HIDE DEF n, S
<1>5. {q \in S : q <= n - 1} = S
  <2>1. \A q \in S : q <= n - 1
    BY <1>0, <1>1
  <2> QED BY <2>1
<1>6. \A q \in S : q <= n - 2 <=> q + 1 # n
  BY <1>0, <1>1
<1>7. EndsBefore(w, TRUE) = Ends(w) \ {n}
  BY <1>3, <1>4, <1>6
<1> QED BY <1>2, <1>4, <1>5, <1>7 DEF n

\* The reader has gone back from an offset to a lower one: s are the ends between
\* them, list is the blocks between the ends.
BackTo(bytes, y, to, st, s, list) ==
  /\ Sorts(s, EndsIn(bytes, y, to))
  /\ CutAt(list, bytes, s)
  /\ Piece(st.output, bytes, y, IF s = <<>> THEN to ELSE s[1])
  /\ st.blocks = Reverse(list)
  /\ st.boundary = (s # <<>>)

LEMMA WholeKeeps ==
  ASSUME NEW bytes \in Seq(Nat), NEW x \in Nat, NEW y \in Nat, NEW to \in Nat, x <= y,
         to <= Len(bytes), NEW st \in ReversedStates, st.chunks # <<>>,
         Piece(FlattenSeq(Reverse(st.chunks)), bytes, x, y),
         NEW s, NEW list, BackTo(bytes, y, to, st, s, list)
  PROVE  LET next == Whole(st)
         IN /\ next \in ReversedStates /\ next.chunks = <<>>
            /\ next.input = st.input /\ next.current = st.current
            /\ \E r : \E blocks : BackTo(bytes, x, to, next, r, blocks)
<1>0. /\ st.input \in Seq(Seq(Nat)) /\ st.current \in Int /\ st.chunks \in Seq(Seq(Nat))
      /\ st.output \in Seq(Nat) /\ st.boundary \in BOOLEAN /\ st.blocks \in Seq(Seq(Nat))
  BY DEF ReversedStates
<1>1. Sorts(s, EndsIn(bytes, y, to)) /\ CutAt(list, bytes, s) /\ st.blocks = Reverse(list)
      /\ st.boundary = (s # <<>>)
  BY DEF BackTo
<1>2. s \in Seq(Nat) /\ list \in Seq(Seq(Nat)) /\ Len(bytes) \in Nat
      /\ Ends(bytes) \subseteq 1 .. Len(bytes)
  BY <1>1, LenProperties, EndsAre DEF Sorts, CutAt
<1> DEFINE E == IF s = <<>> THEN to ELSE s[1]
           flat == FlattenSeq(Reverse(st.chunks))
           w == flat \o st.output
<1>3. s # <<>> => /\ s[1] \in EndsIn(bytes, y, to)
                  /\ Sorts(Later(s), EndsIn(bytes, y, to) \ {s[1]})
                  /\ \A n \in EndsIn(bytes, y, to) \ {s[1]} : s[1] < n
  BY <1>1, SortsEmpty, SortsLater
<1>4. E \in Nat /\ y <= E /\ E <= to /\ (s # <<>> => y < E /\ E = s[1])
  <2>1. CASE s = <<>>
    <3>1. Piece(st.output, bytes, y, to) /\ E = to
      BY <2>1 DEF BackTo
    <3>2. to - y = Len(st.output) /\ Len(st.output) \in Nat
      BY <1>0, <3>1, LenProperties DEF Piece
    <3> HIDE DEF E
    <3> QED BY <2>1, <3>1, <3>2
  <2>2. CASE s # <<>>
    BY <1>2, <1>3, <2>2 DEF EndsIn
  <2> QED BY <2>1, <2>2
<1>5. Piece(st.output, bytes, y, E)
  BY DEF BackTo
<1>6. Piece(w, bytes, x, E)
  <2> HIDE DEF E, flat
  <2>1. Piece(flat, bytes, x, y)
    BY DEF flat
  <2> QED BY <1>4, <1>5, <2>1, PiecesMeet
<1> HIDE DEF E, w, flat
<1>7. w \in Seq(Nat) /\ Len(w) = E - x /\ Len(w) \in Nat /\ Len(w) + x = E /\ x <= E
      /\ E <= Len(bytes)
  <2>1. w \in Seq(Nat) /\ Len(w) = E - x /\ x <= E /\ E <= Len(bytes)
    BY <1>2, <1>4, <1>6, SMTT(30) DEF Piece
  <2> QED BY <1>4, <2>1
<1>8. /\ Ends(w) \subseteq 1 .. Len(w)
      /\ \A e \in Nat : e \in Ends(w) <=> e + x \in EndsIn(bytes, x, E)
      /\ {e + x : e \in Ends(w)} = EndsIn(bytes, x, E)
  <2>1. Ends(w) \subseteq 1 .. Len(w)
    BY <1>7, EndsAre
  <2>2. x \in Nat /\ E \in Nat /\ x <= E /\ E <= Len(bytes)
    BY <1>4, <1>7
  <2>3. {e + x : e \in Ends(w)} = EndsIn(bytes, x, E)
    BY <1>6, <2>2, EndsOfPiece
  <2>4. \A e \in Nat : e \in Ends(w) <=> e + x \in EndsIn(bytes, x, E)
    BY <1>6, <2>2, EndsOfPiece, Zenon
  <2> QED BY <2>1, <2>3, <2>4
<1>b. Ends(w) \subseteq 0 .. Len(w)
  <2> DEFINE n == Len(w)
             S == Ends(w)
  <2>1. S \subseteq 1 .. n
    BY <1>8
  <2> HIDE DEF n, S
  <2>2. S \subseteq 0 .. n
    BY <2>1
  <2> QED BY <2>2 DEF n, S
<1>9. s # <<>> => Len(w) \in Ends(w)
  <2> SUFFICES ASSUME s # <<>> PROVE Len(w) \in Ends(w)
    OBVIOUS
  <2>1. E \in EndsIn(bytes, x, E)
    BY <1>3, <1>4 DEF EndsIn
  <2> QED BY <1>7, <1>8, <2>1
<1> DEFINE found == InOrder(EndsBefore(w, st.boundary), Len(w))
           end == IF s = <<>> THEN <<>> ELSE <<Len(w)>>
           u == found \o end
           ends == (IF st.boundary THEN <<Len(w)>> ELSE <<>>) \o Reverse(found)
<1>10. Sorts(u, Ends(w)) /\ found \in Seq(Nat) /\ (s # <<>> => u # <<>> /\ Last(u) = Len(w))
  <2> DEFINE S == EndsBefore(w, st.boundary)
  <2>1. S = IF s = <<>> THEN Ends(w) ELSE Ends(w) \ {Len(w)}
    <3>1. CASE s = <<>>
      <4>1. st.boundary = FALSE
        BY <1>1, <3>1
      <4> QED BY <1>7, <3>1, <4>1, EndsBeforeAre
    <3>2. CASE s # <<>>
      <4>1. st.boundary = TRUE
        BY <1>1, <3>2
      <4> QED BY <1>7, <3>2, <4>1, EndsBeforeAre
    <3> QED BY <3>1, <3>2
  <2>2. S \subseteq 0 .. Len(w)
    <3> HIDE DEF S
    <3> QED BY <1>b, <2>1
  <2> HIDE DEF S
  <2>3. Sorts(InOrder(S, Len(w)), S)
    BY <1>7, <2>2, InOrderIs
  <2>4. Sorts(found, S) /\ found \in Seq(Nat)
    BY <2>3 DEF S, Sorts
  <2> HIDE DEF found
  <2>5. CASE s = <<>>
    <3>1. u = found \o <<>> /\ S = Ends(w)
      BY <2>1, <2>5
    <3>2. found \o <<>> = found
      BY <2>4, ConcatEmptySeq
    <3> HIDE DEF u
    <3> QED BY <2>4, <2>5, <3>1, <3>2
  <2>6. CASE s # <<>>
    <3> DEFINE o == <<Len(w)>>
               n == Len(w)
    <3>1. u = found \o o /\ S = Ends(w) \ {n}
      BY <2>1, <2>6
    <3>2. Sorts(o, {n})
      BY <1>7, SortsOne
    <3>3. \A a \in S : \A b \in {n} : a < b
      BY <1>7, <1>8, <3>1
    <3>4. Len(o) = 1 /\ o[1] = n /\ o \in Seq(Nat)
      BY <1>7
    <3> HIDE DEF o, n, u
    <3>5. Sorts(u, S \cup {n})
      BY <2>4, <3>1, <3>2, <3>3, SortsMeet
    <3>6. S \cup {n} = Ends(w)
      BY <1>9, <2>6, <3>1 DEF n
    <3>7. u # <<>> /\ Last(u) = n
      <4> DEFINE l == Len(found)
      <4>1. l \in Nat
        BY <2>4, LenProperties
      <4>2. /\ u \in Seq(Nat) /\ Len(u) = l + Len(o)
            /\ \A i \in 1 .. l + Len(o) : u[i] = IF i <= l THEN found[i] ELSE o[i - l]
        BY <2>4, <3>1, <3>4, ConcatProperties
      <4> HIDE DEF l
      <4>3. Len(u) = l + 1 /\ u[l + 1] = o[1]
        <5>1. l + 1 \in 1 .. l + 1 /\ ~ (l + 1 <= l) /\ (l + 1) - l = 1
          BY <4>1
        <5> QED BY <3>4, <4>2, <5>1
      <4>4. u # <<>>
        BY <4>1, <4>2, <4>3, EmptySeq
      <4> QED BY <3>4, <4>3, <4>4 DEF Last
    <3> QED BY <2>4, <3>5, <3>6, <3>7 DEF n
  <2> QED BY <2>5, <2>6
<1>11. u \in Seq(Nat) /\ Ends(w) \subseteq 0 .. Len(w)
  BY <1>b, <1>10 DEF Sorts
<1>12. ends = Reverse(u)
  <2>1. CASE s = <<>>
    <3>1. st.boundary = FALSE
      BY <1>1, <2>1
    <3>2. ends = <<>> \o Reverse(found) /\ u = found \o <<>>
      BY <2>1, <3>1
    <3>3. Reverse(found) \in Seq(Nat)
      BY <1>10, ReverseIsSeq
    <3> HIDE DEF ends, u, found
    <3>4. <<>> \o Reverse(found) = Reverse(found) /\ found \o <<>> = found
      BY <1>10, <3>3, ConcatEmptySeq
    <3> QED BY <3>2, <3>4
  <2>2. CASE s # <<>>
    <3>1. st.boundary = TRUE
      BY <1>1, <2>2
    <3> DEFINE o == <<Len(w)>>
    <3>2. ends = o \o Reverse(found) /\ u = found \o o
      BY <2>2, <3>1
    <3>3. Reverse(o) = o /\ o \in Seq(Nat)
      BY <1>7, ReverseOne
    <3> HIDE DEF ends, u, found, o
    <3>4. Reverse(found \o o) = Reverse(o) \o Reverse(found)
      BY <1>10, <3>3, ReverseBoth
    <3> QED BY <3>2, <3>3, <3>4
  <2> QED BY <2>1, <2>2
<1> DEFINE next == Whole(st)
           B == Between(w, u)
           cut == IF u = <<>> THEN w ELSE SubSeq(w, 1, u[1])
           blocks == st.blocks \o Reverse(B)
<1>13. /\ Reverse(ends) = u
       /\ ends = <<>> <=> u = <<>>
       /\ u # <<>> => Last(ends) = u[1]
  <2> HIDE DEF ends, u
  <2>1. Reverse(Reverse(u)) = u
    BY <1>11, ReverseTwice
  <2>2. /\ ends \in Seq(Nat) /\ Len(ends) = Len(u)
        /\ \A i \in 1 .. Len(u) : ends[i] = u[Len(u) - i + 1]
    BY <1>11, <1>12, ReverseIsSeq
  <2>3. Len(u) \in Nat /\ (u = <<>> <=> Len(u) = 0) /\ (ends = <<>> <=> Len(ends) = 0)
    BY <1>11, <2>2, LenProperties, EmptySeq
  <2>4. u # <<>> => ends[Len(u)] = u[1]
    <3> SUFFICES ASSUME u # <<>> PROVE ends[Len(u)] = u[1]
      OBVIOUS
    <3>1. Len(u) \in 1 .. Len(u) /\ Len(u) - Len(u) + 1 = 1
      BY <2>3
    <3> QED BY <2>2, <3>1
  <2> QED BY <1>12, <2>1, <2>2, <2>3, <2>4 DEF Last
<1>14. next = [st EXCEPT !.chunks = <<>>, !.boundary = (u # <<>>), !.output = cut,
                         !.blocks = blocks]
  <2>1. next = [st EXCEPT !.chunks = <<>>, !.boundary = ends # <<>>,
                          !.output = IF ends = <<>> THEN w ELSE SubSeq(w, 0 + 1, Last(ends)),
                          !.blocks = @ \o Reverse(Between(w, Reverse(ends)))]
    BY Zenon DEF Whole, subarray, w, flat
  <2> HIDE DEF ends, u, next
  <2>2. (ends # <<>>) = (u # <<>>)
    BY <1>13
  <2>3. (IF ends = <<>> THEN w ELSE SubSeq(w, 0 + 1, Last(ends))) = cut
    <3>1. 0 + 1 = 1
      OBVIOUS
    <3> QED BY <1>13, <3>1
  <2>4. Between(w, Reverse(ends)) = B
    BY <1>13
  <2> HIDE DEF cut, B
  <2> DEFINE c == IF ends = <<>> THEN w ELSE SubSeq(w, 0 + 1, Last(ends))
             d == Between(w, Reverse(ends))
             f == ends # <<>>
  <2>5. next = [st EXCEPT !.chunks = <<>>, !.boundary = f, !.output = c, !.blocks = @ \o Reverse(d)]
    BY <2>1
  <2>6. f = (u # <<>>) /\ c = cut /\ d = B
    BY <2>2, <2>3, <2>4
  <2> HIDE DEF c, d, f
  <2> QED BY <2>5, <2>6
<1> HIDE DEF ends, u, next
<1>15. CutAt(B, w, u)
  BY <1>7, <1>10, <1>11, BetweenIs
<1> HIDE DEF B
<1> DEFINE m == MovedBy(u, x)
<1>16. CutAt(B, bytes, m)
  <2>1. Ends(w) \subseteq 0 .. E - x
    BY <1>7, <1>11
  <2> QED BY <1>4, <1>6, <1>10, <1>15, <2>1, CutMoved
<1>17. Sorts(m, EndsIn(bytes, x, E)) /\ m \in Seq(Nat)
  <2>1. Sorts(m, {n + x : n \in Ends(w)})
    BY <1>10, SortsMoved
  <2>2. Sorts(m, EndsIn(bytes, x, E))
    BY <1>8, <2>1
  <2> QED BY <2>2 DEF Sorts
<1>18. /\ m = <<>> <=> u = <<>>
       /\ u # <<>> => m # <<>> /\ m[1] = u[1] + x /\ Last(m) = Last(u) + x
  <2>1. Len(m) = Len(u)
    BY <1>11, MovedByIs
  <2>2. u # <<>> => m # <<>> /\ m[1] = u[1] + x /\ Last(m) = Last(u) + x
    BY <1>11, MovedEnds
  <2>3. u = <<>> => m = <<>>
    BY <1>11, <1>17, <2>1, EmptySeq
  <2> QED BY <2>2, <2>3
<1>19. u # <<>> => u[1] \in 1 .. Len(w)
  <2>1. u # <<>> => u[1] \in Ends(w)
    BY <1>10, SortsEmpty
  <2> QED BY <1>8, <2>1
<1> HIDE DEF m
<1>20. Piece(cut, bytes, x, IF u = <<>> THEN E ELSE m[1])
  <2>1. CASE u = <<>>
    BY <1>6, <2>1
  <2>2. CASE u # <<>>
    <3> DEFINE b == u[1]
               none == 0
    <3>1. b \in Nat /\ none \in Nat /\ none <= b /\ x + b <= E /\ m[1] = x + b
      BY <1>7, <1>18, <1>19, <2>2, SMTT(30)
    <3>2. Piece(SubSeq(w, none + 1, b), bytes, x + none, x + b)
      <4> HIDE DEF b, none
      <4> QED BY <1>4, <1>6, <3>1, PieceOfPiece
    <3>3. cut = SubSeq(w, none + 1, b) /\ x + none = x
      <4>1. none + 1 = 1 /\ x + none = x
        OBVIOUS
      <4>2. cut = SubSeq(w, 1, b)
        BY <2>2
      <4> HIDE DEF none, cut, b
      <4> QED BY <4>1, <4>2
    <3> HIDE DEF b, none, cut
    <3> QED BY <2>2, <3>1, <3>2, <3>3
  <2> QED BY <2>1, <2>2
<1> HIDE DEF cut
<1>21. B \in Seq(Seq(Nat))
  BY <1>16 DEF CutAt
<1>22. /\ next \in ReversedStates /\ next.chunks = <<>>
       /\ next.input = st.input /\ next.current = st.current
       /\ next.output = cut /\ next.boundary = (u # <<>>) /\ next.blocks = blocks
  <2>1. blocks \in Seq(Seq(Nat)) /\ cut \in Seq(Nat)
    <3>1. Reverse(B) \in Seq(Seq(Nat))
      BY <1>21, ReverseIsSeq
    <3> QED BY <1>0, <1>20, <3>1, ConcatProperties DEF Piece
  <2> DEFINE f == (u # <<>>)
             none == <<>>
  <2>2. f \in BOOLEAN /\ none \in Seq(Seq(Nat))
    OBVIOUS
  <2>3. next = [st EXCEPT !.chunks = none, !.boundary = f, !.output = cut, !.blocks = blocks]
    BY <1>14
  <2> HIDE DEF f, none, blocks
  <2>4. /\ next.chunks = none /\ next.input = st.input /\ next.current = st.current
        /\ next.output = cut /\ next.boundary = f /\ next.blocks = blocks
    BY <2>3 DEF ReversedStates
  <2>5. next \in ReversedStates
    BY <1>0, <2>1, <2>2, <2>3 DEF ReversedStates
  <2> QED BY <2>4, <2>5 DEF f, none
<1>23. blocks = Reverse(B \o list)
  BY <1>1, <1>2, <1>21, ReverseBoth
<1> HIDE DEF blocks
<1>24. CASE s = <<>>
  <2>1. E = to
    BY <1>24 DEF E
  <2>2. list = <<>>
    <3>1. Len(list) = 0
      BY <1>1, <1>24 DEF CutAt
    <3> QED BY <1>2, <3>1, EmptySeq
  <2>3. B \o list = B
    BY <1>21, <2>2, ConcatEmptySeq
  <2>4. BackTo(bytes, x, to, next, m, B)
    <3>1. Piece(next.output, bytes, x, IF m = <<>> THEN to ELSE m[1])
      BY <1>18, <1>20, <1>22, <2>1
    <3>2. next.blocks = Reverse(B) /\ next.boundary = (m # <<>>)
      BY <1>18, <1>22, <1>23, <2>3
    <3> QED BY <1>16, <1>17, <2>1, <3>1, <3>2 DEF BackTo
  <2> QED BY <1>22, <2>4 DEF next
<1>25. CASE s # <<>>
  <2> DEFINE r == m \o Later(s)
  <2>1. /\ u # <<>> /\ m # <<>> /\ Last(m) = s[1] /\ E = s[1]
        /\ s[1] \in EndsIn(bytes, y, to)
    BY <1>3, <1>4, <1>7, <1>10, <1>18, <1>25
  <2>2. CutAt(B \o list, bytes, r)
    BY <1>1, <1>2, <1>16, <1>17, <1>25, <2>1, CutsMeet
  <2>3. r # <<>> /\ r[1] = m[1]
    <3> DEFINE p == Len(m)
               q == Len(s)
    <3>1. /\ r \in Seq(Nat) /\ r # <<>>
          /\ \A i \in 1 .. p + (q - 1) : r[i] = IF i <= p THEN m[i] ELSE s[(i - p) + 1]
      BY <1>2, <1>17, <1>25, <2>1, JoinedIs
    <3>2. p \in Nat /\ p # 0 /\ q \in Nat /\ q # 0
      BY <1>2, <1>17, <1>25, <2>1, LenProperties, EmptySeq
    <3> HIDE DEF p, q, r
    <3>3. 1 \in 1 .. p + (q - 1) /\ 1 <= p
      BY <3>2
    <3> QED BY <3>1, <3>3
  <2>4. Sorts(r, EndsIn(bytes, x, to))
    <3> DEFINE S == EndsIn(bytes, x, E)
               T == EndsIn(bytes, y, to) \ {s[1]}
    <3>1. Sorts(Later(s), T) /\ \A n \in T : E < n
      BY <1>3, <1>25, <2>1
    <3>2. \A a \in S : a \in Nat /\ a <= E
      BY <1>2 DEF EndsIn
    <3>3. \A n \in T : n \in Nat
      BY <1>2 DEF EndsIn
    <3>4. \A a \in S : \A b \in T : a < b
      <4> HIDE DEF S, T
      <4> QED BY <1>4, <3>1, <3>2, <3>3
    <3>5. Sorts(r, S \cup T)
      <4> HIDE DEF S, T
      <4>1. Sorts(m, S)
        BY <1>17 DEF S
      <4> QED BY <3>1, <3>4, <4>1, SortsMeet
    <3>6. S \cup T = EndsIn(bytes, x, to)
      <4>1. \A e \in Ends(bytes) : e \in Nat
        BY <1>2
      <4>2. \A e \in S : e \in EndsIn(bytes, x, to)
        BY <1>4, <4>1 DEF EndsIn
      <4>3. \A e \in T : e \in EndsIn(bytes, x, to)
        BY <1>4, <4>1 DEF EndsIn
      <4>4. ASSUME NEW e \in EndsIn(bytes, x, to) PROVE e \in S \cup T
        <5>1. e \in Ends(bytes) /\ x < e /\ e <= to /\ e \in Nat
          BY <4>1 DEF EndsIn
        <5>2. CASE e <= E
          BY <5>1, <5>2 DEF EndsIn
        <5>3. CASE ~ (e <= E)
          <6>1. y < e /\ e # s[1]
            BY <1>4, <2>1, <5>1, <5>3
          <6> QED BY <5>1, <6>1 DEF EndsIn
        <5> QED BY <5>2, <5>3
      <4> HIDE DEF S, T
      <4> QED BY <4>2, <4>3, <4>4
    <3> QED BY <3>5, <3>6
  <2> HIDE DEF r
  <2>5. BackTo(bytes, x, to, next, r, B \o list)
    <3>1. Piece(next.output, bytes, x, IF r = <<>> THEN to ELSE r[1])
      BY <1>20, <1>22, <2>1, <2>3
    <3>2. next.blocks = Reverse(B \o list) /\ next.boundary = (r # <<>>)
      BY <1>22, <1>23, <2>1, <2>3
    <3> QED BY <2>2, <2>4, <3>1, <3>2 DEF BackTo
  <2> QED BY <1>22, <2>5 DEF next
<1> QED BY <1>24, <1>25

-----------------------------------------------------------------------------
(* A reversed bulk stream is read.                                          *)

\* The wire has been heard up to an offset, and the chunks that had come whole
\* then have been made into blocks.
WireTo(t, k, e, st) ==
  /\ Piece(FlattenSeq(st.input), t.wire, t.pos[k], e) /\ t.pos[k] <= e
  /\ st.current = -1 \/ (k < t.count /\ st.current = 4 + (t.down[k] - t.down[k + 1]))
  /\ \E s : \E list : BackTo(t.bytes, t.down[k], t.down[0], st, s, list)

AfterWire(t, e) ==
  {st \in ReversedStates : /\ Stuck(st) /\ st.chunks = <<>>
                           /\ \E k \in 0 .. t.count : WireTo(t, k, e, st)}

LEMMA ReadReversedPieceKeeps ==
  ASSUME NEW t, Framed(t), NEW a \in Nat, NEW b \in Nat, a <= b, b <= Len(t.wire),
         NEW st \in AfterWire(t, a), NEW data, Piece(data, t.wire, a, b)
  PROVE  ReadReversedPiece(st, data) \in AfterWire(t, b)
<1>0. /\ st.input \in Seq(Seq(Nat)) /\ st.current \in Int /\ st.chunks = <<>>
      /\ st.output \in Seq(Nat) /\ st.boundary \in BOOLEAN /\ st.blocks \in Seq(Seq(Nat))
      /\ st \in ReversedStates
  BY DEF AfterWire, ReversedStates
<1>1. PICK k \in 0 .. t.count : WireTo(t, k, a, st)
  BY DEF AfterWire
<1>2. PICK s, list : BackTo(t.bytes, t.down[k], t.down[0], st, s, list)
  BY <1>1 DEF WireTo
<1>3. /\ t.pos[k] \in Nat /\ t.down[k] \in Nat /\ t.down[0] \in Nat /\ t.count \in Nat
      /\ t.down[0] <= Len(t.bytes) /\ t.bytes \in Seq(Nat)
  <2>1. t.count \in Nat /\ 0 \in 0 .. t.count
    BY DEF Framed
  <2> QED BY <2>1 DEF Framed
<1> DEFINE x == [st EXCEPT !.input = Append(@, data)]
<1>4. data \in Seq(Nat)
  BY DEF Piece
<1>5. /\ x \in ReversedStates /\ x.input = Append(st.input, data) /\ x.current = st.current
      /\ x.chunks = <<>> /\ x.output = st.output /\ x.boundary = st.boundary
      /\ x.blocks = st.blocks
  <2> DEFINE l == Append(st.input, data)
  <2>1. l \in Seq(Seq(Nat))
    BY <1>0, <1>4, AppendProperties
  <2>2. x = [st EXCEPT !.input = l]
    OBVIOUS
  <2> HIDE DEF l, x
  <2>3. x \in ReversedStates
    BY <1>0, <2>1, <2>2 DEF ReversedStates
  <2> QED BY <1>0, <2>2, <2>3 DEF ReversedStates, l
<1> HIDE DEF x
<1>6. Piece(FlattenSeq(x.input), t.wire, t.pos[k], b) /\ t.pos[k] <= b
  <2> DEFINE old == FlattenSeq(st.input)
  <2>1. FlattenSeq(x.input) = old \o data
    BY <1>0, <1>4, <1>5, FlattenAppend
  <2>2. Piece(old, t.wire, t.pos[k], a) /\ t.pos[k] <= a
    BY <1>1 DEF WireTo
  <2> HIDE DEF old
  <2>3. t.pos[k] \in Int /\ a \in Int /\ b \in Int
    BY <1>3
  <2>4. Piece(old \o data, t.wire, t.pos[k], b)
    BY <2>2, <2>3, PiecesMeet
  <2> QED BY <1>3, <2>1, <2>2, <2>4
<1>7. Took(t, x, k, b, x)
  <2>1. FlattenSeq(Reverse(x.chunks)) = <<>>
    <3>1. <<>> \in Seq(Nat)
      OBVIOUS
    <3> QED BY <1>5, <3>1, ReverseOne, FlattenSmall
  <2>2. Piece(<<>>, t.bytes, t.down[k], t.down[k]) /\ t.down[k] <= t.down[k]
    <3>1. t.down[k] - t.down[k] = 0
      BY <1>3
    <3> QED BY <1>3, <3>1 DEF Piece
  <2>3. x.current = -1 \/ (k < t.count /\ x.current = 4 + (t.down[k] - t.down[k + 1]))
    BY <1>1, <1>5 DEF WireTo
  <2>4. TookTo(t, x, k, k, b, x)
    BY <1>6, <2>1, <2>2, <2>3 DEF TookTo
  <2> QED BY <1>5, <2>4 DEF Took
<1> DEFINE y == TakeChunks(x)
<1>8. Took(t, x, k, b, y) /\ Stuck(y)
  BY <1>7, TakeChunksKeeps
<1> HIDE DEF y
<1>9. PICK j \in 0 .. t.count : TookTo(t, x, k, j, b, y)
  BY <1>8 DEF Took
<1>10. y \in ReversedStates
  BY <1>8 DEF Took
<1>11. BackTo(t.bytes, t.down[k], t.down[0], y, s, list)
  <2>1. y.output = st.output /\ y.boundary = st.boundary /\ y.blocks = st.blocks
    BY <1>5, <1>9 DEF TookTo
  <2> QED BY <1>2, <2>1 DEF BackTo
<1> DEFINE next == Whole(y)
<1>12. ReadReversedPiece(st, data) = next
  BY Zenon DEF ReadReversedPiece, y, x
<1>13. CASE y.chunks = <<>>
  <2>1. next = y
    BY <1>13 DEF Whole
  <2>2. j = k
    BY <1>9, <1>13 DEF TookTo
  <2>3. WireTo(t, k, b, y)
    BY <1>9, <1>11, <2>2 DEF TookTo, WireTo
  <2> HIDE DEF next
  <2> QED BY <1>8, <1>10, <1>12, <1>13, <2>1, <2>3 DEF AfterWire
<1>14. CASE y.chunks # <<>>
  <2> DEFINE w == t.bytes
             p == t.down[j]
             q == t.down[k]
             to == t.down[0]
  <2>1. /\ p \in Nat /\ p <= q /\ Piece(FlattenSeq(Reverse(y.chunks)), w, p, q)
    BY <1>9 DEF TookTo, Framed
  <2>2. w \in Seq(Nat) /\ q \in Nat /\ to \in Nat /\ to <= Len(w)
        /\ BackTo(w, q, to, y, s, list)
    BY <1>3, <1>11
  <2> HIDE DEF w, p, q, to
  <2>3. /\ next \in ReversedStates /\ next.chunks = <<>>
        /\ next.input = y.input /\ next.current = y.current
        /\ \E r : \E blocks : BackTo(w, p, to, next, r, blocks)
    BY <1>10, <1>14, <2>1, <2>2, WholeKeeps
  <2> HIDE DEF next
  <2>4. WireTo(t, j, b, next)
    <3>1. \E r : \E blocks : BackTo(t.bytes, t.down[j], t.down[0], next, r, blocks)
      BY <2>3 DEF w, p, to
    <3> QED BY <1>9, <2>3, <3>1 DEF TookTo, WireTo
  <2>5. Stuck(next)
    BY <1>8, <2>3 DEF Stuck
  <2> QED BY <1>12, <2>3, <2>4, <2>5 DEF AfterWire
<1> QED BY <1>13, <1>14

IsReadReversed(input, g) ==
  g = [n \in 0 .. Len(input) |->
         IF n = 0 THEN [input |-> <<>>, current |-> -1, chunks |-> <<>>,
                        output |-> <<>>, boundary |-> FALSE, blocks |-> <<>>]
         ELSE ReadReversedPiece(g[n - 1], input[n])]

\* In the end all chunks have been taken.
LEMMA AllIsTaken ==
  ASSUME NEW t, Framed(t), NEW st \in AfterWire(t, Len(t.wire))
  PROVE  \E s : \E list : BackTo(t.bytes, t.down[t.count], t.down[0], st, s, list)
<1> DEFINE e == Len(t.wire)
<1>1. PICK k \in 0 .. t.count : WireTo(t, k, e, st)
  BY DEF AfterWire
<1>2. ASSUME k # t.count PROVE FALSE
  <2>1. t.count \in Nat
    BY DEF Framed
  <2>2. k \in 0 .. t.count - 1 /\ k \in 0 .. t.count /\ k + 1 \in 0 .. t.count
    BY <1>2, <2>1
  <2> DEFINE p == t.pos[k]
             q == t.pos[k + 1]
             x == t.down[k]
             y == t.down[k + 1]
             size == Len(FlattenSeq(st.input))
  <2>3. /\ p \in Nat /\ q \in Nat /\ x \in Nat /\ y \in Nat /\ y <= x /\ q <= e
        /\ q = p + 4 + (x - y)
    BY <2>2 DEF Framed, FramedAt
  <2>4. e \in Nat
    BY LenProperties DEF Framed
  <2>5. size = e - p /\ (st.current = -1 \/ st.current = 4 + (x - y))
    BY <1>1 DEF WireTo, Piece
  <2>6. (st.current < 0 => size < 4) /\ (st.current >= 0 => size < st.current)
    BY DEF AfterWire, Stuck
  <2> HIDE DEF p, q, x, y, size, e
  <2> QED BY <2>3, <2>4, <2>5, <2>6
<1> QED BY <1>1, <1>2 DEF WireTo

\* The blocks that readReversed() hands out in the end.
HandedOut(st) ==
  IF st.boundary /\ st.output # <<>> THEN Append(st.blocks, st.output) ELSE st.blocks

\* With the block in the output, the blocks are those between the ends.
LEMMA HandedOutIs ==
  ASSUME NEW bytes \in Seq(Nat), NEW d \in Nat, NEW to \in Nat, NEW st \in ReversedStates,
         NEW s, NEW list, BackTo(bytes, d, to, st, s, list)
  PROVE  \E blocks : /\ CutAt(blocks, bytes, <<d>> \o s)
                     /\ HandedOut(st) = Reverse(blocks)
<1>0. /\ Sorts(s, EndsIn(bytes, d, to)) /\ CutAt(list, bytes, s) /\ st.blocks = Reverse(list)
      /\ st.boundary = (s # <<>>) /\ s \in Seq(Nat) /\ list \in Seq(Seq(Nat))
  BY DEF BackTo, Sorts, CutAt
<1> DEFINE o == <<d>>
           v == o \o s
           q == Len(s)
<1>1. o \in Seq(Nat) /\ Len(o) = 1 /\ o[1] = d
  OBVIOUS
<1>2. q \in Nat /\ (s = <<>> <=> q = 0)
  BY <1>0, LenProperties, EmptySeq
<1>3. /\ v \in Seq(Nat) /\ Len(v) = 1 + q
      /\ \A i \in 1 .. 1 + q : v[i] = IF i <= 1 THEN d ELSE s[i - 1]
  <2> HIDE DEF o
  <2>1. /\ v \in Seq(Nat) /\ Len(v) = Len(o) + q
        /\ \A i \in 1 .. Len(o) + q : v[i] = IF i <= Len(o) THEN o[i] ELSE s[i - Len(o)]
    BY <1>0, <1>1, ConcatProperties
  <2> HIDE DEF v, q
  <2>2. \A i \in 1 .. 1 + q : i <= 1 => o[i] = d
    BY <1>1
  <2> QED BY <1>1, <2>1, <2>2
<1>4. v # <<>>
  BY <1>2, <1>3, EmptySeq
<1> HIDE DEF v, q
<1>5. CASE s = <<>>
  <2>1. Len(list) = 0
    BY <1>0, <1>5 DEF CutAt
  <2>2. CutAt(list, bytes, v)
    <3>1. Len(v) - 1 = 0
      BY <1>2, <1>3, <1>5
    <3> DEFINE n == Len(v) - 1
    <3>a. n = 0
      BY <3>1
    <3> HIDE DEF n
    <3>2. n = 0 /\ 1 .. n = {}
      BY <3>a
    <3>3. Len(list) = IF v = <<>> THEN 0 ELSE n
      BY <2>1, <3>2
    <3>4. \A i \in 1 .. n : Piece(list[i], bytes, v[i], v[i + 1])
      BY <3>2
    <3> QED BY <1>0, <3>3, <3>4 DEF CutAt, n
  <2>3. ~ st.boundary
    BY <1>0, <1>5
  <2>4. HandedOut(st) = Reverse(list)
    BY <1>0, <2>3 DEF HandedOut
  <2> QED BY <2>2, <2>4 DEF v
<1>6. CASE s # <<>>
  <2> DEFINE x == st.output
             l == <<x>>
             blocks == l \o list
  <2>1. Piece(x, bytes, d, s[1])
    BY <1>6 DEF BackTo
  <2>2. s[1] \in Nat /\ d < s[1]
    <3>1. s[1] \in EndsIn(bytes, d, to)
      BY <1>0, <1>6, SortsEmpty
    <3>2. Ends(bytes) \subseteq 1 .. Len(bytes)
      BY EndsAre
    <3> QED BY <3>1, <3>2 DEF EndsIn
  <2>3. x \in Seq(Nat) /\ x # <<>>
    <3>1. x \in Seq(Nat) /\ Len(x) = s[1] - d
      BY <2>1 DEF Piece
    <3> HIDE DEF x
    <3> QED BY <2>2, <3>1, EmptySeq
  <2>4. l \in Seq(Seq(Nat)) /\ Len(l) = 1 /\ l[1] = x /\ Reverse(l) = l
    BY <2>3, ReverseOne
  <2>5. Append(st.blocks, x) = Reverse(blocks)
    <3> HIDE DEF l, x
    <3>1. Reverse(blocks) = Reverse(list) \o l
      BY <1>0, <2>4, ReverseBoth
    <3>2. Reverse(list) \in Seq(Seq(Nat))
      BY <1>0, ReverseIsSeq
    <3>3. Append(Reverse(list), x) = Reverse(list) \o l
      BY <2>3, <3>2, AppendIsConcat DEF l
    <3> QED BY <1>0, <3>1, <3>3
  <2>6. /\ blocks \in Seq(Seq(Nat)) /\ Len(blocks) = q
        /\ \A i \in 1 .. q : blocks[i] = IF i <= 1 THEN x ELSE list[i - 1]
    <3> HIDE DEF l, x
    <3>1. Len(list) = q - 1
      BY <1>0, <1>6 DEF CutAt, q
    <3>2. /\ blocks \in Seq(Seq(Nat)) /\ Len(blocks) = Len(l) + Len(list)
          /\ \A i \in 1 .. Len(l) + Len(list) : blocks[i] = IF i <= Len(l) THEN l[i] ELSE list[i - Len(l)]
      BY <1>0, <2>4, ConcatProperties
    <3> HIDE DEF blocks
    <3>3. Len(l) + Len(list) = q
      BY <1>2, <1>6, <2>4, <3>1
    <3>4. \A i \in 1 .. q : i <= 1 => l[i] = x
      BY <1>2, <2>4
    <3> QED BY <2>4, <3>2, <3>3, <3>4
  <2> HIDE DEF blocks, l
  <2>7. CutAt(blocks, bytes, v)
    <3>1. Len(v) - 1 = q
      BY <1>2, <1>3
    <3>2. ASSUME NEW i \in 1 .. q PROVE Piece(blocks[i], bytes, v[i], v[i + 1])
      <4>1. CASE i = 1
        <5>1. 1 \in 1 .. 1 + q /\ 2 \in 1 .. 1 + q /\ 1 \in 1 .. q
          BY <1>2, <1>6
        <5>2. v[1] = d /\ v[2] = s[2 - 1] /\ blocks[1] = x
          BY <1>3, <2>6, <5>1
        <5> HIDE DEF x
        <5>3. 2 - 1 = 1 /\ 1 + 1 = 2
          OBVIOUS
        <5> QED BY <2>1, <4>1, <5>2, <5>3
      <4>2. CASE i # 1
        <5> DEFINE h == i - 1
        <5>1. i \in 1 .. 1 + q /\ i + 1 \in 1 .. 1 + q /\ ~ (i <= 1) /\ ~ (i + 1 <= 1)
              /\ h \in 1 .. q - 1 /\ h + 1 = i /\ (i + 1) - 1 = i
          BY <1>2, <4>2
        <5>2. v[i] = s[h] /\ v[i + 1] = s[(i + 1) - 1] /\ blocks[i] = list[h]
          BY <1>3, <2>6, <5>1
        <5> HIDE DEF h, x
        <5>3. Piece(list[h], bytes, s[h], s[h + 1])
          BY <1>0, <5>1 DEF CutAt, q
        <5> QED BY <5>1, <5>2, <5>3
      <4> QED BY <4>1, <4>2
    <3> QED BY <1>4, <2>6, <3>1, <3>2 DEF CutAt
  <2>8. HandedOut(st) = Reverse(blocks)
    BY <1>0, <1>6, <2>3, <2>5 DEF HandedOut
  <2> QED BY <2>7, <2>8 DEF v
<1> QED BY <1>5, <1>6

LEMMA ReadReversedIs ==
  ASSUME NEW t, Framed(t), NEW size \in Nat \ {0}
  PROVE  \E s : \E list :
           /\ Sorts(s, EndsIn(t.bytes, t.down[t.count], t.down[0]))
           /\ CutAt(list, t.bytes, <<t.down[t.count]>> \o s)
           /\ readReversed(Pieces(t.wire, size)) = Reverse(list)
<1> DEFINE bytes == t.wire
           input == Pieces(bytes, size)
           to == Len(bytes)
<1>b. bytes \in Seq(Nat)
  BY DEF Framed
<1> HIDE DEF bytes
<1>0. to \in Nat /\ to <= Len(bytes)
  BY LenProperties, <1>b
<1>a. PICK c : \E u : CutInto(input, bytes, c, u)
  BY PiecesAre, <1>b
<1>c. PICK up : CutInto(input, bytes, c, up)
  BY <1>a
<1>1. c = Len(input) /\ \A n \in 1 .. c : Piece(input[n], bytes, up[n - 1], up[n])
  BY <1>c DEF CutInto
<1>2. /\ c \in Nat
      /\ \A n \in 0 .. c : up[n] \in 0 .. to
      /\ up[0] = 0 /\ up[c] = to
      /\ \A n \in 1 .. c : up[n - 1] <= up[n]
  BY <1>c DEF CutInto
<1> DEFINE start == [input |-> <<>>, current |-> -1, chunks |-> <<>>,
                     output |-> <<>>, boundary |-> FALSE, blocks |-> <<>>]
           I == [n \in 0 .. c |-> AfterWire(t, up[n])]
           step == [n \in 1 .. c |-> [st \in I[n - 1] |-> ReadReversedPiece(st, input[n])]]
<1> HIDE DEF input, to
<1>3. start \in I[0]
  <2> DEFINE d == t.down[0]
             none == <<>>
  <2>0. 0 \in 0 .. t.count /\ d \in Nat /\ t.pos[0] = 0 /\ t.bytes \in Seq(Nat)
        /\ d - d = 0 /\ 0 - 0 = 0
    BY DEF Framed
  <2>1. none \in Seq(Nat) /\ none \in Seq(Seq(Nat)) /\ Len(none) = 0 /\ FlattenSeq(none) = none
        /\ Reverse(none) = none
    <3>1. <<>> \in Seq(Nat) /\ <<>> \in Seq(Seq(Nat)) /\ Len(<<>>) = 0
      OBVIOUS
    <3>2. FlattenSeq(<<>>) = <<>>
      BY <3>1, FlattenSmall
    <3>3. Reverse(<<>>) = <<>>
      BY ReverseOne
    <3> QED BY <3>1, <3>2, <3>3
  <2>2. /\ start.input = none /\ start.current = -1 /\ start.chunks = none
        /\ start.output = none /\ start.boundary = FALSE /\ start.blocks = none
        /\ start \in ReversedStates
    <3>1. -1 \in Int /\ FALSE \in BOOLEAN
      OBVIOUS
    <3> QED BY <2>1, <3>1 DEF ReversedStates
  <2> HIDE DEF start, none
  <2>3. Stuck(start)
    BY <2>1, <2>2 DEF Stuck
  <2>4. BackTo(t.bytes, d, d, start, none, none)
    <3>1. EndsIn(t.bytes, d, d) = {}
      <4>1. \A e \in Ends(t.bytes) : e \in Nat
        BY <2>0, EndsAre
      <4> QED BY <2>0, <4>1 DEF EndsIn
    <3>2. Sorts(none, {})
      BY SortsNone DEF none
    <3>3. CutAt(none, t.bytes, none)
      <4>1. 1 .. Len(none) - 1 = {}
        BY <2>1
      <4>2. none = <<>>
        BY DEF none
      <4> QED BY <2>1, <4>1, <4>2 DEF CutAt
    <3>4. Piece(none, t.bytes, d, d)
      BY <2>0, <2>1 DEF Piece
    <3>5. none = <<>>
      BY DEF none
    <3>6. Piece(start.output, t.bytes, d, IF none = <<>> THEN d ELSE none[1])
      BY <2>2, <3>4, <3>5
    <3>7. start.blocks = Reverse(none) /\ start.boundary = (none # <<>>)
      BY <2>1, <2>2, <3>5
    <3>8. Sorts(none, EndsIn(t.bytes, d, d))
      BY <3>1, <3>2
    <3> QED BY <3>3, <3>6, <3>7, <3>8 DEF BackTo
  <2>5. WireTo(t, 0, 0, start)
    <3>1. Piece(none, t.wire, t.pos[0], 0)
      BY <2>0, <2>1 DEF Piece
    <3> QED BY <2>0, <2>1, <2>2, <2>4, <3>1 DEF WireTo
  <2>6. start \in AfterWire(t, 0)
    <3>1. start.chunks = <<>>
      BY <2>2 DEF none
    <3> QED BY <2>0, <2>2, <2>3, <2>5, <3>1 DEF AfterWire
  <2>7. 0 \in 0 .. c
    BY <1>2
  <2> QED BY <1>2, <2>6, <2>7
<1>4. ASSUME NEW n \in 1 .. c, NEW st \in I[n - 1]
      PROVE  step[n][st] = ReadReversedPiece(st, input[n]) /\ ReadReversedPiece(st, input[n]) \in I[n]
  <2>1. n - 1 \in 0 .. c /\ n \in 0 .. c
    BY <1>2
  <2>2. st \in AfterWire(t, up[n - 1]) /\ I[n] = AfterWire(t, up[n])
    BY <1>4, <2>1
  <2>3. step[n][st] = ReadReversedPiece(st, input[n])
    <3> HIDE DEF I
    <3> QED BY <1>4
  <2> HIDE DEF I, step
  <2>4. up[n - 1] \in Nat /\ up[n] \in Nat /\ up[n - 1] <= up[n] /\ up[n] <= Len(bytes)
    BY <1>0, <1>2, <2>1
  <2>5. Piece(input[n], t.wire, up[n - 1], up[n]) /\ up[n] <= Len(t.wire)
    BY <1>1, <2>4 DEF bytes
  <2> QED BY <2>2, <2>3, <2>4, <2>5, ReadReversedPieceKeeps
<1>5. PICK h : h = [n \in 0 .. c |-> h[n]] /\ StaysUp(I, start, c, step, h)
  <2>1. KeptUp(I, c, step)
    <3> HIDE DEF I, step
    <3> QED BY <1>4 DEF KeptUp
  <2> HIDE DEF I, step, start
  <2> QED BY <1>2, <1>3, <2>1, ChainIsFunction
<1>d. StaysUp(I, start, c, step, h)
  BY <1>5
<1> DEFINE f == CHOOSE x : IsReadReversed(input, x)
<1>6. IsReadReversed(input, h)
  <2> HIDE DEF I, step
  <2>1. \A n \in 0 .. c : n # 0 => n \in 1 .. c /\ n - 1 \in 0 .. c
    BY <1>2
  <2>2. \A n \in 1 .. c : h[n] = ReadReversedPiece(h[n - 1], input[n])
    <3>1. \A n \in 1 .. c : h[n - 1] \in I[n - 1] /\ h[n] = step[n][h[n - 1]]
      BY <1>2, <1>d, <2>1 DEF StaysUp
    <3> QED BY <1>4, <3>1
  <2>3. \A n \in 0 .. c : h[n] = IF n = 0 THEN start ELSE ReadReversedPiece(h[n - 1], input[n])
    <3> HIDE DEF start
    <3> QED BY <1>d, <2>1, <2>2 DEF StaysUp
  <2>4. h = [n \in 0 .. c |-> IF n = 0 THEN start ELSE ReadReversedPiece(h[n - 1], input[n])]
    BY <1>5, <2>3, Zenon
  <2> QED BY <1>1, <2>4 DEF IsReadReversed
<1>7. IsReadReversed(input, f)
  BY <1>6
<1>8. readReversed(input) = HandedOut(f[c])
  <2>1. readReversed(input) = HandedOut((CHOOSE x : IsReadReversed(input, x))[Len(input)])
    BY Zenon DEF readReversed, IsReadReversed, HandedOut
  <2> QED BY <1>1, <2>1
<1> HIDE DEF f
<1>9. f[0] = start /\ \A n \in 1 .. c : f[n] = ReadReversedPiece(f[n - 1], input[n])
  <2> DEFINE more(n) == ReadReversedPiece(f[n - 1], input[n])
  <2> HIDE DEF I, step, start
  <2>0. f = [n \in 0 .. c |-> IF n = 0 THEN start ELSE ReadReversedPiece(f[n - 1], input[n])]
    BY <1>1, <1>7 DEF IsReadReversed, start
  <2>1. f = [n \in 0 .. c |-> IF n = 0 THEN start ELSE more(n)]
    BY <2>0, Zenon
  <2> HIDE DEF more
  <2>2. 0 \in 0 .. c /\ \A n \in 1 .. c : n \in 0 .. c /\ n # 0
    BY <1>2
  <2>3. f[0] = start /\ \A n \in 1 .. c : f[n] = more(n)
    BY <2>1, <2>2
  <2> QED BY <2>3 DEF more
<1>10. f[c] \in I[c]
  <2> HIDE DEF I, step, start
  <2>1. KeepsUp(I, c, f)
    BY <1>3, <1>4, <1>9 DEF KeepsUp
  <2> QED BY <1>2, <2>1, KeptToTheEnd
<1> DEFINE end == f[c]
<1>11. end \in AfterWire(t, Len(t.wire))
  <2>1. c \in 0 .. c
    BY <1>2
  <2> QED BY <1>2, <1>10, <2>1 DEF I, to, bytes
<1> HIDE DEF end
<1>12. PICK s, list : BackTo(t.bytes, t.down[t.count], t.down[0], end, s, list)
  BY <1>11, AllIsTaken
<1>13. /\ t.bytes \in Seq(Nat) /\ t.down[t.count] \in Nat /\ t.down[0] \in Nat
       /\ end \in ReversedStates
  <2>1. t.count \in 0 .. t.count /\ 0 \in 0 .. t.count
    BY DEF Framed
  <2> QED BY <1>11, <2>1 DEF Framed, AfterWire
<1>14. PICK blocks : /\ CutAt(blocks, t.bytes, <<t.down[t.count]>> \o s)
                     /\ HandedOut(end) = Reverse(blocks)
  BY <1>12, <1>13, HandedOutIs
<1>15. Sorts(s, EndsIn(t.bytes, t.down[t.count], t.down[0]))
  BY <1>12 DEF BackTo
<1>16. readReversed(Pieces(t.wire, size)) = Reverse(blocks)
  <2>1. readReversed(input) = HandedOut(end)
    BY <1>8 DEF end
  <2> QED BY <1>14, <2>1 DEF input, bytes
<1> QED BY <1>14, <1>15, <1>16

-----------------------------------------------------------------------------
(* The sender's side of a reversed stream.                                  *)

\* Where the chunks end, from the end down.
Downto(from, to, page, n) == (from + to) - Upto(from, to, page, n)

\* Chunks from the end down, each with its length.
GoDown(chunks, bytes, from, to, page) ==
  LET c == CeilDiv(to - from, page)
      down(n) == Downto(from, to, page, n)
  IN /\ chunks \in Seq(Seq(Nat)) /\ Len(chunks) = c /\ c \in Nat
     /\ \A n \in 0 .. c : down(n) \in from .. to
     /\ down(0) = to /\ down(c) = from
     /\ \A n \in 1 .. c :
          /\ down(n) <= down(n - 1)
          /\ Len(chunks[n]) = 4 + (down(n - 1) - down(n))
          /\ readUint32(chunks[n]) = down(n - 1) - down(n)
          /\ \A i \in 1 .. down(n - 1) - down(n) : chunks[n][4 + i] = bytes[down(n) + i]

LEMMA ReversedChunksAre ==
  ASSUME NEW bytes \in Seq(Nat), NEW from \in Nat, NEW to \in Nat, from <= to, to <= Len(bytes),
         NEW page \in Nat \ {0}, FitsFourBytes(page)
  PROVE  GoDown(bulkChunksReversed(bytes, from, to, page), bytes, from, to, page)
<1> DEFINE chunks == bulkChunksReversed(bytes, from, to, page)
           c == CeilDiv(to - from, page)
           up(n) == Upto(from, to, page, n)
           down(n) == Downto(from, to, page, n)
           piece(n) == SubSeq(bytes, down(n) + 1, down(n - 1))
<1>0. StepsGo(from, to, page, c)
  BY CeilIsUp
<1> HIDE DEF c
<1>1. c \in Nat /\ \A n \in 0 .. c : up(n) \in from .. to
  BY <1>0 DEF StepsGo
<1>2. up(0) = from /\ up(c) = to
  BY <1>0 DEF StepsGo
<1>3. \A n \in 1 .. c : /\ up(n - 1) = from + (n - 1) * page
                        /\ up(n - 1) < up(n)
                        /\ up(n) - up(n - 1) <= page
  BY <1>0 DEF StepsGo
<1>4. \A n \in 1 .. c : up(n) = MinOf(from + n * page, to) /\ n * page \in Nat
                        /\ (n - 1) * page \in Nat
  BY DEF Upto
<1>a. \A n \in Int : down(n) = (from + to) - up(n)
  BY DEF Downto
<1> HIDE DEF up, c, down
<1>5. \A n \in 0 .. c : down(n) \in from .. to
  <2> SUFFICES ASSUME NEW n \in 0 .. c PROVE down(n) \in from .. to
    OBVIOUS
  <2>1. up(n) \in from .. to /\ down(n) = (from + to) - up(n)
    BY <1>1, <1>a
  <2> QED BY <2>1
<1>6. down(0) = to /\ down(c) = from
  BY <1>1, <1>2, <1>a
<1>7. ASSUME NEW n \in 1 .. c
      PROVE  /\ down(n) <= down(n - 1) /\ down(n - 1) - down(n) <= page
             /\ Max({from, to - n * page}) = down(n)
             /\ to - (n - 1) * page = down(n - 1)
             /\ down(n) \in Nat /\ down(n - 1) \in Nat /\ down(n - 1) <= Len(bytes)
  <2>1. n \in 0 .. c /\ n - 1 \in 0 .. c
    BY <1>1
  <2> DEFINE x == n * page
             y == (n - 1) * page
             u == up(n)
             v == up(n - 1)
             p == down(n)
             q == down(n - 1)
  <2>2. /\ u \in from .. to /\ v \in from .. to /\ v = from + y /\ v < u /\ u - v <= page
        /\ u = MinOf(from + x, to) /\ x \in Nat /\ y \in Nat
    BY <1>1, <1>3, <1>4, <2>1
  <2> HIDE DEF x, y
  <2>3. Max({from, to - x}) = IF from <= to - x THEN to - x ELSE from
    <3>1. to - x \in Int
      BY <2>2
    <3> QED BY <3>1, MaxIs
  <2>4. p = (from + to) - u /\ q = (from + to) - v
    BY <1>a, <2>1
  <2> HIDE DEF u, v, p, q
  <2> DEFINE most == Max({from, to - x})
  <2>a. most = IF from <= to - x THEN to - x ELSE from
    BY <2>3
  <2> HIDE DEF most
  <2>b. most = p
    <3>1. CASE from + x <= to
      <4>1. u = from + x /\ from <= to - x
        BY <2>2, <3>1 DEF MinOf
      <4>2. most = to - x
        BY <2>a, <4>1
      <4>3. from \in Int /\ to \in Int /\ x \in Int
        BY <2>2
      <4>4. p = to - x
        BY <2>4, <4>1, <4>3
      <4> QED BY <4>2, <4>4
    <3>2. CASE ~ (from + x <= to)
      <4>1. u = to /\ ~ (from <= to - x)
        BY <2>2, <3>2 DEF MinOf
      <4>2. most = from
        BY <2>a, <4>1
      <4> QED BY <2>2, <2>4, <4>1, <4>2
    <3> QED BY <3>1, <3>2
  <2>5. Max({from, to - x}) = p
    BY <2>b DEF most
  <2>6. to - y = q /\ p <= q /\ q - p <= page
    BY <2>2, <2>4
  <2>7. p \in Nat /\ q \in Nat /\ q <= Len(bytes)
    <3>1. Len(bytes) \in Nat /\ q <= to
      BY <2>2, <2>4, LenProperties
    <3> QED BY <2>2, <2>4, <3>1, SMTT(30)
  <2> QED BY <2>5, <2>6, <2>7 DEF x, y, p, q
<1>8. ASSUME NEW n \in 1 .. c
      PROVE  /\ Piece(piece(n), bytes, down(n), down(n - 1))
             /\ prependLength(piece(n)) \in Seq(Nat)
             /\ Len(prependLength(piece(n))) = 4 + (down(n - 1) - down(n))
             /\ readUint32(prependLength(piece(n))) = down(n - 1) - down(n)
             /\ \A i \in 1 .. down(n - 1) - down(n) :
                  prependLength(piece(n))[4 + i] = bytes[down(n) + i]
  <2> DEFINE x == down(n)
             y == down(n - 1)
             g == piece(n)
             p == prependLength(g)
  <2>1. x \in Nat /\ y \in Nat /\ x <= y /\ y <= Len(bytes) /\ y - x <= page
    BY <1>7
  <2> HIDE DEF x, y
  <2>2. Piece(SubSeq(bytes, x + 1, y), bytes, x, y)
    BY <2>1, PieceIs
  <2>3. Piece(g, bytes, x, y)
    BY <2>2 DEF x, y
  <2> HIDE DEF g
  <2>4. g \in Seq(Nat) /\ Len(g) = y - x /\ \A i \in 1 .. y - x : g[i] = bytes[x + i]
    BY <2>3 DEF Piece
  <2>5. FitsFourBytes(Len(g))
    <3>1. Len(g) \in Nat /\ Len(g) <= page
      BY <2>1, <2>4
    <3> QED BY <3>1, ShorterFits
  <2>6. /\ p \in Seq(Nat) /\ Len(p) = 4 + Len(g) /\ readUint32(p) = Len(g)
        /\ \A i \in 1 .. Len(g) : p[4 + i] = g[i]
    BY <2>4, <2>5, LengthIsRead
  <2> HIDE DEF p
  <2>7. Len(p) = 4 + (y - x) /\ readUint32(p) = y - x
        /\ \A i \in 1 .. y - x : p[4 + i] = bytes[x + i]
    BY <2>4, <2>6
  <2> QED BY <2>3, <2>6, <2>7 DEF x, y, g, p
<1>9. chunks = [n \in 1 .. c |-> prependLength(piece(n))]
  <2> DEFINE x(n) == Max({from, to - n * page})
             y(n) == to - (n - 1) * page
  <2>1. chunks = [n \in 1 .. c |-> prependLength(SubSeq(bytes, x(n) + 1, y(n)))]
    BY DEF bulkChunksReversed, subarray, c
  <2>2. \A n \in 1 .. c : x(n) = down(n) /\ y(n) = down(n - 1)
    BY <1>7
  <2> HIDE DEF x, y, chunks
  <2> QED BY <2>1, <2>2
<1> DEFINE made(n) == prependLength(piece(n))
<1>10. /\ \A n \in 1 .. c :
            /\ made(n) \in Seq(Nat)
            /\ Len(made(n)) = 4 + (down(n - 1) - down(n))
            /\ readUint32(made(n)) = down(n - 1) - down(n)
            /\ \A i \in 1 .. down(n - 1) - down(n) : made(n)[4 + i] = bytes[down(n) + i]
       /\ chunks = [n \in 1 .. c |-> made(n)]
  BY <1>8, <1>9
<1> HIDE DEF made, chunks
<1>11. chunks \in Seq(Seq(Nat)) /\ Len(chunks) = c /\ \A n \in 1 .. c : chunks[n] = made(n)
  BY <1>1, <1>10
<1>12. \A n \in 1 .. c :
         /\ down(n) <= down(n - 1)
         /\ Len(chunks[n]) = 4 + (down(n - 1) - down(n))
         /\ readUint32(chunks[n]) = down(n - 1) - down(n)
         /\ \A i \in 1 .. down(n - 1) - down(n) : chunks[n][4 + i] = bytes[down(n) + i]
  BY <1>7, <1>10, <1>11
<1> QED BY <1>1, <1>5, <1>6, <1>11, <1>12 DEF GoDown, chunks, c, down

\* So the stream is framed as the reader expects it.
FramedAs(t, bytes, from, to, page) ==
  /\ Framed(t)
  /\ t.wire = FlattenSeq(bulkChunksReversed(bytes, from, to, page))
  /\ t.bytes = bytes /\ t.down[t.count] = from /\ t.down[0] = to

LEMMA ReversedIsFramed ==
  ASSUME NEW bytes \in Seq(Nat), NEW from \in Nat, NEW to \in Nat, from <= to, to <= Len(bytes),
         NEW page \in Nat \ {0}, FitsFourBytes(page)
  PROVE  \E t : FramedAs(t, bytes, from, to, page)
<1> DEFINE chunks == bulkChunksReversed(bytes, from, to, page)
           c == CeilDiv(to - from, page)
           down(n) == Downto(from, to, page, n)
           Z == FlattenSeq(chunks)
<1>0. /\ chunks \in Seq(Seq(Nat)) /\ Len(chunks) = c /\ c \in Nat
      /\ \A n \in 0 .. c : down(n) \in from .. to
      /\ down(0) = to /\ down(c) = from
      /\ \A n \in 1 .. c :
           /\ down(n) <= down(n - 1)
           /\ Len(chunks[n]) = 4 + (down(n - 1) - down(n))
           /\ readUint32(chunks[n]) = down(n - 1) - down(n)
           /\ \A i \in 1 .. down(n - 1) - down(n) : chunks[n][4 + i] = bytes[down(n) + i]
  <2>1. GoDown(chunks, bytes, from, to, page)
    BY ReversedChunksAre
  <2> HIDE DEF chunks
  <2> QED BY <2>1 DEF GoDown
<1> HIDE DEF c, down, chunks
<1>1. /\ chunks \in Seq(Seq(Nat)) /\ Len(chunks) = c /\ c \in Nat
      /\ \A n \in 0 .. c : down(n) \in from .. to
  BY <1>0
<1>2. down(0) = to /\ down(c) = from
  BY <1>0
<1>3. \A n \in 1 .. c :
        /\ down(n) <= down(n - 1)
        /\ Len(chunks[n]) = 4 + (down(n - 1) - down(n))
        /\ readUint32(chunks[n]) = down(n - 1) - down(n)
        /\ \A i \in 1 .. down(n - 1) - down(n) : chunks[n][4 + i] = bytes[down(n) + i]
  BY <1>0
<1>4. PICK F : Heads(chunks, c, F) /\ Z = F[c]
  BY <1>1, EndsExist
<1> HIDE DEF Z
<1>5. /\ AreSeqs(chunks, c, Nat)
      /\ \A n \in 0 .. c : F[n] \in Seq(Nat)
  <2>1. \A n \in 1 .. c : chunks[n] \in Seq(Nat)
    BY <1>1, ElementOfSeq
  <2> QED BY <1>1, <1>4, <2>1, EndsAreSeqs DEF AreSeqs
<1> DEFINE pos == [n \in 0 .. c |-> Len(F[n])]
           low == [n \in 0 .. c |-> down(n)]
           t == [wire |-> Z, bytes |-> bytes, count |-> c, pos |-> pos, down |-> low]
<1>6. \A n \in 0 .. c : pos[n] = Len(F[n]) /\ pos[n] \in Nat /\ low[n] = down(n) /\ low[n] \in Nat
  <2>1. \A n \in 0 .. c : Len(F[n]) \in Nat /\ down(n) \in Nat
    BY <1>1, <1>5, LenProperties
  <2> QED BY <2>1
<1>7. t.wire = Z /\ t.bytes = bytes /\ t.count = c /\ t.pos = pos /\ t.down = low
  OBVIOUS
<1> HIDE DEF pos, low, t
<1>8. ASSUME NEW n \in 0 .. c
      PROVE  pos[n] <= Len(Z) /\ \A i \in 1 .. pos[n] : Z[i] = F[n][i]
  <2>1. Continues(F[n], Z, Nat)
    BY <1>1, <1>4, <1>5, EndsGrow
  <2>2. PICK u \in Seq(Nat) : Z = F[n] \o u
    BY <2>1 DEF Continues
  <2>3. /\ Len(Z) = Len(F[n]) + Len(u)
        /\ \A i \in 1 .. Len(F[n]) + Len(u) : Z[i] = IF i <= Len(F[n]) THEN F[n][i] ELSE u[i - Len(F[n])]
    BY <1>5, <2>2, ConcatProperties
  <2>4. Len(u) \in Nat /\ pos[n] = Len(F[n]) /\ pos[n] \in Nat
    BY <1>6, LenProperties
  <2> DEFINE l == Len(F[n])
             r == Len(u)
             p == pos[n]
  <2>5. l \in Nat /\ r \in Nat /\ p = l /\ Len(Z) = l + r
        /\ \A i \in 1 .. l + r : i <= l => Z[i] = F[n][i]
    BY <2>3, <2>4
  <2> HIDE DEF l, r, p
  <2>6. p <= Len(Z) /\ \A i \in 1 .. p : Z[i] = F[n][i]
    <3>1. \A i \in 1 .. p : i \in 1 .. l + r /\ i <= l
      BY <2>5
    <3> QED BY <2>5, <3>1
  <2> QED BY <2>6 DEF p
<1>9. ASSUME NEW n \in 0 .. c - 1
      PROVE  /\ pos[n + 1] = pos[n] + 4 + (low[n] - low[n + 1]) /\ low[n + 1] <= low[n]
             /\ \A i \in 1 .. 4 + (low[n] - low[n + 1]) : Z[pos[n] + i] = chunks[n + 1][i]
  <2> DEFINE k == n + 1
             p == pos[n]
             q == pos[k]
             h == chunks[k]
             m == low[n] - low[k]
  <2>1. k \in 1 .. c /\ k \in 0 .. c /\ n \in 0 .. c /\ k - 1 = n
    BY <1>1
  <2>2. F[k] = F[n] \o h /\ h \in Seq(Nat) /\ F[n] \in Seq(Nat)
    <3>1. F[k] = F[k - 1] \o chunks[k]
      BY <1>4, <2>1 DEF Heads
    <3>2. chunks[k] \in Seq(Nat)
      BY <1>5, <2>1 DEF AreSeqs
    <3> QED BY <1>5, <2>1, <3>1, <3>2
  <2>3. Len(h) = 4 + m /\ low[k] <= low[n] /\ low[k] \in Nat /\ low[n] \in Nat /\ m \in Nat
    <3>1. low[k] = down(k) /\ low[n] = down(k - 1) /\ low[k] \in Nat /\ low[n] \in Nat
      BY <1>6, <2>1
    <3>2. down(k) <= down(k - 1) /\ Len(chunks[k]) = 4 + (down(k - 1) - down(k))
      BY <1>3, <2>1
    <3> DEFINE a == low[k]
               b == low[n]
    <3>3. a <= b /\ a \in Nat /\ b \in Nat /\ Len(h) = 4 + (b - a)
      BY <3>1, <3>2
    <3> HIDE DEF a, b, h
    <3>4. b - a \in Nat
      BY <3>3
    <3> QED BY <3>3, <3>4 DEF a, b
  <2>4. p = Len(F[n]) /\ q = Len(F[k]) /\ p \in Nat /\ q \in Nat
    BY <1>6, <2>1
  <2>5. /\ Len(F[k]) = Len(F[n]) + Len(h)
        /\ \A i \in 1 .. Len(F[n]) + Len(h) : F[k][i] = IF i <= Len(F[n]) THEN F[n][i] ELSE h[i - Len(F[n])]
    <3> HIDE DEF h, k
    <3> QED BY <2>2, ConcatProperties
  <2>6. \A i \in 1 .. q : Z[i] = F[k][i]
    BY <1>8, <2>1
  <2> HIDE DEF p, q, h, m, k
  <2>7. q = p + (4 + m) /\ m \in Nat /\ p \in Nat /\ q \in Nat
    BY <2>3, <2>4, <2>5
  <2>8. ASSUME NEW i \in 1 .. 4 + m PROVE Z[p + i] = h[i]
    <3>1. p + i \in 1 .. q /\ p + i \in 1 .. p + (4 + m) /\ ~ (p + i <= p) /\ (p + i) - p = i
      BY <2>7
    <3>2. F[k][p + i] = h[(p + i) - p]
      BY <2>3, <2>4, <2>5, <3>1
    <3> QED BY <2>6, <3>1, <3>2
  <2>9. q = p + 4 + m
    BY <2>7
  <2> QED BY <2>3, <2>8, <2>9 DEF p, q, h, m, k
<1>10. ASSUME NEW n \in 0 .. c - 1 PROVE FramedAt(t, n)
  <2> DEFINE k == n + 1
             p == pos[n]
             q == pos[k]
             h == chunks[k]
             x == low[k]
             y == low[n]
             m == y - x
  <2>1. k \in 1 .. c /\ k \in 0 .. c /\ n \in 0 .. c /\ k - 1 = n
    BY <1>1
  <2>2. /\ q = p + 4 + m /\ x <= y /\ x \in Nat /\ y \in Nat /\ p \in Nat /\ q \in Nat
        /\ \A i \in 1 .. 4 + m : Z[p + i] = h[i]
    BY <1>6, <1>9, <2>1
  <2>3. readUint32(h) = m /\ \A i \in 1 .. m : h[4 + i] = bytes[x + i]
    <3>1. x = down(k) /\ y = down(k - 1)
      BY <1>6, <2>1
    <3>2. /\ readUint32(chunks[k]) = down(k - 1) - down(k)
          /\ \A i \in 1 .. down(k - 1) - down(k) : chunks[k][4 + i] = bytes[down(k) + i]
      BY <1>3, <2>1
    <3> HIDE DEF k
    <3> QED BY <3>1, <3>2
  <2> HIDE DEF p, q, h, x, y, k
  <2>4. m \in Nat
    BY <2>2
  <2> HIDE DEF m
  <2>5. ASSUME NEW w, Piece(w, Z, p, p + 4) PROVE readUint32(w) = m
    <3>1. Len(w) = (p + 4) - p /\ \A i \in 1 .. (p + 4) - p : w[i] = Z[p + i]
      BY <2>5 DEF Piece
    <3>2. (p + 4) - p = 4 /\ \A i \in 1 .. 4 : i \in 1 .. 4 + m
      BY <2>2, <2>4
    <3>3. \A i \in 1 .. 4 : w[i] = h[i]
      BY <2>2, <3>1, <3>2
    <3>4. w[1] = h[1] /\ w[2] = h[2] /\ w[3] = h[3] /\ w[4] = h[4]
      <4>1. 1 \in 1 .. 4 /\ 2 \in 1 .. 4 /\ 3 \in 1 .. 4 /\ 4 \in 1 .. 4
        OBVIOUS
      <4> QED BY <3>3, <4>1
    <3>5. readUint32(w) = readUint32(h)
      BY <3>4 DEF readUint32
    <3> QED BY <2>3, <3>5
  <2>6. ASSUME NEW w, Piece(w, Z, p + 4, q) PROVE Piece(w, bytes, x, y)
    <3>1. w \in Seq(Nat) /\ Len(w) = q - (p + 4) /\ \A i \in 1 .. q - (p + 4) : w[i] = Z[(p + 4) + i]
      BY <2>6 DEF Piece
    <3>2. q - (p + 4) = m /\ y - x = m
      BY <2>2, <2>4 DEF m
    <3>3. ASSUME NEW i \in 1 .. m PROVE w[i] = bytes[x + i]
      <4>1. 4 + i \in 1 .. 4 + m /\ (p + 4) + i = p + (4 + i)
        BY <2>2, <2>4
      <4>2. Z[p + (4 + i)] = h[4 + i] /\ h[4 + i] = bytes[x + i]
        BY <2>2, <2>3, <4>1
      <4> QED BY <3>1, <3>2, <4>1, <4>2
    <3> QED BY <3>1, <3>2, <3>3 DEF Piece
  <2>7. t.wire = Z /\ t.bytes = bytes /\ t.pos[n] = p /\ t.pos[n + 1] = q
        /\ t.down[n] = y /\ t.down[n + 1] = x
    BY <1>7 DEF p, q, x, y, k
  <2>8. y - x = m
    BY DEF m
  <2> QED BY <2>2, <2>5, <2>6, <2>7, <2>8 DEF FramedAt
<1>11. Framed(t)
  <2>1. Z \in Seq(Nat) /\ 0 \in 0 .. c /\ c \in 0 .. c
    BY <1>1, <1>4, <1>5
  <2>2. pos[0] = 0
    <3>1. F[0] = <<>>
      BY <1>4 DEF Heads
    <3>2. Len(<<>>) = 0
      OBVIOUS
    <3> QED BY <1>6, <2>1, <3>1, <3>2
  <2>3. pos[c] = Len(Z) /\ low[0] <= Len(bytes)
    BY <1>2, <1>4, <1>6, <2>1
  <2>4. \A n \in 0 .. c : pos[n] \in Nat /\ low[n] \in Nat /\ pos[n] <= Len(Z)
    BY <1>6, <1>8
  <2> QED BY <1>1, <1>7, <1>10, <2>1, <2>2, <2>3, <2>4 DEF Framed
<1>12. t.down[t.count] = from /\ t.down[0] = to
  <2>1. 0 \in 0 .. c /\ c \in 0 .. c
    BY <1>1
  <2> QED BY <1>2, <1>6, <1>7, <2>1
<1>13. FramedAs(t, bytes, from, to, page)
  BY <1>7, <1>11, <1>12 DEF FramedAs, Z, chunks
<1> QED BY <1>13

-----------------------------------------------------------------------------
(* Both streams together.                                                   *)

LEMMA BlocksBetween ==
  ASSUME NEW bytes \in Seq(Nat), NEW from \in Nat, NEW to \in Nat, from <= to, to <= Len(bytes),
         NEW s, Sorts(s, {from} \cup EndsIn(bytes, from, to)),
         NEW list, CutAt(list, bytes, s)
  PROVE  Between(bytes, InOrder({from} \cup {end \in Ends(bytes) : end > from /\ end <= to}, to))
           = list
<1> DEFINE S == {from} \cup EndsIn(bytes, from, to)
<1>0. Len(bytes) \in Nat /\ Ends(bytes) \subseteq 1 .. Len(bytes)
  BY LenProperties, EndsAre
<1>1. {from} \cup {end \in Ends(bytes) : end > from /\ end <= to} = S
  <2>1. \A e \in Ends(bytes) : (e > from /\ e <= to) <=> (from < e /\ e <= to)
    BY <1>0
  <2> QED BY <2>1 DEF EndsIn
<1>2. S \subseteq 0 .. to /\ S \subseteq 0 .. Len(bytes)
  <2>1. \A e \in EndsIn(bytes, from, to) : e \in Nat /\ e <= to
    BY <1>0 DEF EndsIn
  <2>2. \A e \in S : e \in Nat /\ e <= to
    BY <2>1
  <2> HIDE DEF S
  <2>3. \A e \in S : e \in 0 .. to /\ e \in 0 .. Len(bytes)
    BY <1>0, <2>2
  <2> QED BY <2>3
<1>3. Sorts(s, S)
  OBVIOUS
<1> HIDE DEF S
<1>4. InOrder(S, to) = s
  BY <1>2, <1>3, InOrderUnique
<1>5. CutAt(Between(bytes, s), bytes, s)
  BY <1>2, <1>3, BetweenIs
<1>6. Between(bytes, s) = list
  <2>1. s \in Seq(Nat)
    BY <1>3 DEF Sorts
  <2> QED BY <1>5, <2>1, CutUnique
<1> QED BY <1>1, <1>4, <1>6

\* What is read of a stream is cut at its ends.
LEMMA ForwardIsRead ==
  ASSUME NEW bytes \in Seq(Nat), NEW from \in Nat, NEW to \in Nat, from <= to, to <= Len(bytes),
         NEW page \in Nat \ {0}, NEW size \in Nat \ {0}
  PROVE  \E s : /\ Sorts(s, {from} \cup EndsIn(bytes, from, to))
                /\ CutAt(readBulk(Pieces(FlattenSeq(bulkChunks(bytes, from, to, page)), size)),
                         bytes, s)
<1> DEFINE w == FlattenSeq(bulkChunks(bytes, from, to, page))
           n == Len(w)
<1>1. Piece(w, bytes, from, to)
  BY ChunksFlatten
<1> HIDE DEF w
<1>2. w \in Seq(Nat) /\ n = to - from /\ n \in Nat /\ n + from = to
  BY <1>1 DEF Piece
<1> DEFINE list == readBulk(Pieces(w, size))
           U == {0} \cup EndsIn(w, 0, n)
<1>3. PICK s \in Seq(Nat) : Sorts(s, U) /\ CutAt(list, w, s)
  BY <1>2, ReadBulkIs
<1>4. Ends(w) \subseteq 1 .. n
  BY <1>2, EndsAre
<1> HIDE DEF list
<1>5. U = {0} \cup Ends(w) /\ U \subseteq 0 .. to - from
  <2> HIDE DEF n
  <2>1. EndsIn(w, 0, n) = Ends(w)
    <3>1. \A e \in Ends(w) : 0 < e /\ e <= n
      BY <1>2, <1>4
    <3> QED BY <3>1 DEF EndsIn
  <2>2. \A e \in U : e \in 0 .. n
    BY <1>2, <1>4, <2>1
  <2> HIDE DEF U
  <2>3. U \subseteq 0 .. to - from
    BY <1>2, <2>2
  <2> QED BY <2>1, <2>3 DEF U
<1>6. {e + from : e \in U} = {from} \cup EndsIn(bytes, from, to)
  <2>1. {e + from : e \in Ends(w)} = EndsIn(bytes, from, to)
    BY <1>1, EndsOfPiece
  <2>2. 0 + from = from
    OBVIOUS
  <2> HIDE DEF U
  <2>3. {e + from : e \in {0} \cup Ends(w)} = {from} \cup {e + from : e \in Ends(w)}
    BY <2>2
  <2> QED BY <1>5, <2>1, <2>3
<1> HIDE DEF U, n
<1> DEFINE m == MovedBy(s, from)
<1>7. Sorts(m, {e + from : e \in U})
  BY <1>3, SortsMoved
<1>8. CutAt(list, bytes, m)
  BY <1>1, <1>3, <1>5, CutMoved
<1> HIDE DEF m
<1>9. Sorts(m, {from} \cup EndsIn(bytes, from, to))
  BY <1>6, <1>7
<1> QED BY <1>8, <1>9 DEF list, w

ReadsBack(s, list, bytes, from, to, page, size) ==
  /\ Sorts(s, {from} \cup EndsIn(bytes, from, to))
  /\ CutAt(list, bytes, s)
  /\ readReversed(Pieces(FlattenSeq(bulkChunksReversed(bytes, from, to, page)), size))
       = Reverse(list)

LEMMA BackwardIsRead ==
  ASSUME NEW bytes \in Seq(Nat), NEW from \in Nat, NEW to \in Nat, from <= to, to <= Len(bytes),
         NEW page \in Nat \ {0}, FitsFourBytes(page), NEW size \in Nat \ {0}
  PROVE  \E s : \E list : ReadsBack(s, list, bytes, from, to, page, size)
<1>0. PICK t : FramedAs(t, bytes, from, to, page)
  BY ReversedIsFramed
<1>1. /\ Framed(t)
      /\ t.wire = FlattenSeq(bulkChunksReversed(bytes, from, to, page))
      /\ t.bytes = bytes /\ t.down[t.count] = from /\ t.down[0] = to
  BY <1>0 DEF FramedAs
<1>2. PICK r, list : /\ Sorts(r, EndsIn(t.bytes, t.down[t.count], t.down[0]))
                     /\ CutAt(list, t.bytes, <<t.down[t.count]>> \o r)
                     /\ readReversed(Pieces(t.wire, size)) = Reverse(list)
  BY <1>1, ReadReversedIs
<1> DEFINE o == <<from>>
           E == EndsIn(bytes, from, to)
           s == o \o r
<1>3. Sorts(o, {from})
  BY SortsOne
<1>4. Sorts(r, E) /\ CutAt(list, bytes, s)
  BY <1>1, <1>2
<1>5. \A a \in {from} : \A b \in E : a < b
  BY DEF EndsIn
<1> HIDE DEF o, E
<1>6. Sorts(s, {from} \cup E)
  BY <1>3, <1>4, <1>5, SortsMeet
<1>7. readReversed(Pieces(FlattenSeq(bulkChunksReversed(bytes, from, to, page)), size))
        = Reverse(list)
  BY <1>1, <1>2
<1> HIDE DEF s
<1>8. ReadsBack(s, list, bytes, from, to, page, size)
  BY <1>4, <1>6, <1>7 DEF E, ReadsBack
<1> QED BY <1>8

LEMMA BulkIsParsed ==
  ASSUME stream.bytes \in Seq(Nat)
  PROVE  BulkStreamsParse
<1> DEFINE bytes == stream.bytes
<1>0. Len(bytes) \in Nat /\ Ends(bytes) \subseteq 1 .. Len(bytes)
  BY LenProperties, EndsAre
<1>a. bytes \in Seq(Nat) /\ PageSize \in Nat \ {0} /\ FitsFourBytes(PageSize)
      /\ PieceSizes \subseteq Nat \ {0}
  BY ScannerAssumption, BulkAssumption
<1> HIDE DEF bytes
<1>1. ASSUME Asked, NEW from \in {0} \cup Ends(bytes), NEW to \in from .. visible,
             NEW size \in PieceSizes
      PROVE  /\ readBulk(Pieces(FlattenSeq(bulkChunks(bytes, from, to, PageSize)), size))
                  = BlocksIn(from, to)
             /\ readReversed(Pieces(FlattenSeq(bulkChunksReversed(bytes, from, to, PageSize)),
                                    size))
                  = Reverse(BlocksIn(from, to))
  <2>1. from \in Nat /\ to \in Nat /\ from <= to /\ to <= Len(bytes) /\ size \in Nat \ {0}
    <3>1. visible = Len(bytes)
      BY <1>1 DEF Asked, bytes
    <3>2. from \in Nat
      BY <1>0
    <3> QED BY <1>0, <1>a, <3>1, <3>2
  <2> DEFINE page == PageSize
             forward == readBulk(Pieces(FlattenSeq(bulkChunks(bytes, from, to, page)), size))
             backward == readReversed(Pieces(FlattenSeq(bulkChunksReversed(bytes, from, to, page)),
                                             size))
  <2>2. \E s : /\ Sorts(s, {from} \cup EndsIn(bytes, from, to))
               /\ CutAt(forward, bytes, s)
    BY <1>a, <2>1, ForwardIsRead
  <2>3. \E s : \E list : ReadsBack(s, list, bytes, from, to, PageSize, size)
    BY <1>a, <2>1, BackwardIsRead
  <2> HIDE DEF forward, backward, page
  <2> DEFINE blocks == Between(bytes, InOrder({from} \cup {end \in Ends(bytes) : end > from /\ end <= to},
                                              to))
  <2>4. BlocksIn(from, to) = blocks
    BY DEF BlocksIn, bytes
  <2>5. forward = blocks
    <3>1. PICK s : /\ Sorts(s, {from} \cup EndsIn(bytes, from, to))
                   /\ CutAt(forward, bytes, s)
      BY <2>2
    <3> QED BY <1>a, <2>1, <3>1, BlocksBetween
  <2>6. backward = Reverse(blocks)
    <3>0. PICK s, list : ReadsBack(s, list, bytes, from, to, PageSize, size)
      BY <2>3
    <3>1. /\ Sorts(s, {from} \cup EndsIn(bytes, from, to))
          /\ CutAt(list, bytes, s)
          /\ backward = Reverse(list)
      BY <3>0 DEF ReadsBack, backward, page
    <3>2. blocks = list
      BY <1>a, <2>1, <3>1, BlocksBetween
    <3> QED BY <3>1, <3>2
  <2> HIDE DEF blocks
  <2>7. forward = BlocksIn(from, to) /\ backward = Reverse(BlocksIn(from, to))
    BY <2>4, <2>5, <2>6
  <2> QED BY <2>7 DEF forward, backward, page
<1> QED BY <1>1, Zenon DEF BulkStreamsParse, bytes

\* Whatever the pages of the sender and the pieces of the transport, and whatever
\* the stream, the parsers of bulk streams make of it exactly the blocks between
\* the offsets of the query, the reversed one from the last block on.
THEOREM ScannerBulkStreamsParse == Spec => []BulkStreamsParse
<1>1. stream \in Streams => BulkStreamsParse
  <2> SUFFICES ASSUME stream \in Streams PROVE BulkStreamsParse
    OBVIOUS
  <2>1. stream.bytes \in Seq(Nat)
    BY StreamsArePossible DEF Possible, StreamOf
  <2> QED BY <2>1, BulkIsParsed
<1>2. Spec => [](stream \in Streams)
  BY StreamStays
<1> QED BY <1>1, <1>2, PTL
=============================================================================
