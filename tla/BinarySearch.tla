---------------------------- MODULE BinarySearch ----------------------------
(***************************************************************************)
(* The binary search for a timestamp (src/shared/binary-search.js), over   *)
(* the pages of a source of which some have no block of their own: one     *)
(* that ends on them.  The timestamp of a block is that of its first       *)
(* record, here the number with which the record starts.                   *)
(***************************************************************************)
EXTENDS Framing

Page(bytes, n, size) == subarray(bytes, n * size, Min({(n + 1) * size, Len(bytes)}))

HasBlock(bytes, n, size) == Separators(Page(bytes, n, size)) # {}

\* Fault: a block is taken to begin on the page before at the latest.
BeginsNearby(bytes, n, size, end) ==
  1 + Max({lastIndexOf(subarray(bytes, 0, end - 1), end - 2), (n - 1) * size - 1, -1})

\* Behind which byte the block with this end begins: the last separator before
\* it, on its page or on an earlier one, if there is one.
BeginsAt(bytes, n, size, end) == 1 + lastIndexOf(subarray(bytes, 0, end - 1), end - 2)

\* readPageLastBlock(): the last block that ends on a page.
readPageLastBlock(bytes, n, size) ==
  LET end == n * size + Max(Separators(Page(bytes, n, size))) + 1
  IN subarray(bytes, BeginsAt(bytes, n, size, end), end)

\* The timestamp of getPageLog().
TimeOf(bytes, n, size) == parseEach(readPageLastBlock(bytes, n, size))[1][1]

\* One pass of the loop: the first page with a block in the upper half.
Looked(bytes, size, desired, at) ==
  LET midMin == (at.left + at.right) \div 2
      full == {n \in midMin .. at.right : HasBlock(bytes, n, size)}
      midMax == Min(full)
      time == TimeOf(bytes, midMax, size)
  IN CASE full = {} -> [at EXCEPT !.right = midMin - 1]
       [] full # {} /\ desired > time -> [at EXCEPT !.left = midMax + 1, !.prev = midMax]
       [] full # {} /\ desired < time -> [at EXCEPT !.right = midMin - 1, !.prev = midMax]
       [] OTHER -> [at EXCEPT !.prev = midMax, !.found = TRUE]

\* Where a search over so many pages may be.
Places(pages) == [left : 0 .. pages, right : -1 .. pages, prev : 0 .. pages, found : BOOLEAN]

\* The search ends on the last page it has looked at that has a block.
binarySearch(bytes, size, desired) ==
  LET pageCount == CeilDiv(Len(bytes), size)
      search[at \in Places(pageCount)] ==
        IF at.found \/ at.left > at.right THEN at.prev
        ELSE search[Looked(bytes, size, desired, at)]
  IN search[[left |-> 0, right |-> pageCount - 1, prev |-> 0, found |-> FALSE]]
=============================================================================
