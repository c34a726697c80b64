# Models and proofs for super-server-logs

super-server-logs lets the processes of a Node.js cluster append to one
directory of log files without talking to each other, and lets readers, also of
a live directory, query ranges of time without an index. This directory holds
TLA+ models of both sides, the TLC runs that check them and TLAPS proofs of the
main results. Paths below are relative to `src/src/`, line numbers to the
commit the models were written from.

## 1. The system

| Component | State | Operations | Talks to |
| --- | --- | --- | --- |
| Logger (`nodejs/logger.js`) | descriptor, batch and its size, timer, slice marker | log, flush, timer callback, rotate, close | one file, `writevSync` |
| MasterLogger (`nodejs/master-logger.js`) | Logger, set of live worker ids, nonce, DEBUG queue, ping timer | lifecycle records, logs, rotate, close | the application, which reports forks and exits |
| WorkerLogger (`nodejs/worker-logger.js`) | Logger, nonce, DEBUG queue, ping timer | logs, rotate, close, newRequest | told by IPC to rotate |
| RequestLogger (`nodejs/request-logger.js`) | request id, list of DEBUG logs | request records | writes through its WorkerLogger |
| LogManager (`nodejs/log-manager.js`) | current file, poll timer, closed, deletions under way | poll, rotate event, deleteLogs, close | the directory, the application |
| LimitQueue (`nodejs/limit-queue.js`) | circular buffer | push, shift, drain | owned by the loggers |
| LogDirectorySource (`nodejs/log-directory-source.js`) | list of files, sizes, isRotating flags, handles, poll time | setup, read, size, teardown | the directory; called by Vfs |
| Vfs (`shared/vfs.js`, `shared/unique-queue.js`) | busy, closed, page cache and its order of use | setup, read, size, teardown | its source; called by LogReader and Scanner |
| Scanner (`shared/scanner.js`) | page, tail, place inside a block | goto, scans in both directions, updateSize | Vfs |
| Binary search (`shared/binary-search.js`) | none of its own | search for a timestamp | Vfs, for LogReader |
| BoundFinder (`shared/bound-finder.js`) | known and pending workers | reachedUpperBound, reachedLowerBound | LogReader |
| LogReader (`shared/log-reader.js`) | none of its own | tail, range, rangeReversed and their bulk forms | Scanner, BoundFinder |
| Block framing (`shared/common.js`, `shared/block-parser.js`, `shared/bulk-parser.js`) | the unfinished block of a bulk stream | escape, unescape, split into blocks and records | loggers, Scanner, clients of bulk queries |
| Record format (`nodejs/writer.js`, `shared/reader.js`, `shared/log-entry.js`) | none | encode, decode | everything |

What is hard about it:

* The only shared state is a directory of append-only files. There is no lock.
  A reader learns from the records alone when a file is safe to read: the first
  ping of the master names the living workers, each pings after it has moved.
* Processes lag. Timestamps in a file are not sorted; a rotation may be followed
  by another before a worker has seen the first; workers spawn, exit or die, and
  the master dies and returns, at any point of this.
* Writes throw or come back short, in the middle of a method or in a timer.
* A reader's update and the manager's deletion are asynchronous and interleave
  with everything, also with themselves.
* A crash tears the last block at any byte. The next run writes on behind it,
  and parsers must find out where.
* Pages, blocks and the pieces of a transport are cut without regard for each
  other, and the page at the end of a live log fills up while it is being read.

What makes each part correct: a logger loses, repeats and reorders nothing and
strands nothing; a file that looks settled is final in all its predecessors; the
files read end to end tell one consistent story; a reader's offsets never change
their meaning; a range query returns the range; the manager deletes from the old
end only, never before a limit says so; a queue is a queue; a cache holds what
its source holds; a scanner is a cursor over records that forgets none, and
whatever a crash has torn costs no record that was whole. The full list of
hazards is in `PROJECT.json`, each at its line.

## 2. The modules

```
writing    Appender    <--refines-- Logger            -- LoggerProofs
           BoundedFifo <--refines-- LimitQueue <- RequestLogger
                                                      -- RequestLoggerProofs
           Cluster
             |-- DirectorySource   (Cluster + a live reader + deletions)
             |                                        -- DirectorySourceProofs
             `-- LogReader         (queries over Cluster's files)
                                                      -- ClusterProofs (of both)
           LogManager                                 -- LogManagerProofs
reading    UniqueQueue <- Vfs                         -- VfsProofs
           Framing <-+- Scanner --refines--> LogCursor
                     |- BulkParser     } BulkQueries: both, on the
                     `- BinarySearch   } streams of Scanner
                                                      -- ScannerProofs (of all)
```

`FoldLemmas` holds what the proofs share: sums over finite sets, sequences laid
end to end, pieces of sequences, step functions along a sequence, functions
whose recursion goes down, division, numbers in their order and what is cut at
them, and the induction all of it rests on.

`<-` is EXTENDS. `MCCluster`, `MCDirectorySource`, `MCLogReader`,
`MCRequestLogger` and `MCScanner` hold symmetries, state constraints and the
values of constants that a .cfg cannot spell. Operators marked `Fault:` are
plausible bugs, each next to the definition it would replace; nothing in a
specification uses them. They serve to show that each property notices
something.

**Appender** is what the other modules assume of one writing process: records
reach files in order, a whole batch at a time, in the file that is current, and
moving on writes out what is pending. A batch that the file system cuts short
leaves a torn block.

**Logger** is one Logger object. `fd`, `outgoing`, `outgoingSize`, `timer` and
`writeSliceMarker` are the fields of the class; `disk`, `ends` and `marks` what
has been written. Each public method is one action, since JavaScript runs it to
the end; inside it the order of the code decides what has changed when a write
throws. `timer = "spent"` is the field after its callback has thrown: not null,
and never to fire again. `STARTING_UP` of MasterLogger is here because it alone
raises the slice marker. `BufferIsSound` gathers four claims: no timer without
an open file, no batch that nothing will write (unless a write has thrown), no
batch beyond the high water mark, nothing left behind by close().

**Cluster** is a master and its workers. Per process there is a file, a buffer
and a nonce, and, for the master, `workerIds`; `inbox` holds rotate messages.
The high water mark and the timer appear as `MasterFlush` and `WorkerFlush`,
which may come at any time. `Rotate` and `RotatePing` are the two halves of
MasterLogger.rotate(), so that the master can die, and workers can act, between
them. `MasterLogThrows` and `WorkerLogThrows` are logs whose data
JSON.stringify cannot express: json() throws when `_nonce()` has been called and
super.log() has not, so the process goes on with a nonce that no record has, and
`refused` remembers it until the next STARTING_UP. `Settled` is what isRotating()
looks for, and `ScanSays` the loop that looks for it.

**DirectorySource** adds a reader: `files` with their sizes, flags and handles,
and each call of the Vfs cut at its awaits (`rpc` says which call). `ReadDir` is
the readdir, `OpenHandle` and `OpenFails` the opens it waits for,
`CheckSettled`, `CheckRotating` and `CheckNone` the loop over the live files,
`UpdateSize` one of the concurrent stats. A read of a lazy source opens, and
closes, what it needs; setup() may run again after teardown(), with the list of
files of before. `Delete` takes the oldest file from the directory, as
LogManager does; those who have it open keep its content. `mode` covers eager
and lazy, immutable and live, polling and not. `served` is what the caller last
got to see, `missed` says that an update has thrown after it had marked files.

**LogReader** defines BoundFinder and the queries as operators on a sequence of
records and asks, in every state where all processes are gone, for every prefix
of files, every range and every starting position, whether they return what a
filter over the whole sequence returns. The scans are recursive functions of the
place in the sequence: `ForwardTo` and `BackwardTo` are the loops of a query up
to the bound that BoundFinder finds.

**LogManager** maps timestamps, which are file names, to sizes. `nextPoll` and
`poll` are the two halves of a poll around its stat; a job is one call of
deleteLogs(), advanced by `readdir`, `inspect` and `rm`, one await each.

**LimitQueue** is the circular buffer with its doubling, **BoundedFifo** the
queue it implements. The initial capacity of 16 is a parameter.
**RequestLogger** puts that queue to use: DEBUG logs wait in the queue of the
process, or in the list of a request, until an error of their owner is logged.
Data that JSON.stringify rejects makes that record throw, at a different moment
for either: the queue is drained before the record is built, the list of a
request only forgotten after it has been written.

**UniqueQueue** is the doubly linked list of page numbers, field by field.
**Vfs** is one Vfs with several callers and a source. What runs up to the first
await is one action, what follows is another; `SourceSaves` is a call of
saveToCache() from within a source. A byte is its own offset, so a page that
holds the wrong bytes shows. A call that the lock rejects changes nothing and is
no action.

**Framing** is the byte level: escapes, separators, slice markers, and a parser
that drops what is torn. A record is a header, a number of its own that is no
byte (256 and up, so that records can be told apart), and a content of bytes
0 to 255, any of which may need an escape.

**LogCursor** is a position between two records of a log that grows, moved
forward and backward. **Scanner** implements it: `visible` is what the source
has shown so far, of a stream of blocks that may have been torn and restarted
anywhere; `sc` has the fields of the class; `pc` is where a scan awaits. The
refinement maps a tail, a page and a place in a block to the number of records
before the cursor, `Unknown` after a jump until a boundary is passed. tail() of
LogReader appears as the caller that reports a new size when a scan has ended.

**BulkParser** and **BinarySearch** are pure: chunks and pieces in, blocks out;
pages in, a page out. Their loops are recursive functions: of the number of
pieces that have arrived (`ReadPiece`, `ReadReversedPiece`), of the rounds within
a piece (`TakeChunks`), of the bounds of the search (`Places`, of which `Looked` is a round). **BulkQueries** asks about both, in one state of each
stream that a Scanner may meet.

## 3. The runs

| Run | Question | Bounds |
| --- | --- | --- |
| `logger` | Do all orders of the methods, the timer and failing writes keep batch, timer and files consistent, and is every record written, or accounted for by a torn block? Is the logger an Appender? | 2 files, 4 records of 2 sizes around a high water mark of 3, 2 throws, any number of short writes |
| `cluster` | Is a settled file final behind itself, do pings list the living, are workers bracketed by their spawn and exit, is every process's sequence in order, and without a gap but for logs that threw? | 2 workers, 3 files, so two rotations may be in flight, 1 throwing lifecycle write, 1 log per run thrown out after it took its nonce |
| `directory_source` | Do offsets keep their meaning, are passed files complete and handles held and released, in every mode, while files rotate under the reader, the oldest is deleted, opens fail, and the master restarts? | 1 worker, 3 files, 2 runs of the master, 1 session, 1 deletion |
| `directory_source_live` | Does every rotation end and every file get served to a reader that polls on? | 1 worker, 2 files, 2 runs, eager and lazy |
| `log_reader` | Are ranges, tails and bulk ranges complete with workers that spawn, log, exit and lag, with rotations and restarts, from any starting point? | 2 workers, 2 runs, 2 files, 5 records of the master, 3 times; see `Explored` |
| `log_manager` | Does deletion leave holes or come too early, and does polling go on? | 4 times, files of size 0 or 1 with a limit of 2, 2 starts, 1 error |
| `request_logger` | Is the circular buffer a bounded queue, and does every DEBUG log stay with its owner, once and in order, when records cannot be serialised? | capacity 2 doubled twice, limit 7, 10 logs of the worker, 2 of a request |
| `vfs` | Are calls exclusive, is the cache coherent and evicted in the order of use, and does a read return the source? No deadlock | 2 callers, pages of 2, a cache of 5, a source of 8, reads of up to 4 |
| `scanner` | Is a scanner a cursor? Does a scan reach the end, are torn blocks dropped and no others, do bulk streams parse, does the search end next to its bound? | pages of 2, streams of up to 8 bytes, pieces of 1, 3, 5 and 9 |
| `directory_reuse` | Does an eager source keep its files open? **No**, when it is set up again | 1 worker, 2 files, 2 sessions |
| `scanner_empty` | Does a scan reach the end after it began on an empty source? **No** | streams of up to 4 bytes |
| `torn_escape` | Can a block behind any torn one be read? **No**, if it is torn in an escape | streams of up to 6 bytes |

The bounds are the smallest at which the cases meet. Two files show a rotation,
three let a worker be two behind, or let a reader pass a file while a later one
is rotated to. Two workers are needed where one may hide the absence of another
(pings, pending sets), one is enough where only the place of a laggard counts.
Two runs give a restart. Three times put records before, in and after a range.
Sizes 1 and 2 reach the mark of 3 exactly and pass it. In LogManager a file of
size 1 is full, and two full files fill the directory; three overlapping
deletions fit in the clock. Ten logs in a buffer that grows from 2 to 7 wrap
around before and after each doubling and push out old ones. A chunk of five
bytes holds two whole pages and a rest, so eight bytes give saves that put two
pages in and two out, overlap in one, and reads with hits at both ends of a
missing page. Streams of eight bytes have four pages, blocks longer than two
pages, pages without a separator, and a torn block between two whole ones.

Two runs explore a part of the product of their bounds, named in their MC
module. `MCDirectorySource!Explored` leaves out restarts of the master under a
lazy reader or after a deletion, and whatever happens after the last teardown.
`MCLogReader!Explored` is the union of one file in which anything is written,
and of rotations and restarts with one worker and no optional record.

`CHECK_DEADLOCK FALSE` stands in every run but `vfs`: loggers are closed,
clusters go down, scans end, and clocks and counters stop at their bounds.

### Disagreements between code and documentation

Three have a run that shows them:

* **A directory source that is set up again** (`directory_reuse`). teardown()
  closes all handles and keeps the list of files; the next update opens only
  the live ones (log-directory-source.js:85, 102-105). Older files are still
  counted, and read() of them uses a handle that is null. LogReader sets its
  Vfs up for every query. Lines 19-21 say that all log files are opened.
* **A scanner on an empty source** (`scanner_empty`). After goto(0) it is on
  page 0 of none, and updateSize() compares with the page before that
  (scanner.js:212), so the scan ends without the page. The next growth finds
  page 0 to be the last one and reads it: the content comes late, with the
  growth after it, and never if the first growth goes beyond one page.
  docs/readers.md:55 promises that tail() yields new logs indefinitely.
  `MayStartEmpty = FALSE` keeps the case out of `scanner`.
* **A block torn between an escape byte and its code** (`torn_escape`). The
  escape byte of the slice marker is taken for the code (common.js:53) and the
  scan throws. logger.js:144-147 says that parsers should ignore torn data.
  `MayTearEscape = FALSE` keeps the case out of `scanner`.

Four more are visible in the models and are excepted by a property there:

* **A throwing timer flush is not retried.** The handle of the timer that has
  fired stays in `_timer` (logger.js:66), so log() sets no other and outputDelay
  (docs/writers.md:97) is exceeded. `WrittenUnlessFailed` excepts throws.
* **Short writes.** logger.js:149-152 ignores what writevSync returns, so that
  close() (docs/writers.md:135) may leave records out. `WrittenUnlessFailed`
  and `NothingLostOrReordered` account for them by torn blocks.
* **A worker whose spawn could not be written at once** is never listed by a
  ping, although its record is written later (master-logger.js:82-89, against
  11-13). A reader may then take a file for settled too early, which is why the
  properties about settled files are stated for `throws = 0`.
* **close() does not stop a deletion** (log-manager.js:138-178), nor its error
  event, which docs/writers.md:68 excludes. What it deletes is right.

Three errors contradict no line of the documentation: an empty directory is a
TypeError (log-directory-source.js:86); a failed open or stat leaves files
marked as readable with the size they had, so that a gap is served later (line
96; `missed` excepts it); and a DEBUG log that cannot be serialised makes every
later error of its request throw (request-logger.js:76).

## 4. Fairness

`Logger`: weak fairness of the timer, which fires once it is armed (`setTimeout`
on a running loop). `Cluster`: weak fairness of the master's start, of the
second half of a rotation, of its flush (the timer, as Logger shows), of the
workers' handling of messages, of the report of an exit, of workers leaving a
lost master, and of the supervisor that starts a new one. Nothing forces a
rotation, a log or a spawn. `DirectorySource`: strong fairness of the steps of
an update. Every read and every size call checks `nextPollTime`, so an update
runs as long as calls keep coming, although reads that need none intervene and
disable it for a while. A master that stays down for good is excepted in
`EveryFileIsServed`, since its last rotation may then be unfinished; so are a
source that is closed, does not poll or has missed files. The liveness run has
no throwing writes: a WORKER_EXITED that throws leaves an id in the set for
which readers wait for good.

## 5. The proofs

Every invariant that a passing run checks is a theorem, as are the action
property of LogManager and all three refinements: Logger of Appender, LimitQueue
of BoundedFifo, Scanner of LogCursor. They hold for every value of the constants,
any set of workers, callers and requests, all sizes, limits, streams and pieces,
and every outcome of writes. `PROJECT.json` lists them; this is how they are
argued.

**LoggerProofs.** `IInv` is the type invariant and `BufferIsSound`, which are
inductive only together, with two facts that the code tests in their place:
`SizeMatches` (the size is zero exactly when the batch is empty; the code asks
`outgoingSize > 0`) and `SpentMeansThrew`. One lemma covers a flush that returns,
one a flush that throws; the actions cite them. `LoggerImplementsAppender` maps
step by step, with the invariant to know that a skipped flush had nothing to
write. `StartsAreMarked` needs a statement about the batch too
(`PendingStartIsMarked`): while a STARTING_UP waits, the marker stays raised,
also after a write that threw. `RecordsStayInOrder` rests on `OrderInv`: the
files end to end, then the batch, then the next number, follow each other but
for torn blocks, and files not yet rotated to are empty, which makes a write to
the current file an append to the whole.

**ClusterProofs.** `NoWriterBehind` says nothing about the future of a file, so
it is not inductive. `Accounted` adds what keeps a file from settling too early:
as long as worker w is on an earlier file, file f holds no STARTING_UP, no
record about w and no ping without w (`FilesAwait`); the same of the master's
buffer (`BufferFits`), and the living are listed (`LiveAreListed`). `Shape` says
where processes are and that messages lead forward in order; it is inductive by
itself, `Accounted` given `Shape` and no throw.

What is true of the stream is stated of places (f, i) of the directory, since
workers write to files in the middle of it. `Located` says which place of the
stream belongs to which place of a file. For pings and brackets, `LivesFrom` says
from which place on a worker lives, and `LivesInv` adds to the two properties
that `workerIds` are exactly those who live at the end (`MasterKnows`) and that
every living worker's spawning lies before whatever it will write
(`LiveAreSpawned`). A worker that lags writes in the middle: its records change
nobody's life (`Quiet`), and its own life spans the place. For
`EachProcessIsContiguous`, the nonces of a process rise within a run (`Rising`);
in the last run each nonce below a record's is on an earlier one or in `refused`
(`Gapless`); and what a process still buffers continues its count (`OwnCount`),
up to the nonce it will take next. A record behind which there is nothing of its
author (`NothingBeyond`) may be appended in the middle. `ScanIsExact` follows the
fold of isRotating() over a file (`ScanIsAt`), with the first ping as the one
place that decides.

The queries of LogReader need one thing more of the writers, which no run asks
for: time. Timestamps do not rise along the stream, but one record that comes
before another is not younger where it matters (`Precedes`): if it was written by
the author of the other, began that author's life, or the other ends its own
author's. `TimesInv` keeps this of the directory, with what still waits in
buffers. So the stream is `Sound`, at any moment and for any number of files
from the oldest on. Of a sound stream, `ForwardInv` says what BoundFinder knows before a
record: that the set it keeps is the living, if it has one (`KnowsAt`), that
whoever is no longer pending has nothing left to say within the bound, and that
if the bound was reached nobody has. `BackwardInv` is its mirror image. The
queries then differ from a filter over the whole stream only by what the
invariants say is not there. `NoQueryMissesARecord` states this of every state of
a running cluster; the three properties of the run, which wait until everybody is
gone, follow from it.

**DirectorySourceProofs.** `WritersAreUnaware` is the refinement `SourceSpec =>
Spec`, so all of the above holds next to a reader. `ReaderShape` is the reader's
own shape: files in the order of the directory (`InOrder`), and what is known at
each await (`Phases`, `Handles`); `HandlesHeld` follows. `Passed` and `Complete`
say at each await of updateState() what is known of the files it has decided
about: `NobodyBehind`, which the cluster can never undo, gives that a passed file
has no writer and that a size once read is final. `ServedIs` says that what was
served is a part of the readable files end to end; files that grow only behind
what is served (`GrownAfter`), as `Passed` and `Complete` ensure, keep it so.

**LogManagerProofs.** `NoHoles` needs to know of every deletion under way
what it has yet to look at or to remove: `JobIsSound` says that these are the
oldest files there are, whatever other deletions remove and rotations add.
For `NothingDeletedEarly`, `Measured` compares the size a deletion has counted
with what is in the directory now: files only grow and only older ones go, so a
sum over what was seen is at most the sum over what is there (`SumMonotone`).

**RequestLoggerProofs.** `Holds` relates array, capacity, front and length to the
sequence that is in the queue; push, doubling, shift and drain are lemmas about
it, so that the refinement and `CapacityIsBounded` follow. For
`DebugLogsHaveOneHome`, what a request has written and what its list holds are,
put together, all its DEBUG logs (`RequestsHold`); the queue of the worker holds
the latest since it was last drained, as many as the limit allows
(`WorkerHolds`), and what it wrote comes before (`WorkerWrote`).

**VfsProofs.** `LockInv` adds to `CallsAreExclusive` that what is stored for a
call names it. `PageInv` is coherence together with `Listed`: field by field,
next, prev, first and last say that the list is the history `recency`. There is
a lemma for push(), one for delete() at any place, one for shift(), and the
loops of saveToCache() and readFromCache() are followed with them. The arithmetic
(`ExcessFacts`, `WholePagesFacts`) shows that exactly the pages within a chunk
are saved and that the loop which evicts stops with a size within the limit.
`ReadsInFlight` says of a waiting read what it has from the cache: the pages at
both ends of its range, all of them in the source already (`Parts`), so that what
comes back from a source that has grown closes the gap between them, or ends in
it with no page behind.

**ScannerProofs** begins with bytes: escaping and splitting go through a block
step by step, so what has been escaped comes out as it was (`BlockIs`), and a
stream as loggers and crashes leave it is `WellWritten`: between two separators
lies a block that reads as the records that end there, behind whatever was torn.
`ScanInv` says where a scanner is: its chunk is the piece of the stream that its
page and tail name, a position believed to be a boundary is one, the offsets of a
block are neighbouring boundaries, and a scan that has ended has nothing before
it. Types, `OffsetsCoverTheScan` and `ScansReachTheEnds` need only that. With what
is known of the stream, `ParseInv` adds that every block parses, and `CursorInv`
that the records of the block around the position lie in two parts, above and
below it, that change places when the scan turns round; so each step of the
scanner is a step of LogCursor or a stutter. The theorems carry the hypotheses
`~ MayStartEmpty` and, where a block must parse, `~ MayTearEscape`. Both are true
in the run `scanner`, and the runs `scanner_empty` and `torn_escape` show that the
code does not do without them.

The binary search is proved by the invariant of its loop (`Narrows`): whatever is
left out lies on its side of the desired time, and the page found last is next to
what is left. It ends because each round leaves less (`Span`). It needs that the
times of the pages' last blocks rise, which they do in every stream in which
records do (`TimesRise`).

For bulk streams, ends in their order are a sequence that the set determines
(`Sorts`), blocks what is cut there (`CutAt`). The parser has handed out, after
any number of bytes, the blocks that end within them, and holds the rest
(`ReadUpto`). The reversed one knows of the wire that it is chunks behind their
lengths (`Framed`); it has taken those that have come whole (`TookTo`) and handed
out the blocks from the first end it knows of (`BackTo`); `WireTo` is both. This
holds of any bytes, torn or not. It takes `FitsFourBytes` of the size of a chunk,
32 KiB in log-reader.js:8.

Assumptions used: `LoggerAssumption`, `ClusterAssumption`, `SourceAssumption`,
`LogManagerAssumption`, `LimitQueueAssumption`, `RequestAssumption`,
`VfsAssumption`, `ScannerAssumption` and `BulkAssumption`, which say of the
constants what the constructors check, that NoWorker is not a worker and
TheWorker not a request, that the DEBUG logs of RequestLogger are values of its
LimitQueue, that blocks hold records of bytes, and that the length of a chunk
fits four bytes. Theorems about pings, brackets, settled files and queries
inherit `throws = 0` from the properties.

The induction theorems of the library cannot be used with the installed provers.
Where a fold or a recursive function over data is met, a proof takes the least
number, or the smallest subset, at which a claim fails (`LeastNumber`,
`SmallestSubset` in `FoldLemmas`). This gives sums over finite sets, FlattenSeq,
the scan of isRotating(), the scans of BoundFinder, the loops of the page cache,
the binary search and the parsers for all inputs.

Model-checked only: liveness (`WrittenUnlessFailed`, `EveryFileIsServed`), since
ENABLED, on which fairness rests, is out of the prover's reach; and the three
properties of the runs that expect a violation, which are false.

## 6. What is assumed and what is left out

* closeSync succeeds, and so does the close of a reader's handle. Blocks are not
  compressed: zlib gives back what it was given, or throws.
* One block is one atomic append, for readers too, except in Scanner, where
  readers may see any number of its bytes. Blocks are torn by a loss of power,
  after which STARTING_UP comes next in the same file or in a new one; blocks
  cut by short writes of a running process are in Logger only. The clock of a
  machine is shared and does not go backward. IPC keeps order.
* As the documentation asks: STARTING_UP is the first record of a run,
  WORKER_SPAWNED follows the fork, a worker opens the file that is current at
  its fork, and no master starts while workers of the last one run.
* In Cluster only lifecycle writes of the master can throw, and logs whose data
  cannot be expressed; the latter only in the run `cluster`, since nothing but
  the nonces changes and readers do not look at those (the proofs allow any
  number of them everywhere). Nonces do not wrap at 16 bits: a wrap matters only
  to a process that writes 65,536 records in one millisecond.
* A WorkerLogger's records are all WORKER_LOG: BoundFinder and isRotating look
  at nothing of them but the worker id and the time.
* In DirectorySource a poll may come at any time between two calls, whatever
  the interval, and a read fails with ENOENT only.
* In LogReader a starting position is any position, which is all that the binary
  search promises (`SearchEndsNextToTheBound` says more), and a scanner is a
  position between two records (`CursorSpec`).
* Argument checks are left out everywhere.

Not modelled: the byte layout of records (writer.js, reader.js, log-entry.js)
beyond the fields the other modules tell apart, since it is serialisation
without state over time; HTTP parsing in RequestLogger; entry points and the
formatting of file names, which the models use as an order. `PROJECT.json` says
for each component what is left out.

## 7. The plan

Done: Appender and Logger, Cluster, DirectorySource with modes, handles and
deletions, LogReader, LogManager, LimitQueue and RequestLogger, Vfs, Framing,
Scanner, BulkParser and BinarySearch; proofs of every invariant that a passing
run checks, of the action property of LogManager and of the three refinements.

Next:

1. The record format as a round trip, with the wrap of the nonce.
2. A clock that is set back, in LogManager and DirectorySource together.
3. Fair runs of Cluster with a throwing WORKER_EXITED, for how long its id stays.
