--------------------------- MODULE DirectorySource ---------------------------
(***************************************************************************)
(* A reader of a live log directory: LogDirectorySource                    *)
(* (src/nodejs/log-directory-source.js) next to the cluster that writes    *)
(* the files and the LogManager that deletes the oldest of them.  They     *)
(* share nothing but the directory, and every await of updateState() and   *)
(* of a lazy read() is a point where they interleave.  Vfs lets one call   *)
(* run at a time.                                                          *)
(*                                                                         *)
(* Sizes count records; a byte offset into the Vfs is a position in the    *)
(* concatenation of the readable files.  isRotating() reads the file page  *)
(* by page up to its end; since files only grow, it decides on the content *)
(* the file has when its last page is read, and is one step.  A file that  *)
(* is deleted keeps its content for those who have it open.  A poll may    *)
(* come at any time between two calls.                                     *)
(***************************************************************************)
EXTENDS Cluster

CONSTANTS Modes,        \* the options a source may be constructed with
          MaxSessions,  \* bound: calls of setup()
          MaxDeletes    \* bound: files deleted

ASSUME SourceAssumption ==
  /\ Modes \subseteq [lazy : BOOLEAN, immutable : BOOLEAN, polls : BOOLEAN]
  /\ MaxSessions \in Nat /\ MaxDeletes \in Nat

VARIABLES mode,      \* options lazy and immutable, and pollInterval # null
          gone,      \* files 1 .. gone are no longer in the directory
          sessions,  \* calls of setup() so far
          open,      \* setup() has succeeded and teardown() is yet to come
          files,     \* the known files: place in the directory's history,
                     \* size, isRotating, and whether there is a handle
          rpc,       \* what runs: "idle" (nothing), "check" (the loop over
                     \* the live files), "stat" or "read" (inside waitAll)
          checking,  \* the loop's i
          pending,   \* files whose promise waitAll still waits for
          failure,   \* one of its promises was rejected
          missed,    \* an updateState() has thrown after marking files
          served     \* what read(0, size()) returned, or would have, when
                     \* updateState() last finished

reader == <<mode, sessions, open, files, rpc, checking, pending, failure,
            missed, served>>
allVars == <<vars, gone, reader>>

File == [id : Nat, size : Nat, isRotating : BOOLEAN, handle : BOOLEAN]

SourceInit == /\ Init
              /\ mode \in Modes
              /\ gone = 0
              /\ sessions = 0
              /\ open = FALSE
              /\ files = <<>>
              /\ rpc = "idle"
              /\ checking = 0
              /\ pending = {}
              /\ failure = FALSE
              /\ missed = FALSE
              /\ served = <<>>

\* getLiveFiles(): from the last file that is not rotating, or the first.
FirstLive(fs) ==
  CHOOSE i \in DOMAIN fs :
    /\ i = 1 \/ ~fs[i].isRotating
    /\ \A j \in i + 1 .. Len(fs) : fs[j].isRotating

\* The files that size() adds up and read() reads: up to the first rotating.
Readable(fs) == {i \in DOMAIN fs : \A j \in 1 .. i : ~fs[j].isRotating}

\* totalSize of the files before i: the fileOffset of file i.
FileOffset(fs, i) == SumFunctionOnSet([j \in DOMAIN fs |-> fs[j].size],
                                      {j \in Readable(fs) : j < i})

Size(fs) == FileOffset(fs, Len(fs) + 1)

\* includedFiles of a read() of the positions from + 1 .. to.
Included(fs, from, to) ==
  {i \in Readable(fs) : /\ FileOffset(fs, i) < to
                        /\ FileOffset(fs, i) + fs[i].size > from}

\* The concatenated chunks of that read().
Chunks(fs, from, to) ==
  LET Chunk(i) == IF i \in Included(fs, from, to)
                    THEN SubSeq(disk[fs[i].id],
                                Max({from - FileOffset(fs, i), 0}) + 1,
                                Min({to - FileOffset(fs, i), fs[i].size}))
                    ELSE <<>>
  IN FlattenSeq([i \in DOMAIN fs |-> Chunk(i)])

HandlesClosed(fs) == [i \in DOMAIN fs |-> [fs[i] EXCEPT !.handle = FALSE]]

-----------------------------------------------------------------------------
(* How updateState() ends, in setup() or in a call that polls.              *)

Updated(fs) ==
  /\ rpc' = "idle"
  /\ checking' = 0
  /\ pending' = {}
  /\ failure' = FALSE
  /\ open' = TRUE
  /\ files' = IF mode.lazy /\ ~open THEN HandlesClosed(fs) ELSE fs
  /\ served' = Chunks(fs, 0, Size(fs))
  /\ UNCHANGED missed

\* Fault: Promise.all in the place of waitAll, which does not wait for the
\* other promises.
ThrewEarly(fs, waiting) ==
  /\ rpc' = "idle"
  /\ checking' = 0
  /\ pending' = waiting
  /\ failure' = FALSE
  /\ missed' = TRUE
  /\ files' = IF open THEN fs ELSE HandlesClosed(fs)
  /\ UNCHANGED <<open, served>>

\* waitAll() throws once everything has settled, and setup() closes what was
\* opened.
Threw(fs, waiting) ==
  /\ pending' = waiting
  /\ IF waiting # {}
       THEN /\ failure' = TRUE
            /\ files' = fs
            /\ UNCHANGED <<rpc, checking, missed>>
       ELSE /\ failure' = FALSE
            /\ rpc' = "idle"
            /\ checking' = 0
            /\ missed' = (missed \/ rpc # "read")
            /\ files' = IF open THEN fs ELSE HandlesClosed(fs)
  /\ UNCHANGED <<open, served>>

\* One promise of waitAll() is fulfilled.
Fulfilled(fs, i) ==
  LET waiting == pending \ {i} IN
  IF failure THEN Threw(fs, waiting)
  ELSE IF waiting = {} /\ rpc = "stat" THEN Updated(fs)
  ELSE /\ pending' = waiting
       /\ files' = fs
       /\ rpc' = IF waiting = {} THEN "idle" ELSE rpc
       /\ UNCHANGED <<open, checking, failure, missed, served>>

-----------------------------------------------------------------------------
\* Found on top of the known files: what sorts after the last of them.
Found ==
  LET last == IF files = <<>> THEN 0 ELSE Last(files).id
      first == Max({last, gone}) + 1
  IN files \o [k \in 1 .. Max({0, Len(disk) + 1 - first}) |->
                 [id |-> first + k - 1, size |-> 0, isRotating |-> TRUE,
                  handle |-> FALSE]]

\* A source is set up, or a call finds the poll interval over.  An immutable
\* one is only opened when no live server is left.
MayUpdate ==
  /\ rpc = "idle"
  /\ IF open THEN mode.polls /\ UNCHANGED sessions
             ELSE sessions < MaxSessions /\ sessions' = sessions + 1
  /\ mode.immutable => mpc = "down" /\ runs = MaxRuns /\ Live = {}

\* Fault: reading the directory only once.
ReadDirOnce ==
  /\ MayUpdate
  /\ disk # <<>>
  /\ files' = IF files # <<>> THEN files ELSE Found
  /\ rpc' = "check"
  /\ checking' = Len(files')
  /\ UNCHANGED <<vars, gone, mode, open, pending, failure, missed, served>>

\* updateState() starts, or its readdir finds new files.
ReadDir ==
  /\ MayUpdate
  /\ Found # <<>>
  /\ files' = Found
  /\ \/ /\ Last(Found).isRotating
        /\ rpc' = "check"
        /\ checking' = Len(Found)
        /\ UNCHANGED pending
     \/ /\ ~Last(Found).isRotating
        /\ rpc' = "stat"
        /\ pending' = {Len(Found)}
        /\ UNCHANGED checking
  /\ UNCHANGED <<vars, gone, mode, open, failure, missed, served>>

\* Without any file liveFiles[-1].isRotating is a TypeError.
ReadDirEmpty ==
  /\ MayUpdate
  /\ Found = <<>>
  /\ UNCHANGED <<vars, gone, mode, open, files, rpc, checking, pending, failure,
                 missed, served>>

\* openHandle(file), where it has something to do: in isRotating(), in
\* updateSize(), or for a lazy read().
Opens(i) == /\ ~files[i].handle
            /\ \/ i \in pending
               \/ rpc = "check" /\ i = checking /\ files[i].isRotating /\ ~mode.immutable

OpenHandle(i) ==
  /\ Opens(i)
  /\ files[i].id > gone
  /\ LET fs == [files EXCEPT ![i].handle = TRUE] IN
       IF rpc = "read"
         THEN Fulfilled(fs, i)
         ELSE /\ files' = fs
              /\ UNCHANGED <<open, rpc, checking, pending, failure, missed, served>>
  /\ UNCHANGED <<vars, gone, mode, sessions>>

\* ENOENT.
OpenFails(i) ==
  /\ Opens(i)
  /\ files[i].id <= gone
  /\ Threw(files, pending \ {i})
  /\ UNCHANGED <<vars, gone, mode, sessions>>

-----------------------------------------------------------------------------
\* The loop's condition, with isRotating(file) on an open handle.
Checked(i) == /\ rpc = "check"
              /\ i >= FirstLive(files)
              /\ mode.immutable \/ ~files[i].isRotating \/ files[i].handle

StillRotating(i) == /\ ~mode.immutable
                    /\ files[i].isRotating
                    /\ ~Settled(disk[files[i].id])

\* Faults: one file too many; measuring only the file that settled.
CheckSettledOffByOne ==
  /\ Checked(checking)
  /\ ~StillRotating(checking)
  /\ files' = [files EXCEPT ![checking].isRotating = FALSE]
  /\ pending' = FirstLive(files) .. checking + 1
  /\ rpc' = "stat"
  /\ checking' = 0
  /\ UNCHANGED <<vars, gone, mode, sessions, open, failure, missed, served>>

CheckSettledMeasuresOne ==
  /\ Checked(checking)
  /\ ~StillRotating(checking)
  /\ files' = [i \in DOMAIN files |->
                 IF i <= checking THEN [files[i] EXCEPT !.isRotating = FALSE]
                                  ELSE files[i]]
  /\ pending' = {checking}
  /\ rpc' = "stat"
  /\ checking' = 0
  /\ UNCHANGED <<vars, gone, mode, sessions, open, failure, missed, served>>

\* The loop finds file i no longer rotated to: it and all live files before it
\* are readable.
CheckSettled ==
  /\ Checked(checking)
  /\ ~StillRotating(checking)
  /\ LET readable == FirstLive(files) .. checking IN
       /\ files' = [i \in DOMAIN files |->
                      IF i \in readable THEN [files[i] EXCEPT !.isRotating = FALSE]
                                        ELSE files[i]]
       /\ pending' = readable
  /\ rpc' = "stat"
  /\ checking' = 0
  /\ UNCHANGED <<vars, gone, mode, sessions, open, failure, missed, served>>

\* File i is still being rotated to: on to the one before it.
CheckRotating ==
  /\ Checked(checking)
  /\ StillRotating(checking)
  /\ checking' = checking - 1
  /\ UNCHANGED <<vars, gone, mode, sessions, open, files, rpc, pending, failure,
                 missed, served>>

\* The loop ran out of live files: nothing has become readable.
CheckNone ==
  /\ rpc = "check"
  /\ checking < FirstLive(files)
  /\ Updated(files)
  /\ UNCHANGED <<vars, gone, mode, sessions>>

\* updateSize(file), once it is open: the stats run concurrently and finish in
\* any order.
UpdateSize(i) ==
  /\ rpc = "stat"
  /\ i \in pending
  /\ files[i].handle
  /\ Fulfilled([files EXCEPT ![i].size = Len(disk[files[i].id])], i)
  /\ UNCHANGED <<vars, gone, mode, sessions>>

\* A lazy read() closes the files it passes over, unless the next poll needs
\* them, and opens those it reads.  An eager one changes nothing.
Read(from, to) ==
  LET included == Included(files, from, to)
      excluded == {i \in Readable(files) \ included :
                     files[i].handle /\ (mode.polls => i # FirstLive(files))}
      waiting == {i \in included : ~files[i].handle}
  IN /\ open
     /\ rpc = "idle"
     /\ mode.lazy
     /\ excluded \cup waiting # {}
     /\ files' = [i \in DOMAIN files |-> IF i \in excluded
                                           THEN [files[i] EXCEPT !.handle = FALSE]
                                           ELSE files[i]]
     /\ pending' = waiting
     /\ rpc' = IF waiting = {} THEN "idle" ELSE "read"
     /\ UNCHANGED <<vars, gone, mode, sessions, open, checking, failure, missed, served>>

Teardown ==
  /\ open
  /\ rpc = "idle"
  /\ open' = FALSE
  /\ files' = HandlesClosed(files)
  /\ UNCHANGED <<vars, gone, mode, sessions, rpc, checking, pending, failure,
                 missed, served>>

\* The LogManager of the master removes the oldest file, but never the last.
Delete ==
  /\ MasterUp
  /\ gone < MaxDeletes
  /\ gone + 1 < Len(disk)
  /\ gone' = gone + 1
  /\ UNCHANGED <<vars, reader>>

UpdateNext == \/ ReadDir \/ ReadDirEmpty
              \/ CheckSettled \/ CheckRotating \/ CheckNone
              \/ \E i \in DOMAIN files : UpdateSize(i) \/ OpenHandle(i) \/ OpenFails(i)

SourceNext == \/ UpdateNext
              \/ \E from \in 0 .. Size(files) : \E to \in from + 1 .. Size(files) :
                   Read(from, to)
              \/ Teardown

ClusterNext == Next /\ UNCHANGED <<gone, reader>>

SourceSpec == SourceInit /\ [][ClusterNext \/ SourceNext \/ Delete]_allVars

\* The caller polls on, and the file system answers.
FairSourceSpec == SourceSpec /\ Fairness /\ SF_allVars(UpdateNext)

-----------------------------------------------------------------------------
\* The reader's variables keep to their domains.
SourceTypeOK ==
  /\ mode \in Modes
  /\ gone \in 0 .. MaxDeletes
  /\ sessions \in 0 .. MaxSessions
  /\ {open, failure, missed} \subseteq BOOLEAN
  /\ files \in Seq(File)
  /\ rpc \in {"idle", "check", "stat", "read"}
  /\ checking \in Nat
  /\ pending \in SUBSET (DOMAIN files)
  /\ served \in Seq(Record)

\* The known files, end to end.
Known == FlattenSeq([i \in DOMAIN files |-> disk[files[i].id]])

\* Whatever a caller has been given is, and stays, a prefix of the directory
\* read end to end, and every partial read a part of it: no record ever turns
\* up at an offset that was already passed, although old files keep growing
\* while workers lag behind a rotation and others are deleted
\* (log-directory-source.js:84-107, 134-196; vfs.js asks it of every source).
ServedIsPrefix ==
  throws = 0 /\ ~missed =>
    /\ IsPrefix(served, Known)
    /\ rpc = "idle" =>
         \A from \in 0 .. Len(served) : \A to \in from + 1 .. Len(served) :
           Chunks(files, from, to) = SubSeq(served, from + 1, to)

\* Between updates, every file before a readable one is known to its last
\* record: the pass that made the later file readable also brought the earlier
\* ones up to date, and nothing has been written to them since
\* (log-directory-source.js:92-107).
PassedFilesAreComplete ==
  throws = 0 /\ ~missed =>
    \A i, j \in DOMAIN files :
      i < j /\ ~files[j].isRotating /\ pending = {} =>
        ~files[i].isRotating /\ files[i].size = Len(disk[files[i].id])

\* A file that an eager read() would read has a handle.
CanRead(i) == files[i].size > 0 /\ i \in Readable(files) => files[i].handle

\* Handles are neither leaked nor missed: once setup() has failed, or teardown()
\* has run, every handle is closed, whatever was still being opened; and as long
\* as an eager source has been set up only once, it holds every file it serves,
\* so that none can be deleted under it (log-directory-source.js:115-128,
\* 305-316).
HandlesAreHeld ==
  rpc = "idle" =>
    /\ ~open => \A i \in DOMAIN files : ~files[i].handle
    /\ open /\ ~mode.lazy /\ sessions = 1 => \A i \in DOMAIN files : CanRead(i)

\* The same without the exception: log-directory-source.js:19-21 says that the
\* source "eagerly opens all log files in the directory".
EagerFilesAreOpen ==
  rpc = "idle" /\ open /\ ~mode.lazy => \A i \in DOMAIN files : CanRead(i)

\* A source that polls gets to see every file it knows of or will know of,
\* unless the file was deleted or the master stays down for good: every rotation
\* comes to its end, and updateState() notices (docs/writers.md on 'rotate';
\* log-directory-source.js:73-107, 219-246).
EveryFileIsServed ==
  \A f \in 1 .. MaxFiles :
    f \in DOMAIN disk ~> \/ \E i \in Readable(files) : files[i].id = f
                        \/ f <= gone
                        \/ ~open \/ ~mode.polls \/ missed
                        \/ (mpc = "down" /\ runs = MaxRuns)
=============================================================================
