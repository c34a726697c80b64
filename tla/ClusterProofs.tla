---------------------------- MODULE ClusterProofs ----------------------------
(***************************************************************************)
(* For any number of workers, files, restarts and records: what a reader   *)
(* may take from the files a cluster writes, and that what LogReader takes *)
(* from them is all there is.                                              *)
(*                                                                         *)
(* In the order of the module:                                             *)
(*                                                                         *)
(* 1. A file whose contents settle has no writer behind it.  The invariant *)
(*    (IInv) is about a worker that is still on an earlier file than f.    *)
(*    Nothing in f may let isRotating() overlook it: f holds no            *)
(*    STARTING_UP (its master would have found it running), no record      *)
(*    about it, and no ping that leaves it out.  That is kept up by what   *)
(*    is on its way to f: the master's buffer, the set it pings with, and  *)
(*    the rotate messages, which only ever lead a worker forward.          *)
(*                                                                         *)
(* 2. The files read end to end.  A position of FlattenSeq(disk) is        *)
(*    replaced by a place, record i of file f, ordered by Before; there a  *)
(*    flush changes nothing but the end of one file (Grown), and the       *)
(*    invariants can be carried through it:                                *)
(*      - LivesInv: the pings and worker records of the files, and those   *)
(*        the master still buffers, agree with who was spawned and has not *)
(*        exited at their place;                                           *)
(*      - NumbersInv: the nonces of an author rise within a run; in the    *)
(*        last run each smaller one is on an earlier record or was taken   *)
(*        by a log that threw, and what a process has still buffered       *)
(*        continues that count.                                            *)
(*    Both hold although a worker may append to a file that is not the     *)
(*    last, because then nothing about it, and no start, comes after that  *)
(*    file.  What a fold computes is proved by least counterexample:       *)
(*    IsScan is the function the definition of FoldLeft chooses, LaidOut   *)
(*    (of FoldLemmas) that of FlattenSeq.                                  *)
(*                                                                         *)
(* 3. Time.  Records of different processes may lie in the files in        *)
(*    another order than they were made, but not those of one process, nor *)
(*    a record and the start or the end of who wrote it (Ordered);         *)
(*    TimesInv carries that through the buffers.  All that a reader relies *)
(*    on, said of the one sequence the files are read as, is Sound.        *)
(*                                                                         *)
(* 4. The bound finder.  What BoundFinder knows (KnowsAt) is who is alive  *)
(*    where it stands, and whom it no longer waits for has nothing left to *)
(*    say within the bound (ForwardInv, BackwardInv); so where it stops a  *)
(*    scan, nothing is missed, wherever the binary search began it.        *)
(***************************************************************************)
EXTENDS LogReader, FoldLemmas, SequenceTheorems, Integers, SequencesExt,
        TLAPS

-----------------------------------------------------------------------------
(* 1. Files whose contents settle.                                          *)

\* A record that does not make isRotating() give up on worker w.
Fits(record, w) ==
  /\ record.event # "STARTING_UP"
  /\ record.workerId # w
  /\ record.event = "MASTER_PING" => w \in record.workerIds

AllFit(batch, w) == \A i \in DOMAIN batch : Fits(batch[i], w)

MasterOnLast == mpc # "down" => mfile = Len(disk) /\ Len(disk) # 0
NobodyBefore == mpc = "opened" => Live = {}
LiveAreListed == mpc \in {"up", "rotated"} => Live \subseteq workerIds
LiveHaveAFile == \A w \in Live : wfile[w] \in DOMAIN disk
InboxLeadsForward ==
  \A w \in Live : \A i \in DOMAIN inbox[w] :
    /\ wfile[w] < inbox[w][i]
    /\ inbox[w][i] <= Len(disk)
    /\ \A j \in DOMAIN inbox[w] : i < j => inbox[w][i] < inbox[w][j]
NotToldYet ==
  mpc = "rotated" =>
    /\ mbuf = <<>>
    /\ \A w \in Live : /\ wfile[w] < mfile
                       /\ \A i \in DOMAIN inbox[w] : inbox[w][i] < mfile
OwnRecords ==
  \A w \in Live : \A i \in DOMAIN wbuf[w] :
    wbuf[w][i].event = "WORKER_LOG" /\ wbuf[w][i].workerId = w
BufferFits == mpc \in {"up", "rotated"} => \A w \in Live : AllFit(mbuf, w)
FilesAwait ==
  \A w \in Live : \A f \in DOMAIN disk : f > wfile[w] => AllFit(disk[f], w)

\* Where processes are and where they are headed.
Shape == /\ MasterOnLast
         /\ NobodyBefore
         /\ LiveHaveAFile
         /\ InboxLeadsForward
         /\ NotToldYet
         /\ OwnRecords

\* What the files and the master know about them, unless a write has thrown.
Accounted == LiveAreListed /\ BufferFits /\ FilesAwait

IInv == TypeOK /\ Shape /\ (throws = 0 => Accounted)

-----------------------------------------------------------------------------
(* Files and records.                                                       *)

Disks == Seq(Seq(Record))

LEMMA WriteToProperties ==
  ASSUME NEW d \in Disks, NEW f \in DOMAIN d, NEW batch \in Seq(Record)
  PROVE  /\ WriteTo(d, f, batch) \in Disks
         /\ Len(WriteTo(d, f, batch)) = Len(d)
         /\ DOMAIN WriteTo(d, f, batch) = DOMAIN d
         /\ WriteTo(d, f, batch)[f] = d[f] \o batch
         /\ \A g \in DOMAIN d : g # f => WriteTo(d, f, batch)[g] = d[g]
<1>1. d[f] \in Seq(Record)
  BY DEF Disks
<1>2. d[f] \o batch \in Seq(Record)
  BY <1>1, ConcatProperties
<1>3. d \in [1 .. Len(d) -> Seq(Record)] /\ DOMAIN d = 1 .. Len(d) /\ Len(d) \in Nat
  BY LenProperties DEF Disks
<1>4. WriteTo(d, f, batch) \in [1 .. Len(d) -> Seq(Record)]
  BY <1>2, <1>3 DEF WriteTo
<1>5. WriteTo(d, f, batch) \in Disks /\ Len(WriteTo(d, f, batch)) = Len(d)
  <2> DEFINE e == WriteTo(d, f, batch)
  <2>1. e \in [1 .. Len(d) -> Seq(Record)] /\ Len(d) \in Nat
    BY <1>3, <1>4
  <2> HIDE DEF e
  <2>2. e \in Seq(Seq(Record))
    BY <2>1, IsASeq
  <2>3. DOMAIN e = 1 .. Len(e) /\ Len(e) \in Nat /\ DOMAIN e = 1 .. Len(d)
    BY <2>1, <2>2, LenProperties
  <2>4. Len(e) = Len(d)
    BY <2>1, <2>3
  <2> QED BY <2>2, <2>4 DEF Disks, e
<1> QED BY <1>3, <1>4, <1>5 DEF WriteTo

LEMMA NewFileProperties ==
  ASSUME NEW d \in Disks
  PROVE  /\ Append(d, <<>>) \in Disks
         /\ Len(Append(d, <<>>)) = Len(d) + 1
         /\ DOMAIN Append(d, <<>>) = 1 .. Len(d) + 1
         /\ Append(d, <<>>)[Len(d) + 1] = <<>>
         /\ \A g \in DOMAIN d : Append(d, <<>>)[g] = d[g]
<1>1. <<>> \in Seq(Record) /\ DOMAIN d = 1 .. Len(d)
  BY LenProperties DEF Disks
<1> QED BY <1>1, AppendProperties, LenProperties DEF Disks

LEMMA ConcatFits ==
  ASSUME NEW s \in Seq(Record), NEW t \in Seq(Record), NEW w,
         AllFit(s, w), AllFit(t, w)
  PROVE  AllFit(s \o t, w)
<1> SUFFICES ASSUME NEW i \in DOMAIN (s \o t)
             PROVE  Fits((s \o t)[i], w)
  BY DEF AllFit
<1>1. i \in 1 .. Len(s) + Len(t) /\ Len(s) \in Nat /\ Len(t) \in Nat
      /\ DOMAIN s = 1 .. Len(s) /\ DOMAIN t = 1 .. Len(t)
  BY ConcatProperties, LenProperties
<1>2. (s \o t)[i] = IF i <= Len(s) THEN s[i] ELSE t[i - Len(s)]
  BY <1>1, ConcatProperties
<1>3. CASE i <= Len(s)
  <2>1. i \in DOMAIN s
    BY <1>1, <1>3
  <2> QED BY <1>2, <1>3, <2>1 DEF AllFit
<1>4. CASE ~(i <= Len(s))
  <2>1. i - Len(s) \in DOMAIN t
    BY <1>1, <1>4
  <2> QED BY <1>2, <1>4, <2>1 DEF AllFit
<1> QED BY <1>3, <1>4

LEMMA AppendFits ==
  ASSUME NEW s \in Seq(Record), NEW r \in Record, NEW w,
         AllFit(s, w), Fits(r, w)
  PROVE  AllFit(Append(s, r), w)
<1> SUFFICES ASSUME NEW i \in DOMAIN Append(s, r)
             PROVE  Fits(Append(s, r)[i], w)
  BY DEF AllFit
<1>1. i \in 1 .. Len(s) + 1 /\ Len(s) \in Nat /\ DOMAIN s = 1 .. Len(s)
  BY AppendProperties, LenProperties
<1>2. CASE i \in DOMAIN s
  BY <1>1, <1>2, AppendProperties DEF AllFit
<1>3. CASE i = Len(s) + 1
  BY <1>3, AppendProperties
<1> QED BY <1>1, <1>2, <1>3

\* A write whose records fit every worker left behind leaves the file fitting.
LEMMA WriteFits ==
  ASSUME NEW d \in Disks, NEW f \in DOMAIN d, NEW batch \in Seq(Record), NEW w,
         NEW g \in DOMAIN d, AllFit(d[g], w), g = f => AllFit(batch, w)
  PROVE  AllFit(WriteTo(d, f, batch)[g], w)
<1>1. d[g] \in Seq(Record)
  BY DEF Disks
<1>2. CASE g = f
  BY <1>1, <1>2, ConcatFits, WriteToProperties
<1>3. CASE g # f
  BY <1>3, WriteToProperties
<1> QED BY <1>2, <1>3

\* isRotating() keeps waiting for a worker that everything in the file fits.
LEMMA FitsIsNotSettled ==
  ASSUME NEW contents, NEW w, AllFit(contents, w),
         DOMAIN contents = 1 .. Len(contents), Len(contents) \in Nat
  PROVE  ~Settled(contents)
<1> SUFFICES ASSUME Settled(contents) PROVE FALSE
  OBVIOUS
<1>1. PICK i \in DOMAIN contents :
        /\ contents[i].event = "MASTER_PING"
        /\ \A v \in contents[i].workerIds :
             \E j \in i + 1 .. Len(contents) : contents[j].workerId = v
  BY DEF Settled, AllFit, Fits, IsFirstPing
<1>2. w \in contents[i].workerIds
  BY <1>1 DEF AllFit, Fits
<1>3. PICK j \in i + 1 .. Len(contents) : contents[j].workerId = w
  BY <1>1, <1>2
<1>4. j \in DOMAIN contents
  OBVIOUS
<1> QED BY <1>3, <1>4 DEF AllFit, Fits
-----------------------------------------------------------------------------
(* Types and shape.                                                         *)

LEMMA RecordTypes ==
  ASSUME TypeOK
  PROVE  /\ \A event \in Events, id \in Workers \cup {NoWorker}, ids \in SUBSET Workers :
              MasterRecord(event, id, ids) \in Record
         /\ \A w \in Workers : WorkerRecord(w) \in Record
         /\ workerIds \in SUBSET Workers
BY DEF TypeOK, Record, Events, MasterRecord, WorkerRecord

LEMMA MasterFileOpen ==
  ASSUME TypeOK, MasterOnLast, mpc # "down"
  PROVE  mfile \in DOMAIN disk /\ mfile = Len(disk) /\ Len(disk) \in Nat
<1>1. Len(disk) \in Nat /\ DOMAIN disk = 1 .. Len(disk)
  BY LenProperties DEF TypeOK
<1> QED BY <1>1 DEF MasterOnLast

\* A master that logs and flushes keeps the files and its buffer well typed.
LEMMA LogAndFlushTypes ==
  ASSUME TypeOK, MasterOnLast, mpc # "down",
         NEW r \in Record, LogAndFlush(r)
  PROVE  /\ disk' = WriteTo(disk, mfile, Append(mbuf, r))
         /\ Append(mbuf, r) \in Seq(Record)
         /\ disk' \in Disks /\ Len(disk') = Len(disk) /\ DOMAIN disk' = DOMAIN disk
         /\ mbuf' = <<>> /\ mbuf' \in Seq(Record) /\ mnonce' \in Nat
<1>1. Append(mbuf, r) \in Seq(Record)
  BY AppendProperties DEF TypeOK
<1>2. <<>> \in Seq(Record)
  OBVIOUS
<1>3. disk' = WriteTo(disk, mfile, Append(mbuf, r)) /\ mbuf' = <<>> /\ mnonce' \in Nat
  BY DEF LogAndFlush, TypeOK
<1>4. mfile \in DOMAIN disk /\ disk \in Disks
  BY MasterFileOpen DEF TypeOK, Disks
<1>5. /\ disk' \in Disks /\ Len(disk') = Len(disk) /\ DOMAIN disk' = DOMAIN disk
  BY <1>1, <1>3, <1>4, WriteToProperties
<1> QED BY <1>1, <1>2, <1>3, <1>5

LEMMA ThrowTypes ==
  ASSUME TypeOK, NEW r \in Record, LogAndFlushThrows(r)
  PROVE  mbuf' \in Seq(Record) /\ mnonce' \in Nat /\ throws' \in Nat /\ throws' # 0
<1>1. Append(mbuf, r) \in Seq(Record)
  BY AppendProperties DEF TypeOK
<1> QED BY <1>1 DEF LogAndFlushThrows, TypeOK

LEMMA ForkTypes ==
  ASSUME TypeOK, MasterOnLast, mpc # "down", NEW w \in Workers, Forked(w)
  PROVE  /\ wst' \in [Workers -> {"none", "live", "exited", "reaped"}]
         /\ wfile' \in [Workers -> Nat]
         /\ wbuf' \in [Workers -> Seq(Record)]
         /\ wnonce' \in [Workers -> Nat]
         /\ inbox' \in [Workers -> Seq(Nat)]
         /\ Live' = Live \cup {w}
         /\ wfile'[w] = Len(disk) /\ wbuf'[w] = <<>> /\ inbox'[w] = <<>>
         /\ \A v \in Workers \ {w} : /\ wfile'[v] = wfile[v]
                                     /\ wbuf'[v] = wbuf[v] /\ inbox'[v] = inbox[v]
BY MasterFileOpen, SMTT(30) DEF TypeOK, Forked, Live

\* One step per action of the cluster.
LEMMA ShapeStep ==
  ASSUME TypeOK, Shape, [Next]_vars
  PROVE  TypeOK' /\ Shape'
<1> USE DEF Shape
<1>0. /\ disk \in Disks /\ Len(disk) \in Nat /\ DOMAIN disk = 1 .. Len(disk)
      /\ <<>> \in Seq(Record)
      /\ \A w \in Workers : /\ inbox[w] \in Seq(Nat)
                           /\ DOMAIN inbox[w] = 1 .. Len(inbox[w]) /\ Len(inbox[w]) \in Nat
                           /\ wbuf[w] \in Seq(Record)
                           /\ DOMAIN wbuf[w] = 1 .. Len(wbuf[w]) /\ Len(wbuf[w]) \in Nat
  BY LenProperties DEF TypeOK, Disks
<1>r. refused' \in SUBSET ((Workers \cup {NoWorker}) \X Nat)
  <2>1. CASE UNCHANGED refused
    BY <2>1 DEF TypeOK
  <2>2. CASE refused' = {}
    BY <2>2
  <2>3. CASE MasterLogThrows
    BY <2>3 DEF MasterLogThrows, TypeOK
  <2>4. ASSUME NEW w \in Workers, WorkerLogThrows(w)
        PROVE  refused' \in SUBSET ((Workers \cup {NoWorker}) \X Nat)
    BY <2>4 DEF WorkerLogThrows, TypeOK
  <2>5. StartMaster \/ STARTING_UP \/ MasterLog \/ MasterFlush \/ Rotate \/ RotatePing
          \/ StopMaster \/ Tick \/ UNCHANGED vars
        => UNCHANGED refused \/ refused' = {}
    BY DEF StartMaster, STARTING_UP, MasterLog, MasterFlush, Rotate, RotatePing, StopMaster,
           Tick, vars
  <2>6. ASSUME NEW w \in Workers, WorkerNext(w), ~WorkerLogThrows(w) PROVE UNCHANGED refused
    BY <2>6 DEF WorkerNext, WORKER_SPAWNED, WorkerSpawnedThrows, WORKER_EXITED,
       WorkerExitedThrows, LogAndFlushThrows, WorkerLog, WorkerFlush, WorkerRotate, WorkerExit
  <2> QED BY <2>1, <2>2, <2>3, <2>4, <2>5, <2>6 DEF Next, MasterNext
<1>1. CASE StartMaster
  <2>1. disk' \in Disks /\ mfile' = Len(disk') /\ mfile' \in Nat /\ Len(disk') # 0
    <3>1. CASE disk # <<>> /\ mfile' = Len(disk) /\ UNCHANGED disk
      BY <1>0, <3>1, EmptySeq DEF Disks
    <3>2. CASE disk' = Append(disk, <<>>) /\ mfile' = Len(disk) + 1
      BY <1>0, <3>2, NewFileProperties
    <3> QED BY <1>1, <3>1, <3>2 DEF StartMaster
  <2>2. Live' = {}
    BY <1>1 DEF StartMaster, Live
  <2>3. TypeOK'
    BY <1>r, <1>0, <1>1, <2>1 DEF StartMaster, TypeOK, Disks
  <2> QED
    BY <1>1, <2>1, <2>2, <2>3 DEF StartMaster, MasterOnLast, NobodyBefore,
       LiveHaveAFile, InboxLeadsForward, NotToldYet, OwnRecords
<1>2. CASE STARTING_UP
  <2> DEFINE r == MasterRecord("STARTING_UP", NoWorker, {})
  <2>1. r \in Record
    BY RecordTypes DEF Events
  <2> HIDE DEF r
  <2>2. mpc = "opened" /\ LogAndFlush(r) /\ workerIds' = {} /\ mpc' = "up"
        /\ UNCHANGED <<clock, mfile, wst, wfile, wbuf, wnonce, inbox, runs, throws>>
    BY <1>2 DEF STARTING_UP, r
  <2>3. /\ disk' \in Disks /\ Len(disk') = Len(disk) /\ DOMAIN disk' = DOMAIN disk
        /\ mbuf' \in Seq(Record) /\ mnonce' \in Nat
    BY <2>1, <2>2, LogAndFlushTypes
  <2>4. TypeOK'
    BY <1>r, <2>2, <2>3 DEF TypeOK, Disks
  <2> QED
    BY <2>2, <2>3, <2>4 DEF MasterOnLast, NobodyBefore, Live,
       LiveHaveAFile, InboxLeadsForward, NotToldYet, OwnRecords
<1>3. ASSUME NEW w \in Workers, WORKER_SPAWNED(w) PROVE TypeOK' /\ Shape'
  <2> DEFINE r == MasterRecord("WORKER_SPAWNED", w, {})
  <2>1. r \in Record
    BY RecordTypes DEF Events
  <2> HIDE DEF r
  <2>2. mpc = "up" /\ LogAndFlush(r) /\ workerIds' = workerIds \cup {w} /\ Forked(w)
        /\ UNCHANGED <<clock, mpc, mfile, runs, throws>>
    BY <1>3 DEF WORKER_SPAWNED, r
  <2>3. /\ disk' \in Disks /\ Len(disk') = Len(disk) /\ DOMAIN disk' = DOMAIN disk
        /\ mbuf' \in Seq(Record) /\ mnonce' \in Nat
    BY <2>1, <2>2, LogAndFlushTypes
  <2>4. /\ wst' \in [Workers -> {"none", "live", "exited", "reaped"}]
        /\ wfile' \in [Workers -> Nat] /\ wbuf' \in [Workers -> Seq(Record)]
        /\ wnonce' \in [Workers -> Nat] /\ inbox' \in [Workers -> Seq(Nat)]
        /\ Live' = Live \cup {w}
        /\ wfile'[w] = Len(disk) /\ wbuf'[w] = <<>> /\ inbox'[w] = <<>>
        /\ \A v \in Workers \ {w} : /\ wfile'[v] = wfile[v]
                                    /\ wbuf'[v] = wbuf[v] /\ inbox'[v] = inbox[v]
    BY <2>2, ForkTypes
  <2>5. TypeOK'
    BY <1>r, <2>2, <2>3, <2>4 DEF TypeOK, Disks
  <2>6. mfile = Len(disk) /\ Len(disk) # 0 /\ Len(disk) \in DOMAIN disk
    BY <1>0, <2>2 DEF MasterOnLast
  <2>7. /\ w \in Live' /\ DOMAIN <<>> = {}
        /\ \A v \in Live' : v = w \/ (v \in Live /\ v \in Workers \ {w})
    <3>1. w \in Live' /\ w \notin Live
      BY <1>3, <2>4 DEF WORKER_SPAWNED, WorkerSpawnedThrows, Live
    <3>2. \A v \in Live : v \in Workers
      BY DEF Live
    <3> QED BY <2>4, <3>1, <3>2
  <2>8. MasterOnLast' /\ NobodyBefore' /\ NotToldYet'
    BY <2>2, <2>3, <2>6 DEF MasterOnLast, NobodyBefore, NotToldYet
  <2>9. LiveHaveAFile'
    BY <2>3, <2>4, <2>6, <2>7 DEF LiveHaveAFile
  <2>10. InboxLeadsForward'
    BY <2>3, <2>4, <2>7 DEF InboxLeadsForward
  <2>11. OwnRecords'
    <3> SUFFICES ASSUME NEW v \in Live', NEW i \in DOMAIN (wbuf'[v])
                 PROVE  wbuf'[v][i].event = "WORKER_LOG" /\ wbuf'[v][i].workerId = v
      BY DEF OwnRecords
    <3>1. v # w
      BY <2>4, <2>7
    <3>2. v \in Live /\ wbuf'[v] = wbuf[v]
      BY <2>4, <2>7, <3>1
    <3> QED BY <3>2 DEF OwnRecords
  <2> QED BY <2>5, <2>8, <2>9, <2>10, <2>11
<1>4. ASSUME NEW w \in Workers, WorkerSpawnedThrows(w) PROVE TypeOK' /\ Shape'
  <2> DEFINE r == MasterRecord("WORKER_SPAWNED", w, {})
  <2>1. r \in Record
    BY RecordTypes DEF Events
  <2> HIDE DEF r
  <2>2. mpc = "up" /\ LogAndFlushThrows(r) /\ Forked(w)
    BY <1>4 DEF WorkerSpawnedThrows, r
  <2>3. mbuf' \in Seq(Record) /\ mnonce' \in Nat /\ throws' \in Nat
        /\ UNCHANGED <<clock, disk, mpc, mfile, workerIds, runs>>
    BY <2>1, <2>2, ThrowTypes DEF LogAndFlushThrows
  <2>4. /\ wst' \in [Workers -> {"none", "live", "exited", "reaped"}]
        /\ wfile' \in [Workers -> Nat] /\ wbuf' \in [Workers -> Seq(Record)]
        /\ wnonce' \in [Workers -> Nat] /\ inbox' \in [Workers -> Seq(Nat)]
        /\ Live' = Live \cup {w}
        /\ wfile'[w] = Len(disk) /\ wbuf'[w] = <<>> /\ inbox'[w] = <<>>
        /\ \A v \in Workers \ {w} : /\ wfile'[v] = wfile[v]
                                    /\ wbuf'[v] = wbuf[v] /\ inbox'[v] = inbox[v]
    BY <2>2, ForkTypes
  <2>5. TypeOK'
    BY <1>r, <2>3, <2>4 DEF TypeOK
  <2>6. mfile = Len(disk) /\ Len(disk) # 0 /\ Len(disk) \in DOMAIN disk
    BY <1>0, <2>2 DEF MasterOnLast
  <2>7. /\ w \in Live' /\ DOMAIN <<>> = {}
        /\ \A v \in Live' : v = w \/ (v \in Live /\ v \in Workers \ {w})
    <3>1. w \in Live' /\ w \notin Live
      BY <1>4, <2>4 DEF WORKER_SPAWNED, WorkerSpawnedThrows, Live
    <3>2. \A v \in Live : v \in Workers
      BY DEF Live
    <3> QED BY <2>4, <3>1, <3>2
  <2>8. MasterOnLast' /\ NobodyBefore' /\ NotToldYet'
    BY <2>2, <2>3, <2>6 DEF MasterOnLast, NobodyBefore, NotToldYet
  <2>9. LiveHaveAFile'
    BY <2>3, <2>4, <2>6, <2>7 DEF LiveHaveAFile
  <2>10. InboxLeadsForward'
    BY <2>3, <2>4, <2>7 DEF InboxLeadsForward
  <2>11. OwnRecords'
    <3> SUFFICES ASSUME NEW v \in Live', NEW i \in DOMAIN (wbuf'[v])
                 PROVE  wbuf'[v][i].event = "WORKER_LOG" /\ wbuf'[v][i].workerId = v
      BY DEF OwnRecords
    <3>1. v # w
      BY <2>4, <2>7
    <3>2. v \in Live /\ wbuf'[v] = wbuf[v]
      BY <2>4, <2>7, <3>1
    <3> QED BY <3>2 DEF OwnRecords
  <2> QED BY <2>5, <2>8, <2>9, <2>10, <2>11
<1>5. ASSUME NEW w \in Workers, WORKER_EXITED(w) PROVE TypeOK' /\ Shape'
  <2> DEFINE r == MasterRecord("WORKER_EXITED", w, {})
  <2>1. r \in Record
    BY RecordTypes DEF Events
  <2> HIDE DEF r
  <2>2. mpc = "up" /\ wst[w] = "exited" /\ LogAndFlush(r) /\ workerIds' = workerIds \ {w}
        /\ wst' = [wst EXCEPT ![w] = "reaped"]
        /\ UNCHANGED <<clock, mpc, mfile, wfile, wbuf, wnonce, inbox, runs, throws>>
    BY <1>5 DEF WORKER_EXITED, r
  <2>3. /\ disk' \in Disks /\ Len(disk') = Len(disk) /\ DOMAIN disk' = DOMAIN disk
        /\ mbuf' \in Seq(Record) /\ mnonce' \in Nat
    BY <2>1, <2>2, LogAndFlushTypes
  <2>4. TypeOK' /\ Live' = Live
    BY <1>r, <2>2, <2>3 DEF TypeOK, Disks, Live
  <2> QED
    BY <2>2, <2>3, <2>4 DEF MasterOnLast, NobodyBefore,
       LiveHaveAFile, InboxLeadsForward, NotToldYet, OwnRecords
<1>6. ASSUME NEW w \in Workers, WorkerExitedThrows(w) PROVE TypeOK' /\ Shape'
  <2> DEFINE r == MasterRecord("WORKER_EXITED", w, {})
  <2>1. r \in Record
    BY RecordTypes DEF Events
  <2> HIDE DEF r
  <2>2. mpc = "up" /\ wst[w] = "exited" /\ LogAndFlushThrows(r)
        /\ wst' = [wst EXCEPT ![w] = "reaped"] /\ UNCHANGED <<wfile, wbuf, wnonce, inbox>>
    BY <1>6 DEF WorkerExitedThrows, r
  <2>3. mbuf' \in Seq(Record) /\ mnonce' \in Nat /\ throws' \in Nat
        /\ UNCHANGED <<clock, disk, mpc, mfile, workerIds, runs>>
    BY <2>1, <2>2, ThrowTypes DEF LogAndFlushThrows
  <2>4. TypeOK' /\ Live' = Live
    BY <1>r, <2>2, <2>3 DEF TypeOK, Live
  <2> QED
    BY <2>2, <2>3, <2>4 DEF MasterOnLast, NobodyBefore,
       LiveHaveAFile, InboxLeadsForward, NotToldYet, OwnRecords
<1>7. CASE MasterLog
  <2>1. PICK r \in {MasterRecord("MASTER_LOG", NoWorker, {}),
                   MasterRecord("MASTER_PING", NoWorker, workerIds)} :
          mbuf' = Append(mbuf, r)
    BY <1>7 DEF MasterLog
  <2>2. r \in Record
    BY <2>1, RecordTypes DEF Events
  <2>3. Append(mbuf, r) \in Seq(Record)
    BY <2>2, AppendProperties DEF TypeOK
  <2>4. /\ mpc = "up" /\ mnonce' = mnonce + 1
        /\ UNCHANGED <<clock, disk, mpc, mfile, workerIds, workers, runs, throws>>
    BY <1>7 DEF MasterLog
  <2>5. TypeOK' /\ Live' = Live
    BY <1>r, <2>1, <2>3, <2>4 DEF TypeOK, workers, Live
  <2> QED
    BY <2>4, <2>5 DEF workers, MasterOnLast, NobodyBefore,
       LiveHaveAFile, InboxLeadsForward, NotToldYet, OwnRecords
<1>8. CASE MasterFlush
  <2>1. /\ mpc = "up" /\ disk' = WriteTo(disk, mfile, mbuf) /\ mbuf' = <<>>
        /\ UNCHANGED <<clock, mpc, mfile, mnonce, workerIds, workers, runs, throws>>
    BY <1>8 DEF MasterFlush
  <2>2. mfile \in DOMAIN disk /\ mbuf \in Seq(Record)
    BY <2>1, MasterFileOpen DEF TypeOK
  <2>3. disk' \in Disks /\ Len(disk') = Len(disk) /\ DOMAIN disk' = DOMAIN disk
    BY <1>0, <2>1, <2>2, WriteToProperties
  <2>4. TypeOK' /\ Live' = Live
    BY <1>r, <1>0, <2>1, <2>3 DEF TypeOK, workers, Live, Disks
  <2> QED
    BY <2>1, <2>3, <2>4 DEF workers, MasterOnLast, NobodyBefore,
       LiveHaveAFile, InboxLeadsForward, NotToldYet, OwnRecords
<1>9. CASE Rotate
  <2> DEFINE d == WriteTo(disk, mfile, mbuf)
  <2>1. /\ mpc = "up" /\ disk' = Append(d, <<>>) /\ mbuf' = <<>>
        /\ mfile' = Len(disk) + 1 /\ mpc' = "rotated"
        /\ UNCHANGED <<clock, mnonce, workerIds, workers, runs, throws>>
    BY <1>9 DEF Rotate
  <2>2. mfile \in DOMAIN disk /\ mbuf \in Seq(Record)
    BY <2>1, MasterFileOpen DEF TypeOK
  <2>3. d \in Disks /\ Len(d) = Len(disk)
    BY <1>0, <2>2, WriteToProperties
  <2> HIDE DEF d
  <2>4. /\ disk' \in Disks /\ Len(disk') = Len(disk) + 1
        /\ DOMAIN disk' = 1 .. Len(disk) + 1
    BY <2>1, <2>3, NewFileProperties
  <2>5. TypeOK' /\ Live' = Live
    BY <1>r, <1>0, <2>1, <2>4 DEF TypeOK, workers, Live, Disks
  <2>6. \A w \in Live : /\ w \in Workers /\ wfile[w] \in 1 .. Len(disk)
                       /\ \A i \in DOMAIN inbox[w] : inbox[w][i] \in Nat /\ inbox[w][i] <= Len(disk)
    BY <1>0, ElementOfSeq DEF Live, LiveHaveAFile, InboxLeadsForward
  <2> QED
    BY <1>0, <2>1, <2>4, <2>5, <2>6 DEF workers, MasterOnLast, NobodyBefore,
       LiveHaveAFile, InboxLeadsForward, NotToldYet, OwnRecords
<1>10. CASE RotatePing
  <2> DEFINE r == MasterRecord("MASTER_PING", NoWorker, workerIds)
  <2>1. r \in Record
    BY RecordTypes DEF Events
  <2> HIDE DEF r
  <2>2. /\ mpc = "rotated" /\ LogAndFlush(r) /\ mpc' = "up"
        /\ inbox' = [w \in Workers |-> IF wst[w] = "live" THEN Append(inbox[w], mfile)
                                                         ELSE inbox[w]]
        /\ UNCHANGED <<clock, mfile, workerIds, wst, wfile, wbuf, wnonce, runs, throws>>
    BY <1>10 DEF RotatePing, r
  <2>3. /\ disk' \in Disks /\ Len(disk') = Len(disk) /\ DOMAIN disk' = DOMAIN disk
        /\ mbuf' \in Seq(Record) /\ mnonce' \in Nat
    BY <2>1, <2>2, LogAndFlushTypes
  <2>4. mfile = Len(disk) /\ mfile \in Nat
    BY <2>2 DEF MasterOnLast, TypeOK
  <2>5. \A w \in Workers : Append(inbox[w], mfile) \in Seq(Nat)
    BY <1>0, <2>4, AppendProperties
  <2>6. inbox' \in [Workers -> Seq(Nat)]
    BY <1>0, <2>2, <2>5
  <2>7. TypeOK' /\ Live' = Live
    BY <1>r, <2>2, <2>3, <2>6 DEF TypeOK, Live, Disks
  <2>8. ASSUME NEW w \in Live
        PROVE  \A i \in DOMAIN inbox'[w] :
                 /\ wfile'[w] < inbox'[w][i] /\ inbox'[w][i] <= Len(disk')
                 /\ \A j \in DOMAIN inbox'[w] : i < j => inbox'[w][i] < inbox'[w][j]
    <3>1. w \in Workers /\ inbox'[w] = Append(inbox[w], mfile) /\ wfile'[w] = wfile[w]
          /\ wfile[w] \in Nat
      BY <2>2 DEF Live, TypeOK
    <3>2. /\ DOMAIN inbox'[w] = 1 .. Len(inbox[w]) + 1
          /\ inbox'[w][Len(inbox[w]) + 1] = mfile
          /\ \A i \in 1 .. Len(inbox[w]) : inbox'[w][i] = inbox[w][i] /\ inbox[w][i] \in Nat
      BY <1>0, <2>4, <3>1, AppendProperties, LenProperties, ElementOfSeq
    <3>3. wfile[w] < mfile /\ \A i \in DOMAIN inbox[w] : inbox[w][i] < mfile
      BY <2>2 DEF NotToldYet
    <3>4. TAKE i \in DOMAIN inbox'[w]
    <3>5. wfile'[w] < inbox'[w][i] /\ inbox'[w][i] <= Len(disk')
      BY <1>0, <2>3, <2>4, <3>1, <3>2, <3>3, SMTT(30) DEF InboxLeadsForward
    <3>6. ASSUME NEW j \in DOMAIN inbox'[w], i < j PROVE inbox'[w][i] < inbox'[w][j]
      <4>1. i \in 1 .. Len(inbox[w]) /\ Len(inbox[w]) \in Nat
        BY <1>0, <3>1, <3>2, <3>6
      <4>2. CASE j = Len(inbox[w]) + 1
        BY <1>0, <3>1, <3>2, <3>3, <4>1, <4>2
      <4>3. CASE j \in 1 .. Len(inbox[w])
        BY <1>0, <3>1, <3>2, <3>6, <4>1, <4>3 DEF InboxLeadsForward
      <4> QED BY <1>0, <3>1, <3>2, <4>2, <4>3
    <3> QED BY <3>5, <3>6
  <2> QED
    BY <2>2, <2>3, <2>4, <2>7, <2>8 DEF MasterOnLast, NobodyBefore,
       LiveHaveAFile, InboxLeadsForward, NotToldYet, OwnRecords
<1>11. CASE StopMaster
  <2>1. /\ mpc # "down" /\ mpc' = "down" /\ mfile' = 0 /\ mbuf' = <<>> /\ mnonce' = 0
        /\ workerIds' = {} /\ UNCHANGED <<clock, workers, runs, throws>>
        /\ disk' = disk \/ disk' = WriteTo(disk, mfile, mbuf)
    BY <1>11 DEF StopMaster, MasterUp
  <2>2. mfile \in DOMAIN disk /\ mbuf \in Seq(Record)
    BY <2>1, MasterFileOpen DEF TypeOK
  <2>3. disk' \in Disks /\ Len(disk') = Len(disk) /\ DOMAIN disk' = DOMAIN disk
    <3>1. CASE disk' = disk
      BY <1>0, <3>1
    <3>2. CASE disk' = WriteTo(disk, mfile, mbuf)
      BY <1>0, <2>2, <3>2, WriteToProperties
    <3> QED BY <2>1, <3>1, <3>2
  <2>4. TypeOK' /\ Live' = Live
    BY <1>r, <1>0, <2>1, <2>3 DEF TypeOK, workers, Live, Disks
  <2> QED
    BY <2>1, <2>3, <2>4 DEF workers, MasterOnLast, NobodyBefore,
       LiveHaveAFile, InboxLeadsForward, NotToldYet, OwnRecords
<1>12. ASSUME NEW w \in Workers, WorkerLog(w) PROVE TypeOK' /\ Shape'
  <2>1. /\ wbuf' = [wbuf EXCEPT ![w] = Append(@, WorkerRecord(w))]
        /\ wnonce' = [wnonce EXCEPT ![w] = @ + 1] /\ wst[w] = "live"
        /\ UNCHANGED <<clock, disk, master, wst, wfile, inbox, runs, throws>>
    BY <1>12 DEF WorkerLog
  <2>2. WorkerRecord(w) \in Record /\ Append(wbuf[w], WorkerRecord(w)) \in Seq(Record)
    BY <1>0, RecordTypes, AppendProperties
  <2>3. TypeOK' /\ Live' = Live
    BY <1>r, <2>1, <2>2 DEF TypeOK, master, Live
  <2>4. wbuf'[w] = Append(wbuf[w], WorkerRecord(w)) /\ \A v \in Workers \ {w} : wbuf'[v] = wbuf[v]
    BY <2>1 DEF TypeOK
  <2>5. \A i \in DOMAIN wbuf'[w] : wbuf'[w][i].event = "WORKER_LOG" /\ wbuf'[w][i].workerId = w
    <3>1. TAKE i \in DOMAIN wbuf'[w]
    <3>2. i \in 1 .. Len(wbuf[w]) + 1
      BY <1>0, <2>2, <2>4, AppendProperties, LenProperties
    <3>3. CASE i = Len(wbuf[w]) + 1
      BY <1>0, <2>2, <2>4, <3>3, AppendProperties DEF WorkerRecord
    <3>4. CASE i \in DOMAIN wbuf[w]
      <4>1. wbuf'[w][i] = wbuf[w][i]
        BY <1>0, <2>2, <2>4, <3>4, AppendProperties
      <4> QED BY <2>1, <3>4, <4>1 DEF OwnRecords, Live
    <3> QED BY <1>0, <3>2, <3>3, <3>4
  <2>6. OwnRecords'
    BY <2>3, <2>4, <2>5 DEF OwnRecords, Live
  <2> QED
    BY <2>1, <2>3, <2>6 DEF master, MasterOnLast, NobodyBefore,
       LiveHaveAFile, InboxLeadsForward, NotToldYet
<1>13. ASSUME NEW w \in Workers, WorkerFlush(w) PROVE TypeOK' /\ Shape'
  <2>1. /\ wst[w] = "live" /\ disk' = WriteTo(disk, wfile[w], wbuf[w])
        /\ wbuf' = [wbuf EXCEPT ![w] = <<>>]
        /\ UNCHANGED <<clock, master, wst, wfile, wnonce, inbox, runs, throws>>
    BY <1>13 DEF WorkerFlush
  <2>2. wfile[w] \in DOMAIN disk
    BY <2>1 DEF LiveHaveAFile, Live
  <2>3. disk' \in Disks /\ Len(disk') = Len(disk) /\ DOMAIN disk' = DOMAIN disk
    <3>1. disk \in Disks /\ wbuf[w] \in Seq(Record)
      BY <1>0
    <3> QED BY <2>1, <2>2, <3>1, WriteToProperties
  <2>4. TypeOK' /\ Live' = Live
    BY <1>r, <1>0, <2>1, <2>3 DEF TypeOK, master, Live, Disks
  <2>5. OwnRecords'
    BY <1>0, <2>1, <2>4 DEF OwnRecords, TypeOK, Live
  <2> QED
    BY <2>1, <2>3, <2>4, <2>5 DEF master, MasterOnLast, NobodyBefore,
       LiveHaveAFile, InboxLeadsForward, NotToldYet
<1>14. ASSUME NEW w \in Workers, WorkerRotate(w) PROVE TypeOK' /\ Shape'
  <2> DEFINE f == Head(inbox[w])
             d == WriteTo(disk, wfile[w], wbuf[w])
  <2>1. /\ wst[w] = "live" /\ inbox[w] # <<>>
        /\ disk' = WriteTo(d, f, <<WorkerRecord(w)>>)
        /\ wfile' = [wfile EXCEPT ![w] = f] /\ wbuf' = [wbuf EXCEPT ![w] = <<>>]
        /\ wnonce' = [wnonce EXCEPT ![w] = @ + 1] /\ inbox' = [inbox EXCEPT ![w] = Tail(@)]
        /\ UNCHANGED <<clock, master, wst, runs, throws>>
    BY <1>14 DEF WorkerRotate
  <2>2. wfile[w] \in DOMAIN disk /\ w \in Live
    BY <2>1 DEF LiveHaveAFile, Live
  <2>3. /\ inbox[w] \in Seq(Nat) /\ Len(inbox[w]) \in Nat \ {0} /\ f = inbox[w][1]
        /\ 1 \in DOMAIN inbox[w] /\ f \in Nat
    BY <1>0, <2>1, EmptySeq
  <2>4. wfile[w] < f /\ f <= Len(disk) /\ f \in DOMAIN disk
    BY <1>0, <2>2, <2>3 DEF InboxLeadsForward
  <2>5. d \in Disks /\ Len(d) = Len(disk) /\ DOMAIN d = DOMAIN disk
    BY <1>0, <2>2, WriteToProperties, ZenonT(30)
  <2>6. <<WorkerRecord(w)>> \in Seq(Record)
    BY RecordTypes
  <2> HIDE DEF d
  <2>7. disk' \in Disks /\ Len(disk') = Len(disk) /\ DOMAIN disk' = DOMAIN disk
    BY <2>1, <2>4, <2>5, <2>6, WriteToProperties, ZenonT(30)
  <2>8. /\ Tail(inbox[w]) \in Seq(Nat)
        /\ DOMAIN Tail(inbox[w]) = 1 .. Len(inbox[w]) - 1
        /\ \A i \in 1 .. Len(inbox[w]) - 1 :
              /\ Tail(inbox[w])[i] = inbox[w][i + 1]
              /\ i + 1 \in DOMAIN inbox[w] /\ inbox[w][i + 1] \in Nat
    BY <1>0, <2>1, <2>3, HeadTailProperties, LenProperties, ElementOfSeq
  <2>9. TypeOK' /\ Live' = Live
    <3>1. /\ wfile' \in [Workers -> Nat] /\ wbuf' \in [Workers -> Seq(Record)]
          /\ wnonce' \in [Workers -> Nat]
      BY <1>0, <2>1, <2>3 DEF TypeOK
    <3>2. inbox' \in [Workers -> Seq(Nat)]
      BY <2>1, <2>8 DEF TypeOK
    <3>3. UNCHANGED <<clock, mpc, mfile, mbuf, mnonce, workerIds, wst, runs, throws>>
      BY <2>1 DEF master
    <3> QED BY <1>r, <2>7, <3>1, <3>2, <3>3 DEF TypeOK, Live, Disks
  <2>10. /\ wfile'[w] = f /\ wbuf'[w] = <<>> /\ inbox'[w] = Tail(inbox[w])
         /\ \A v \in Workers \ {w} : /\ wfile'[v] = wfile[v]
                                     /\ wbuf'[v] = wbuf[v] /\ inbox'[v] = inbox[v]
    BY <2>1 DEF TypeOK
  <2>11. \A i \in DOMAIN inbox'[w] :
           /\ wfile'[w] < inbox'[w][i] /\ inbox'[w][i] <= Len(disk')
           /\ \A j \in DOMAIN inbox'[w] : i < j => inbox'[w][i] < inbox'[w][j]
    <3>1. TAKE i \in DOMAIN inbox'[w]
    <3>2. /\ inbox'[w][i] = inbox[w][i + 1] /\ i + 1 \in DOMAIN inbox[w]
          /\ i \in Nat /\ 1 < i + 1
      BY <2>3, <2>8, <2>10
    <3>3. f < inbox[w][i + 1] /\ inbox[w][i + 1] <= Len(disk)
      BY <2>2, <2>3, <3>2 DEF InboxLeadsForward
    <3>4. ASSUME NEW j \in DOMAIN inbox'[w], i < j PROVE inbox'[w][i] < inbox'[w][j]
      <4>1. inbox'[w][j] = inbox[w][j + 1] /\ j + 1 \in DOMAIN inbox[w] /\ i + 1 < j + 1
        BY <2>3, <2>8, <2>10, <3>2, <3>4
      <4> QED BY <2>2, <3>2, <4>1 DEF InboxLeadsForward
    <3> QED BY <2>7, <2>10, <3>2, <3>3, <3>4
  <2>12. InboxLeadsForward'
    BY <2>7, <2>9, <2>10, <2>11 DEF InboxLeadsForward, Live
  <2>13. NotToldYet'
    <3>1. SUFFICES ASSUME mpc = "rotated" PROVE NotToldYet'
      BY <2>1 DEF NotToldYet, master
    <3>2. f < mfile /\ \A i \in DOMAIN inbox'[w] : inbox'[w][i] < mfile
      BY <2>2, <2>3, <2>8, <2>10, <3>1 DEF NotToldYet
    <3> QED BY <2>1, <2>9, <2>10, <3>1, <3>2 DEF NotToldYet, master, Live
  <2>14. OwnRecords'
    BY <2>9, <2>10 DEF OwnRecords, Live
  <2> QED
    BY <2>1, <2>4, <2>7, <2>9, <2>10, <2>12, <2>13, <2>14
       DEF master, MasterOnLast, NobodyBefore, LiveHaveAFile, Live
<1>15. ASSUME NEW w \in Workers, WorkerExit(w) PROVE TypeOK' /\ Shape'
  <2>1. /\ wst[w] = "live" /\ wst' = [wst EXCEPT ![w] = "exited"]
        /\ disk' = disk \/ disk' = WriteTo(disk, wfile[w], wbuf[w])
        /\ wfile' = [wfile EXCEPT ![w] = 0] /\ wbuf' = [wbuf EXCEPT ![w] = <<>>]
        /\ wnonce' = [wnonce EXCEPT ![w] = 0] /\ inbox' = [inbox EXCEPT ![w] = <<>>]
        /\ UNCHANGED <<clock, master, runs, throws>>
    BY <1>15 DEF WorkerExit
  <2>2. wfile[w] \in DOMAIN disk
    BY <2>1 DEF LiveHaveAFile, Live
  <2>3. disk' \in Disks /\ Len(disk') = Len(disk) /\ DOMAIN disk' = DOMAIN disk
    <3>1. CASE disk' = disk
      BY <1>0, <3>1
    <3>2. CASE disk' = WriteTo(disk, wfile[w], wbuf[w])
      <4>1. disk \in Disks /\ wbuf[w] \in Seq(Record)
        BY <1>0
      <4> QED BY <2>2, <3>2, <4>1, WriteToProperties
    <3> QED BY <2>1, <3>1, <3>2
  <2>4. TypeOK'
    BY <1>r, <1>0, <2>1, <2>3 DEF TypeOK, master, Disks
  <2>5. Live' = Live \ {w}
    BY <2>1 DEF Live, TypeOK
  <2>6. \A v \in Live' : wfile'[v] = wfile[v] /\ wbuf'[v] = wbuf[v] /\ inbox'[v] = inbox[v]
    BY <2>1, <2>5 DEF TypeOK, Live
  <2> QED
    BY <2>1, <2>3, <2>4, <2>5, <2>6 DEF master, MasterOnLast, NobodyBefore,
       LiveHaveAFile, InboxLeadsForward, NotToldYet, OwnRecords
<1>16. CASE Tick \/ UNCHANGED vars
  <2>1. /\ UNCHANGED <<disk, master, workers, runs, throws>>
        /\ clock' = clock \/ (clock < MaxTime /\ clock' = clock + 1)
    BY <1>16 DEF Tick, vars, master, workers
  <2>2. TypeOK' /\ Live' = Live
    BY <1>r, <2>1, ClusterAssumption DEF TypeOK, master, workers, Live
  <2> QED
    BY <2>1, <2>2 DEF master, workers, MasterOnLast, NobodyBefore,
       LiveHaveAFile, InboxLeadsForward, NotToldYet, OwnRecords
<1>17. CASE MasterLogThrows
  <2>1. /\ mnonce' = mnonce + 1
        /\ UNCHANGED <<clock, disk, mpc, mfile, mbuf, workerIds, workers, runs, throws>>
    BY <1>17 DEF MasterLogThrows
  <2>2. TypeOK' /\ Live' = Live
    BY <1>r, <2>1 DEF TypeOK, workers, Live
  <2> QED
    BY <2>1, <2>2 DEF workers, MasterOnLast, NobodyBefore,
       LiveHaveAFile, InboxLeadsForward, NotToldYet, OwnRecords
<1>18. ASSUME NEW w \in Workers, WorkerLogThrows(w) PROVE TypeOK' /\ Shape'
  <2>1. /\ wnonce' = [wnonce EXCEPT ![w] = @ + 1]
        /\ UNCHANGED <<clock, disk, master, wst, wfile, wbuf, inbox, runs, throws>>
    BY <1>18 DEF WorkerLogThrows
  <2>2. TypeOK' /\ Live' = Live
    BY <1>r, <2>1 DEF TypeOK, master, Live
  <2> QED
    BY <2>1, <2>2 DEF master, MasterOnLast, NobodyBefore,
       LiveHaveAFile, InboxLeadsForward, NotToldYet, OwnRecords
<1> QED
  BY <1>1, <1>2, <1>3, <1>4, <1>5, <1>6, <1>7, <1>8, <1>9, <1>10, <1>11, <1>12,
     <1>13, <1>14, <1>15, <1>16, <1>17, <1>18 DEF Next, MasterNext, WorkerNext
-----------------------------------------------------------------------------
(* What is known about the workers left behind.                             *)

\* The records of one worker fit every other.
LEMMA OthersFit ==
  ASSUME NEW x, NEW w, x # w, NEW batch,
         \A i \in DOMAIN batch : batch[i].event = "WORKER_LOG" /\ batch[i].workerId = x
  PROVE  AllFit(batch, w)
BY DEF AllFit, Fits

\* Whatever the master may write next fits the live workers.
LEMMA MasterRecordsFit ==
  ASSUME TypeOK, Accounted, mpc \in {"up", "rotated"}, NEW w \in Live
  PROVE  /\ \A event \in Events \ {"STARTING_UP", "MASTER_PING"},
               id \in (Workers \cup {NoWorker}) \ {w} :
              Fits(MasterRecord(event, id, {}), w)
         /\ Fits(MasterRecord("MASTER_PING", NoWorker, workerIds), w)
         /\ AllFit(mbuf, w) /\ AllFit(<<>>, w) /\ w \in Workers
<1>1. w \in Workers /\ NoWorker # w /\ w \in workerIds
  BY ClusterAssumption DEF Accounted, LiveAreListed, Live
<1>2. AllFit(<<>>, w)
  BY DEF AllFit
<1>3. AllFit(mbuf, w)
  BY DEF Accounted, BufferFits
<1> QED BY <1>1, <1>2, <1>3 DEF Fits, MasterRecord

\* A write of the master that fits worker w keeps the files w has yet to reach.
LEMMA MasterWriteAwaits ==
  ASSUME TypeOK, MasterOnLast, FilesAwait, mpc # "down",
         NEW w \in Live, NEW batch \in Seq(Record), AllFit(batch, w),
         NEW f \in DOMAIN disk, f > wfile[w]
  PROVE  AllFit(WriteTo(disk, mfile, batch)[f], w)
<1>1. mfile \in DOMAIN disk /\ disk \in Disks
  BY MasterFileOpen DEF TypeOK, Disks
<1>2. AllFit(disk[f], w)
  BY DEF FilesAwait
<1> QED BY <1>1, <1>2, WriteFits

\* So does a flush of another worker.
LEMMA WorkerWriteAwaits ==
  ASSUME TypeOK, Shape, FilesAwait, NEW x \in Live, NEW w \in Live, x # w,
         NEW f \in DOMAIN disk, f > wfile[w]
  PROVE  AllFit(WriteTo(disk, wfile[x], wbuf[x])[f], w)
<1>1. wfile[x] \in DOMAIN disk /\ disk \in Disks /\ wbuf[x] \in Seq(Record)
  BY DEF TypeOK, Disks, Shape, LiveHaveAFile, Live
<1>2. AllFit(disk[f], w)
  BY DEF FilesAwait
<1>3. AllFit(wbuf[x], w)
  BY OthersFit DEF Shape, OwnRecords
<1> QED BY <1>1, <1>2, <1>3, WriteFits

\* One step per action; those that throw are excluded by throws' = 0.
LEMMA AccountedStep ==
  ASSUME TypeOK, Shape, Accounted, [Next]_vars, throws = 0, throws' = 0
  PROVE  Accounted'
<1>0. /\ disk \in Disks /\ Len(disk) \in Nat /\ DOMAIN disk = 1 .. Len(disk)
      /\ mbuf \in Seq(Record) /\ FilesAwait /\ MasterOnLast
      /\ Live \subseteq Workers
  BY LenProperties DEF TypeOK, Disks, Accounted, Shape, Live
<1>1. CASE StartMaster \/ STARTING_UP
  <2>1. Live' = {}
    BY <1>1 DEF StartMaster, STARTING_UP, Live, Shape, NobodyBefore
  <2> QED BY <2>1 DEF Accounted, LiveAreListed, BufferFits, FilesAwait
<1>2. ASSUME NEW x \in Workers, WORKER_SPAWNED(x) PROVE Accounted'
  <2> DEFINE r == MasterRecord("WORKER_SPAWNED", x, {})
  <2>1. r \in Record /\ \A w \in Live : x # w /\ Fits(r, w)
    <3>1. \A w \in Live : x # w
      BY <1>2 DEF WORKER_SPAWNED, Live
    <3>2. mpc \in {"up", "rotated"}
      BY <1>2 DEF WORKER_SPAWNED
    <3>3. r \in Record
      BY RecordTypes DEF Events
    <3> QED BY <3>1, <3>2, <3>3, MasterRecordsFit DEF Events
  <2> HIDE DEF r
  <2>2. mpc = "up" /\ LogAndFlush(r) /\ workerIds' = workerIds \cup {x} /\ Forked(x)
    BY <1>2 DEF WORKER_SPAWNED, r
  <2>3. /\ disk' = WriteTo(disk, mfile, Append(mbuf, r)) /\ mbuf' = <<>>
        /\ Append(mbuf, r) \in Seq(Record) /\ DOMAIN disk' = DOMAIN disk
    BY <1>0, <2>1, <2>2, LogAndFlushTypes
  <2>4. /\ Live' = Live \cup {x} /\ wfile'[x] = Len(disk)
        /\ \A v \in Workers \ {x} : wfile'[v] = wfile[v]
    BY <1>0, <2>2, ForkTypes
  <2>5. LiveAreListed' /\ BufferFits'
    BY <2>2, <2>3, <2>4 DEF Accounted, LiveAreListed, BufferFits, AllFit
  <2>6. FilesAwait'
    <3> SUFFICES ASSUME NEW v \in Live', NEW f \in DOMAIN disk', f > wfile'[v]
                 PROVE  AllFit(disk'[f], v)
      BY DEF FilesAwait
    <3>1. v # x
      BY <1>0, <2>3, <2>4
    <3>2. v \in Live /\ wfile'[v] = wfile[v]
      BY <1>0, <2>4, <3>1
    <3>3. AllFit(Append(mbuf, r), v)
      BY <1>0, <2>1, <2>2, <3>2, AppendFits, MasterRecordsFit
    <3> QED BY <1>0, <2>2, <2>3, <3>2, <3>3, MasterWriteAwaits
  <2> QED BY <2>5, <2>6 DEF Accounted
<1>3. ASSUME NEW x \in Workers, WORKER_EXITED(x) PROVE Accounted'
  <2> DEFINE r == MasterRecord("WORKER_EXITED", x, {})
  <2>1. r \in Record /\ \A w \in Live : x # w /\ Fits(r, w)
    <3>1. \A w \in Live : x # w
      BY <1>3 DEF WORKER_EXITED, Live
    <3>2. mpc \in {"up", "rotated"}
      BY <1>3 DEF WORKER_EXITED
    <3>3. r \in Record
      BY RecordTypes DEF Events
    <3> QED BY <3>1, <3>2, <3>3, MasterRecordsFit DEF Events
  <2> HIDE DEF r
  <2>2. mpc = "up" /\ LogAndFlush(r) /\ workerIds' = workerIds \ {x}
        /\ wst[x] = "exited" /\ wst' = [wst EXCEPT ![x] = "reaped"] /\ UNCHANGED wfile
    BY <1>3 DEF WORKER_EXITED, r
  <2>3. /\ disk' = WriteTo(disk, mfile, Append(mbuf, r)) /\ mbuf' = <<>>
        /\ Append(mbuf, r) \in Seq(Record) /\ DOMAIN disk' = DOMAIN disk
    BY <1>0, <2>1, <2>2, LogAndFlushTypes
  <2>4. Live' = Live
    BY <2>2 DEF Live, TypeOK
  <2>5. LiveAreListed' /\ BufferFits'
    BY <2>1, <2>2, <2>3, <2>4 DEF Accounted, LiveAreListed, BufferFits, AllFit
  <2>6. FilesAwait'
    <3> SUFFICES ASSUME NEW v \in Live, NEW f \in DOMAIN disk, f > wfile[v]
                 PROVE  AllFit(disk'[f], v)
      BY <2>2, <2>3, <2>4 DEF FilesAwait
    <3>1. AllFit(Append(mbuf, r), v)
      BY <1>0, <2>1, <2>2, AppendFits, MasterRecordsFit
    <3> QED BY <1>0, <2>2, <2>3, <3>1, MasterWriteAwaits
  <2> QED BY <2>5, <2>6 DEF Accounted
<1>4. CASE MasterLog
  <2>1. PICK r \in {MasterRecord("MASTER_LOG", NoWorker, {}),
                   MasterRecord("MASTER_PING", NoWorker, workerIds)} :
          mbuf' = Append(mbuf, r)
    BY <1>4 DEF MasterLog
  <2>2. mpc = "up" /\ UNCHANGED <<disk, mpc, workerIds, wst, wfile>>
    BY <1>4 DEF MasterLog, workers
  <2>3. r \in Record
    BY <2>1, RecordTypes DEF Events
  <2>4. \A w \in Live : Fits(r, w)
    BY <2>1, <2>2, MasterRecordsFit, ClusterAssumption DEF Events, Live
  <2>5. \A w \in Live : AllFit(mbuf', w)
    BY <1>0, <2>1, <2>2, <2>3, <2>4, AppendFits, MasterRecordsFit
  <2> QED BY <2>2, <2>5 DEF Accounted, LiveAreListed, BufferFits, FilesAwait, Live
<1>5. CASE MasterFlush
  <2>1. /\ mpc = "up" /\ disk' = WriteTo(disk, mfile, mbuf) /\ mbuf' = <<>>
        /\ UNCHANGED <<mpc, workerIds, wst, wfile>>
    BY <1>5 DEF MasterFlush, workers
  <2>2. mfile \in DOMAIN disk
    BY <1>0, <2>1, MasterFileOpen
  <2>3. DOMAIN disk' = DOMAIN disk /\ Live' = Live
    BY <1>0, <2>1, <2>2, WriteToProperties DEF Live
  <2>4. FilesAwait'
    <3> SUFFICES ASSUME NEW v \in Live, NEW f \in DOMAIN disk, f > wfile[v]
                 PROVE  AllFit(disk'[f], v)
      BY <2>1, <2>3 DEF FilesAwait
    <3>1. AllFit(mbuf, v)
      BY <2>1, MasterRecordsFit
    <3> QED BY <1>0, <2>1, <3>1, MasterWriteAwaits
  <2> QED BY <2>1, <2>3, <2>4 DEF Accounted, LiveAreListed, BufferFits, AllFit
<1>6. CASE Rotate
  <2> DEFINE d == WriteTo(disk, mfile, mbuf)
  <2>1. /\ mpc = "up" /\ disk' = Append(d, <<>>) /\ mbuf' = <<>>
        /\ mpc' = "rotated" /\ UNCHANGED <<workerIds, wst, wfile>>
    BY <1>6 DEF Rotate, workers
  <2>2. mfile \in DOMAIN disk
    BY <1>0, <2>1, MasterFileOpen
  <2>3. d \in Disks /\ Len(d) = Len(disk) /\ DOMAIN d = DOMAIN disk
    BY <1>0, <2>2, WriteToProperties
  <2>4. \A v \in Live : \A f \in DOMAIN disk : f > wfile[v] => AllFit(d[f], v)
    BY <1>0, <2>1, MasterRecordsFit, MasterWriteAwaits
  <2> HIDE DEF d
  <2>5. /\ DOMAIN disk' = 1 .. Len(disk) + 1 /\ disk'[Len(disk) + 1] = <<>>
        /\ \A g \in DOMAIN disk : disk'[g] = d[g]
    BY <2>1, <2>3, NewFileProperties
  <2>6. FilesAwait'
    <3> SUFFICES ASSUME NEW v \in Live, NEW f \in DOMAIN disk', f > wfile[v]
                 PROVE  AllFit(disk'[f], v)
      BY <2>1 DEF FilesAwait, Live
    <3>1. CASE f \in DOMAIN disk
      BY <2>4, <2>5, <3>1
    <3>2. CASE f = Len(disk) + 1
      BY <2>5, <3>2 DEF AllFit
    <3> QED BY <1>0, <2>5, <3>1, <3>2
  <2> QED BY <2>1, <2>6 DEF Accounted, LiveAreListed, BufferFits, AllFit, Live
<1>7. CASE RotatePing
  <2> DEFINE r == MasterRecord("MASTER_PING", NoWorker, workerIds)
  <2>1. r \in Record
    BY RecordTypes DEF Events
  <2>2. mpc = "rotated" /\ LogAndFlush(r) /\ mpc' = "up" /\ UNCHANGED <<workerIds, wst, wfile>>
    BY <1>7 DEF RotatePing
  <2>3. \A w \in Live : Fits(r, w) /\ AllFit(mbuf, w)
    BY <2>2, MasterRecordsFit
  <2> HIDE DEF r
  <2>4. /\ disk' = WriteTo(disk, mfile, Append(mbuf, r)) /\ mbuf' = <<>>
        /\ Append(mbuf, r) \in Seq(Record) /\ DOMAIN disk' = DOMAIN disk
    BY <1>0, <2>1, <2>2, LogAndFlushTypes
  <2>5. FilesAwait'
    <3> SUFFICES ASSUME NEW v \in Live, NEW f \in DOMAIN disk, f > wfile[v]
                 PROVE  AllFit(disk'[f], v)
      BY <2>2, <2>4 DEF FilesAwait, Live
    <3>1. AllFit(Append(mbuf, r), v)
      BY <1>0, <2>1, <2>3, AppendFits
    <3> QED BY <1>0, <2>2, <2>4, <3>1, MasterWriteAwaits
  <2> QED BY <2>2, <2>4, <2>5 DEF Accounted, LiveAreListed, BufferFits, AllFit, Live
<1>8. CASE StopMaster
  <2>1. /\ mpc # "down" /\ mpc' = "down" /\ UNCHANGED <<wst, wfile>>
        /\ disk' = disk \/ (mpc = "up" /\ disk' = WriteTo(disk, mfile, mbuf))
    BY <1>8 DEF StopMaster, MasterUp, workers
  <2>2. CASE disk' = disk
    BY <1>0, <2>1, <2>2 DEF Accounted, LiveAreListed, BufferFits, FilesAwait, Live
  <2>3. CASE mpc = "up" /\ disk' = WriteTo(disk, mfile, mbuf)
    <3>1. mfile \in DOMAIN disk
      BY <1>0, <2>1, MasterFileOpen
    <3>2. DOMAIN disk' = DOMAIN disk /\ Live' = Live
      BY <1>0, <2>1, <2>3, <3>1, WriteToProperties DEF Live
    <3>3. \A v \in Live : \A f \in DOMAIN disk : f > wfile[v] => AllFit(disk'[f], v)
      BY <1>0, <2>3, MasterRecordsFit, MasterWriteAwaits
    <3> QED BY <2>1, <3>2, <3>3 DEF Accounted, LiveAreListed, BufferFits, FilesAwait
  <2> QED BY <2>1, <2>2, <2>3
<1>9. CASE MasterLogThrows \/ \E w \in Workers : WorkerLog(w) \/ WorkerLogThrows(w)
  <2>1. UNCHANGED <<disk, mpc, mbuf, workerIds, wst, wfile>>
    BY <1>9 DEF MasterLogThrows, WorkerLog, WorkerLogThrows, master, workers
  <2> QED BY <1>0, <2>1 DEF Accounted, LiveAreListed, BufferFits, FilesAwait, Live
<1>10. ASSUME NEW x \in Workers, WorkerFlush(x) PROVE Accounted'
  <2>1. /\ x \in Live /\ disk' = WriteTo(disk, wfile[x], wbuf[x])
        /\ UNCHANGED <<mpc, mbuf, workerIds, wst, wfile>>
    BY <1>10 DEF WorkerFlush, master, Live
  <2>2. wfile[x] \in DOMAIN disk /\ wbuf[x] \in Seq(Record)
    BY <2>1 DEF Shape, LiveHaveAFile, TypeOK
  <2>3. DOMAIN disk' = DOMAIN disk /\ Live' = Live
        /\ \A g \in DOMAIN disk : g # wfile[x] => disk'[g] = disk[g]
    BY <1>0, <2>1, <2>2, WriteToProperties DEF Live
  <2>4. FilesAwait'
    <3> SUFFICES ASSUME NEW v \in Live, NEW f \in DOMAIN disk, f > wfile[v]
                 PROVE  AllFit(disk'[f], v)
      BY <2>1, <2>3 DEF FilesAwait
    <3>1. CASE v = x
      <4>1. f # wfile[x]
        BY <1>0, <2>2, <3>1
      <4> QED BY <1>0, <2>3, <4>1 DEF FilesAwait
    <3>2. CASE v # x
      BY <1>0, <2>1, <3>2, WorkerWriteAwaits
    <3> QED BY <3>1, <3>2
  <2> QED BY <1>0, <2>1, <2>3, <2>4 DEF Accounted, LiveAreListed, BufferFits
<1>11. ASSUME NEW x \in Workers, WorkerRotate(x) PROVE Accounted'
  <2> DEFINE h == Head(inbox[x])
             d == WriteTo(disk, wfile[x], wbuf[x])
             r == WorkerRecord(x)
  <2>1. /\ x \in Live /\ inbox[x] # <<>> /\ disk' = WriteTo(d, h, <<r>>)
        /\ wfile' = [wfile EXCEPT ![x] = h]
        /\ UNCHANGED <<mpc, mbuf, workerIds, wst>>
    BY <1>11 DEF WorkerRotate, master, Live
  <2>2. wfile[x] \in DOMAIN disk /\ wbuf[x] \in Seq(Record) /\ <<r>> \in Seq(Record)
    <3>1. wfile[x] \in DOMAIN disk /\ wbuf[x] \in Seq(Record)
      BY <2>1 DEF Shape, LiveHaveAFile, TypeOK
    <3> QED BY <3>1, RecordTypes
  <2>3. wfile[x] < h /\ h \in DOMAIN disk
    <3>1. inbox[x] \in Seq(Nat) /\ Len(inbox[x]) \in Nat \ {0} /\ h = inbox[x][1]
          /\ 1 \in DOMAIN inbox[x] /\ h \in Nat
      BY <2>1, EmptySeq, LenProperties DEF TypeOK
    <3> QED BY <1>0, <2>1, <2>2, <3>1 DEF Shape, InboxLeadsForward
  <2>4. d \in Disks /\ DOMAIN d = DOMAIN disk
        /\ \A g \in DOMAIN disk : g # wfile[x] => d[g] = disk[g]
    BY <1>0, <2>2, WriteToProperties
  <2>5. \A v \in Live \ {x} : AllFit(<<r>>, v)
    <3>1. \A i \in DOMAIN <<r>> : <<r>>[i].event = "WORKER_LOG" /\ <<r>>[i].workerId = x
      BY DEF WorkerRecord
    <3> HIDE DEF r
    <3> QED BY <3>1, OthersFit
  <2>6. \A v \in Live \ {x} : \A f \in DOMAIN disk : f > wfile[v] => AllFit(d[f], v)
    BY <1>0, <2>1, WorkerWriteAwaits
  <2> HIDE DEF d, h, r
  <2>7. DOMAIN disk' = DOMAIN disk /\ Live' = Live
        /\ \A g \in DOMAIN disk : g # h => disk'[g] = d[g]
    <3>1. Live' = Live
      BY <2>1 DEF Live
    <3>2. h \in DOMAIN d /\ disk' = WriteTo(d, h, <<r>>) /\ <<r>> \in Seq(Record)
      BY <2>1, <2>2, <2>3, <2>4
    <3>3. DOMAIN disk' = DOMAIN d /\ \A g \in DOMAIN d : g # h => disk'[g] = d[g]
      BY <2>4, <3>2, WriteToProperties
    <3> QED BY <2>4, <3>1, <3>3
  <2>8. wfile'[x] = h /\ \A v \in Workers \ {x} : wfile'[v] = wfile[v]
    BY <2>1 DEF TypeOK, Live
  <2>9. FilesAwait'
    <3> SUFFICES ASSUME NEW v \in Live, NEW f \in DOMAIN disk, f > wfile'[v]
                 PROVE  AllFit(disk'[f], v)
      BY <2>7 DEF FilesAwait
    <3>1. CASE v = x
      <4>1. f # h /\ f # wfile[x] /\ f > wfile[x]
        BY <1>0, <2>2, <2>3, <2>8, <3>1
      <4> QED BY <1>0, <2>4, <2>7, <3>1, <4>1 DEF FilesAwait
    <3>2. CASE v # x
      <4>1. AllFit(d[f], v) /\ AllFit(<<r>>, v)
        BY <1>0, <2>5, <2>6, <2>8, <3>2
      <4> QED BY <2>1, <2>2, <2>3, <2>4, <4>1, WriteFits
    <3> QED BY <3>1, <3>2
  <2> QED BY <1>0, <2>1, <2>7, <2>9 DEF Accounted, LiveAreListed, BufferFits
<1>12. ASSUME NEW x \in Workers, WorkerExit(x) PROVE Accounted'
  <2>1. /\ x \in Live
        /\ disk' = disk \/ disk' = WriteTo(disk, wfile[x], wbuf[x])
        /\ wst' = [wst EXCEPT ![x] = "exited"] /\ wfile' = [wfile EXCEPT ![x] = 0]
        /\ UNCHANGED <<mpc, mbuf, workerIds>>
    BY <1>12 DEF WorkerExit, master, Live
  <2>2. wfile[x] \in DOMAIN disk /\ wbuf[x] \in Seq(Record)
    BY <1>12 DEF Shape, LiveHaveAFile, TypeOK, WorkerExit, Live
  <2>3. /\ Live' = Live \ {x} /\ \A v \in Live' : wfile'[v] = wfile[v]
    BY <1>12 DEF Live, TypeOK, WorkerExit
  <2>4. CASE disk' = disk
    BY <1>0, <2>1, <2>3, <2>4 DEF Accounted, LiveAreListed, BufferFits, FilesAwait
  <2>5. CASE x \in Live /\ disk' = WriteTo(disk, wfile[x], wbuf[x])
    <3>1. DOMAIN disk' = DOMAIN disk
      BY <1>0, <2>2, <2>5, WriteToProperties
    <3>2. \A v \in Live' : \A f \in DOMAIN disk : f > wfile[v] => AllFit(disk'[f], v)
      BY <1>0, <2>3, <2>5, WorkerWriteAwaits
    <3> QED BY <1>0, <2>1, <2>3, <3>1, <3>2 DEF Accounted, LiveAreListed, BufferFits, FilesAwait
  <2> QED BY <1>12, <2>4, <2>5 DEF WorkerExit, Live
<1>13. CASE Tick \/ UNCHANGED vars
  <2>1. UNCHANGED <<disk, mpc, mbuf, workerIds, wst, wfile>>
    BY <1>13 DEF Tick, vars, master, workers
  <2> QED BY <1>0, <2>1 DEF Accounted, LiveAreListed, BufferFits, FilesAwait, Live
<1>14. ASSUME NEW w \in Workers, WorkerSpawnedThrows(w) \/ WorkerExitedThrows(w)
       PROVE  Accounted'
  BY <1>14 DEF WorkerSpawnedThrows, WorkerExitedThrows, LogAndFlushThrows
<1> QED
  BY <1>1, <1>2, <1>3, <1>4, <1>5, <1>6, <1>7, <1>8, <1>9, <1>10, <1>11, <1>12,
     <1>13, <1>14 DEF Next, MasterNext, WorkerNext

-----------------------------------------------------------------------------
(* The theorems.                                                            *)

LEMMA ClusterInvariant == Spec => []IInv
<1>1. Init => IInv
  <2> SUFFICES ASSUME Init PROVE IInv
    OBVIOUS
  <2>1. <<>> \in Seq(Seq(Record)) /\ <<>> \in Seq(Record) /\ <<>> \in Seq(Nat)
    OBVIOUS
  <2>2. TypeOK /\ Live = {} /\ mpc = "down"
    BY <2>1, ClusterAssumption DEF Init, TypeOK, Live
  <2> QED
    BY <2>2 DEF IInv, Shape, Accounted, MasterOnLast, NobodyBefore, LiveAreListed,
       LiveHaveAFile, InboxLeadsForward, NotToldYet, OwnRecords, BufferFits, FilesAwait
<1>2. IInv /\ [Next]_vars => IInv'
  <2> SUFFICES ASSUME IInv, [Next]_vars PROVE IInv'
    OBVIOUS
  <2>1. TypeOK' /\ Shape'
    BY ShapeStep DEF IInv
  <2>2. throws' = 0 => throws = 0
    <3>1. CASE MasterNext \/ Tick \/ UNCHANGED vars
      BY <3>1 DEF MasterNext, vars, StartMaster, STARTING_UP, MasterLog, MasterLogThrows,
         MasterFlush, Rotate, RotatePing, StopMaster, Tick
    <3>2. ASSUME NEW w \in Workers, WorkerNext(w) PROVE throws' = 0 => throws = 0
      <4>1. throws' = throws \/ throws' = throws + 1
        BY <3>2 DEF WorkerNext, WORKER_SPAWNED, WorkerSpawnedThrows, WORKER_EXITED,
           WorkerExitedThrows, LogAndFlushThrows, WorkerLog, WorkerLogThrows, WorkerFlush,
           WorkerRotate, WorkerExit
      <4> QED BY <4>1 DEF IInv, TypeOK
    <3> QED BY <3>1, <3>2 DEF Next
  <2>3. throws' = 0 => Accounted'
    BY <2>2, AccountedStep DEF IInv
  <2> QED BY <2>1, <2>3 DEF IInv
<1> QED BY <1>1, <1>2, PTL DEF Spec

\* Every variable of the cluster keeps to its domain, for any constants.
THEOREM ClusterTypes == Spec => []TypeOK
<1>1. IInv => TypeOK
  BY DEF IInv
<1> QED BY <1>1, ClusterInvariant, PTL

\* A file whose contents say so has nobody left on an earlier one.
LEMMA SettledIsFinal == IInv => NoWriterBehind
<1> SUFFICES ASSUME IInv, throws = 0, NEW f \in DOMAIN disk, Settled(disk[f])
             PROVE  (\A w \in Live : wfile[w] >= f) /\ (MasterUp => mfile >= f)
  BY DEF NoWriterBehind
<1>1. /\ disk[f] \in Seq(Record) /\ Len(disk) \in Nat /\ f \in 1 .. Len(disk)
      /\ DOMAIN disk[f] = 1 .. Len(disk[f]) /\ Len(disk[f]) \in Nat
  BY LenProperties DEF IInv, TypeOK
<1>2. ASSUME NEW w \in Live PROVE wfile[w] >= f
  <2>1. SUFFICES ASSUME wfile[w] < f PROVE FALSE
    BY <1>1 DEF IInv, TypeOK, Live
  <2>2. AllFit(disk[f], w)
    BY <1>1, <2>1 DEF IInv, TypeOK, Live, Accounted, FilesAwait
  <2> QED BY <1>1, <2>2, FitsIsNotSettled
<1>3. MasterUp => mfile >= f
  BY <1>1 DEF MasterUp, IInv, Shape, MasterOnLast
<1> QED BY <1>2, <1>3

\* A file that isRotating() lets readers go past has no writer left behind it,
\* for any number of workers, files, restarts and records.
THEOREM SettledFilesAreFinal == Spec => []NoWriterBehind
BY SettledIsFinal, ClusterInvariant, PTL

-----------------------------------------------------------------------------
(* 2. The files read end to end: sequences laid out.                        *)

\* Element i of the f-th of the first n sequences of d is at off[f] + i of s.
Offsets(d, n, s, off) ==
  /\ off \in [1 .. n + 1 -> Nat]
  /\ off[1] = 0
  /\ \A f \in 1 .. n : off[f + 1] = off[f] + Len(d[f])
  /\ Len(s) = off[n + 1]
  /\ \A f \in 1 .. n : \A i \in 1 .. Len(d[f]) : s[off[f] + i] = d[f][i]

\* The sequences come one after the other.
LEMMA OffsetsIncrease ==
  ASSUME NEW d, NEW n \in Nat, NEW s, NEW off, Offsets(d, n, s, off),
         \A f \in 1 .. n : Len(d[f]) \in Nat,
         NEW f \in 1 .. n
  PROVE  \A g \in f + 1 .. n + 1 : off[f] + Len(d[f]) <= off[g]
<1> DEFINE T == {g \in f + 1 .. n + 1 : ~ (off[f] + Len(d[f]) <= off[g])}
<1>1. ASSUME T # {} PROVE FALSE
  <2>1. PICK m \in T : \A j \in T : m <= j
    <3>1. T \subseteq Nat
      OBVIOUS
    <3> HIDE DEF T
    <3> QED BY <1>1, <3>1, LeastNumber
  <2>2. m \in f + 1 .. n + 1 /\ ~ (off[f] + Len(d[f]) <= off[m])
    OBVIOUS
  <2>3. m # f + 1
    BY <2>2 DEF Offsets
  <2>4. PICK p \in f + 1 .. n : m = p + 1
    <3>1. m - 1 \in f + 1 .. n /\ m = (m - 1) + 1
      BY <2>2, <2>3
    <3> QED BY <3>1
  <2>5. p \notin T /\ p \in f + 1 .. n + 1 /\ p \in 1 .. n /\ p \in 1 .. n + 1
    BY <2>1, <2>4
  <2>6. off[f] + Len(d[f]) <= off[p]
    BY <2>5
  <2>7. off[m] = off[p] + Len(d[p]) /\ Len(d[p]) \in Nat
    BY <2>4, <2>5 DEF Offsets
  <2>8. off[p] \in Nat /\ off[f] \in Nat /\ Len(d[f]) \in Nat
    BY <2>5 DEF Offsets
  <2> HIDE DEF T
  <2> QED BY <2>2, <2>6, <2>7, <2>8
<1> QED BY <1>1

\* One sequence more.
LEMMA OffsetsStep ==
  ASSUME NEW R, NEW d, NEW n \in Nat, \A f \in 1 .. n + 1 : d[f] \in Seq(R),
         NEW s \in Seq(R), NEW o, Offsets(d, n, s, o)
  PROVE  \E off : Offsets(d, n + 1, s \o d[n + 1], off)
<1> DEFINE last == d[n + 1]
           t == s \o last
           off == [f \in 1 .. (n + 1) + 1 |-> IF f = n + 2 THEN o[n + 1] + Len(last) ELSE o[f]]
<1>0. \A f \in 1 .. n + 1 : Len(d[f]) \in Nat
  BY LenProperties
<1>1. /\ last \in Seq(R) /\ Len(last) \in Nat /\ Len(s) \in Nat /\ Len(s) = o[n + 1]
      /\ o \in [1 .. n + 1 -> Nat] /\ o[1] = 0
  BY LenProperties DEF Offsets
<1>2. t \in Seq(R) /\ Len(t) = Len(s) + Len(last)
      /\ \A i \in 1 .. Len(s) + Len(last) : t[i] = IF i <= Len(s) THEN s[i] ELSE last[i - Len(s)]
  BY <1>1, ConcatProperties
<1>3. /\ off \in [1 .. (n + 1) + 1 -> Nat]
      /\ off[(n + 1) + 1] = o[n + 1] + Len(last)
      /\ \A f \in 1 .. n + 1 : off[f] = o[f]
      /\ off[1] = 0
  <2>1. \A f \in 1 .. (n + 1) + 1 : f = n + 2 \/ f \in 1 .. n + 1
    OBVIOUS
  <2>2. \A f \in 1 .. n + 1 : f # n + 2 /\ f \in 1 .. (n + 1) + 1
    OBVIOUS
  <2> HIDE DEF last
  <2> QED BY <1>1, <2>1, <2>2
<1>4. ASSUME NEW f \in 1 .. n + 1
      PROVE  /\ off[f + 1] = off[f] + Len(d[f])
             /\ \A i \in 1 .. Len(d[f]) : t[off[f] + i] = d[f][i]
  <2>1. CASE f = n + 1
    <3>1. \A i \in 1 .. Len(last) : /\ Len(s) + i \in 1 .. Len(s) + Len(last)
                                   /\ ~ (Len(s) + i <= Len(s))
                                   /\ (Len(s) + i) - Len(s) = i
      <4> HIDE DEF last
      <4> QED BY <1>1
    <3>2. \A i \in 1 .. Len(last) : t[Len(s) + i] = last[i]
      <4> HIDE DEF last, t
      <4> QED BY <1>2, <3>1
    <3> HIDE DEF t, off
    <3> QED BY <1>1, <1>3, <2>1, <3>2
  <2>2. CASE f # n + 1
    <3>1. f \in 1 .. n /\ f + 1 \in 1 .. n + 1
      BY <2>2
    <3>2. o[f + 1] = o[f] + Len(d[f]) /\ \A i \in 1 .. Len(d[f]) : s[o[f] + i] = d[f][i]
      BY <3>1 DEF Offsets
    <3>3. o[f] + Len(d[f]) <= o[n + 1]
      BY <1>0, <3>1, OffsetsIncrease
    <3>4. \A i \in 1 .. Len(d[f]) : /\ o[f] + i \in 1 .. Len(s) + Len(last)
                                   /\ o[f] + i <= Len(s)
      <4>1. o[f] \in Nat /\ Len(d[f]) \in Nat
        BY <1>0, <1>1, <3>1
      <4> HIDE DEF last
      <4> QED BY <1>1, <3>3, <4>1
    <3> HIDE DEF t, off, last
    <3> QED BY <1>2, <1>3, <3>1, <3>2, <3>4
  <2> QED BY <2>1, <2>2
<1> HIDE DEF t, off
<1>5. Len(t) = off[(n + 1) + 1]
  BY <1>1, <1>2, <1>3
<1>6. Offsets(d, n + 1, t, off)
  BY <1>3, <1>4, <1>5 DEF Offsets
<1> QED BY <1>6 DEF t

\* FlattenSeq is the last of them, and each sequence begins at an offset.
LEMMA FlattenHasOffsets ==
  ASSUME NEW R, NEW d \in Seq(Seq(R))
  PROVE  FlattenSeq(d) \in Seq(R) /\ \E off : Offsets(d, Len(d), FlattenSeq(d), off)
<1>0. /\ Len(d) \in Nat /\ DOMAIN d = 1 .. Len(d)
      /\ \A f \in 1 .. Len(d) : d[f] \in Seq(R)
  BY LenProperties, ElementOfSeq
<1>1. CASE Len(d) = 0
  <2>1. FlattenSeq(d) = d
    BY <1>1 DEF FlattenSeq
  <2>2. d = <<>> /\ <<>> \in Seq(R) /\ Len(<<>>) = 0
    BY <1>1, EmptySeq
  <2> DEFINE off == [f \in 1 .. 0 + 1 |-> 0]
  <2>4. off \in [1 .. 0 + 1 -> Nat] /\ off[1] = 0 /\ off[0 + 1] = 0
    OBVIOUS
  <2> HIDE DEF off
  <2>3. Offsets(d, 0, d, off)
    BY <1>1, <2>2, <2>4 DEF Offsets
  <2> QED BY <1>1, <2>1, <2>2, <2>3
<1>2. CASE Len(d) # 0
  <2> DEFINE L == CHOOSE f : LaidOut(d, Len(d), f)
  <2>1. FlattenSeq(d) = L[Len(d)]
    BY <1>2 DEF FlattenSeq, LaidOut
  <2>2. LaidOut(d, Len(d), L)
    BY <1>0, LaidOutExists
  <2> HIDE DEF L
  <2>3. \A i \in 1 .. Len(d) : L[i] = IF i = 1 THEN d[i] ELSE L[i - 1] \o d[i]
    BY <2>2 DEF LaidOut
  <2> DEFINE Good(k) == L[k] \in Seq(R) /\ \E off : Offsets(d, k, L[k], off)
             T == {k \in 1 .. Len(d) : ~ Good(k)}
  <2>4. ASSUME T # {} PROVE FALSE
    <3>1. PICK m \in T : \A j \in T : m <= j
      <4>1. T \subseteq Nat
        BY <1>0
      <4> HIDE DEF T
      <4> QED BY <2>4, <4>1, LeastNumber
    <3>2. m \in 1 .. Len(d) /\ ~ Good(m)
      OBVIOUS
    <3>3. m # 1
      <4>1. CASE m = 1
        <5>1. L[1] = d[1] /\ d[1] \in Seq(R)
          BY <1>0, <2>3, <3>2, <4>1
        <5>2. <<>> \in Seq(R) /\ Len(<<>>) = 0 /\ <<>> \o d[1] = d[1]
          BY <5>1, ConcatEmptySeq
        <5> DEFINE off == [f \in 1 .. 0 + 1 |-> 0]
        <5>3. off \in [1 .. 0 + 1 -> Nat] /\ off[1] = 0 /\ off[0 + 1] = 0
          OBVIOUS
        <5> HIDE DEF off
        <5>4. Offsets(d, 0, <<>>, off)
          BY <5>2, <5>3 DEF Offsets
        <5>5. \A f \in 1 .. 0 + 1 : d[f] \in Seq(R)
          BY <5>1
        <5>6. \E o : Offsets(d, 0 + 1, <<>> \o d[0 + 1], o)
          BY <5>2, <5>4, <5>5, OffsetsStep
        <5> QED BY <3>2, <4>1, <5>1, <5>2, <5>6
      <4> QED BY <4>1
    <3>4. PICK p \in 1 .. Len(d) : m = p + 1
      <4>1. m - 1 \in 1 .. Len(d) /\ m = (m - 1) + 1
        BY <1>0, <3>2, <3>3
      <4> QED BY <4>1
    <3>5. p \notin T /\ p \in Nat
      BY <3>1, <3>4
    <3>6. Good(p)
      BY <3>5
    <3>7. L[m] = L[p] \o d[p + 1]
      <4>1. m \in 1 .. Len(d) /\ m # 1 /\ m - 1 = p
        BY <1>0, <3>2, <3>3, <3>4
      <4> HIDE DEF T, Good
      <4> QED BY <2>3, <3>4, <4>1
    <3>8. \A f \in 1 .. p + 1 : d[f] \in Seq(R)
      BY <1>0, <3>2, <3>4
    <3>9. \E off : Offsets(d, m, L[m], off)
      <4>1. PICK o : Offsets(d, p, L[p], o)
        BY <3>6
      <4>2. L[p] \in Seq(R)
        BY <3>6
      <4> HIDE DEF T, Good
      <4> QED BY <3>4, <3>5, <3>7, <3>8, <4>1, <4>2, OffsetsStep
    <3>10. L[m] \in Seq(R)
      <4>1. L[p] \in Seq(R) /\ d[p + 1] \in Seq(R)
        BY <3>6, <3>8, <3>5
      <4> HIDE DEF T, Good
      <4> QED BY <3>7, <4>1, ConcatProperties
    <3> QED BY <3>2, <3>9, <3>10
  <2>5. Good(Len(d))
    <3>1. Len(d) \in 1 .. Len(d) /\ T = {}
      BY <1>0, <1>2, <2>4
    <3> QED BY <3>1
  <2> QED BY <2>1, <2>5
<1> QED BY <1>1, <1>2

\* Record i of file f comes before record j of file g.
Before(f, i, g, j) == (f < g) \/ (f = g /\ i < j)

\* Each position of the sequences laid out is one place in one of them, and
\* the order of positions is the order of places.
Located(d, s, loc) ==
  /\ \A p \in DOMAIN s : /\ loc[p] = <<loc[p][1], loc[p][2]>>
                         /\ loc[p][1] \in DOMAIN d
                         /\ loc[p][2] \in DOMAIN d[loc[p][1]]
                         /\ s[p] = d[loc[p][1]][loc[p][2]]
  /\ \A p, q \in DOMAIN s : p < q <=> Before(loc[p][1], loc[p][2], loc[q][1], loc[q][2])
  /\ \A f \in DOMAIN d : \A i \in DOMAIN d[f] : \E p \in DOMAIN s : loc[p] = <<f, i>>

\* So the stream of the files is their places in order.
LEMMA FlattenIsLocated ==
  ASSUME NEW R, NEW d \in Seq(Seq(R))
  PROVE  /\ FlattenSeq(d) \in Seq(R)
         /\ DOMAIN FlattenSeq(d) = 1 .. Len(FlattenSeq(d)) /\ Len(FlattenSeq(d)) \in Nat
         /\ \E loc : DOMAIN loc = DOMAIN FlattenSeq(d) /\ Located(d, FlattenSeq(d), loc)
<1> DEFINE s == FlattenSeq(d)
           n == Len(d)
<1>1. s \in Seq(R) /\ DOMAIN s = 1 .. Len(s) /\ Len(s) \in Nat
  BY FlattenHasOffsets, LenProperties
<1>2. PICK off : Offsets(d, n, s, off)
  BY FlattenHasOffsets
<1>3. /\ n \in Nat /\ DOMAIN d = 1 .. n
      /\ \A f \in 1 .. n : /\ Len(d[f]) \in Nat /\ DOMAIN d[f] = 1 .. Len(d[f])
  BY LenProperties, ElementOfSeq
<1> HIDE DEF s, n
<1> DEFINE In(f, p) == f \in 1 .. n /\ off[f] < p /\ p <= off[f] + Len(d[f])
<1>4. ASSUME NEW p \in 1 .. Len(s) PROVE \E f \in 1 .. n : In(f, p)
  <2> DEFINE T == {g \in 1 .. n + 1 : p <= off[g]}
  <2>1. n + 1 \in T
    BY <1>2, <1>3 DEF Offsets
  <2>2. PICK m \in T : \A j \in T : m <= j
    <3>1. T \subseteq Nat /\ T # {}
      BY <1>3, <2>1
    <3> HIDE DEF T
    <3> QED BY <3>1, LeastNumber
  <2>3. m \in 1 .. n + 1 /\ p <= off[m]
    OBVIOUS
  <2>4. m # 1
    BY <1>2, <2>3 DEF Offsets
  <2>5. PICK f \in 1 .. n : m = f + 1
    <3>1. m - 1 \in 1 .. n /\ m = (m - 1) + 1
      BY <1>3, <2>3, <2>4
    <3> QED BY <3>1
  <2>6. f \notin T /\ f \in 1 .. n + 1
    BY <1>3, <2>2, <2>5
  <2>7. off[f] \in Nat /\ ~ (p <= off[f]) /\ off[m] = off[f] + Len(d[f]) /\ off[m] \in Nat
    BY <1>2, <2>3, <2>5, <2>6 DEF Offsets
  <2> HIDE DEF T
  <2> QED BY <2>3, <2>5, <2>7
<1> DEFINE fileOf(p) == CHOOSE f \in 1 .. n : In(f, p)
           loc == [p \in 1 .. Len(s) |-> <<fileOf(p), p - off[fileOf(p)]>>]
<1>5. ASSUME NEW p \in 1 .. Len(s)
      PROVE  /\ loc[p] = <<loc[p][1], loc[p][2]>>
             /\ In(loc[p][1], p)
             /\ loc[p][2] \in 1 .. Len(d[loc[p][1]])
             /\ p = off[loc[p][1]] + loc[p][2]
             /\ loc[p][1] \in 1 .. n /\ off[loc[p][1]] \in Nat
  <2>1. In(fileOf(p), p) /\ fileOf(p) \in 1 .. n
    BY <1>4
  <2>2. loc[p][1] = fileOf(p) /\ loc[p][2] = p - off[fileOf(p)] /\ loc[p] = <<fileOf(p), p - off[fileOf(p)]>>
    OBVIOUS
  <2>3. off[fileOf(p)] \in Nat /\ Len(d[fileOf(p)]) \in Nat
    BY <1>2, <1>3, <2>1 DEF Offsets
  <2> HIDE DEF fileOf, loc
  <2> QED BY <2>1, <2>2, <2>3
<1>6. ASSUME NEW f \in 1 .. n, NEW g \in 1 .. n, f < g
      PROVE  off[f] + Len(d[f]) <= off[g] /\ off[f] \in Nat /\ off[g] \in Nat
  <2>1. g \in f + 1 .. n + 1 /\ f \in 1 .. n + 1 /\ g \in 1 .. n + 1
    BY <1>3, <1>6
  <2>2. off[f] + Len(d[f]) <= off[g]
    BY <1>2, <1>3, <2>1, OffsetsIncrease
  <2> QED BY <1>2, <2>1, <2>2 DEF Offsets
<1>7. ASSUME NEW p \in 1 .. Len(s), NEW q \in 1 .. Len(s)
      PROVE  (p < q) <=> Before(loc[p][1], loc[p][2], loc[q][1], loc[q][2])
  <2>0. /\ In(loc[p][1], p) /\ In(loc[q][1], q)
        /\ loc[p][1] \in 1 .. n /\ loc[q][1] \in 1 .. n
        /\ p = off[loc[p][1]] + loc[p][2] /\ q = off[loc[q][1]] + loc[q][2]
        /\ off[loc[p][1]] \in Nat /\ off[loc[q][1]] \in Nat
        /\ loc[p][2] \in 1 .. Len(d[loc[p][1]]) /\ loc[q][2] \in 1 .. Len(d[loc[q][1]])
    <3> HIDE DEF loc, In
    <3> QED BY <1>5
  <2> HIDE DEF loc
  <2>1. PICK f \in 1 .. n, g \in 1 .. n, i \in Nat, j \in Nat :
          /\ loc[p][1] = f /\ loc[p][2] = i /\ loc[q][1] = g /\ loc[q][2] = j
          /\ p = off[f] + i /\ q = off[g] + j
          /\ off[f] \in Nat /\ off[g] \in Nat
          /\ off[f] < p /\ p <= off[f] + Len(d[f])
          /\ off[g] < q /\ q <= off[g] + Len(d[g])
    <3>1. loc[p][2] \in Nat /\ loc[q][2] \in Nat
      <4> HIDE DEF In
      <4>1. \A m : \A k \in 1 .. m : k \in Nat
        OBVIOUS
      <4> QED BY <2>0, <4>1
    <3> QED BY <2>0, <3>1
  <2>6. p \in Nat /\ q \in Nat
    <3>1. \A m : \A k \in 1 .. m : k \in Nat
      OBVIOUS
    <3> QED BY <3>1, Zenon
  <2>2. CASE f < g
    <3>1. off[f] + Len(d[f]) <= off[g] /\ Len(d[f]) \in Nat
      BY <1>3, <1>6, <2>2
    <3>3. p < q
      <4>1. off[f] \in Nat /\ off[g] \in Nat
        BY <2>1, Zenon
      <4>2. p <= off[f] + Len(d[f]) /\ off[g] < q
        BY <2>1, Zenon
      <4> HIDE DEF In, fileOf, s, n
      <4> QED BY <2>6, <3>1, <4>1, <4>2
    <3>4. Before(f, i, g, j)
      BY <2>2 DEF Before
    <3>2. p < q /\ Before(f, i, g, j)
      BY <3>3, <3>4
    <3> QED BY <2>1, <3>2
  <2>3. CASE g < f
    <3>1. off[g] + Len(d[g]) <= off[f] /\ Len(d[g]) \in Nat
      BY <1>3, <1>6, <2>3
    <3>3. ~ (p < q)
      <4>1. off[f] \in Nat /\ off[g] \in Nat
        BY <2>1, Zenon
      <4>2. q <= off[g] + Len(d[g]) /\ off[f] < p
        BY <2>1, Zenon
      <4> HIDE DEF In, fileOf, s, n
      <4> QED BY <2>6, <3>1, <4>1, <4>2
    <3>4. ~ Before(f, i, g, j)
      <4>1. f \in Int /\ g \in Int
        OBVIOUS
      <4> QED BY <2>3, <4>1 DEF Before
    <3>2. ~ (p < q) /\ ~ Before(f, i, g, j)
      BY <3>3, <3>4
    <3> QED BY <2>1, <3>2
  <2>4. CASE f = g
    <3>1. (p < q) <=> (i < j)
      BY <2>1, <2>4
    <3>2. Before(f, i, g, j) <=> (i < j)
      BY <2>4 DEF Before
    <3> QED BY <2>1, <3>1, <3>2
  <2>5. (f < g) \/ (g < f) \/ (f = g)
    OBVIOUS
  <2> QED BY <2>2, <2>3, <2>4, <2>5
<1>8. ASSUME NEW f \in 1 .. n, NEW i \in 1 .. Len(d[f])
      PROVE  \E p \in 1 .. Len(s) : loc[p] = <<f, i>>
  <2> HIDE DEF loc
  <2> DEFINE p == off[f] + i
  <2>1. off[f] \in Nat /\ Len(d[f]) \in Nat /\ off[f] + Len(d[f]) <= off[n + 1] /\ Len(s) = off[n + 1]
    <3>1. n + 1 \in f + 1 .. n + 1 /\ f \in 1 .. n + 1
      BY <1>3
    <3>2. off[f] + Len(d[f]) <= off[n + 1]
      BY <1>2, <1>3, <3>1, OffsetsIncrease
    <3> QED BY <1>2, <1>3, <3>1, <3>2 DEF Offsets
  <2>2. p \in 1 .. Len(s) /\ In(f, p)
    BY <1>1, <2>1, SMTT(30)
  <2> DEFINE g == loc[p][1]
  <2>3. g \in 1 .. n /\ In(g, p) /\ p = off[g] + loc[p][2] /\ loc[p] = <<g, loc[p][2]>>
        /\ loc[p][2] \in Nat /\ off[g] \in Nat /\ Len(d[g]) \in Nat
    <3>1. p \in 1 .. Len(s)
      BY <2>2
    <3> HIDE DEF p
    <3>2. /\ In(g, p) /\ g \in 1 .. n /\ off[g] \in Nat /\ p = off[g] + loc[p][2]
          /\ loc[p][2] \in 1 .. Len(d[g]) /\ loc[p] = <<g, loc[p][2]>>
      <4> HIDE DEF In
      <4> QED BY <1>5, <3>1
    <3>3. Len(d[g]) \in Nat
      BY <1>3, <3>2
    <3>4. loc[p][2] \in Nat
      BY <3>2
    <3> QED BY <3>2, <3>3, <3>4
  <2>4. ~ (f < g)
    <3>1. ASSUME f < g PROVE FALSE
      <4>1. off[f] + Len(d[f]) <= off[g]
        BY <1>6, <2>3, <3>1
      <4>2. off[g] < p /\ p <= off[f] + Len(d[f])
        BY <2>2, <2>3
      <4>3. p \in Nat
        BY <2>1
      <4>4. off[g] \in Nat
        BY <2>3
      <4>5. off[f] + Len(d[f]) \in Nat
        BY <2>1
      <4> HIDE DEF g, p
      <4> QED BY <4>1, <4>2, <4>3, <4>4, <4>5
    <3> QED BY <3>1
  <2>5. ~ (g < f)
    <3>1. ASSUME g < f PROVE FALSE
      <4>1. off[g] + Len(d[g]) <= off[f]
        BY <1>6, <2>3, <3>1
      <4>2. off[f] < p /\ p <= off[g] + Len(d[g])
        BY <2>2, <2>3
      <4>3. p \in Nat /\ off[f] \in Nat
        BY <2>1
      <4>4. off[g] + Len(d[g]) \in Nat
        <5> HIDE DEF g, p, In
        <5> QED BY <2>3
      <4> HIDE DEF g, p
      <4> QED BY <4>1, <4>2, <4>3, <4>4
    <3> QED BY <3>1
  <2>6. f = g
    BY <2>3, <2>4, <2>5
  <2>7. loc[p][2] = i
    BY <2>1, <2>3, <2>6
  <2> QED BY <2>2, <2>3, <2>6, <2>7
<1>9. ASSUME NEW p \in 1 .. Len(s)
      PROVE  s[p] = d[loc[p][1]][loc[p][2]]
  <2> HIDE DEF loc
  <2> QED BY <1>2, <1>5 DEF Offsets
<1>10. DOMAIN loc = DOMAIN s
  BY <1>1
<1> HIDE DEF loc
<1>11. Located(d, s, loc)
  BY <1>1, <1>3, <1>5, <1>7, <1>8, <1>9 DEF Located
<1> QED BY <1>1, <1>10, <1>11 DEF s

-----------------------------------------------------------------------------
(* Who lives at a place of the stream, and what a flush does to that.       *)

Kills(r, w) == r.event = "STARTING_UP" \/ (r.event = "WORKER_EXITED" /\ r.workerId = w)
Spawns(r, w) == r.event = "WORKER_SPAWNED" /\ r.workerId = w

\* w is spawned by record j of file g and lives on until place <<f, i>>.
LivesFrom(d, g, j, w, f, i) ==
  /\ g \in DOMAIN d /\ j \in DOMAIN d[g]
  /\ Before(g, j, f, i)
  /\ Spawns(d[g][j], w)
  /\ \A h \in DOMAIN d : \A k \in DOMAIN d[h] :
       Before(g, j, h, k) /\ Before(h, k, f, i) => ~ Kills(d[h][k], w)

\* AliveAt, by place instead of position.
AliveBefore(d, f, i) == {w \in Workers : \E g, j : LivesFrom(d, g, j, w, f, i)}

\* AliveAt at the end of the stream.
AliveLast(d) == AliveBefore(d, Len(d) + 1, 1)

\* Positions and places say the same about who is alive.
LEMMA AliveByPlace ==
  ASSUME NEW d \in Disks, NEW S, S \in Seq(Record), NEW loc, Located(d, S, loc),
         NEW p \in DOMAIN S
  PROVE  AliveAt(S, p) = AliveBefore(d, loc[p][1], loc[p][2])
<1> DEFINE f == loc[p][1]
           i == loc[p][2]
<1>0. DOMAIN S = 1 .. Len(S) /\ Len(S) \in Nat /\ p \in 1 .. Len(S)
  BY LenProperties
<1>1. /\ \A q \in DOMAIN S : /\ loc[q][1] \in DOMAIN d
                             /\ loc[q][2] \in DOMAIN d[loc[q][1]]
                             /\ S[q] = d[loc[q][1]][loc[q][2]]
      /\ \A q, r \in DOMAIN S : q < r <=> Before(loc[q][1], loc[q][2], loc[r][1], loc[r][2])
      /\ \A g \in DOMAIN d : \A j \in DOMAIN d[g] : \E q \in DOMAIN S : loc[q] = <<g, j>>
  BY DEF Located
<1>2. \A q : q \in 1 .. p - 1 <=> q \in DOMAIN S /\ q < p
  BY <1>0
<1>3. ASSUME NEW q \in DOMAIN S PROVE \A r : r \in q + 1 .. p - 1 <=> r \in DOMAIN S /\ q < r /\ r < p
  BY <1>0
<1>4. ASSUME NEW w \in AliveAt(S, p) PROVE w \in AliveBefore(d, f, i)
  <2>1. PICK q \in 1 .. p - 1 :
          /\ S[q].event = "WORKER_SPAWNED" /\ S[q].workerId = w
          /\ \A r \in q + 1 .. p - 1 :
               /\ S[r].event # "STARTING_UP"
               /\ ~(S[r].event = "WORKER_EXITED" /\ S[r].workerId = w)
    BY <1>4 DEF AliveAt
  <2>2. w \in Workers /\ q \in DOMAIN S /\ q < p
    BY <1>2 DEF AliveAt
  <2>3. ASSUME NEW h \in DOMAIN d, NEW k \in DOMAIN d[h],
               Before(loc[q][1], loc[q][2], h, k), Before(h, k, f, i)
        PROVE  ~ Kills(d[h][k], w)
    <3>1. PICK r \in DOMAIN S : loc[r] = <<h, k>>
      BY <1>1
    <3>2. loc[r][1] = h /\ loc[r][2] = k
      BY <3>1
    <3>3. q < r /\ r < p
      BY <1>1, <2>2, <2>3, <3>2
    <3>4. r \in q + 1 .. p - 1
      BY <1>3, <2>2, <3>3
    <3>5. S[r] = d[h][k]
      BY <1>1, <3>2
    <3> QED BY <2>1, <3>4, <3>5 DEF Kills
  <2>4. LivesFrom(d, loc[q][1], loc[q][2], w, f, i)
    <3>1. Before(loc[q][1], loc[q][2], f, i)
      BY <1>1, <2>2
    <3>2. Spawns(d[loc[q][1]][loc[q][2]], w)
      BY <1>1, <2>1, <2>2 DEF Spawns
    <3> HIDE DEF f, i
    <3> QED BY <1>1, <2>2, <2>3, <3>1, <3>2 DEF LivesFrom
  <2> HIDE DEF f, i
  <2> QED BY <2>2, <2>4 DEF AliveBefore
<1>5. ASSUME NEW w \in AliveBefore(d, f, i) PROVE w \in AliveAt(S, p)
  <2>0. w \in Workers /\ \E g, j : LivesFrom(d, g, j, w, f, i)
    <3> HIDE DEF f, i
    <3> QED BY <1>5 DEF AliveBefore
  <2>1. PICK g, j : LivesFrom(d, g, j, w, f, i)
    BY <2>0
  <2>2. /\ g \in DOMAIN d /\ j \in DOMAIN d[g] /\ Before(g, j, f, i) /\ Spawns(d[g][j], w)
        /\ \A h \in DOMAIN d : \A k \in DOMAIN d[h] :
             Before(g, j, h, k) /\ Before(h, k, f, i) => ~ Kills(d[h][k], w)
    BY <2>1 DEF LivesFrom
  <2>3. PICK q \in DOMAIN S : loc[q] = <<g, j>>
    BY <1>1, <2>2
  <2>4. loc[q][1] = g /\ loc[q][2] = j
    BY <2>3
  <2>5. q < p /\ S[q] = d[g][j]
    BY <1>1, <2>2, <2>4
  <2>6. ASSUME NEW r \in q + 1 .. p - 1
        PROVE  S[r].event # "STARTING_UP" /\ ~(S[r].event = "WORKER_EXITED" /\ S[r].workerId = w)
    <3>1. r \in DOMAIN S /\ q < r /\ r < p
      BY <1>3
    <3>2. /\ Before(g, j, loc[r][1], loc[r][2]) /\ Before(loc[r][1], loc[r][2], f, i)
          /\ S[r] = d[loc[r][1]][loc[r][2]]
          /\ loc[r][1] \in DOMAIN d /\ loc[r][2] \in DOMAIN d[loc[r][1]]
      BY <1>1, <2>4, <3>1
    <3>3. ~ Kills(S[r], w)
      BY <2>2, <3>2
    <3> QED BY <3>3 DEF Kills
  <2>7. q \in 1 .. p - 1
    BY <1>2, <2>5
  <2> QED BY <2>0, <2>2, <2>5, <2>6, <2>7 DEF AliveAt, Spawns
<1> QED BY <1>4, <1>5 DEF f, i

\* e is d with batch written to the end of file f.
Grown(d, f, batch, e) ==
  /\ d \in Disks /\ e \in Disks /\ batch \in Seq(Record)
  /\ f \in DOMAIN d /\ DOMAIN e = DOMAIN d /\ Len(e) = Len(d)
  /\ DOMAIN d = 1 .. Len(d) /\ Len(d) \in Nat
  /\ \A g \in DOMAIN d : DOMAIN d[g] = 1 .. Len(d[g]) /\ Len(d[g]) \in Nat
  /\ DOMAIN batch = 1 .. Len(batch) /\ Len(batch) \in Nat
  /\ \A g \in DOMAIN d : g # f => e[g] = d[g]
  /\ DOMAIN e[f] = 1 .. Len(d[f]) + Len(batch)
  /\ \A i \in DOMAIN d[f] : e[f][i] = d[f][i]
  /\ \A i \in DOMAIN batch : e[f][Len(d[f]) + i] = batch[i]
  /\ \A i \in DOMAIN e[f] : i \in DOMAIN d[f] \/ \E k \in DOMAIN batch : i = Len(d[f]) + k

\* That is what WriteTo does.
LEMMA WriteGrows ==
  ASSUME NEW d \in Disks, NEW f \in DOMAIN d, NEW batch \in Seq(Record)
  PROVE  Grown(d, f, batch, WriteTo(d, f, batch))
<1> DEFINE e == WriteTo(d, f, batch)
<1>0. /\ e \in Disks /\ Len(e) = Len(d) /\ DOMAIN e = DOMAIN d
      /\ e[f] = d[f] \o batch /\ \A g \in DOMAIN d : g # f => e[g] = d[g]
  BY WriteToProperties
<1> HIDE DEF e
<1>1. /\ DOMAIN d = 1 .. Len(d) /\ Len(d) \in Nat
      /\ \A g \in DOMAIN d : d[g] \in Seq(Record)
  BY LenProperties, ElementOfSeq DEF Disks
<1>2. \A g \in DOMAIN d : DOMAIN d[g] = 1 .. Len(d[g]) /\ Len(d[g]) \in Nat
  BY <1>1, LenProperties
<1>3. DOMAIN batch = 1 .. Len(batch) /\ Len(batch) \in Nat
  BY LenProperties
<1>4. /\ d[f] \o batch \in Seq(Record)
      /\ Len(d[f] \o batch) = Len(d[f]) + Len(batch)
      /\ \A i \in 1 .. Len(d[f]) + Len(batch) :
           (d[f] \o batch)[i] = IF i <= Len(d[f]) THEN d[f][i] ELSE batch[i - Len(d[f])]
  BY <1>1, ConcatProperties
<1>5. DOMAIN e[f] = 1 .. Len(d[f]) + Len(batch)
  BY <1>0, <1>4, LenProperties
<1>6. \A i \in DOMAIN d[f] : e[f][i] = d[f][i]
  BY <1>0, <1>2, <1>3, <1>4
<1>7. ASSUME NEW i \in DOMAIN batch PROVE e[f][Len(d[f]) + i] = batch[i]
  <2>1. /\ Len(d[f]) + i \in 1 .. Len(d[f]) + Len(batch) /\ ~ (Len(d[f]) + i <= Len(d[f]))
        /\ (Len(d[f]) + i) - Len(d[f]) = i
    BY <1>2, <1>3
  <2> QED BY <1>0, <1>4, <2>1
<1>8. ASSUME NEW i \in DOMAIN e[f], i \notin DOMAIN d[f]
      PROVE  \E k \in DOMAIN batch : i = Len(d[f]) + k
  <2>1. i - Len(d[f]) \in DOMAIN batch /\ i = Len(d[f]) + (i - Len(d[f]))
    BY <1>2, <1>3, <1>5, <1>8
  <2> QED BY <2>1
<1> QED BY <1>0, <1>1, <1>2, <1>3, <1>5, <1>6, <1>7, <1>8 DEF Grown, e

\* What was there stays where it was.
LEMMA GrownKeeps ==
  ASSUME NEW d, NEW f, NEW batch, NEW e, Grown(d, f, batch, e),
         NEW g \in DOMAIN d, NEW j \in DOMAIN d[g]
  PROVE  g \in DOMAIN e /\ j \in DOMAIN e[g] /\ e[g][j] = d[g][j]
<1>1. CASE g = f
  <2>1. j \in 1 .. Len(d[f]) + Len(batch)
    BY <1>1 DEF Grown
  <2> QED BY <1>1, <2>1 DEF Grown
<1>2. CASE g # f
  BY <1>2 DEF Grown
<1> QED BY <1>1, <1>2

\* What is new is at the end of f.
LEMMA GrownAdds ==
  ASSUME NEW d, NEW f, NEW batch, NEW e, Grown(d, f, batch, e),
         NEW g \in DOMAIN e, NEW j \in DOMAIN e[g], ~ (j \in DOMAIN d[g])
  PROVE  g = f /\ \E k \in DOMAIN batch : j = Len(d[f]) + k /\ e[g][j] = batch[k]
BY DEF Grown

\* Records of nobody's birth or death.
Quiet(r) == r.event \in {"MASTER_LOG", "MASTER_PING", "WORKER_LOG"}

\* Records that are no part of a worker's life change nobody's life.
LEMMA QuietWriteKeepsLives ==
  ASSUME NEW d, NEW f, NEW batch, NEW e, Grown(d, f, batch, e),
         \A k \in DOMAIN batch : Quiet(batch[k]), NEW g, NEW j
  PROVE  /\ AliveBefore(e, g, j) = AliveBefore(d, g, j)
         /\ \A h, k, w : LivesFrom(d, h, k, w, g, j) <=> LivesFrom(e, h, k, w, g, j)
<1>1. ASSUME NEW w, NEW h, NEW k
      PROVE  LivesFrom(d, h, k, w, g, j) <=> LivesFrom(e, h, k, w, g, j)
  <2>1. ASSUME LivesFrom(d, h, k, w, g, j) PROVE LivesFrom(e, h, k, w, g, j)
    <3>1. /\ h \in DOMAIN e /\ k \in DOMAIN e[h] /\ Before(h, k, g, j) /\ Spawns(e[h][k], w)
      BY <2>1, GrownKeeps DEF LivesFrom
    <3>2. ASSUME NEW x \in DOMAIN e, NEW y \in DOMAIN e[x],
                 Before(h, k, x, y) /\ Before(x, y, g, j)
          PROVE  ~ Kills(e[x][y], w)
      <4>0. DOMAIN e = DOMAIN d
        BY DEF Grown
      <4>1. CASE y \in DOMAIN d[x]
        BY <2>1, <3>2, <4>0, <4>1, GrownKeeps DEF LivesFrom
      <4>2. CASE ~ (y \in DOMAIN d[x])
        BY <4>2, GrownAdds DEF Kills, Quiet
      <4> QED BY <4>1, <4>2
    <3> QED BY <3>1, <3>2 DEF LivesFrom
  <2>2. ASSUME LivesFrom(e, h, k, w, g, j) PROVE LivesFrom(d, h, k, w, g, j)
    <3>1. h \in DOMAIN e /\ k \in DOMAIN e[h] /\ Spawns(e[h][k], w) /\ Before(h, k, g, j)
      BY <2>2 DEF LivesFrom
    <3>2. k \in DOMAIN d[h]
      BY <3>1, GrownAdds DEF Spawns, Quiet
    <3>3. h \in DOMAIN d /\ Spawns(d[h][k], w)
      BY <3>1, <3>2, GrownKeeps DEF Grown
    <3>4. ASSUME NEW x \in DOMAIN d, NEW y \in DOMAIN d[x],
                 Before(h, k, x, y) /\ Before(x, y, g, j)
          PROVE  ~ Kills(d[x][y], w)
      <4>1. x \in DOMAIN e /\ y \in DOMAIN e[x] /\ e[x][y] = d[x][y]
        BY GrownKeeps
      <4> QED BY <2>2, <3>4, <4>1 DEF LivesFrom
    <3> QED BY <3>1, <3>2, <3>3, <3>4 DEF LivesFrom
  <2> QED BY <2>1, <2>2
<1> QED BY <1>1 DEF AliveBefore

\* A record added at the very end comes too late for every earlier place.
LEMMA LastWriteKeepsLives ==
  ASSUME NEW d, NEW r, NEW e, Grown(d, Len(d), <<r>>, e),
         NEW g \in DOMAIN d, NEW j \in DOMAIN d[g]
  PROVE  /\ AliveBefore(e, g, j) = AliveBefore(d, g, j)
         /\ \A h, k, w : LivesFrom(d, h, k, w, g, j) <=> LivesFrom(e, h, k, w, g, j)
<1>0. g \in 1 .. Len(d) /\ j \in 1 .. Len(d[g]) /\ Len(d[Len(d)]) \in Nat /\ DOMAIN e = DOMAIN d
      /\ Len(d) \in Nat /\ Len(d[g]) \in Nat
  BY DEF Grown
<1>1. ASSUME NEW x \in DOMAIN e, NEW y \in DOMAIN e[x], Before(x, y, g, j)
      PROVE  x \in DOMAIN d /\ y \in DOMAIN d[x] /\ e[x][y] = d[x][y]
  <2>1. ASSUME ~ (y \in DOMAIN d[x]) PROVE FALSE
    <3>1. x = Len(d) /\ \E k \in DOMAIN <<r>> : y = Len(d[Len(d)]) + k
      BY <2>1, GrownAdds
    <3>2. DOMAIN <<r>> = {1}
      OBVIOUS
    <3>3. x = Len(d) /\ y = Len(d[Len(d)]) + 1
      BY <3>1, <3>2
    <3> QED BY <1>0, <1>1, <3>3 DEF Before
  <2> QED BY <1>0, <2>1, GrownKeeps
<1>2. ASSUME NEW h, NEW k, NEW w
      PROVE  LivesFrom(d, h, k, w, g, j) <=> LivesFrom(e, h, k, w, g, j)
  <2>1. ASSUME LivesFrom(d, h, k, w, g, j) PROVE LivesFrom(e, h, k, w, g, j)
    BY <1>0, <1>1, <2>1, GrownKeeps DEF LivesFrom
  <2>2. ASSUME LivesFrom(e, h, k, w, g, j) PROVE LivesFrom(d, h, k, w, g, j)
    <3>1. h \in DOMAIN d /\ k \in DOMAIN d[h] /\ Spawns(d[h][k], w) /\ Before(h, k, g, j)
      BY <1>1, <2>2 DEF LivesFrom
    <3>2. ASSUME NEW x \in DOMAIN d, NEW y \in DOMAIN d[x],
                 Before(h, k, x, y) /\ Before(x, y, g, j)
          PROVE  ~ Kills(d[x][y], w)
      <4>1. x \in DOMAIN e /\ y \in DOMAIN e[x] /\ e[x][y] = d[x][y]
        BY GrownKeeps
      <4> QED BY <2>2, <3>2, <4>1 DEF LivesFrom
    <3> QED BY <3>1, <3>2 DEF LivesFrom
  <2> QED BY <2>1, <2>2
<1> QED BY <1>2 DEF AliveBefore

\* What the last record does to those who lived before it.
LEMMA LastWriteChangesLives ==
  ASSUME NEW d, NEW r, NEW e, Grown(d, Len(d), <<r>>, e)
  PROVE  /\ r.event = "STARTING_UP" => AliveLast(e) = {}
         /\ r.event = "WORKER_SPAWNED" /\ r.workerId \in Workers
              => AliveLast(e) = AliveLast(d) \cup {r.workerId}
         /\ r.event = "WORKER_EXITED" => AliveLast(e) = AliveLast(d) \ {r.workerId}
         /\ \A w \in Workers : r.event = "WORKER_SPAWNED" /\ r.workerId = w
              => \E j : LivesFrom(e, Len(d), j, w, Len(e) + 1, 1)
         /\ \A g, j, w : LivesFrom(d, g, j, w, Len(d) + 1, 1) /\ ~ Kills(r, w)
              => LivesFrom(e, g, j, w, Len(e) + 1, 1)
<1> DEFINE n == Len(d)
           m == Len(d[n]) + 1
<1>0. /\ n \in Nat /\ n \in DOMAIN d /\ DOMAIN e = DOMAIN d /\ Len(e) = n /\ DOMAIN d = 1 .. n
      /\ Len(d[n]) \in Nat /\ DOMAIN d[n] = 1 .. Len(d[n])
      /\ \A g \in DOMAIN d : DOMAIN d[g] = 1 .. Len(d[g]) /\ Len(d[g]) \in Nat
  BY DEF Grown
<1>1. m \in DOMAIN e[n] /\ e[n][m] = r /\ m \notin DOMAIN d[n]
  <2>1. 1 \in DOMAIN <<r>> /\ <<r>>[1] = r /\ Len(<<r>>) = 1
    OBVIOUS
  <2>2. e[n][Len(d[n]) + 1] = r
    BY <2>1 DEF Grown
  <2>3. m \in 1 .. Len(d[n]) + Len(<<r>>)
    BY <1>0, <2>1
  <2> QED BY <1>0, <2>2, <2>3 DEF Grown
<1>2. ASSUME NEW x \in DOMAIN e, NEW y \in DOMAIN e[x]
      PROVE  (x = n /\ y = m) \/ (y \in DOMAIN d[x] /\ e[x][y] = d[x][y])
  <2>1. DOMAIN <<r>> = {1}
    OBVIOUS
  <2> QED BY <2>1, <1>0, GrownAdds, GrownKeeps
<1>3. ASSUME NEW x \in DOMAIN d, NEW y \in DOMAIN d[x]
      PROVE  /\ Before(x, y, n + 1, 1) /\ Before(x, y, n, m)
             /\ x \in DOMAIN e /\ y \in DOMAIN e[x] /\ e[x][y] = d[x][y]
  <2>1. x \in 1 .. n /\ y \in 1 .. Len(d[x]) /\ Len(d[x]) \in Nat
    BY <1>0
  <2>2. Before(x, y, n + 1, 1) /\ Before(x, y, n, m)
    BY <1>0, <2>1 DEF Before
  <2> QED BY <2>2, GrownKeeps
<1>4. Before(n, m, n + 1, 1) /\ ~ Before(n, m, n, m)
  <2>1. n \in Nat /\ m \in Nat
    BY <1>0
  <2> HIDE DEF n, m
  <2> QED BY <2>1 DEF Before
<1> HIDE DEF n, m
<1>5. ASSUME NEW g, NEW j, NEW w
      PROVE  LivesFrom(e, g, j, w, n + 1, 1)
               <=> \/ LivesFrom(d, g, j, w, n + 1, 1) /\ ~ Kills(r, w)
                   \/ g = n /\ j = m /\ Spawns(r, w)
  <2>1. ASSUME LivesFrom(e, g, j, w, n + 1, 1), ~ (g = n /\ j = m)
        PROVE  LivesFrom(d, g, j, w, n + 1, 1) /\ ~ Kills(r, w)
    <3>1. g \in DOMAIN d /\ j \in DOMAIN d[g] /\ Spawns(d[g][j], w) /\ Before(g, j, n + 1, 1)
      BY <1>0, <1>2, <2>1 DEF LivesFrom
    <3>2. ASSUME NEW x \in DOMAIN d, NEW y \in DOMAIN d[x], Before(g, j, x, y)
          PROVE  ~ Kills(d[x][y], w)
      BY <1>3, <2>1, <3>2 DEF LivesFrom
    <3>3. ~ Kills(r, w)
      BY <1>0, <1>1, <1>3, <1>4, <2>1, <3>1 DEF LivesFrom
    <3> QED BY <3>1, <3>2, <3>3 DEF LivesFrom
  <2>2. ASSUME LivesFrom(e, g, j, w, n + 1, 1), g = n, j = m
        PROVE  Spawns(r, w)
    BY <1>1, <2>2 DEF LivesFrom
  <2>3. ASSUME LivesFrom(d, g, j, w, n + 1, 1), ~ Kills(r, w)
        PROVE  LivesFrom(e, g, j, w, n + 1, 1)
    <3>1. g \in DOMAIN e /\ j \in DOMAIN e[g] /\ Spawns(e[g][j], w) /\ Before(g, j, n + 1, 1)
      BY <1>3, <2>3 DEF LivesFrom
    <3>2. ASSUME NEW x \in DOMAIN e, NEW y \in DOMAIN e[x], Before(g, j, x, y), Before(x, y, n + 1, 1)
          PROVE  ~ Kills(e[x][y], w)
      BY <1>0, <1>1, <1>2, <2>3, <3>2 DEF LivesFrom
    <3> QED BY <3>1, <3>2 DEF LivesFrom
  <2>4. ASSUME g = n, j = m, Spawns(r, w)
        PROVE  LivesFrom(e, g, j, w, n + 1, 1)
    <3>1. ASSUME NEW x \in DOMAIN e, NEW y \in DOMAIN e[x], Before(n, m, x, y)
          PROVE  FALSE
      <4>1. CASE x = n /\ y = m
        BY <1>4, <3>1, <4>1
      <4>2. CASE y \in DOMAIN d[x]
        <5>1. x \in 1 .. n /\ y \in 1 .. Len(d[x]) /\ Len(d[x]) \in Nat
          BY <1>0, <4>2
        <5>2. x = n => y < m
          BY <1>0, <5>1 DEF m
        <5>3. m \in Nat /\ y \in Nat /\ n \in Nat
          BY <1>0, <5>1 DEF m
        <5> QED BY <3>1, <5>1, <5>2, <5>3 DEF Before
      <4> QED BY <1>2, <4>1, <4>2
    <3> QED BY <1>0, <1>1, <1>4, <2>4, <3>1 DEF LivesFrom
  <2> QED BY <2>1, <2>2, <2>3, <2>4
<1>6. ASSUME r.event = "STARTING_UP" PROVE AliveLast(e) = {}
  <2>1. \A w : Kills(r, w) /\ ~ Spawns(r, w)
    BY <1>6 DEF Kills, Spawns
  <2> QED BY <1>0, <1>5, <2>1 DEF AliveLast, AliveBefore, n
<1>7. ASSUME r.event = "WORKER_SPAWNED", r.workerId \in Workers
      PROVE  AliveLast(e) = AliveLast(d) \cup {r.workerId}
  <2>1. \A w : ~ Kills(r, w) /\ (Spawns(r, w) <=> r.workerId = w)
    BY <1>7 DEF Kills, Spawns
  <2>2. \A g, j, w : LivesFrom(e, g, j, w, n + 1, 1)
           <=> (LivesFrom(d, g, j, w, n + 1, 1) \/ (g = n /\ j = m /\ w = r.workerId))
    BY <1>5, <2>1
  <2>3. ASSUME NEW w
        PROVE  (\E g, j : LivesFrom(e, g, j, w, n + 1, 1))
                 <=> ((\E g, j : LivesFrom(d, g, j, w, n + 1, 1)) \/ w = r.workerId)
    <3>1. ASSUME w = r.workerId PROVE LivesFrom(e, n, m, w, n + 1, 1)
      BY <2>2, <3>1
    <3>2. ASSUME NEW g, NEW j, LivesFrom(d, g, j, w, n + 1, 1)
          PROVE  LivesFrom(e, g, j, w, n + 1, 1)
      BY <2>2, <3>2
    <3>3. ASSUME NEW g, NEW j, LivesFrom(e, g, j, w, n + 1, 1)
          PROVE  LivesFrom(d, g, j, w, n + 1, 1) \/ w = r.workerId
      BY <2>2, <3>3
    <3> QED BY <3>1, <3>2, <3>3
  <2>4. AliveBefore(e, n + 1, 1) = AliveBefore(d, n + 1, 1) \cup {r.workerId}
    BY <1>7, <2>3 DEF AliveBefore
  <2> QED BY <1>0, <2>4 DEF AliveLast, n
<1>8. ASSUME r.event = "WORKER_EXITED" PROVE AliveLast(e) = AliveLast(d) \ {r.workerId}
  <2>1. \A w : ~ Spawns(r, w) /\ (Kills(r, w) <=> r.workerId = w)
    BY <1>8 DEF Kills, Spawns
  <2>2. \A g, j, w : LivesFrom(e, g, j, w, n + 1, 1)
           <=> (LivesFrom(d, g, j, w, n + 1, 1) /\ w # r.workerId)
    BY <1>5, <2>1
  <2> QED BY <1>0, <2>2 DEF AliveLast, AliveBefore, n
<1>9. ASSUME NEW w \in Workers, r.event = "WORKER_SPAWNED", r.workerId = w
      PROVE  LivesFrom(e, n, m, w, n + 1, 1)
  BY <1>5, <1>9 DEF Spawns
<1> QED BY <1>0, <1>5, <1>6, <1>7, <1>8, <1>9 DEF n

\* Places at the end of a file, and beyond the last record.
LEMMA EndsAreOne ==
  ASSUME NEW d \in Disks, Len(d) # 0, NEW i \in Nat, i > Len(d[Len(d)])
  PROVE  AliveBefore(d, Len(d), i) = AliveLast(d)
<1>0. /\ DOMAIN d = 1 .. Len(d) /\ Len(d) \in Nat
      /\ \A g \in DOMAIN d : DOMAIN d[g] = 1 .. Len(d[g]) /\ Len(d[g]) \in Nat
  BY LenProperties, ElementOfSeq DEF Disks
<1>1. ASSUME NEW g \in DOMAIN d, NEW j \in DOMAIN d[g]
      PROVE  Before(g, j, Len(d), i) /\ Before(g, j, Len(d) + 1, 1)
  <2>1. g \in 1 .. Len(d) /\ Len(d) \in Nat /\ j \in Nat
    BY <1>0
  <2>2. g = Len(d) => j < i
    BY <1>0
  <2> QED BY <2>1, <2>2 DEF Before
<1>2. ASSUME NEW g, NEW j, NEW w
      PROVE  LivesFrom(d, g, j, w, Len(d), i) <=> LivesFrom(d, g, j, w, Len(d) + 1, 1)
  BY <1>1 DEF LivesFrom
<1> QED BY <1>2 DEF AliveLast, AliveBefore

\* A new empty file changes nobody's life.
LEMMA NewFileKeepsLives ==
  ASSUME NEW d \in Disks
  PROVE  /\ AliveLast(Append(d, <<>>)) = AliveLast(d)
         /\ \A g, j : AliveBefore(Append(d, <<>>), g, j) = AliveBefore(d, g, j)
<1> DEFINE e == Append(d, <<>>)
<1>0. /\ DOMAIN d = 1 .. Len(d) /\ Len(d) \in Nat
      /\ DOMAIN e = 1 .. Len(d) + 1 /\ e[Len(d) + 1] = <<>> /\ \A g \in DOMAIN d : e[g] = d[g]
      /\ Len(e) = Len(d) + 1
  BY NewFileProperties, LenProperties DEF Disks
<1> HIDE DEF e
<1>1. \A g, j : (g \in DOMAIN e /\ j \in DOMAIN e[g]) <=> (g \in DOMAIN d /\ j \in DOMAIN d[g])
  <2>1. DOMAIN <<>> = {}
    OBVIOUS
  <2> QED BY <1>0, <2>1
<1>2. ASSUME NEW g, NEW j PROVE AliveBefore(e, g, j) = AliveBefore(d, g, j)
  <2>1. ASSUME NEW h, NEW k, NEW w
        PROVE  LivesFrom(e, h, k, w, g, j) <=> LivesFrom(d, h, k, w, g, j)
    BY <1>0, <1>1 DEF LivesFrom
  <2> QED BY <2>1 DEF AliveBefore
<1>3. AliveBefore(d, Len(d) + 1 + 1, 1) = AliveBefore(d, Len(d) + 1, 1)
  <2>1. ASSUME NEW h \in DOMAIN d, NEW k
        PROVE  Before(h, k, Len(d) + 1 + 1, 1) /\ Before(h, k, Len(d) + 1, 1)
    BY <1>0 DEF Before
  <2>2. ASSUME NEW h, NEW k, NEW w
        PROVE  LivesFrom(d, h, k, w, Len(d) + 1 + 1, 1) <=> LivesFrom(d, h, k, w, Len(d) + 1, 1)
    BY <2>1 DEF LivesFrom
  <2> QED BY <2>2 DEF AliveBefore
<1> QED BY <1>0, <1>2, <1>3 DEF AliveLast, e

-----------------------------------------------------------------------------
(* Files that tell the truth about who lives.                               *)

\* Each ping, and each worker's record, is true where it stands.
PingsAgree(d) ==
  \A f \in DOMAIN d : \A i \in DOMAIN d[f] :
    d[f][i].event = "MASTER_PING" => d[f][i].workerIds = AliveBefore(d, f, i)

LogsBracketed(d) ==
  \A f \in DOMAIN d : \A i \in DOMAIN d[f] :
    d[f][i].event = "WORKER_LOG" => d[f][i].workerId \in AliveBefore(d, f, i)

\* Nobody's life to date differs.
SameLives(d, e) ==
  /\ AliveLast(e) = AliveLast(d)
  /\ \A g, j, w : LivesFrom(d, g, j, w, Len(d) + 1, 1) => LivesFrom(e, g, j, w, Len(e) + 1, 1)

\* A flush of quiet records that tell the truth.
LEMMA QuietWriteAgrees ==
  ASSUME NEW d, NEW f, NEW batch, NEW e, Grown(d, f, batch, e),
         \A k \in DOMAIN batch :
           /\ Quiet(batch[k])
           /\ batch[k].event = "MASTER_PING" => f = Len(d) /\ batch[k].workerIds = AliveLast(d)
           /\ batch[k].event = "WORKER_LOG" =>
                /\ batch[k].workerId \in Workers
                /\ \E g, j : g <= f /\ LivesFrom(d, g, j, batch[k].workerId, Len(d) + 1, 1),
         PingsAgree(d), LogsBracketed(d)
  PROVE  PingsAgree(e) /\ LogsBracketed(e) /\ SameLives(d, e)
<1>0. /\ d \in Disks /\ e \in Disks /\ Len(e) = Len(d) /\ Len(d) \in Nat /\ DOMAIN d = 1 .. Len(d)
      /\ DOMAIN e = DOMAIN d /\ f \in DOMAIN d
      /\ \A g \in DOMAIN d : DOMAIN d[g] = 1 .. Len(d[g]) /\ Len(d[g]) \in Nat
      /\ DOMAIN batch = 1 .. Len(batch) /\ Len(batch) \in Nat
  BY DEF Grown
<1>1. /\ \A g, j : AliveBefore(e, g, j) = AliveBefore(d, g, j)
      /\ \A g, j, h, k, w : LivesFrom(d, h, k, w, g, j) <=> LivesFrom(e, h, k, w, g, j)
  BY QuietWriteKeepsLives
<1>2. SameLives(d, e)
  BY <1>0, <1>1 DEF SameLives, AliveLast
<1>3. ASSUME NEW g \in DOMAIN e, NEW i \in DOMAIN e[g]
      PROVE  /\ e[g][i].event = "MASTER_PING" => e[g][i].workerIds = AliveBefore(e, g, i)
             /\ e[g][i].event = "WORKER_LOG" => e[g][i].workerId \in AliveBefore(e, g, i)
  <2>1. CASE i \in DOMAIN d[g]
    <3>1. g \in DOMAIN d /\ e[g][i] = d[g][i]
      BY <1>0, <2>1, GrownKeeps
    <3> QED BY <1>1, <2>1, <3>1 DEF PingsAgree, LogsBracketed
  <2>2. CASE ~ (i \in DOMAIN d[g])
    <3>1. PICK k \in DOMAIN batch : g = f /\ i = Len(d[f]) + k /\ e[g][i] = batch[k]
      BY <2>2, GrownAdds
    <3>2. i \in Nat /\ i > Len(d[f]) /\ Len(d[f]) \in Nat
      BY <1>0, <3>1
    <3>3. ASSUME batch[k].event = "MASTER_PING"
          PROVE  batch[k].workerIds = AliveBefore(e, g, i)
      <4>1. f = Len(d) /\ batch[k].workerIds = AliveLast(d) /\ Len(d) # 0
        BY <1>0, <3>3
      <4>2. AliveBefore(d, f, i) = AliveLast(d)
        BY <1>0, <3>2, <4>1, EndsAreOne
      <4> QED BY <1>1, <3>1, <4>1, <4>2
    <3>4. ASSUME batch[k].event = "WORKER_LOG"
          PROVE  batch[k].workerId \in AliveBefore(e, g, i)
      <4> DEFINE w == batch[k].workerId
      <4>1. PICK h, j : w \in Workers /\ h <= f /\ LivesFrom(d, h, j, w, Len(d) + 1, 1)
        BY <3>4
      <4> HIDE DEF w
      <4>2. /\ h \in DOMAIN d /\ j \in DOMAIN d[h] /\ Spawns(d[h][j], w)
        BY <4>1 DEF LivesFrom
      <4>3. Before(h, j, f, i)
        <5>1. h \in 1 .. Len(d) /\ f \in 1 .. Len(d) /\ j \in 1 .. Len(d[h]) /\ Len(d[h]) \in Nat
          BY <1>0, <4>2
        <5> QED BY <1>0, <3>2, <4>1, <5>1 DEF Before
      <4>4. ASSUME NEW x \in DOMAIN d, NEW y \in DOMAIN d[x], Before(h, j, x, y)
            PROVE  ~ Kills(d[x][y], w)
        <5>1. Before(x, y, Len(d) + 1, 1)
          BY <1>0 DEF Before
        <5> QED BY <4>1, <4>4, <5>1 DEF LivesFrom
      <4>5. LivesFrom(d, h, j, w, f, i)
        BY <4>2, <4>3, <4>4 DEF LivesFrom
      <4>6. w \in AliveBefore(d, f, i)
        BY <4>1, <4>5 DEF AliveBefore
      <4> QED BY <1>1, <3>1, <4>6 DEF w
    <3> QED BY <3>1, <3>3, <3>4
  <2> QED BY <2>1, <2>2
<1> QED BY <1>2, <1>3 DEF PingsAgree, LogsBracketed

\* One record about a worker or a start, at the very end.
LEMMA LastWriteAgrees ==
  ASSUME NEW d, NEW r, NEW e, Grown(d, Len(d), <<r>>, e),
         r.event # "MASTER_PING", r.event # "WORKER_LOG",
         PingsAgree(d), LogsBracketed(d)
  PROVE  PingsAgree(e) /\ LogsBracketed(e)
<1>1. ASSUME NEW g \in DOMAIN e, NEW i \in DOMAIN e[g]
      PROVE  /\ e[g][i].event = "MASTER_PING" => e[g][i].workerIds = AliveBefore(e, g, i)
             /\ e[g][i].event = "WORKER_LOG" => e[g][i].workerId \in AliveBefore(e, g, i)
  <2>1. CASE i \in DOMAIN d[g]
    <3>1. g \in DOMAIN d /\ e[g][i] = d[g][i]
      BY <2>1, GrownKeeps DEF Grown
    <3>2. AliveBefore(e, g, i) = AliveBefore(d, g, i)
      BY <2>1, <3>1, LastWriteKeepsLives
    <3> QED BY <2>1, <3>1, <3>2 DEF PingsAgree, LogsBracketed
  <2>2. CASE ~ (i \in DOMAIN d[g])
    <3>1. PICK k \in DOMAIN <<r>> : e[g][i] = <<r>>[k]
      BY <2>2, GrownAdds
    <3>2. <<r>>[k] = r
      OBVIOUS
    <3> QED BY <3>1, <3>2
  <2> QED BY <2>1, <2>2
<1> QED BY <1>1 DEF PingsAgree, LogsBracketed

\* A new empty file.
LEMMA NewFileAgrees ==
  ASSUME NEW d \in Disks, PingsAgree(d), LogsBracketed(d)
  PROVE  /\ PingsAgree(Append(d, <<>>)) /\ LogsBracketed(Append(d, <<>>))
         /\ SameLives(d, Append(d, <<>>))
<1> DEFINE e == Append(d, <<>>)
<1>0. /\ DOMAIN d = 1 .. Len(d) /\ Len(d) \in Nat
      /\ DOMAIN e = 1 .. Len(d) + 1 /\ e[Len(d) + 1] = <<>> /\ \A g \in DOMAIN d : e[g] = d[g]
      /\ Len(e) = Len(d) + 1
  BY NewFileProperties, LenProperties DEF Disks
<1>1. AliveLast(e) = AliveLast(d) /\ \A g, j : AliveBefore(e, g, j) = AliveBefore(d, g, j)
  BY NewFileKeepsLives
<1> HIDE DEF e
<1>2. \A g \in DOMAIN e : \A j \in DOMAIN e[g] :
        g \in DOMAIN d /\ j \in DOMAIN d[g] /\ e[g][j] = d[g][j]
  <2>1. DOMAIN <<>> = {}
    OBVIOUS
  <2> QED BY <1>0, <2>1
<1>3. ASSUME NEW g, NEW j, NEW w, LivesFrom(d, g, j, w, Len(d) + 1, 1)
      PROVE  LivesFrom(e, g, j, w, Len(e) + 1, 1)
  <2>1. g \in DOMAIN d /\ j \in DOMAIN d[g] /\ Spawns(d[g][j], w) /\ Before(g, j, Len(d) + 1, 1)
    BY <1>3 DEF LivesFrom
  <2>2. \A x \in DOMAIN d : \A y : Before(x, y, Len(d) + 1, 1) /\ Before(x, y, Len(e) + 1, 1)
    BY <1>0 DEF Before
  <2>3. g \in DOMAIN e /\ j \in DOMAIN e[g] /\ e[g][j] = d[g][j]
    BY <1>0, <2>1
  <2>4. ASSUME NEW x \in DOMAIN e, NEW y \in DOMAIN e[x], Before(g, j, x, y)
        PROVE  ~ Kills(e[x][y], w)
    BY <1>2, <1>3, <2>2, <2>4 DEF LivesFrom
  <2> QED BY <2>1, <2>2, <2>3, <2>4 DEF LivesFrom
<1> QED BY <1>1, <1>2, <1>3 DEF PingsAgree, LogsBracketed, SameLives, e

\* A write that ends with one more record is two writes.
LEMMA WriteSplit ==
  ASSUME NEW d \in Disks, NEW f \in DOMAIN d, NEW batch \in Seq(Record), NEW r \in Record
  PROVE  /\ WriteTo(d, f, batch) \in Disks /\ <<r>> \in Seq(Record)
         /\ WriteTo(d, f, Append(batch, r)) = WriteTo(WriteTo(d, f, batch), f, <<r>>)
<1>1. d[f] \in Seq(Record) /\ <<r>> \in Seq(Record)
  BY ElementOfSeq DEF Disks
<1>2. Append(batch, r) = batch \o <<r>>
  BY AppendIsConcat
<1>3. d[f] \o (batch \o <<r>>) = (d[f] \o batch) \o <<r>>
  BY <1>1, ConcatAssociative
<1>4. WriteTo(d, f, batch) \in Disks
  BY WriteToProperties
<1>5. WriteTo(WriteTo(d, f, batch), f, <<r>>) = WriteTo(d, f, batch \o <<r>>)
  <2>1. d = [g \in DOMAIN d |-> d[g]]
    BY DEF Disks
  <2> QED BY <1>3, <2>1 DEF WriteTo
<1> QED BY <1>1, <1>2, <1>4, <1>5

\* The master has logged its STARTING_UP.
Running == mpc \in {"up", "rotated"}

\* The master's list and what it has buffered agree with the stream so far.
MasterKnows ==
  IF Running
    THEN /\ workerIds = AliveLast(disk)
         /\ \A k \in DOMAIN mbuf :
              \/ mbuf[k].event = "MASTER_LOG"
              \/ mbuf[k].event = "MASTER_PING" /\ mbuf[k].workerIds = workerIds
    ELSE mbuf = <<>>

\* A live worker's spawning is in its file or an earlier one, and nothing in
\* the stream has ended it since.
LiveAreSpawned ==
  \A w \in Live : \E g, j : g <= wfile[w] /\ LivesFrom(disk, g, j, w, Len(disk) + 1, 1)

\* What the steps keep as long as no lifecycle write has thrown.
LivesInv == PingsAgree(disk) /\ LogsBracketed(disk) /\ MasterKnows /\ LiveAreSpawned

\* The master's buffer reaches the file.
LEMMA MasterFlushAgrees ==
  ASSUME TypeOK, MasterOnLast, LivesInv, mpc # "down"
  PROVE  LET e == WriteTo(disk, mfile, mbuf) IN
           /\ PingsAgree(e) /\ LogsBracketed(e) /\ SameLives(disk, e)
           /\ e \in Disks /\ Len(e) = Len(disk) /\ mfile = Len(disk) /\ mfile \in DOMAIN e
<1> DEFINE e == WriteTo(disk, mfile, mbuf)
<1>1. disk \in Disks /\ mbuf \in Seq(Record) /\ mfile \in DOMAIN disk /\ mfile = Len(disk)
  BY MasterFileOpen DEF TypeOK, Disks
<1>2. Grown(disk, mfile, mbuf, e)
  BY <1>1, WriteGrows
<1> HIDE DEF e
<1>3. ASSUME NEW k \in DOMAIN mbuf
      PROVE  /\ Quiet(mbuf[k]) /\ mbuf[k].event # "WORKER_LOG"
             /\ mbuf[k].event = "MASTER_PING" => mbuf[k].workerIds = AliveLast(disk)
  <2>1. CASE Running
    BY <2>1 DEF LivesInv, MasterKnows, Quiet
  <2>2. CASE ~ Running
    <3>1. mbuf = <<>> /\ DOMAIN <<>> = {}
      BY <2>2 DEF LivesInv, MasterKnows
    <3> QED BY <3>1
  <2> QED BY <2>1, <2>2
<1>4. PingsAgree(e) /\ LogsBracketed(e) /\ SameLives(disk, e)
  BY <1>1, <1>2, <1>3, QuietWriteAgrees DEF LivesInv
<1> QED BY <1>1, <1>2, <1>4 DEF Grown, e

\* A worker's buffer reaches the file it has open.
LEMMA WorkerFlushAgrees ==
  ASSUME TypeOK, Shape, LivesInv, NEW w \in Live
  PROVE  LET e == WriteTo(disk, wfile[w], wbuf[w]) IN
           /\ PingsAgree(e) /\ LogsBracketed(e) /\ SameLives(disk, e)
           /\ e \in Disks /\ Len(e) = Len(disk) /\ DOMAIN e = DOMAIN disk
<1> DEFINE e == WriteTo(disk, wfile[w], wbuf[w])
<1>1. disk \in Disks /\ wbuf[w] \in Seq(Record) /\ wfile[w] \in DOMAIN disk /\ w \in Workers
  BY DEF TypeOK, Disks, Live, Shape, LiveHaveAFile
<1>2. Grown(disk, wfile[w], wbuf[w], e)
  BY <1>1, WriteGrows
<1> HIDE DEF e
<1>3. ASSUME NEW k \in DOMAIN wbuf[w]
      PROVE  /\ Quiet(wbuf[w][k]) /\ wbuf[w][k].event = "WORKER_LOG" /\ wbuf[w][k].workerId = w
  BY DEF Shape, OwnRecords, Quiet
<1>4. \E g, j : g <= wfile[w] /\ LivesFrom(disk, g, j, w, Len(disk) + 1, 1)
  BY DEF LivesInv, LiveAreSpawned
<1>5. PingsAgree(e) /\ LogsBracketed(e) /\ SameLives(disk, e)
  BY <1>1, <1>2, <1>3, <1>4, QuietWriteAgrees DEF LivesInv
<1> QED BY <1>2, <1>5 DEF Grown, e

-----------------------------------------------------------------------------
(* Every step keeps it so.                                                  *)

\* The master flushes its buffer and one record of a start, a spawn or an exit.
LEMMA LifeRecordWritten ==
  ASSUME TypeOK, MasterOnLast, LivesInv, mpc # "down", NEW r \in Record, LogAndFlush(r),
         r.event # "MASTER_PING", r.event # "WORKER_LOG"
  PROVE  /\ PingsAgree(disk') /\ LogsBracketed(disk')
         /\ mbuf' = <<>> /\ mfile = Len(disk)
         /\ r.event = "STARTING_UP" => AliveLast(disk') = {}
         /\ \A w \in Workers : r.event = "WORKER_SPAWNED" /\ r.workerId = w =>
              /\ AliveLast(disk') = AliveLast(disk) \cup {w}
              /\ \E j : LivesFrom(disk', Len(disk), j, w, Len(disk') + 1, 1)
         /\ r.event = "WORKER_EXITED" => AliveLast(disk') = AliveLast(disk) \ {r.workerId}
         /\ \A g, j, w : LivesFrom(disk, g, j, w, Len(disk) + 1, 1) /\ ~ Kills(r, w)
              => LivesFrom(disk', g, j, w, Len(disk') + 1, 1)
<1> DEFINE e == WriteTo(disk, mfile, mbuf)
<1>1. /\ PingsAgree(e) /\ LogsBracketed(e) /\ SameLives(disk, e)
      /\ e \in Disks /\ Len(e) = Len(disk) /\ mfile = Len(disk) /\ mfile \in DOMAIN e
  BY MasterFlushAgrees
<1>2. disk' = WriteTo(e, mfile, <<r>>) /\ mbuf' = <<>> /\ <<r>> \in Seq(Record)
  <2>1. disk \in Disks /\ mbuf \in Seq(Record) /\ mfile \in DOMAIN disk
    BY MasterFileOpen DEF TypeOK, Disks
  <2> QED BY <2>1, WriteSplit DEF LogAndFlush
<1> HIDE DEF e
<1>3. Grown(e, Len(e), <<r>>, disk')
  BY <1>1, <1>2, WriteGrows
<1>4. PingsAgree(disk') /\ LogsBracketed(disk')
  BY <1>1, <1>3, LastWriteAgrees
<1>5. Len(disk') = Len(e)
  BY <1>3 DEF Grown
<1>6. /\ r.event = "STARTING_UP" => AliveLast(disk') = {}
      /\ r.event = "WORKER_SPAWNED" /\ r.workerId \in Workers
           => AliveLast(disk') = AliveLast(e) \cup {r.workerId}
      /\ r.event = "WORKER_EXITED" => AliveLast(disk') = AliveLast(e) \ {r.workerId}
      /\ \A w \in Workers : r.event = "WORKER_SPAWNED" /\ r.workerId = w
           => \E j : LivesFrom(disk', Len(e), j, w, Len(disk') + 1, 1)
      /\ \A g, j, w : LivesFrom(e, g, j, w, Len(e) + 1, 1) /\ ~ Kills(r, w)
           => LivesFrom(disk', g, j, w, Len(disk') + 1, 1)
  BY <1>3, LastWriteChangesLives
<1> QED BY <1>1, <1>2, <1>4, <1>6 DEF SameLives

\* What one flush after another leaves of LiveAreSpawned.
LEMMA SpawnedKept ==
  ASSUME LiveAreSpawned, SameLives(disk, disk'), Live' \subseteq Live,
         \A w \in Live' : wfile'[w] = wfile[w]
  PROVE  LiveAreSpawned'
BY DEF LiveAreSpawned, SameLives

\* Every action keeps LivesInv.
LEMMA LivesStep ==
  ASSUME TypeOK, Shape, TypeOK', LivesInv, [Next]_vars, throws = 0, throws' = 0
  PROVE  LivesInv'
<1> USE DEF Shape
<1>0. disk \in Disks /\ Len(disk) \in Nat /\ DOMAIN disk = 1 .. Len(disk)
  BY LenProperties DEF TypeOK, Disks
<1>1. CASE StartMaster
  <2>1. Live' = {} /\ mpc' = "opened" /\ mbuf' = <<>>
    BY <1>1 DEF StartMaster, Live
  <2>2. PingsAgree(disk') /\ LogsBracketed(disk')
    <3>1. disk' = disk \/ disk' = Append(disk, <<>>)
      BY <1>1 DEF StartMaster
    <3> QED BY <1>0, <3>1, NewFileAgrees DEF LivesInv
  <2> QED BY <2>1, <2>2 DEF LivesInv, MasterKnows, Running, LiveAreSpawned
<1>2. CASE STARTING_UP
  <2> DEFINE r == MasterRecord("STARTING_UP", NoWorker, {})
  <2>1. r \in Record /\ r.event = "STARTING_UP"
    BY RecordTypes DEF Events, MasterRecord
  <2> HIDE DEF r
  <2>2. mpc = "opened" /\ LogAndFlush(r) /\ workerIds' = {} /\ mpc' = "up" /\ wst' = wst
    BY <1>2 DEF STARTING_UP, r
  <2>3. /\ PingsAgree(disk') /\ LogsBracketed(disk') /\ mbuf' = <<>> /\ AliveLast(disk') = {}
    BY <2>1, <2>2, LifeRecordWritten
  <2>4. Live' = {}
    BY <2>2 DEF NobodyBefore, Live
  <2>5. DOMAIN <<>> = {}
    OBVIOUS
  <2> QED BY <2>2, <2>3, <2>4, <2>5 DEF LivesInv, MasterKnows, Running, LiveAreSpawned
<1>3. ASSUME NEW w \in Workers, WORKER_SPAWNED(w) PROVE LivesInv'
  <2> DEFINE r == MasterRecord("WORKER_SPAWNED", w, {})
  <2>1. r \in Record /\ r.event = "WORKER_SPAWNED" /\ r.workerId = w
    BY RecordTypes DEF Events, MasterRecord
  <2> HIDE DEF r
  <2>2. mpc = "up" /\ LogAndFlush(r) /\ workerIds' = workerIds \cup {w} /\ Forked(w) /\ mpc' = "up"
    BY <1>3 DEF WORKER_SPAWNED, r
  <2>3. /\ PingsAgree(disk') /\ LogsBracketed(disk') /\ mbuf' = <<>> /\ mfile = Len(disk)
        /\ AliveLast(disk') = AliveLast(disk) \cup {w}
        /\ \E j : LivesFrom(disk', Len(disk), j, w, Len(disk') + 1, 1)
        /\ \A g, j, v : LivesFrom(disk, g, j, v, Len(disk) + 1, 1)
              => LivesFrom(disk', g, j, v, Len(disk') + 1, 1)
    BY <2>1, <2>2, LifeRecordWritten DEF Kills
  <2>4. /\ Live' = Live \cup {w} /\ wfile'[w] = Len(disk)
        /\ \A v \in Workers \ {w} : wfile'[v] = wfile[v]
    BY <2>2, ForkTypes
  <2>5. w \notin Live /\ \A v \in Live : v \in Workers
    BY <1>3 DEF WORKER_SPAWNED, Live
  <2>6. LiveAreSpawned'
    <3>1. SUFFICES ASSUME NEW v \in Live'
                   PROVE  \E g, j : g <= wfile'[v] /\ LivesFrom(disk', g, j, v, Len(disk') + 1, 1)
      BY DEF LiveAreSpawned
    <3>2. CASE v = w
      <4>1. Len(disk) <= wfile'[v]
        BY <1>0, <2>4, <3>2
      <4> QED BY <2>3, <3>2, <4>1
    <3>3. CASE v # w
      <4>1. v \in Live /\ wfile'[v] = wfile[v]
        BY <2>4, <2>5, <3>3
      <4>2. PICK g, j : g <= wfile[v] /\ LivesFrom(disk, g, j, v, Len(disk) + 1, 1)
        BY <4>1 DEF LivesInv, LiveAreSpawned
      <4> QED BY <2>3, <4>1, <4>2
    <3> QED BY <3>2, <3>3
  <2>7. workerIds = AliveLast(disk) /\ DOMAIN <<>> = {}
    BY <2>2 DEF LivesInv, MasterKnows, Running
  <2> QED BY <2>2, <2>3, <2>6, <2>7 DEF LivesInv, MasterKnows, Running
<1>5. ASSUME NEW w \in Workers, WORKER_EXITED(w) PROVE LivesInv'
  <2> DEFINE r == MasterRecord("WORKER_EXITED", w, {})
  <2>1. r \in Record /\ r.event = "WORKER_EXITED" /\ r.workerId = w
    BY RecordTypes DEF Events, MasterRecord
  <2> HIDE DEF r
  <2>2. /\ mpc = "up" /\ wst[w] = "exited" /\ LogAndFlush(r) /\ workerIds' = workerIds \ {w}
        /\ wst' = [wst EXCEPT ![w] = "reaped"] /\ mpc' = "up" /\ wfile' = wfile
    BY <1>5 DEF WORKER_EXITED, r
  <2>3. /\ PingsAgree(disk') /\ LogsBracketed(disk') /\ mbuf' = <<>>
        /\ AliveLast(disk') = AliveLast(disk) \ {w}
        /\ \A g, j, v : LivesFrom(disk, g, j, v, Len(disk) + 1, 1) /\ ~ Kills(r, v)
              => LivesFrom(disk', g, j, v, Len(disk') + 1, 1)
    BY <2>1, <2>2, LifeRecordWritten
  <2>4. Live' = Live /\ w \notin Live
    BY <2>2 DEF Live, TypeOK
  <2>5. LiveAreSpawned'
    <3>1. SUFFICES ASSUME NEW v \in Live
                   PROVE  \E g, j : g <= wfile[v] /\ LivesFrom(disk', g, j, v, Len(disk') + 1, 1)
      BY <2>2, <2>4 DEF LiveAreSpawned
    <3>2. ~ Kills(r, v)
      BY <2>1, <2>4 DEF Kills
    <3>3. PICK g, j : g <= wfile[v] /\ LivesFrom(disk, g, j, v, Len(disk) + 1, 1)
      BY DEF LivesInv, LiveAreSpawned
    <3> QED BY <2>3, <3>2, <3>3
  <2>7. workerIds = AliveLast(disk) /\ DOMAIN <<>> = {}
    BY <2>2 DEF LivesInv, MasterKnows, Running
  <2> QED BY <2>2, <2>3, <2>5, <2>7 DEF LivesInv, MasterKnows, Running
<1>6. ASSUME NEW w \in Workers, WorkerSpawnedThrows(w) \/ WorkerExitedThrows(w) PROVE FALSE
  BY <1>6 DEF WorkerSpawnedThrows, WorkerExitedThrows, LogAndFlushThrows
<1>7. CASE MasterLog
  <2>1. PICK r \in {MasterRecord("MASTER_LOG", NoWorker, {}),
                   MasterRecord("MASTER_PING", NoWorker, workerIds)} :
          mbuf' = Append(mbuf, r)
    BY <1>7 DEF MasterLog
  <2>2. /\ mpc = "up" /\ mpc' = "up" /\ UNCHANGED <<disk, workerIds, wst, wfile>>
    BY <1>7 DEF MasterLog, workers
  <2>3. r.event = "MASTER_LOG" \/ (r.event = "MASTER_PING" /\ r.workerIds = workerIds)
    BY <2>1 DEF MasterRecord
  <2>4. mbuf \in Seq(Record) /\ r \in Record
    <3>1. mbuf \in Seq(Record)
      BY DEF TypeOK
    <3> QED BY <2>1, <3>1, RecordTypes DEF Events
  <2>5. ASSUME NEW k \in DOMAIN mbuf'
        PROVE  \/ mbuf'[k].event = "MASTER_LOG"
               \/ mbuf'[k].event = "MASTER_PING" /\ mbuf'[k].workerIds = workerIds
    <3>1. k \in 1 .. Len(mbuf) + 1 /\ Len(mbuf) \in Nat /\ DOMAIN mbuf = 1 .. Len(mbuf)
      BY <2>1, <2>4, AppendProperties, LenProperties
    <3>2. CASE k = Len(mbuf) + 1
      BY <2>1, <2>3, <2>4, <3>2, AppendProperties
    <3>3. CASE k # Len(mbuf) + 1
      <4>1. k \in DOMAIN mbuf
        BY <3>1, <3>3
      <4>2. mbuf'[k] = mbuf[k]
        BY <2>1, <2>4, <3>1, <4>1, AppendProperties
      <4> QED BY <2>2, <4>1, <4>2 DEF LivesInv, MasterKnows, Running
    <3> QED BY <3>2, <3>3
  <2>6. workerIds = AliveLast(disk)
    BY <2>2 DEF LivesInv, MasterKnows, Running
  <2> QED BY <2>2, <2>5, <2>6 DEF LivesInv, MasterKnows, Running, LiveAreSpawned, Live
<1>8. CASE MasterFlush
  <2>1. /\ mpc = "up" /\ mpc' = "up" /\ disk' = WriteTo(disk, mfile, mbuf) /\ mbuf' = <<>>
        /\ UNCHANGED <<workerIds, wst, wfile>>
    BY <1>8 DEF MasterFlush, workers
  <2>2. PingsAgree(disk') /\ LogsBracketed(disk') /\ SameLives(disk, disk')
    BY <2>1, MasterFlushAgrees
  <2>3. LiveAreSpawned'
    BY <2>1, <2>2, SpawnedKept DEF Live, LivesInv
  <2>4. workerIds = AliveLast(disk) /\ DOMAIN <<>> = {}
    BY <2>1 DEF LivesInv, MasterKnows, Running
  <2> QED BY <2>1, <2>2, <2>3, <2>4 DEF LivesInv, MasterKnows, Running, SameLives
<1>9. CASE Rotate
  <2> DEFINE e == WriteTo(disk, mfile, mbuf)
  <2>1. /\ mpc = "up" /\ mpc' = "rotated" /\ disk' = Append(e, <<>>) /\ mbuf' = <<>>
        /\ UNCHANGED <<workerIds, wst, wfile>>
    BY <1>9 DEF Rotate, workers
  <2>2. PingsAgree(e) /\ LogsBracketed(e) /\ SameLives(disk, e) /\ e \in Disks
    BY <2>1, MasterFlushAgrees
  <2> HIDE DEF e
  <2>3. PingsAgree(disk') /\ LogsBracketed(disk') /\ SameLives(e, disk')
    BY <2>1, <2>2, NewFileAgrees
  <2>4. SameLives(disk, disk')
    BY <2>2, <2>3 DEF SameLives
  <2>5. LiveAreSpawned'
    BY <2>1, <2>4, SpawnedKept DEF Live, LivesInv
  <2>6. workerIds = AliveLast(disk) /\ DOMAIN <<>> = {}
    BY <2>1 DEF LivesInv, MasterKnows, Running
  <2> QED BY <2>1, <2>3, <2>4, <2>5, <2>6 DEF LivesInv, MasterKnows, Running, SameLives
<1>10. CASE RotatePing
  <2> DEFINE r == MasterRecord("MASTER_PING", NoWorker, workerIds)
             e == WriteTo(disk, mfile, mbuf)
  <2>1. r \in Record /\ r.event = "MASTER_PING" /\ r.workerIds = workerIds
    BY RecordTypes DEF Events, MasterRecord
  <2> HIDE DEF r
  <2>2. /\ mpc = "rotated" /\ LogAndFlush(r) /\ mpc' = "up" /\ UNCHANGED <<workerIds, wst, wfile>>
    BY <1>10 DEF RotatePing, r
  <2>3. /\ PingsAgree(e) /\ LogsBracketed(e) /\ SameLives(disk, e)
        /\ e \in Disks /\ mfile = Len(e) /\ mfile \in DOMAIN e
    BY <2>2, MasterFlushAgrees
  <2>4. disk' = WriteTo(e, mfile, <<r>>) /\ mbuf' = <<>> /\ <<r>> \in Seq(Record)
    <3>1. disk \in Disks /\ mbuf \in Seq(Record) /\ mfile \in DOMAIN disk
      BY <2>2, MasterFileOpen DEF TypeOK, Disks
    <3> QED BY <2>1, <2>2, <3>1, WriteSplit DEF LogAndFlush
  <2> HIDE DEF e
  <2>5. Grown(e, mfile, <<r>>, disk')
    BY <2>3, <2>4, WriteGrows
  <2>6. workerIds = AliveLast(e) /\ DOMAIN <<>> = {}
    BY <2>2, <2>3 DEF LivesInv, MasterKnows, Running, SameLives
  <2>7. PingsAgree(disk') /\ LogsBracketed(disk') /\ SameLives(e, disk')
    <3>1. ASSUME NEW k \in DOMAIN <<r>> PROVE <<r>>[k] = r
      OBVIOUS
    <3> QED BY <2>1, <2>3, <2>5, <2>6, <3>1, QuietWriteAgrees DEF Quiet
  <2>8. SameLives(disk, disk')
    BY <2>3, <2>7 DEF SameLives
  <2>9. LiveAreSpawned'
    BY <2>2, <2>8, SpawnedKept DEF Live, LivesInv
  <2> QED BY <2>2, <2>4, <2>6, <2>7, <2>9 DEF LivesInv, MasterKnows, Running, SameLives
<1>11. CASE StopMaster
  <2>1. /\ mpc # "down" /\ mpc' = "down" /\ mbuf' = <<>> /\ UNCHANGED <<wst, wfile>>
        /\ (disk' = disk) \/ (disk' = WriteTo(disk, mfile, mbuf))
    BY <1>11 DEF StopMaster, MasterUp, workers
  <2>2. PingsAgree(disk') /\ LogsBracketed(disk') /\ SameLives(disk, disk')
    <3>1. CASE disk' = disk
      BY <3>1 DEF LivesInv, SameLives
    <3>2. CASE disk' = WriteTo(disk, mfile, mbuf)
      BY <2>1, <3>2, MasterFlushAgrees
    <3> QED BY <2>1, <3>1, <3>2
  <2>3. LiveAreSpawned'
    BY <2>1, <2>2, SpawnedKept DEF Live, LivesInv
  <2> QED BY <2>1, <2>2, <2>3 DEF LivesInv, MasterKnows, Running
<1>12. ASSUME NEW w \in Workers, WorkerLog(w) \/ WorkerLogThrows(w) PROVE LivesInv'
  <2>1. UNCHANGED <<disk, mbuf, mpc, workerIds, wst, wfile>>
    BY <1>12 DEF WorkerLog, WorkerLogThrows, master
  <2> QED BY <2>1 DEF LivesInv, MasterKnows, Running, LiveAreSpawned, Live
<1>13. ASSUME NEW w \in Workers, WorkerFlush(w) PROVE LivesInv'
  <2>1. /\ w \in Live /\ disk' = WriteTo(disk, wfile[w], wbuf[w])
        /\ UNCHANGED <<mbuf, mpc, workerIds, wst, wfile>>
    BY <1>13 DEF WorkerFlush, master, Live
  <2>2. PingsAgree(disk') /\ LogsBracketed(disk') /\ SameLives(disk, disk')
    BY <2>1, WorkerFlushAgrees
  <2>3. LiveAreSpawned'
    BY <2>1, <2>2, SpawnedKept DEF Live, LivesInv
  <2> QED BY <2>1, <2>2, <2>3 DEF LivesInv, MasterKnows, Running, SameLives
<1>14. ASSUME NEW w \in Workers, WorkerRotate(w) PROVE LivesInv'
  <2> DEFINE f == Head(inbox[w])
             e == WriteTo(disk, wfile[w], wbuf[w])
             r == WorkerRecord(w)
  <2>1. /\ w \in Live /\ inbox[w] # <<>>
        /\ disk' = WriteTo(e, f, <<r>>)
        /\ wfile' = [wfile EXCEPT ![w] = f]
        /\ UNCHANGED <<mbuf, mpc, workerIds, wst>>
    BY <1>14 DEF WorkerRotate, master, Live
  <2>2. /\ PingsAgree(e) /\ LogsBracketed(e) /\ SameLives(disk, e)
        /\ e \in Disks /\ Len(e) = Len(disk) /\ DOMAIN e = DOMAIN disk
    BY <2>1, WorkerFlushAgrees
  <2> HIDE DEF e
  <2>3. r \in Record /\ r.event = "WORKER_LOG" /\ r.workerId = w /\ <<r>> \in Seq(Record)
    BY RecordTypes DEF WorkerRecord
  <2> HIDE DEF r
  <2>4. wfile[w] < f /\ f \in DOMAIN disk /\ f \in Nat /\ wfile[w] \in Nat
    <3>1. inbox[w] \in Seq(Nat) /\ Len(inbox[w]) \in Nat \ {0} /\ f = inbox[w][1]
          /\ 1 \in DOMAIN inbox[w] /\ f \in Nat
      BY <2>1, EmptySeq DEF TypeOK
    <3>2. wfile[w] < f /\ f <= Len(disk) /\ wfile[w] \in Nat
      BY <2>1, <3>1 DEF InboxLeadsForward, TypeOK
    <3> QED BY <1>0, <3>1, <3>2
  <2> HIDE DEF f
  <2>5. Grown(e, f, <<r>>, disk')
    BY <2>1, <2>2, <2>3, <2>4, WriteGrows
  <2>6. PICK g, j : g <= wfile[w] /\ LivesFrom(e, g, j, w, Len(e) + 1, 1)
    BY <2>1, <2>2 DEF LivesInv, LiveAreSpawned, SameLives
  <2>7. g <= f
    <3>1. g \in DOMAIN e
      BY <2>6 DEF LivesFrom
    <3> QED BY <1>0, <2>2, <2>4, <2>6, <3>1
  <2>8. PingsAgree(disk') /\ LogsBracketed(disk') /\ SameLives(e, disk')
    <3>1. ASSUME NEW k \in DOMAIN <<r>> PROVE <<r>>[k] = r
      OBVIOUS
    <3> QED BY <2>2, <2>3, <2>5, <2>6, <2>7, <3>1, QuietWriteAgrees DEF Quiet
  <2>9. SameLives(disk, disk')
    BY <2>2, <2>8 DEF SameLives
  <2>10. LiveAreSpawned'
    <3>1. Live' = Live /\ wfile'[w] = f /\ \A v \in Live : v # w => wfile'[v] = wfile[v]
      BY <2>1 DEF Live, TypeOK
    <3>2. SUFFICES ASSUME NEW v \in Live
                   PROVE  \E h, i : h <= wfile'[v] /\ LivesFrom(disk', h, i, v, Len(disk') + 1, 1)
      BY <3>1 DEF LiveAreSpawned
    <3>3. CASE v = w
      BY <2>6, <2>7, <2>8, <3>1, <3>3 DEF SameLives
    <3>4. CASE v # w
      BY <2>9, <3>1, <3>4 DEF LivesInv, LiveAreSpawned, SameLives
    <3> QED BY <3>3, <3>4
  <2> QED BY <2>1, <2>8, <2>9, <2>10 DEF LivesInv, MasterKnows, Running, SameLives
<1>15. ASSUME NEW w \in Workers, WorkerExit(w) PROVE LivesInv'
  <2>1. /\ w \in Live /\ wst' = [wst EXCEPT ![w] = "exited"]
        /\ (disk' = disk) \/ (disk' = WriteTo(disk, wfile[w], wbuf[w]))
        /\ wfile' = [wfile EXCEPT ![w] = 0]
        /\ UNCHANGED <<mbuf, mpc, workerIds>>
    BY <1>15 DEF WorkerExit, master, Live
  <2>2. PingsAgree(disk') /\ LogsBracketed(disk') /\ SameLives(disk, disk')
    <3>1. CASE disk' = disk
      BY <3>1 DEF LivesInv, SameLives
    <3>2. CASE disk' = WriteTo(disk, wfile[w], wbuf[w])
      BY <2>1, <3>2, WorkerFlushAgrees
    <3> QED BY <2>1, <3>1, <3>2
  <2>3. Live' = Live \ {w} /\ \A v \in Live' : wfile'[v] = wfile[v]
    BY <2>1 DEF Live, TypeOK
  <2>4. LiveAreSpawned'
    BY <2>2, <2>3, SpawnedKept DEF LivesInv
  <2> QED BY <2>1, <2>2, <2>4 DEF LivesInv, MasterKnows, Running, SameLives
<1>16. CASE MasterLogThrows \/ Tick \/ UNCHANGED vars
  <2>1. UNCHANGED <<disk, mbuf, mpc, workerIds, wst, wfile>>
    BY <1>16 DEF MasterLogThrows, Tick, vars, master, workers
  <2> QED BY <2>1 DEF LivesInv, MasterKnows, Running, LiveAreSpawned, Live
<1> QED
  BY <1>1, <1>2, <1>3, <1>5, <1>6, <1>7, <1>8, <1>9, <1>10, <1>11, <1>12,
     <1>13, <1>14, <1>15, <1>16 DEF Next, MasterNext, WorkerNext

\* A write that has thrown is never forgotten.
LEMMA ThrowsStay ==
  ASSUME TypeOK, [Next]_vars
  PROVE  throws' = 0 => throws = 0
<1>1. CASE MasterNext \/ Tick \/ UNCHANGED vars
  BY <1>1 DEF MasterNext, vars, StartMaster, STARTING_UP, MasterLog, MasterLogThrows,
     MasterFlush, Rotate, RotatePing, StopMaster, Tick
<1>2. ASSUME NEW w \in Workers, WorkerNext(w) PROVE throws' = 0 => throws = 0
  <2>1. throws' = throws \/ throws' = throws + 1
    BY <1>2 DEF WorkerNext, WORKER_SPAWNED, WorkerSpawnedThrows, WORKER_EXITED,
       WorkerExitedThrows, LogAndFlushThrows, WorkerLog, WorkerLogThrows, WorkerFlush,
       WorkerRotate, WorkerExit
  <2> QED BY <2>1 DEF TypeOK
<1> QED BY <1>1, <1>2 DEF Next

StreamInv == IInv /\ (throws = 0 => LivesInv)

\* LivesInv is an invariant of the runs without such a write.
LEMMA StreamInvariant == Spec => []StreamInv
<1>1. Init => (throws = 0 => LivesInv)
  <2> SUFFICES ASSUME Init PROVE LivesInv
    OBVIOUS
  <2>1. disk = <<>> /\ DOMAIN <<>> = {} /\ Live = {} /\ mpc = "down" /\ mbuf = <<>>
    BY DEF Init, Live
  <2> QED BY <2>1 DEF LivesInv, PingsAgree, LogsBracketed, MasterKnows, Running, LiveAreSpawned
<1>2. IInv /\ IInv' /\ (throws = 0 => LivesInv) /\ [Next]_vars => (throws = 0 => LivesInv)'
  BY ThrowsStay, LivesStep DEF IInv
<1>3. Spec => [](throws = 0 => LivesInv)
  BY <1>1, <1>2, ClusterInvariant, PTL DEF Spec
<1> QED BY <1>3, ClusterInvariant, PTL DEF StreamInv

\* Read end to end, pings name exactly the living, and workers write only
\* between their spawning and their exit.
THEOREM StreamTellsWhoLives == Spec => [](PingsListTheLiving /\ WorkersAreBracketed)
<1>1. StreamInv => PingsListTheLiving /\ WorkersAreBracketed
  <2> SUFFICES ASSUME StreamInv, throws = 0 PROVE PingsListTheLiving /\ WorkersAreBracketed
    BY DEF PingsListTheLiving, WorkersAreBracketed
  <2>1. disk \in Disks /\ disk \in Seq(Seq(Record)) /\ PingsAgree(disk) /\ LogsBracketed(disk)
    BY DEF StreamInv, IInv, TypeOK, LivesInv, Disks
  <2> DEFINE S == Stream
  <2>2. S \in Seq(Record)
    BY <2>1, FlattenIsLocated DEF Stream
  <2>3. PICK loc : Located(disk, S, loc)
    BY <2>1, FlattenIsLocated DEF Stream
  <2> HIDE DEF S
  <2>4. ASSUME NEW p \in DOMAIN S
        PROVE  /\ S[p].event = "MASTER_PING" => S[p].workerIds = AliveAt(S, p)
               /\ S[p].event = "WORKER_LOG" => S[p].workerId \in AliveAt(S, p)
    <3>1. /\ loc[p][1] \in DOMAIN disk /\ loc[p][2] \in DOMAIN disk[loc[p][1]]
          /\ S[p] = disk[loc[p][1]][loc[p][2]]
      BY <2>3 DEF Located
    <3>2. AliveAt(S, p) = AliveBefore(disk, loc[p][1], loc[p][2])
      BY <2>1, <2>2, <2>3, AliveByPlace
    <3> QED BY <2>1, <3>1, <3>2 DEF PingsAgree, LogsBracketed
  <2> QED BY <2>4 DEF PingsListTheLiving, WorkersAreBracketed, S
<1> QED BY <1>1, StreamInvariant, PTL

\* A ping of the master names exactly those who live at its place in the stream.
THEOREM PingsTellWhoLives == Spec => []PingsListTheLiving
BY StreamTellsWhoLives, PTL

\* A worker writes nothing before its spawning or after its exit.
THEOREM WorkersStayBracketed == Spec => []WorkersAreBracketed
BY StreamTellsWhoLives, PTL

-----------------------------------------------------------------------------
(* The pass isRotating() makes over a file.                                 *)

\* The fold of ScanSays, step by step.
ScanStart == [pinged |-> FALSE, pending |-> {}, done |-> FALSE]

ScanStep(state, record) ==
  IF state.done THEN state
  ELSE IF record.event = "STARTING_UP" THEN [state EXCEPT !.done = TRUE]
  ELSE IF ~state.pinged
    THEN IF record.event = "MASTER_PING"
           THEN [pinged |-> TRUE, pending |-> record.workerIds,
                 done |-> record.workerIds = {}]
           ELSE state
  ELSE IF record.workerId # NoWorker
    THEN LET rest == state.pending \ {record.workerId}
         IN [state EXCEPT !.pending = rest, !.done = rest = {}]
  ELSE state

\* g takes each number of records to the state the scan is in after them.
IsScan(c, D, g) ==
  g = [s \in D |-> IF s = {} THEN ScanStart ELSE ScanStep(g[s \ {Max(s)}], c[Max(s)])]

\* ScanSays is the last value of such a function.
LEMMA ScanUnfold ==
  ASSUME NEW c
  PROVE  ScanSays(c) = (CHOOSE g : IsScan(c, SUBSET DOMAIN c, g))[DOMAIN c].done
BY DEF ScanSays, FoldLeft, MapThenFoldSet, IsScan, ScanStart, ScanStep

\* There is one.
LEMMA ScanExists ==
  ASSUME NEW c, NEW n \in Nat, DOMAIN c = 1 .. n
  PROVE  \E g : IsScan(c, SUBSET DOMAIN c, g)
<1> DEFINE S == 1 .. n
           T == {k \in Nat : ~ \E g : IsScan(c, UpTo(S, k), g)}
<1>a. IsFiniteSet(S) /\ Cardinality(S) = n
  BY FS_Interval
<1>0. \A s \in SUBSET S : IsFiniteSet(s) /\ Cardinality(s) \in Nat
                       /\ Cardinality(s) <= Cardinality(S)
  BY <1>a, FS_Subset, FS_CardinalityType
<1>b. ASSUME NEW s \in SUBSET S, s # {} PROVE Max(s) \in s
  <2>1. s \subseteq 0 .. n
    OBVIOUS
  <2> QED BY <1>b, <2>1, GreatestNumber
<1>1. ASSUME T # {} PROVE FALSE
  <2>1. PICK k \in T : \A j \in T : k <= j
    BY <1>1, LeastNumber
  <2>2. k \in Nat /\ k \in T
    OBVIOUS
  <2>3. CASE k = 0
    <3> DEFINE g == [s \in UpTo(S, 0) |-> ScanStart]
    <3>1. \A s \in UpTo(S, 0) : s = {}
      BY <1>0, FS_EmptySet DEF UpTo
    <3>2. IsScan(c, UpTo(S, 0), g)
      BY <3>1 DEF IsScan
    <3> QED BY <2>2, <2>3, <3>2
  <2>4. CASE k # 0
    <3>1. k - 1 \in Nat /\ k - 1 \notin T
      BY <2>1, <2>2, <2>4
    <3>2. PICK h : IsScan(c, UpTo(S, k - 1), h)
      BY <3>1
    <3> DEFINE g == [s \in UpTo(S, k) |-> IF s \in UpTo(S, k - 1) THEN h[s]
                                         ELSE ScanStep(h[s \ {Max(s)}], c[Max(s)])]
    <3>3. ASSUME NEW s \in UpTo(S, k)
          PROVE  g[s] = IF s = {} THEN ScanStart ELSE ScanStep(g[s \ {Max(s)}], c[Max(s)])
      <4>1. s \in SUBSET S /\ Cardinality(s) \in Nat /\ Cardinality(s) <= k /\ IsFiniteSet(s)
        BY <1>0 DEF UpTo
      <4>2. CASE s = {}
        <5>1. s \in UpTo(S, k - 1)
          BY <4>1, <4>2, <3>1, FS_EmptySet DEF UpTo
        <5>2. h[s] = ScanStart
          BY <5>1, <3>2, <4>2 DEF IsScan
        <5> QED BY <5>1, <5>2, <4>2
      <4>3. CASE s # {}
        <5>1. Max(s) \in s
          BY <4>1, <4>3, <1>b
        <5>2. Cardinality(s \ {Max(s)}) = Cardinality(s) - 1
          BY <4>1, <5>1, FS_RemoveElement
        <5>3. s \ {Max(s)} \in UpTo(S, k - 1) /\ s \ {Max(s)} \in UpTo(S, k)
          <6> DEFINE t == s \ {Max(s)}
          <6>1. t \in SUBSET S /\ Cardinality(t) = Cardinality(s) - 1
            BY <4>1, <5>2
          <6> HIDE DEF t, S
          <6>2. t \in UpTo(S, k - 1) /\ t \in UpTo(S, k)
            BY <2>2, <4>1, <6>1 DEF UpTo
          <6> QED BY <6>2 DEF t
        <5>4. g[s \ {Max(s)}] = h[s \ {Max(s)}]
          BY <5>3
        <5>5. CASE s \in UpTo(S, k - 1)
          <6>1. h[s] = ScanStep(h[s \ {Max(s)}], c[Max(s)])
            BY <3>2, <5>5, <4>3 DEF IsScan
          <6> QED BY <6>1, <5>4, <5>5, <4>3
        <5>6. CASE s \notin UpTo(S, k - 1)
          BY <5>4, <5>6, <4>3
        <5> QED BY <5>5, <5>6
      <4> QED BY <4>2, <4>3
    <3>4. g = [s \in UpTo(S, k) |-> g[s]]
      OBVIOUS
    <3> HIDE DEF g
    <3>5. IsScan(c, UpTo(S, k), g)
      BY <3>3, <3>4 DEF IsScan
    <3> QED BY <3>5, <2>2
  <2> QED BY <2>3, <2>4
<1>3. UpTo(S, n) = SUBSET S
  BY <1>0, <1>a DEF UpTo
<1>4. \E g : IsScan(c, UpTo(S, n), g)
  BY <1>1
<1> QED BY <1>3, <1>4

\* What the first k records decide.
DecidedBy(c, k) ==
  \/ \E i \in 1 .. k : c[i].event = "STARTING_UP"
  \/ \E i \in 1 .. k : /\ IsFirstPing(c, i)
                       /\ \A w \in c[i].workerIds : \E j \in i + 1 .. k : c[j].workerId = w

\* The scan's state after k records.
ScanIsAt(c, k, state) ==
  /\ state = [pinged |-> state.pinged, pending |-> state.pending, done |-> state.done]
  /\ state.done \in BOOLEAN /\ state.pinged \in BOOLEAN
  /\ state.done <=> DecidedBy(c, k)
  /\ ~ state.done =>
       /\ ~ state.pinged => \A i \in 1 .. k : c[i].event # "MASTER_PING"
       /\ state.pinged => \E i \in 1 .. k :
            /\ IsFirstPing(c, i)
            /\ state.pending = {w \in c[i].workerIds : \A j \in i + 1 .. k : c[j].workerId # w}

\* One record more.
LEMMA ScanAdvances ==
  ASSUME NEW c, NEW k \in Nat, NEW state, ScanIsAt(c, k, state), NEW r, c[k + 1] = r,
         r.workerIds \subseteq Workers,
         \A i \in 1 .. k : c[i].workerIds \subseteq Workers
  PROVE  ScanIsAt(c, k + 1, ScanStep(state, r))
<1> DEFINE after == ScanStep(state, r)
<1>0. \A i : (i \in 1 .. k + 1) <=> (i \in 1 .. k \/ i = k + 1)
  OBVIOUS
<1>1. CASE state.done
  <2>1. after = state
    BY <1>1 DEF ScanStep
  <2>2. DecidedBy(c, k + 1)
    <3>1. DecidedBy(c, k)
      BY <1>1 DEF ScanIsAt
    <3>2. \A i, j : j \in i + 1 .. k => j \in i + 1 .. k + 1
      OBVIOUS
    <3> QED BY <1>0, <3>1, <3>2 DEF DecidedBy
  <2> QED BY <1>1, <2>1, <2>2 DEF ScanIsAt
<1>2. CASE ~ state.done /\ r.event = "STARTING_UP"
  <2>1. after = [state EXCEPT !.done = TRUE]
    BY <1>2 DEF ScanStep
  <2>2. DecidedBy(c, k + 1)
    BY <1>0, <1>2 DEF DecidedBy
  <2>3. after = [pinged |-> state.pinged, pending |-> state.pending, done |-> TRUE]
    BY <2>1 DEF ScanIsAt
  <2> HIDE DEF after
  <2> QED BY <2>2, <2>3 DEF ScanIsAt, after
<1>3. ASSUME ~ state.done, r.event # "STARTING_UP"
      PROVE  \A i \in 1 .. k + 1 : c[i].event # "STARTING_UP"
  BY <1>0, <1>3 DEF ScanIsAt, DecidedBy
<1>4. CASE ~ state.done /\ r.event # "STARTING_UP" /\ ~ state.pinged /\ r.event = "MASTER_PING"
  <2>1. after = [pinged |-> TRUE, pending |-> r.workerIds, done |-> r.workerIds = {}]
    BY <1>4 DEF ScanStep
  <2>2. IsFirstPing(c, k + 1) /\ \A i \in 1 .. k : ~ IsFirstPing(c, i)
    <3>1. \A i \in 1 .. k : c[i].event # "MASTER_PING"
      BY <1>4 DEF ScanIsAt
    <3>2. (k + 1) - 1 = k
      OBVIOUS
    <3> QED BY <1>4, <3>1, <3>2 DEF IsFirstPing
  <2>3. \A j : j \notin (k + 1) + 1 .. k + 1
    OBVIOUS
  <2>4. DecidedBy(c, k + 1) <=> r.workerIds = {}
    BY <1>0, <1>3, <1>4, <2>2, <2>3 DEF DecidedBy
  <2>5. r.workerIds = {w \in c[k + 1].workerIds : \A j \in (k + 1) + 1 .. k + 1 : c[j].workerId # w}
    BY <2>3
  <2>6. k + 1 \in 1 .. k + 1
    OBVIOUS
  <2> HIDE DEF after
  <2>7. /\ after.pinged = TRUE /\ after.pending = r.workerIds /\ after.done = (r.workerIds = {})
    BY <2>1
  <2> QED BY <2>1, <2>2, <2>4, <2>5, <2>6, <2>7 DEF ScanIsAt, after
<1>5. CASE ~ state.done /\ r.event # "STARTING_UP" /\ ~ state.pinged /\ r.event # "MASTER_PING"
  <2>1. after = state
    BY <1>5 DEF ScanStep
  <2>2. \A i \in 1 .. k + 1 : c[i].event # "MASTER_PING"
    BY <1>0, <1>5 DEF ScanIsAt
  <2>3. ~ DecidedBy(c, k + 1)
    BY <1>3, <1>5, <2>2 DEF DecidedBy, IsFirstPing
  <2> QED BY <1>5, <2>1, <2>2, <2>3 DEF ScanIsAt
<1>6. CASE ~ state.done /\ r.event # "STARTING_UP" /\ state.pinged
  <2>1. PICK i \in 1 .. k :
          /\ IsFirstPing(c, i)
          /\ state.pending = {w \in c[i].workerIds : \A j \in i + 1 .. k : c[j].workerId # w}
    BY <1>6 DEF ScanIsAt
  <2>2. \A m \in 1 .. k + 1 : IsFirstPing(c, m) => m = i
    <3> SUFFICES ASSUME NEW m \in 1 .. k + 1, IsFirstPing(c, m), m # i PROVE FALSE
      OBVIOUS
    <3>1. m \in 1 .. i - 1 \/ i \in 1 .. m - 1
      OBVIOUS
    <3> QED BY <2>1, <3>1 DEF IsFirstPing
  <2> DEFINE left == {w \in c[i].workerIds : \A j \in i + 1 .. k + 1 : c[j].workerId # w}
  <2>3. \A j : (j \in i + 1 .. k + 1) <=> (j \in i + 1 .. k \/ j = k + 1)
    OBVIOUS
  <2>4. left = state.pending \ {r.workerId}
    BY <2>1, <2>3
  <2>5. DecidedBy(c, k + 1) <=> left = {}
    BY <1>0, <1>3, <1>6, <2>1, <2>2 DEF DecidedBy
  <2>6. state.pending # {}
    <3>1. ~ DecidedBy(c, k)
      BY <1>6 DEF ScanIsAt
    <3> QED BY <2>1, <3>1 DEF DecidedBy
  <2> HIDE DEF left
  <2>7. CASE r.workerId # NoWorker
    <3>1. after = [state EXCEPT !.pending = left, !.done = left = {}]
      BY <1>6, <2>4, <2>7 DEF ScanStep
    <3>2. after = [pinged |-> state.pinged, pending |-> left, done |-> left = {}]
      BY <3>1 DEF ScanIsAt
    <3> HIDE DEF after
    <3>3. after.pinged = TRUE /\ after.pending = left /\ after.done = (left = {})
      BY <3>2, <1>6 DEF ScanIsAt
    <3>4. i \in 1 .. k + 1
      OBVIOUS
    <3>5. left = {w \in c[i].workerIds : \A j \in i + 1 .. k + 1 : c[j].workerId # w}
      BY DEF left
    <3> QED BY <2>1, <2>5, <3>2, <3>3, <3>4, <3>5 DEF ScanIsAt, after
  <2>8. CASE r.workerId = NoWorker
    <3>1. after = state
      BY <1>6, <2>8 DEF ScanStep
    <3>2. left = state.pending
      BY <2>1, <2>4, <2>8, ClusterAssumption
    <3>3. i \in 1 .. k + 1
      OBVIOUS
    <3>4. left = {w \in c[i].workerIds : \A j \in i + 1 .. k + 1 : c[j].workerId # w}
      BY DEF left
    <3> QED BY <1>6, <2>1, <2>5, <2>6, <3>1, <3>2, <3>3, <3>4 DEF ScanIsAt
  <2> QED BY <2>7, <2>8
<1>7. state.pinged \in BOOLEAN /\ state.done \in BOOLEAN
  BY DEF ScanIsAt
<1> QED BY <1>1, <1>2, <1>4, <1>5, <1>6, <1>7

\* After the last record the scan has decided if the contents settle.
LEMMA ScanIsSettled ==
  ASSUME NEW c \in Seq(Record)
  PROVE  ScanSays(c) <=> Settled(c)
<1> DEFINE n == Len(c)
<1>0. n \in Nat /\ DOMAIN c = 1 .. n /\ \A i \in 1 .. n : c[i].workerIds \subseteq Workers
  <2>1. n \in Nat /\ DOMAIN c = 1 .. n
    BY LenProperties
  <2>2. \A i \in 1 .. n : c[i] \in Record
    BY ElementOfSeq
  <2> QED BY <2>1, <2>2 DEF Record
<1> HIDE DEF n
<1>1. PICK g : IsScan(c, SUBSET DOMAIN c, g) /\ ScanSays(c) = g[DOMAIN c].done
  BY <1>0, ScanExists, ScanUnfold
<1> DEFINE T == {k \in Nat : k <= n /\ ~ ScanIsAt(c, k, g[1 .. k])}
<1>2. ASSUME T # {} PROVE FALSE
  <2>1. PICK m \in T : \A j \in T : m <= j
    BY <1>2, LeastNumber
  <2>2. m \in Nat /\ m <= n /\ ~ ScanIsAt(c, m, g[1 .. m])
    OBVIOUS
  <2>3. CASE m = 0
    <3>1. 1 .. m = {}
      BY <2>3
    <3>2. g[1 .. m] = ScanStart
      BY <1>1, <3>1 DEF IsScan
    <3>3. ~ DecidedBy(c, 0) /\ \A i : i \notin 1 .. 0
      BY DEF DecidedBy
    <3>4. ScanIsAt(c, 0, ScanStart)
      BY <3>3 DEF ScanIsAt, ScanStart
    <3> QED BY <2>2, <2>3, <3>2, <3>4
  <2>4. CASE m # 0
    <3>1. PICK k \in Nat : m = k + 1
      <4>1. m - 1 \in Nat /\ m = (m - 1) + 1
        BY <2>2, <2>4
      <4> QED BY <4>1
    <3>2. k \notin T /\ k <= n
      BY <1>0, <2>1, <2>2, <3>1
    <3>3. ScanIsAt(c, k, g[1 .. k])
      BY <3>2
    <3>4. Max(1 .. m) = m
      <4>1. m \in 1 .. m /\ 1 .. m \subseteq 0 .. m
        BY <2>2, <3>1
      <4>2. Max(1 .. m) \in 1 .. m /\ \A x \in 1 .. m : x <= Max(1 .. m)
        BY <2>2, <4>1, GreatestNumber
      <4> QED BY <2>2, <4>1, <4>2
    <3>5. (1 .. m) \ {m} = 1 .. k /\ 1 .. m # {} /\ 1 .. m \in SUBSET DOMAIN c
      <4>1. \A x : x \in 1 .. m <=> (x \in 1 .. k \/ x = m)
        BY <3>1
      <4>2. m \notin 1 .. k /\ m \in 1 .. m
        BY <3>1
      <4>3. 1 .. m \subseteq 1 .. n
        BY <1>0, <2>2
      <4> HIDE DEF T
      <4> QED BY <1>0, <4>1, <4>2, <4>3
    <3>6. g[1 .. m] = ScanStep(g[1 .. k], c[m])
      BY <1>1, <3>4, <3>5 DEF IsScan
    <3>7. c[m].workerIds \subseteq Workers /\ \A i \in 1 .. k : c[i].workerIds \subseteq Workers
      BY <1>0, <2>2, <3>1
    <3>8. ScanIsAt(c, k + 1, ScanStep(g[1 .. k], c[m]))
      <4> HIDE DEF T
      <4> QED BY <3>1, <3>3, <3>7, ScanAdvances
    <3> QED BY <2>2, <3>1, <3>6, <3>8
  <2> QED BY <2>3, <2>4
<1>3. ScanIsAt(c, n, g[1 .. n])
  BY <1>0, <1>2
<1>4. DecidedBy(c, n) <=> Settled(c)
  BY <1>0 DEF DecidedBy, Settled, n
<1> QED BY <1>0, <1>1, <1>3, <1>4 DEF ScanIsAt

\* isRotating()'s single pass decides exactly what Settled says of the file.
THEOREM ScanIsExact == Spec => []ScanAgrees
<1>1. TypeOK => ScanAgrees
  BY ScanIsSettled, ElementOfSeq DEF TypeOK, ScanAgrees
<1> QED BY <1>1, ClusterTypes, PTL

-----------------------------------------------------------------------------
(* What a process has written before a place of its run.                    *)

\* The process that wrote a record: a worker, or the master.
AuthorOf(r) == IF r.event = "WORKER_LOG" THEN r.workerId ELSE NoWorker

\* Record j of file g is one of a's, written in the run that place <<f, i>> is in.
IsRecent(d, g, j, a, f, i) ==
  /\ g \in DOMAIN d /\ j \in DOMAIN d[g]
  /\ AuthorOf(d[g][j]) = a
  /\ Before(g, j, f, i)
  /\ \A h \in DOMAIN d : \A k \in DOMAIN d[h] :
       Before(g, j, h, k) /\ Before(h, k, f, i) => d[h][k].event # "STARTING_UP"

\* a's records of the run, up to that place, carry nonces below m.
Below(d, a, f, i, m) == \A g, j : IsRecent(d, g, j, a, f, i) => d[g][j].nonce \in 0 .. m - 1

\* A nonce of a's in the last run is on a record of the stream, or was refused.
Covered(d, a, n, R) ==
  \/ \E g, j : IsRecent(d, g, j, a, Len(d) + 1, 1) /\ d[g][j].nonce = n
  \/ <<a, n>> \in R

\* In the last run the stream has those of a's records that took nonces below m.
CountedLast(d, a, m, R) ==
  /\ Below(d, a, Len(d) + 1, 1, m)
  /\ \A n \in 0 .. m - 1 : Covered(d, a, n, R)

\* Every record carries a greater nonce than those of its author before it.
Rising(d) ==
  \A f \in DOMAIN d : \A i \in DOMAIN d[f] :
    d[f][i].event = "STARTING_UP" \/ Below(d, AuthorOf(d[f][i]), f, i, d[f][i].nonce)

\* In the last run it leaves out none below it but the refused ones.
Gapless(d, R) ==
  \A a, g, j : IsRecent(d, g, j, a, Len(d) + 1, 1) =>
    \A n \in 0 .. d[g][j].nonce - 1 : Covered(d, a, n, R)

Numbered(d, R) == Rising(d) /\ Gapless(d, R)

\* The records of batch are a's, and carry the nonces from m to n - 1 that were
\* not refused, in that order.
IsRun(batch, a, m, n, R) ==
  /\ m <= n
  /\ \A k \in DOMAIN batch :
       /\ batch[k].event # "STARTING_UP" /\ AuthorOf(batch[k]) = a
       /\ batch[k].nonce \in m .. n - 1
       /\ \A l \in DOMAIN batch : l < k => batch[l].nonce < batch[k].nonce
  /\ \A c \in m .. n - 1 : (\E k \in DOMAIN batch : batch[k].nonce = c) \/ <<a, c>> \in R

\* What a has written and what it buffers are all it took nonces for below n.
OwnCount(d, a, batch, n, R) ==
  \E m \in Nat : CountedLast(d, a, m, R) /\ IsRun(batch, a, m, n, R)

\* Nothing of a's, and no start, comes after file f.
NothingBeyond(d, f, a) ==
  \A g \in DOMAIN d : g > f =>
    \A i \in DOMAIN d[g] : d[g][i].event # "STARTING_UP" /\ AuthorOf(d[g][i]) # a

\* Nobody but a has written.
KeepsCounts(d, e, a) ==
  \A b, m, R : b # a /\ CountedLast(d, b, m, R) => CountedLast(e, b, m, R)

\* A batch without a start adds its own records to what is recent.
LEMMA RecentAfterWrite ==
  ASSUME NEW d, NEW f, NEW batch, NEW e, Grown(d, f, batch, e),
         \A k \in DOMAIN batch : batch[k].event # "STARTING_UP",
         NEW a, NEW x, NEW y, NEW g, NEW j
  PROVE  /\ IsRecent(d, g, j, a, x, y) => IsRecent(e, g, j, a, x, y) /\ e[g][j] = d[g][j]
         /\ IsRecent(e, g, j, a, x, y) =>
              \/ IsRecent(d, g, j, a, x, y) /\ e[g][j] = d[g][j]
              \/ /\ g = f /\ Before(g, j, x, y)
                 /\ \E k \in DOMAIN batch : j = Len(d[f]) + k /\ e[g][j] = batch[k] /\ AuthorOf(batch[k]) = a
<1>0. DOMAIN e = DOMAIN d
  BY DEF Grown
<1>1. ASSUME IsRecent(d, g, j, a, x, y) PROVE IsRecent(e, g, j, a, x, y) /\ e[g][j] = d[g][j]
  <2>1. g \in DOMAIN e /\ j \in DOMAIN e[g] /\ e[g][j] = d[g][j]
    BY <1>1, GrownKeeps DEF IsRecent
  <2>2. ASSUME NEW h \in DOMAIN e, NEW k \in DOMAIN e[h],
               Before(g, j, h, k) /\ Before(h, k, x, y)
        PROVE  e[h][k].event # "STARTING_UP"
    <3>1. CASE k \in DOMAIN d[h]
      BY <1>0, <1>1, <2>2, <3>1, GrownKeeps DEF IsRecent
    <3>2. CASE ~ (k \in DOMAIN d[h])
      BY <3>2, GrownAdds
    <3> QED BY <3>1, <3>2
  <2> QED BY <1>1, <2>1, <2>2 DEF IsRecent
<1>2. ASSUME IsRecent(e, g, j, a, x, y), j \in DOMAIN d[g]
      PROVE  IsRecent(d, g, j, a, x, y) /\ e[g][j] = d[g][j]
  <2>1. g \in DOMAIN d /\ e[g][j] = d[g][j]
    BY <1>0, <1>2, GrownKeeps DEF IsRecent
  <2>2. ASSUME NEW h \in DOMAIN d, NEW k \in DOMAIN d[h],
               Before(g, j, h, k) /\ Before(h, k, x, y)
        PROVE  d[h][k].event # "STARTING_UP"
    <3>1. h \in DOMAIN e /\ k \in DOMAIN e[h] /\ e[h][k] = d[h][k]
      BY GrownKeeps
    <3> QED BY <1>2, <2>2, <3>1 DEF IsRecent
  <2> QED BY <1>2, <2>1, <2>2 DEF IsRecent
<1>3. ASSUME IsRecent(e, g, j, a, x, y), ~ (j \in DOMAIN d[g])
      PROVE  /\ g = f /\ Before(g, j, x, y)
             /\ \E k \in DOMAIN batch : j = Len(d[f]) + k /\ e[g][j] = batch[k] /\ AuthorOf(batch[k]) = a
  <2>1. /\ g \in DOMAIN e /\ j \in DOMAIN e[g] /\ Before(g, j, x, y) /\ AuthorOf(e[g][j]) = a
    BY <1>3 DEF IsRecent
  <2> QED BY <1>3, <2>1, GrownAdds
<1> QED BY <1>1, <1>2, <1>3

\* For a, the end of file f is as good as the end of the stream.
LEMMA RecentAtEnd ==
  ASSUME NEW d \in Disks, NEW f \in DOMAIN d, NEW a, NothingBeyond(d, f, a),
         NEW i \in Nat, i > Len(d[f]), NEW g, NEW j
  PROVE  IsRecent(d, g, j, a, f, i) <=> IsRecent(d, g, j, a, Len(d) + 1, 1)
<1>0. /\ DOMAIN d = 1 .. Len(d) /\ Len(d) \in Nat
      /\ \A x \in DOMAIN d : DOMAIN d[x] = 1 .. Len(d[x]) /\ Len(d[x]) \in Nat
  BY LenProperties, ElementOfSeq DEF Disks
<1>1. ASSUME NEW x \in DOMAIN d, NEW y \in DOMAIN d[x]
      PROVE  Before(x, y, Len(d) + 1, 1) /\ (x <= f => Before(x, y, f, i)) /\ (Before(x, y, f, i) => x <= f)
  <2>1. x \in 1 .. Len(d) /\ f \in 1 .. Len(d) /\ Len(d) \in Nat /\ y \in Nat /\ Len(d[f]) \in Nat
    BY <1>0
  <2>2. x = f => y < i
    BY <1>0
  <2> QED BY <2>1, <2>2 DEF Before
<1>2. \A x \in DOMAIN d : ~ (x <= f) => x > f
  BY <1>0
<1>3. ASSUME IsRecent(d, g, j, a, f, i) PROVE IsRecent(d, g, j, a, Len(d) + 1, 1)
  BY <1>1, <1>2, <1>3 DEF IsRecent, NothingBeyond
<1>4. ASSUME IsRecent(d, g, j, a, Len(d) + 1, 1) PROVE IsRecent(d, g, j, a, f, i)
  BY <1>1, <1>2, <1>4 DEF IsRecent, NothingBeyond
<1> QED BY <1>3, <1>4

\* The author of a flush counts on.
LEMMA WriteKeepsNumbers ==
  ASSUME NEW d, NEW f, NEW batch, NEW e, Grown(d, f, batch, e),
         NEW a, NEW m \in Nat, NEW n \in Nat, NEW R, IsRun(batch, a, m, n, R), CountedLast(d, a, m, R),
         NothingBeyond(d, f, a), Numbered(d, R)
  PROVE  /\ Numbered(e, R)
         /\ CountedLast(e, a, n, R)
         /\ KeepsCounts(d, e, a)
<1>0. /\ d \in Disks /\ e \in Disks /\ Len(e) = Len(d) /\ Len(d) \in Nat /\ DOMAIN d = 1 .. Len(d)
      /\ DOMAIN e = DOMAIN d /\ f \in DOMAIN d
      /\ \A g \in DOMAIN d : DOMAIN d[g] = 1 .. Len(d[g]) /\ Len(d[g]) \in Nat
      /\ DOMAIN batch = 1 .. Len(batch) /\ Len(batch) \in Nat
      /\ \A k \in DOMAIN batch : Len(d[f]) + k \in DOMAIN e[f] /\ e[f][Len(d[f]) + k] = batch[k]
  <2>1. ASSUME NEW k \in DOMAIN batch PROVE Len(d[f]) + k \in DOMAIN e[f]
    <3>1. Len(d[f]) + k \in 1 .. Len(d[f]) + Len(batch)
      BY DEF Grown
    <3> QED BY <3>1 DEF Grown
  <2> QED BY <2>1 DEF Grown
<1>1. /\ m <= n
      /\ \A k \in DOMAIN batch : /\ batch[k].event # "STARTING_UP" /\ AuthorOf(batch[k]) = a
                                 /\ batch[k].nonce \in m .. n - 1
      /\ \A k, l \in DOMAIN batch : l < k => batch[l].nonce < batch[k].nonce
      /\ \A c \in m .. n - 1 : (\E k \in DOMAIN batch : batch[k].nonce = c) \/ <<a, c>> \in R
  BY DEF IsRun
<1>2. ASSUME NEW b, NEW x, NEW y, NEW g, NEW j
      PROVE  /\ IsRecent(d, g, j, b, x, y) => IsRecent(e, g, j, b, x, y) /\ e[g][j] = d[g][j]
             /\ IsRecent(e, g, j, b, x, y) =>
                  \/ IsRecent(d, g, j, b, x, y) /\ e[g][j] = d[g][j]
                  \/ /\ g = f /\ Before(g, j, x, y) /\ b = a
                     /\ \E k \in DOMAIN batch : j = Len(d[f]) + k /\ e[g][j] = batch[k]
  BY <1>1, RecentAfterWrite
\* Whoever no new record comes before, is where he was.
<1>3. ASSUME NEW b, NEW x, NEW y, NEW c, Below(d, b, x, y, c),
             b = a => \A k \in DOMAIN batch : ~ Before(f, Len(d[f]) + k, x, y)
      PROVE  Below(e, b, x, y, c)
  <2>1. \A g, j : IsRecent(e, g, j, b, x, y) => IsRecent(d, g, j, b, x, y) /\ e[g][j] = d[g][j]
    BY <1>2, <1>3
  <2> QED BY <1>3, <2>1 DEF Below
<1>4. \A b, c : Covered(d, b, c, R) => Covered(e, b, c, R)
  BY <1>0, <1>2 DEF Covered
<1>5. KeepsCounts(d, e, a)
  <2> SUFFICES ASSUME NEW b, NEW c, NEW Q, b # a, CountedLast(d, b, c, Q) PROVE CountedLast(e, b, c, Q)
    BY DEF KeepsCounts
  <2>1. Below(e, b, Len(e) + 1, 1, c)
    BY <1>0, <1>3 DEF CountedLast
  <2>2. \A x : Covered(d, b, x, Q) => Covered(e, b, x, Q)
    BY <1>0, <1>2 DEF Covered
  <2> QED BY <2>1, <2>2 DEF CountedLast
\* The batch is recent at the end.
<1>6. ASSUME NEW k \in DOMAIN batch
      PROVE  IsRecent(e, f, Len(d[f]) + k, a, Len(e) + 1, 1)
  <2>1. k \in 1 .. Len(batch) /\ f \in 1 .. Len(d) /\ Len(d[f]) \in Nat
    BY <1>0
  <2>2. Before(f, Len(d[f]) + k, Len(e) + 1, 1)
    BY <1>0, <2>1 DEF Before
  <2>3. ASSUME NEW h \in DOMAIN e, NEW i \in DOMAIN e[h], Before(f, Len(d[f]) + k, h, i)
        PROVE  e[h][i].event # "STARTING_UP"
    <3>1. CASE i \in DOMAIN d[h]
      <4>1. h > f
        <5>1. h \in 1 .. Len(d) /\ i \in 1 .. Len(d[h])
          BY <1>0, <3>1
        <5>2. h = f => i <= Len(d[f])
          BY <5>1
        <5> QED BY <2>1, <2>3, <5>1, <5>2 DEF Before
      <4> QED BY <1>0, <3>1, <4>1, GrownKeeps DEF NothingBeyond
    <3>2. CASE ~ (i \in DOMAIN d[h])
      BY <1>1, <3>2, GrownAdds
    <3> QED BY <3>1, <3>2
  <2> QED BY <1>0, <1>1, <2>2, <2>3 DEF IsRecent
<1>7. CountedLast(e, a, n, R)
  <2>1. ASSUME NEW g, NEW j, IsRecent(e, g, j, a, Len(e) + 1, 1) PROVE e[g][j].nonce \in 0 .. n - 1
    <3>1. CASE IsRecent(d, g, j, a, Len(e) + 1, 1) /\ e[g][j] = d[g][j]
      <4>1. d[g][j].nonce \in 0 .. m - 1
        BY <1>0, <3>1 DEF CountedLast, Below
      <4> QED BY <1>1, <3>1, <4>1
    <3>2. ASSUME NEW k \in DOMAIN batch, e[g][j] = batch[k] PROVE e[g][j].nonce \in 0 .. n - 1
      <4>1. batch[k].nonce \in m .. n - 1
        BY <1>1
      <4> QED BY <3>2, <4>1
    <3> QED BY <1>2, <2>1, <3>1, <3>2
  <2>2. ASSUME NEW c \in 0 .. n - 1 PROVE Covered(e, a, c, R)
    <3>1. CASE c \in 0 .. m - 1
      BY <1>4, <3>1 DEF CountedLast
    <3>2. CASE c \in m .. n - 1
      <4>1. CASE <<a, c>> \in R
        BY <4>1 DEF Covered
      <4>2. ASSUME NEW k \in DOMAIN batch, batch[k].nonce = c PROVE Covered(e, a, c, R)
        <5>1. e[f][Len(d[f]) + k].nonce = c
          BY <1>0, <4>2
        <5> QED BY <1>6, <5>1 DEF Covered
      <4> QED BY <1>1, <3>2, <4>1, <4>2
    <3>3. c \in 0 .. m - 1 \/ c \in m .. n - 1
      OBVIOUS
    <3> QED BY <3>1, <3>2, <3>3
  <2> QED BY <2>1, <2>2 DEF CountedLast, Below
<1>8. Gapless(e, R)
  <2> SUFFICES ASSUME NEW b, NEW g, NEW j, IsRecent(e, g, j, b, Len(e) + 1, 1),
                      NEW c \in 0 .. e[g][j].nonce - 1
               PROVE  Covered(e, b, c, R)
    BY DEF Gapless
  <2>1. CASE b = a
    <3>1. e[g][j].nonce \in 0 .. n - 1
      BY <1>7, <2>1 DEF CountedLast, Below
    <3>2. c \in 0 .. n - 1
      <4> DEFINE x == e[g][j].nonce
      <4>1. x \in 0 .. n - 1 /\ c \in 0 .. x - 1
        BY <3>1
      <4> HIDE DEF x
      <4> QED BY <4>1
    <3> QED BY <1>7, <2>1, <3>2 DEF CountedLast
  <2>2. CASE b # a
    <3>1. IsRecent(d, g, j, b, Len(d) + 1, 1) /\ e[g][j] = d[g][j]
      BY <1>0, <1>2, <2>2
    <3> QED BY <1>4, <3>1 DEF Numbered, Gapless
  <2> QED BY <2>1, <2>2
<1>9. ASSUME NEW g \in DOMAIN e, NEW i \in DOMAIN e[g]
      PROVE  e[g][i].event = "STARTING_UP" \/ Below(e, AuthorOf(e[g][i]), g, i, e[g][i].nonce)
  <2>1. CASE i \in DOMAIN d[g]
    <3>1. g \in DOMAIN d /\ e[g][i] = d[g][i]
      BY <1>0, <2>1, GrownKeeps
    <3>2. ASSUME AuthorOf(d[g][i]) = a, NEW k \in DOMAIN batch
          PROVE  ~ Before(f, Len(d[f]) + k, g, i)
      <4>1. ~ (g > f)
        BY <2>1, <3>1, <3>2 DEF NothingBeyond
      <4>2. g \in 1 .. Len(d) /\ f \in 1 .. Len(d) /\ i \in 1 .. Len(d[g]) /\ k \in Nat /\ Len(d[f]) \in Nat
        BY <1>0, <2>1, <3>1
      <4>3. g = f => i <= Len(d[f])
        BY <4>2
      <4> QED BY <4>1, <4>2, <4>3 DEF Before
    <3>3. d[g][i].event = "STARTING_UP" \/ Below(d, AuthorOf(d[g][i]), g, i, d[g][i].nonce)
      BY <2>1, <3>1 DEF Numbered, Rising
    <3> QED BY <1>3, <3>1, <3>2, <3>3
  <2>2. CASE ~ (i \in DOMAIN d[g])
    <3>1. PICK k \in DOMAIN batch : g = f /\ i = Len(d[f]) + k /\ e[g][i] = batch[k]
      BY <2>2, GrownAdds
    <3>2. AuthorOf(e[g][i]) = a /\ e[g][i].nonce \in m .. n - 1
      BY <1>1, <3>1
    <3>3. k \in 1 .. Len(batch) /\ i \in Nat /\ i > Len(d[f]) /\ Len(d[f]) \in Nat
      BY <1>0, <3>1
    <3>4. \A x, y : IsRecent(d, x, y, a, f, i) => IsRecent(d, x, y, a, Len(d) + 1, 1)
      BY <1>0, <3>3, RecentAtEnd
    <3>5. ASSUME NEW x, NEW y, IsRecent(e, x, y, a, g, i) PROVE e[x][y].nonce \in 0 .. e[g][i].nonce - 1
      <4>1. CASE IsRecent(d, x, y, a, g, i) /\ e[x][y] = d[x][y]
        <5>1. d[x][y].nonce \in 0 .. m - 1
          BY <3>1, <3>4, <4>1 DEF CountedLast, Below
        <5> QED BY <3>2, <4>1, <5>1
      <4>2. ASSUME NEW l \in DOMAIN batch, x = f, Before(x, y, g, i), y = Len(d[f]) + l, e[x][y] = batch[l]
            PROVE  e[x][y].nonce \in 0 .. e[g][i].nonce - 1
        <5>1. l \in 1 .. Len(batch) /\ f \in 1 .. Len(d)
          BY <1>0
        <5>2. l < k
          <6>1. Before(f, Len(d[f]) + l, f, Len(d[f]) + k)
            BY <3>1, <4>2
          <6>2. f \in Nat /\ l \in Nat /\ k \in Nat /\ Len(d[f]) \in Nat
            BY <1>0, <3>3, <5>1
          <6>3. Len(d[f]) + l < Len(d[f]) + k
            BY <6>1, <6>2 DEF Before
          <6> QED BY <6>2, <6>3
        <5>3. batch[l].nonce < batch[k].nonce /\ batch[l].nonce \in m .. n - 1
          BY <1>1, <5>2
        <5> QED BY <3>1, <3>2, <4>2, <5>3
      <4> QED BY <1>2, <3>5, <4>1, <4>2
    <3> QED BY <3>2, <3>5 DEF Below
  <2> QED BY <2>1, <2>2
<1> QED BY <1>5, <1>7, <1>8, <1>9 DEF Numbered, Rising

-----------------------------------------------------------------------------
(* Every step keeps the count.                                              *)

\* A start at the very end: everyone counts from 0, the master from 1.
LEMMA StartResetsNumbers ==
  ASSUME NEW d, NEW r, NEW e, Grown(d, Len(d), <<r>>, e),
         r.event = "STARTING_UP", r.nonce = 0, NEW R, Numbered(d, R), NEW Q
  PROVE  /\ Numbered(e, Q)
         /\ CountedLast(e, NoWorker, 1, Q)
         /\ \A b : b # NoWorker => CountedLast(e, b, 0, Q)
<1> DEFINE n == Len(d)
           m == Len(d[n]) + 1
<1>0. /\ n \in Nat /\ n \in DOMAIN d /\ DOMAIN e = DOMAIN d /\ Len(e) = n /\ DOMAIN d = 1 .. n
      /\ Len(d[n]) \in Nat /\ DOMAIN d[n] = 1 .. Len(d[n])
      /\ \A g \in DOMAIN d : DOMAIN d[g] = 1 .. Len(d[g]) /\ Len(d[g]) \in Nat
  BY DEF Grown
<1>1. m \in DOMAIN e[n] /\ e[n][m] = r
  <2>1. 1 \in DOMAIN <<r>> /\ <<r>>[1] = r /\ Len(<<r>>) = 1
    OBVIOUS
  <2>2. e[n][Len(d[n]) + 1] = r
    BY <2>1 DEF Grown
  <2>3. m \in 1 .. Len(d[n]) + Len(<<r>>)
    BY <1>0, <2>1
  <2> QED BY <1>0, <2>2, <2>3 DEF Grown
<1>2. ASSUME NEW x \in DOMAIN e, NEW y \in DOMAIN e[x]
      PROVE  \/ x = n /\ y = m
             \/ /\ x \in DOMAIN d /\ y \in DOMAIN d[x] /\ e[x][y] = d[x][y]
                /\ Before(x, y, n, m) /\ ~ Before(n, m, x, y)
  <2>1. DOMAIN <<r>> = {1}
    OBVIOUS
  <2>2. (x = n /\ y = m) \/ (x \in DOMAIN d /\ y \in DOMAIN d[x] /\ e[x][y] = d[x][y])
    BY <2>1, <1>0, GrownAdds, GrownKeeps
  <2>3. ASSUME x \in DOMAIN d, y \in DOMAIN d[x] PROVE Before(x, y, n, m) /\ ~ Before(n, m, x, y)
    <3>1. x \in 1 .. n /\ y \in 1 .. Len(d[x]) /\ Len(d[x]) \in Nat
      BY <1>0, <2>3
    <3>2. x = n => y < m
      BY <1>0, <3>1
    <3>3. m \in Nat /\ n \in Nat
      BY <1>0
    <3> HIDE DEF n, m
    <3> QED BY <3>1, <3>2, <3>3 DEF Before
  <2> QED BY <2>2, <2>3
<1>3. Before(n, m, n + 1, 1)
  <2>1. n \in Nat
    BY <1>0
  <2> HIDE DEF n, m
  <2> QED BY <2>1 DEF Before
<1>4. ~ Before(n, m, n, m)
  <2>1. m \in Nat /\ n \in Nat
    BY <1>0
  <2> HIDE DEF n, m
  <2> QED BY <2>1 DEF Before
<1> HIDE DEF n, m
<1>5. ASSUME NEW b, NEW g, NEW j, IsRecent(e, g, j, b, n + 1, 1) PROVE g = n /\ j = m /\ b = NoWorker
  <2>1. g = n /\ j = m
    BY <1>0, <1>1, <1>2, <1>3, <1>5, SMTT(30) DEF IsRecent
  <2> QED BY <1>1, <1>5, <2>1 DEF IsRecent, AuthorOf
<1>6. IsRecent(e, n, m, NoWorker, n + 1, 1)
  <2>1. AuthorOf(r) = NoWorker
    BY DEF AuthorOf
  <2>2. \A x \in DOMAIN e : \A y \in DOMAIN e[x] : ~ Before(n, m, x, y)
    BY <1>2, <1>4
  <2> QED BY <1>0, <1>1, <1>3, <2>1, <2>2 DEF IsRecent
<1>7. CountedLast(e, NoWorker, 1, Q)
  <2>1. \A c \in 0 .. 1 - 1 : c = 0
    OBVIOUS
  <2>2. 0 \in 0 .. 1 - 1
    OBVIOUS
  <2>3. Below(e, NoWorker, Len(e) + 1, 1, 1)
    BY <1>0, <1>1, <1>5, <2>2 DEF Below
  <2>4. Covered(e, NoWorker, 0, Q)
    BY <1>0, <1>1, <1>6 DEF Covered
  <2> QED BY <2>1, <2>3, <2>4 DEF CountedLast
<1>8. ASSUME NEW b, b # NoWorker PROVE CountedLast(e, b, 0, Q)
  <2>1. \A c : c \notin 0 .. 0 - 1
    OBVIOUS
  <2> QED BY <1>0, <1>5, <1>8, <2>1 DEF CountedLast, Below
<1>9. Gapless(e, Q)
  <2> SUFFICES ASSUME NEW b, NEW g, NEW j, IsRecent(e, g, j, b, Len(e) + 1, 1),
                      NEW c \in 0 .. e[g][j].nonce - 1
               PROVE  FALSE
    BY DEF Gapless
  <2>1. e[g][j].nonce = 0
    BY <1>0, <1>1, <1>5
  <2>2. \A x : x \notin 0 .. 0 - 1
    OBVIOUS
  <2> QED BY <2>1, <2>2
<1>10. ASSUME NEW g \in DOMAIN e, NEW i \in DOMAIN e[g]
       PROVE  e[g][i].event = "STARTING_UP" \/ Below(e, AuthorOf(e[g][i]), g, i, e[g][i].nonce)
  <2>1. CASE g = n /\ i = m
    BY <1>1, <2>1
  <2>2. CASE ~ (g = n /\ i = m)
    <3>1. g \in DOMAIN d /\ i \in DOMAIN d[g] /\ e[g][i] = d[g][i] /\ ~ Before(n, m, g, i)
      BY <1>2, <2>2
    <3>2. ASSUME NEW x, NEW y, NEW b, IsRecent(e, x, y, b, g, i)
          PROVE  IsRecent(d, x, y, b, g, i) /\ e[x][y] = d[x][y]
      <4>1. ASSUME NEW h \in DOMAIN e, NEW k \in DOMAIN e[h], Before(h, k, g, i)
            PROVE  h \in DOMAIN d /\ k \in DOMAIN d[h] /\ e[h][k] = d[h][k]
        BY <1>2, <3>1, <4>1
      <4>2. ASSUME NEW h \in DOMAIN d, NEW k \in DOMAIN d[h]
            PROVE  h \in DOMAIN e /\ k \in DOMAIN e[h] /\ e[h][k] = d[h][k]
        BY GrownKeeps
      <4> QED BY <3>2, <4>1, <4>2 DEF IsRecent
    <3>3. \A b, c : Below(d, b, g, i, c) => Below(e, b, g, i, c)
      BY <3>2 DEF Below
    <3> QED BY <3>1, <3>3 DEF Numbered, Rising
  <2> QED BY <2>1, <2>2
<1> QED BY <1>7, <1>8, <1>9, <1>10 DEF Numbered, Rising

\* A new empty file.
LEMMA NewFileKeepsNumbers ==
  ASSUME NEW d \in Disks, NEW R, Numbered(d, R)
  PROVE  /\ Numbered(Append(d, <<>>), R)
         /\ \A b, m, Q : CountedLast(d, b, m, Q) => CountedLast(Append(d, <<>>), b, m, Q)
         /\ \A f, b : NothingBeyond(d, f, b) => NothingBeyond(Append(d, <<>>), f, b)
<1> DEFINE e == Append(d, <<>>)
<1>0. /\ DOMAIN d = 1 .. Len(d) /\ Len(d) \in Nat
      /\ DOMAIN e = 1 .. Len(d) + 1 /\ e[Len(d) + 1] = <<>> /\ \A g \in DOMAIN d : e[g] = d[g]
      /\ Len(e) = Len(d) + 1
  BY NewFileProperties, LenProperties DEF Disks
<1> HIDE DEF e
<1>1. \A g, j : /\ (g \in DOMAIN e /\ j \in DOMAIN e[g]) <=> (g \in DOMAIN d /\ j \in DOMAIN d[g])
                /\ g \in DOMAIN d => e[g] = d[g]
  <2>1. DOMAIN <<>> = {}
    OBVIOUS
  <2> QED BY <1>0, <2>1
<1>2. ASSUME NEW g, NEW j, NEW b, NEW f, NEW i
      PROVE  IsRecent(e, g, j, b, f, i) <=> IsRecent(d, g, j, b, f, i)
  BY <1>1 DEF IsRecent
<1>3. ASSUME NEW b, NEW f, NEW i, NEW m, Below(d, b, f, i, m) PROVE Below(e, b, f, i, m)
  <2>1. \A g, j : IsRecent(d, g, j, b, f, i) => e[g][j] = d[g][j]
    BY <1>1 DEF IsRecent
  <2> QED BY <1>2, <1>3, <2>1 DEF Below
<1>4. ASSUME NEW g, NEW j, NEW b
      PROVE  IsRecent(d, g, j, b, Len(e) + 1, 1) <=> IsRecent(d, g, j, b, Len(d) + 1, 1)
  <2>1. ASSUME NEW h \in DOMAIN d, NEW k
        PROVE  Before(h, k, Len(e) + 1, 1) /\ Before(h, k, Len(d) + 1, 1)
    BY <1>0 DEF Before
  <2> QED BY <2>1 DEF IsRecent
<1>5. ASSUME NEW g, NEW j, NEW b
      PROVE  /\ IsRecent(e, g, j, b, Len(e) + 1, 1) <=> IsRecent(d, g, j, b, Len(d) + 1, 1)
             /\ IsRecent(d, g, j, b, Len(d) + 1, 1) => e[g][j] = d[g][j]
  <2>1. IsRecent(d, g, j, b, Len(d) + 1, 1) => e[g][j] = d[g][j]
    BY <1>1 DEF IsRecent
  <2> QED BY <1>2, <1>4, <2>1
<1>6. \A b, c, Q : Covered(d, b, c, Q) => Covered(e, b, c, Q)
  BY <1>5 DEF Covered
<1>7. \A b, m, Q : CountedLast(d, b, m, Q) => CountedLast(e, b, m, Q)
  BY <1>5, <1>6 DEF CountedLast, Below
<1>8. Numbered(e, R)
  <2>1. Rising(e)
    BY <1>1, <1>3 DEF Numbered, Rising
  <2>2. Gapless(e, R)
    BY <1>5, <1>6 DEF Numbered, Gapless
  <2> QED BY <2>1, <2>2 DEF Numbered
<1>9. \A f, b : NothingBeyond(d, f, b) => NothingBeyond(e, f, b)
  BY <1>1 DEF NothingBeyond
<1> QED BY <1>7, <1>8, <1>9 DEF e

\* Another's flush leaves nothing of b's beyond f.
LEMMA NothingBeyondKept ==
  ASSUME NEW d, NEW f, NEW batch, NEW e, Grown(d, f, batch, e), NEW g, NEW b,
         \A k \in DOMAIN batch : batch[k].event # "STARTING_UP" /\ (f > g => AuthorOf(batch[k]) # b),
         NothingBeyond(d, g, b)
  PROVE  NothingBeyond(e, g, b)
<1> SUFFICES ASSUME NEW h \in DOMAIN e, h > g, NEW i \in DOMAIN e[h]
             PROVE  e[h][i].event # "STARTING_UP" /\ AuthorOf(e[h][i]) # b
  BY DEF NothingBeyond
<1>1. CASE i \in DOMAIN d[h]
  <2>1. h \in DOMAIN d /\ e[h][i] = d[h][i]
    BY <1>1, GrownKeeps DEF Grown
  <2> QED BY <1>1, <2>1 DEF NothingBeyond
<1>2. CASE ~ (i \in DOMAIN d[h])
  BY <1>2, GrownAdds
<1> QED BY <1>1, <1>2

\* The master's count of its run, written and buffered.
MasterCounts ==
  IF Running THEN OwnCount(disk, NoWorker, mbuf, mnonce, refused)
             ELSE mbuf = <<>> /\ (mpc = "opened" => mnonce = 0)

\* A worker's, and that nothing of its own is beyond the file it has open.
WorkersCount ==
  \A w \in Live : /\ NothingBeyond(disk, wfile[w], w)
                  /\ OwnCount(disk, w, wbuf[w], wnonce[w], refused)

\* A worker yet to be spawned has nothing in the run.
NoneAreFresh == Running => \A w \in Workers : wst[w] = "none" => CountedLast(disk, w, 0, refused)

\* What the steps keep.
NumbersInv == Numbered(disk, refused) /\ MasterCounts /\ WorkersCount /\ NoneAreFresh

\* A buffer takes one more record.
LEMMA CountGrows ==
  ASSUME NEW d, NEW a, NEW batch \in Seq(Record), NEW n \in Nat, NEW R, OwnCount(d, a, batch, n, R),
         NEW r \in Record, r.event # "STARTING_UP", AuthorOf(r) = a, r.nonce = n
  PROVE  OwnCount(d, a, Append(batch, r), n + 1, R)
<1> DEFINE more == Append(batch, r)
<1>0. /\ Len(batch) \in Nat /\ DOMAIN batch = 1 .. Len(batch)
      /\ DOMAIN more = 1 .. Len(batch) + 1 /\ more[Len(batch) + 1] = r
      /\ \A k \in DOMAIN batch : k \in DOMAIN more /\ more[k] = batch[k]
  BY AppendProperties, LenProperties
<1> HIDE DEF more
<1>1. PICK m \in Nat : CountedLast(d, a, m, R) /\ IsRun(batch, a, m, n, R)
  BY DEF OwnCount
<1>2. m <= n /\ n \in m .. (n + 1) - 1
  BY <1>1 DEF IsRun
<1>3. ASSUME NEW k \in DOMAIN batch PROVE batch[k].nonce \in m .. (n + 1) - 1 /\ batch[k].nonce < n
  <2>1. batch[k].nonce \in m .. n - 1
    BY <1>1 DEF IsRun
  <2> QED BY <2>1
<1>4. \A k \in DOMAIN more : k \in DOMAIN batch \/ k = Len(batch) + 1
  BY <1>0
<1>5. ASSUME NEW k \in DOMAIN more
      PROVE  /\ more[k].event # "STARTING_UP" /\ AuthorOf(more[k]) = a
             /\ more[k].nonce \in m .. (n + 1) - 1
             /\ \A l \in DOMAIN more : l < k => more[l].nonce < more[k].nonce
  <2>1. CASE k \in DOMAIN batch
    <3>1. \A l \in DOMAIN more : l < k => l \in DOMAIN batch
      BY <1>0, <1>4, <2>1
    <3> QED BY <1>0, <1>1, <1>3, <2>1, <3>1 DEF IsRun
  <2>2. CASE k = Len(batch) + 1
    <3>1. \A l \in DOMAIN more : l < k => l \in DOMAIN batch
      BY <1>0, <1>4, <2>2
    <3> QED BY <1>0, <1>2, <1>3, <2>2, <3>1
  <2> QED BY <1>4, <2>1, <2>2
<1>6. ASSUME NEW c \in m .. (n + 1) - 1
      PROVE  (\E k \in DOMAIN more : more[k].nonce = c) \/ <<a, c>> \in R
  <2>1. CASE c = n
    <3>1. Len(batch) + 1 \in DOMAIN more
      BY <1>0
    <3> QED BY <1>0, <2>1, <3>1
  <2>2. CASE c # n
    <3>1. c \in m .. n - 1
      BY <1>2, <2>2
    <3> QED BY <1>0, <1>1, <3>1 DEF IsRun
  <2> QED BY <2>1, <2>2
<1>7. m <= n + 1
  BY <1>2
<1> QED BY <1>1, <1>5, <1>6, <1>7 DEF IsRun, OwnCount, more

\* What was refused stays refused.
LEMMA CountWidens ==
  ASSUME NEW R, NEW Q, R \subseteq Q, NEW d
  PROVE  /\ Numbered(d, R) => Numbered(d, Q)
         /\ \A a, m : CountedLast(d, a, m, R) => CountedLast(d, a, m, Q)
         /\ \A a, batch, n : OwnCount(d, a, batch, n, R) => OwnCount(d, a, batch, n, Q)
<1>1. \A a, n : Covered(d, a, n, R) => Covered(d, a, n, Q)
  BY DEF Covered
<1>2. Numbered(d, R) => Numbered(d, Q)
  BY <1>1 DEF Numbered, Gapless
<1>3. \A a, m : CountedLast(d, a, m, R) => CountedLast(d, a, m, Q)
  BY <1>1 DEF CountedLast
<1>4. \A a, batch, m, n : IsRun(batch, a, m, n, R) => IsRun(batch, a, m, n, Q)
  BY DEF IsRun
<1>5. \A a, batch, n : OwnCount(d, a, batch, n, R) => OwnCount(d, a, batch, n, Q)
  BY <1>3, <1>4 DEF OwnCount
<1> QED BY <1>2, <1>3, <1>5

\* A nonce that no record will have.
LEMMA CountSkips ==
  ASSUME NEW d, NEW a, NEW batch, NEW n \in Nat, NEW R, OwnCount(d, a, batch, n, R),
         NEW Q, R \subseteq Q, <<a, n>> \in Q
  PROVE  OwnCount(d, a, batch, n + 1, Q)
<1>1. PICK m \in Nat : CountedLast(d, a, m, Q) /\ IsRun(batch, a, m, n, R)
  BY CountWidens DEF OwnCount
<1>2. m <= n /\ m <= n + 1
  BY <1>1 DEF IsRun
<1>3. m .. n - 1 \subseteq m .. (n + 1) - 1 /\ \A c \in m .. (n + 1) - 1 : c = n \/ c \in m .. n - 1
  BY <1>2
<1>4. IsRun(batch, a, m, n + 1, Q)
  BY <1>1, <1>2, <1>3 DEF IsRun
<1> QED BY <1>1, <1>4 DEF OwnCount

\* An empty buffer.
LEMMA CountWritten ==
  ASSUME NEW d, NEW a, NEW n \in Nat, NEW R, CountedLast(d, a, n, R)
  PROVE  OwnCount(d, a, <<>>, n, R)
<1>1. DOMAIN <<>> = {} /\ n <= n /\ \A c : c \notin n .. n - 1
  OBVIOUS
<1>2. IsRun(<<>>, a, n, n, R)
  BY <1>1 DEF IsRun
<1> QED BY <1>2 DEF OwnCount

\* A flush of somebody else's.
LEMMA CountKept ==
  ASSUME NEW d, NEW e, NEW a, KeepsCounts(d, e, a)
  PROVE  \A b, batch, n, R : b # a /\ OwnCount(d, b, batch, n, R) => OwnCount(e, b, batch, n, R)
BY DEF KeepsCounts, OwnCount

\* A flush of the master's, all its own and no start.
LEMMA MasterBatchCounts ==
  ASSUME TypeOK, MasterOnLast, mpc # "down", NEW batch \in Seq(Record), NEW n \in Nat,
         OwnCount(disk, NoWorker, batch, n, refused), Numbered(disk, refused)
  PROVE  LET e == WriteTo(disk, mfile, batch) IN
           /\ Numbered(e, refused) /\ CountedLast(e, NoWorker, n, refused)
           /\ KeepsCounts(disk, e, NoWorker)
           /\ \A g : \A w \in Workers : NothingBeyond(disk, g, w) => NothingBeyond(e, g, w)
           /\ e \in Disks
<1> DEFINE e == WriteTo(disk, mfile, batch)
<1>0. PICK m \in Nat : CountedLast(disk, NoWorker, m, refused) /\ IsRun(batch, NoWorker, m, n, refused)
  BY DEF OwnCount
<1>1. /\ disk \in Disks /\ mfile \in DOMAIN disk /\ mfile = Len(disk) /\ Len(disk) \in Nat
      /\ DOMAIN disk = 1 .. Len(disk)
  BY MasterFileOpen, LenProperties DEF TypeOK, Disks
<1>2. Grown(disk, mfile, batch, e)
  BY <1>1, WriteGrows
<1> HIDE DEF e
<1>3. NothingBeyond(disk, mfile, NoWorker)
  BY <1>1 DEF NothingBeyond
<1>4. Numbered(e, refused) /\ CountedLast(e, NoWorker, n, refused) /\ KeepsCounts(disk, e, NoWorker)
  BY <1>0, <1>2, <1>3, WriteKeepsNumbers
<1>5. ASSUME NEW g, NEW w \in Workers, NothingBeyond(disk, g, w) PROVE NothingBeyond(e, g, w)
  <2>1. \A k \in DOMAIN batch : batch[k].event # "STARTING_UP" /\ AuthorOf(batch[k]) # w
    BY <1>0, ClusterAssumption DEF IsRun
  <2> QED BY <1>2, <1>5, <2>1, NothingBeyondKept
<1> QED BY <1>2, <1>4, <1>5 DEF e, Grown

\* A flush of worker w's, all its own, to file f from which it looks ahead at nothing.
LEMMA WorkerBatchCounts ==
  ASSUME NEW d \in Disks, NEW w \in Workers, NEW f \in DOMAIN d, NEW batch \in Seq(Record),
         NEW n \in Nat, NEW R, OwnCount(d, w, batch, n, R), NothingBeyond(d, f, w), Numbered(d, R)
  PROVE  LET e == WriteTo(d, f, batch) IN
           /\ Numbered(e, R) /\ CountedLast(e, w, n, R) /\ KeepsCounts(d, e, w)
           /\ NothingBeyond(e, f, w)
           /\ \A g : \A v \in Workers : v # w /\ NothingBeyond(d, g, v) => NothingBeyond(e, g, v)
           /\ e \in Disks /\ DOMAIN e = DOMAIN d
<1> DEFINE e == WriteTo(d, f, batch)
<1>0. PICK m \in Nat : CountedLast(d, w, m, R) /\ IsRun(batch, w, m, n, R)
  BY DEF OwnCount
<1>1. Grown(d, f, batch, e)
  BY WriteGrows
<1> HIDE DEF e
<1>2. Numbered(e, R) /\ CountedLast(e, w, n, R) /\ KeepsCounts(d, e, w)
  BY <1>0, <1>1, WriteKeepsNumbers
<1>3. NothingBeyond(e, f, w)
  <2>1. ~ (f > f)
    BY <1>1 DEF Grown
  <2>2. \A k \in DOMAIN batch : batch[k].event # "STARTING_UP" /\ (f > f => AuthorOf(batch[k]) # w)
    BY <1>0, <2>1 DEF IsRun
  <2> QED BY <1>1, <2>2, NothingBeyondKept
<1>4. ASSUME NEW g, NEW v \in Workers, v # w, NothingBeyond(d, g, v) PROVE NothingBeyond(e, g, v)
  <2>1. \A k \in DOMAIN batch : batch[k].event # "STARTING_UP" /\ (f > g => AuthorOf(batch[k]) # v)
    BY <1>0, <1>4 DEF IsRun
  <2> QED BY <1>1, <1>4, <2>1, NothingBeyondKept
<1> QED BY <1>1, <1>2, <1>3, <1>4 DEF e, Grown

\* super.log(record).flush() of a record that is no start.
LEMMA MasterLogCounts ==
  ASSUME TypeOK, MasterOnLast, NumbersInv, Running, NEW r \in Record, LogAndFlush(r),
         r.event # "STARTING_UP", r.event # "WORKER_LOG", r.nonce = mnonce
  PROVE  /\ Numbered(disk', refused) /\ OwnCount(disk', NoWorker, mbuf', mnonce', refused)
         /\ KeepsCounts(disk, disk', NoWorker)
         /\ \A g : \A w \in Workers : NothingBeyond(disk, g, w) => NothingBeyond(disk', g, w)
<1>1. mbuf \in Seq(Record) /\ AuthorOf(r) = NoWorker /\ Append(mbuf, r) \in Seq(Record) /\ mnonce \in Nat
  BY AppendProperties DEF TypeOK, AuthorOf
<1>2. OwnCount(disk, NoWorker, Append(mbuf, r), mnonce + 1, refused)
  BY <1>1, CountGrows DEF NumbersInv, MasterCounts
<1>3. disk' = WriteTo(disk, mfile, Append(mbuf, r)) /\ mbuf' = <<>> /\ mnonce' = mnonce + 1
      /\ mnonce + 1 \in Nat
  BY <1>1 DEF LogAndFlush
<1>4. mpc # "down" /\ Numbered(disk, refused)
  BY DEF Running, NumbersInv
<1>5. /\ Numbered(disk', refused) /\ CountedLast(disk', NoWorker, mnonce + 1, refused)
      /\ KeepsCounts(disk, disk', NoWorker)
      /\ \A g : \A w \in Workers : NothingBeyond(disk, g, w) => NothingBeyond(disk', g, w)
  BY <1>1, <1>2, <1>3, <1>4, MasterBatchCounts
<1> QED BY <1>3, <1>5, CountWritten

\* The same call when the write throws.
LEMMA MasterThrowCounts ==
  ASSUME TypeOK, NumbersInv, Running, NEW r \in Record, LogAndFlushThrows(r),
         r.event # "STARTING_UP", r.event # "WORKER_LOG", r.nonce = mnonce
  PROVE  OwnCount(disk', NoWorker, mbuf', mnonce', refused) /\ disk' = disk /\ refused' = refused
<1>1. mbuf \in Seq(Record) /\ AuthorOf(r) = NoWorker /\ mnonce \in Nat
  BY DEF TypeOK, AuthorOf
<1>2. OwnCount(disk, NoWorker, Append(mbuf, r), mnonce + 1, refused)
  BY <1>1, CountGrows DEF NumbersInv, MasterCounts
<1> QED BY <1>2 DEF LogAndFlushThrows

\* A flush of the master's buffer alone.
LEMMA MasterFlushCounts ==
  ASSUME TypeOK, MasterOnLast, NumbersInv, Running
  PROVE  LET e == WriteTo(disk, mfile, mbuf) IN
           /\ Numbered(e, refused) /\ OwnCount(e, NoWorker, <<>>, mnonce, refused)
           /\ KeepsCounts(disk, e, NoWorker)
           /\ \A g : \A w \in Workers : NothingBeyond(disk, g, w) => NothingBeyond(e, g, w)
           /\ e \in Disks
<1>1. OwnCount(disk, NoWorker, mbuf, mnonce, refused)
  BY DEF NumbersInv, MasterCounts
<1>2. mbuf \in Seq(Record) /\ mnonce \in Nat /\ mpc # "down" /\ Numbered(disk, refused)
  BY DEF TypeOK, Running, NumbersInv
<1> QED BY <1>1, <1>2, MasterBatchCounts, CountWritten

\* The workers count on while the master writes.
LEMMA WorkersCountOn ==
  ASSUME WorkersCount, KeepsCounts(disk, disk', NoWorker), refused' = refused,
         Live' \subseteq Live, Live \subseteq Workers,
         \A g : \A w \in Workers : NothingBeyond(disk, g, w) => NothingBeyond(disk', g, w),
         \A w \in Live' : wfile'[w] = wfile[w] /\ wbuf'[w] = wbuf[w] /\ wnonce'[w] = wnonce[w]
  PROVE  WorkersCount'
<1> SUFFICES ASSUME NEW w \in Live'
             PROVE  /\ NothingBeyond(disk', wfile'[w], w)
                    /\ OwnCount(disk', w, wbuf'[w], wnonce'[w], refused')
  BY DEF WorkersCount
<1>1. w \in Live /\ w \in Workers /\ w # NoWorker
  BY ClusterAssumption
<1>2. NothingBeyond(disk', wfile[w], w) /\ OwnCount(disk', w, wbuf[w], wnonce[w], refused)
  BY <1>1, CountKept DEF WorkersCount
<1> QED BY <1>2

\* Nor does anybody else get a record.
LEMMA NobodyStarts ==
  ASSUME NoneAreFresh, Running, KeepsCounts(disk, disk', NoWorker), refused' = refused,
         \A w \in Workers : wst'[w] = "none" => wst[w] = "none"
  PROVE  NoneAreFresh'
<1>1. \A w \in Workers : w # NoWorker
  BY ClusterAssumption
<1> QED BY <1>1 DEF NoneAreFresh, KeepsCounts

\* What a flush of worker w's leaves of the others' counts.
LEMMA OthersCountOn ==
  ASSUME NumbersInv, NEW w \in Live, Live \subseteq Workers, KeepsCounts(disk, disk', w),
         \A g : \A v \in Workers : v # w /\ NothingBeyond(disk, g, v) => NothingBeyond(disk', g, v),
         Live' \subseteq Live, UNCHANGED <<mpc, mnonce, mbuf, refused>>,
         \A v \in Workers : wst'[v] = "none" => wst[v] = "none",
         \A v \in Live' : v # w => wfile'[v] = wfile[v] /\ wbuf'[v] = wbuf[v] /\ wnonce'[v] = wnonce[v]
  PROVE  /\ MasterCounts' /\ NoneAreFresh'
         /\ \A v \in Live' : v # w => /\ NothingBeyond(disk', wfile'[v], v)
                                      /\ OwnCount(disk', v, wbuf'[v], wnonce'[v], refused')
<1>0. w \in Workers /\ w # NoWorker
  BY ClusterAssumption
<1>1. MasterCounts'
  BY <1>0, CountKept DEF NumbersInv, MasterCounts, Running
<1>2. NoneAreFresh'
  <2>1. ASSUME NEW v \in Workers, Running, wst[v] = "none" PROVE CountedLast(disk', v, 0, refused)
    <3>1. v # w
      BY <2>1 DEF Live
    <3> QED BY <2>1, <3>1 DEF NumbersInv, NoneAreFresh, KeepsCounts
  <2> QED BY <2>1 DEF NoneAreFresh, Running
<1>3. ASSUME NEW v \in Live', v # w
      PROVE  /\ NothingBeyond(disk', wfile'[v], v)
             /\ OwnCount(disk', v, wbuf'[v], wnonce'[v], refused')
  <2>1. v \in Live /\ v \in Workers
    OBVIOUS
  <2>2. NothingBeyond(disk, wfile[v], v) /\ OwnCount(disk, v, wbuf[v], wnonce[v], refused)
    BY <2>1 DEF NumbersInv, WorkersCount
  <2>3. OwnCount(disk', v, wbuf[v], wnonce[v], refused)
    BY <1>3, <2>2, CountKept
  <2> QED BY <1>3, <2>1, <2>2, <2>3
<1> QED BY <1>1, <1>2, <1>3

\* Every action keeps NumbersInv.
LEMMA NumbersStep ==
  ASSUME TypeOK, Shape, TypeOK', Shape', NumbersInv, [Next]_vars
  PROVE  NumbersInv'
<1> USE DEF Shape
<1>0. /\ disk \in Disks /\ Len(disk) \in Nat /\ DOMAIN disk = 1 .. Len(disk)
      /\ Live \subseteq Workers
      /\ \A w \in Workers : wbuf[w] \in Seq(Record) /\ wnonce[w] \in Nat
      /\ mbuf \in Seq(Record) /\ mnonce \in Nat
  BY LenProperties DEF TypeOK, Disks, Live
<1>1. CASE StartMaster
  <2>1. Live' = {} /\ mpc' = "opened" /\ mbuf' = <<>> /\ mnonce' = 0 /\ refused' = refused
    BY <1>1 DEF StartMaster, Live
  <2>2. Numbered(disk', refused)
    <3>1. disk' = disk \/ disk' = Append(disk, <<>>)
      BY <1>1 DEF StartMaster
    <3> QED BY <1>0, <3>1, NewFileKeepsNumbers DEF NumbersInv
  <2> QED BY <2>1, <2>2 DEF NumbersInv, MasterCounts, WorkersCount, NoneAreFresh, Running
<1>2. CASE STARTING_UP
  <2> DEFINE r == MasterRecord("STARTING_UP", NoWorker, {})
  <2>1. r \in Record /\ r.event = "STARTING_UP" /\ r.nonce = mnonce
    BY RecordTypes DEF Events, MasterRecord
  <2> HIDE DEF r
  <2>2. mpc = "opened" /\ LogAndFlush(r) /\ mpc' = "up" /\ wst' = wst /\ refused' = {}
    BY <1>2 DEF STARTING_UP, r
  <2>3. mbuf = <<>> /\ mnonce = 0
    BY <2>2 DEF NumbersInv, MasterCounts, Running
  <2>4. disk' = WriteTo(disk, Len(disk), <<r>>) /\ mbuf' = <<>> /\ mnonce' = 1
        /\ Len(disk) \in DOMAIN disk /\ <<r>> \in Seq(Record)
    <3>1. Append(<<>>, r) = <<r>>
      OBVIOUS
    <3>2. mfile = Len(disk) /\ Len(disk) # 0
      BY <2>2 DEF MasterOnLast
    <3> QED BY <1>0, <2>1, <2>2, <2>3, <3>1, <3>2 DEF LogAndFlush
  <2>5. Grown(disk, Len(disk), <<r>>, disk')
    BY <1>0, <2>4, WriteGrows
  <2>6. /\ Numbered(disk', {}) /\ CountedLast(disk', NoWorker, 1, {})
        /\ \A b : b # NoWorker => CountedLast(disk', b, 0, {})
    BY <2>1, <2>3, <2>5, StartResetsNumbers DEF NumbersInv
  <2>7. Live' = {} /\ \A w \in Workers : w # NoWorker
    BY <2>2, ClusterAssumption DEF NobodyBefore, Live
  <2>8. MasterCounts'
    BY <2>2, <2>4, <2>6, CountWritten DEF MasterCounts, Running
  <2> QED BY <2>2, <2>6, <2>7, <2>8 DEF NumbersInv, WorkersCount, NoneAreFresh
<1>3. ASSUME NEW w \in Workers, WORKER_SPAWNED(w) PROVE NumbersInv'
  <2> DEFINE r == MasterRecord("WORKER_SPAWNED", w, {})
  <2>1. r \in Record /\ r.event = "WORKER_SPAWNED" /\ r.nonce = mnonce
    BY RecordTypes DEF Events, MasterRecord
  <2> HIDE DEF r
  <2>2. mpc = "up" /\ LogAndFlush(r) /\ Forked(w) /\ mpc' = "up" /\ wst[w] = "none" /\ refused' = refused
    BY <1>3 DEF WORKER_SPAWNED, r
  <2>3. /\ Numbered(disk', refused) /\ OwnCount(disk', NoWorker, mbuf', mnonce', refused)
        /\ KeepsCounts(disk, disk', NoWorker)
        /\ \A g : \A v \in Workers : NothingBeyond(disk, g, v) => NothingBeyond(disk', g, v)
    BY <2>1, <2>2, MasterLogCounts DEF Running
  <2>4. /\ Live' = Live \cup {w} /\ wfile'[w] = Len(disk) /\ wbuf'[w] = <<>> /\ wnonce'[w] = 0
        /\ \A v \in Workers \ {w} : wfile'[v] = wfile[v] /\ wbuf'[v] = wbuf[v] /\ wnonce'[v] = wnonce[v]
        /\ \A v \in Workers \ {w} : wst'[v] = wst[v]
        /\ wst'[w] = "live"
    <3>1. wnonce'[w] = 0 /\ \A v \in Workers \ {w} : wnonce'[v] = wnonce[v] /\ wst'[v] = wst[v]
      BY <2>2 DEF Forked, TypeOK
    <3>2. wst'[w] = "live"
      BY <2>2 DEF Forked, TypeOK
    <3> QED BY <2>2, <3>1, <3>2, ForkTypes
  <2>5. MasterCounts'
    BY <2>2, <2>3 DEF MasterCounts, Running
  <2>6. NoneAreFresh'
    <3>1. \A v \in Workers : wst'[v] = "none" => wst[v] = "none"
      BY <2>4
    <3> QED BY <2>2, <2>3, <3>1, NobodyStarts DEF NumbersInv, Running
  <2>7. ASSUME NEW v \in Live'
        PROVE  /\ NothingBeyond(disk', wfile'[v], v)
               /\ OwnCount(disk', v, wbuf'[v], wnonce'[v], refused)
    <3>1. CASE v = w
      <4>1. NothingBeyond(disk, Len(disk), w)
        BY <1>0 DEF NothingBeyond
      <4>2. w # NoWorker /\ CountedLast(disk, w, 0, refused)
        BY <2>2, ClusterAssumption DEF NumbersInv, NoneAreFresh, Running
      <4>3. CountedLast(disk', w, 0, refused)
        BY <2>3, <4>2 DEF KeepsCounts
      <4>4. OwnCount(disk', w, <<>>, 0, refused)
        BY <4>3, CountWritten
      <4> QED BY <2>3, <2>4, <3>1, <4>1, <4>4
    <3>2. CASE v # w
      <4>1. v \in Live /\ v \in Workers \ {w} /\ v # NoWorker
        BY <1>0, <2>4, <3>2, ClusterAssumption
      <4>2. NothingBeyond(disk, wfile[v], v) /\ OwnCount(disk, v, wbuf[v], wnonce[v], refused)
        BY <4>1 DEF NumbersInv, WorkersCount
      <4>3. OwnCount(disk', v, wbuf[v], wnonce[v], refused)
        BY <2>3, <4>1, <4>2, CountKept
      <4> QED BY <2>3, <2>4, <4>1, <4>2, <4>3
    <3> QED BY <3>1, <3>2
  <2> QED BY <2>2, <2>3, <2>5, <2>6, <2>7 DEF NumbersInv, WorkersCount
<1>4. ASSUME NEW w \in Workers, WorkerSpawnedThrows(w) PROVE NumbersInv'
  <2> DEFINE r == MasterRecord("WORKER_SPAWNED", w, {})
  <2>1. r \in Record /\ r.event = "WORKER_SPAWNED" /\ r.nonce = mnonce
    BY RecordTypes DEF Events, MasterRecord
  <2> HIDE DEF r
  <2>2. mpc = "up" /\ LogAndFlushThrows(r) /\ Forked(w) /\ mpc' = "up" /\ wst[w] = "none"
    BY <1>4 DEF WorkerSpawnedThrows, LogAndFlushThrows, r
  <2>3. OwnCount(disk', NoWorker, mbuf', mnonce', refused) /\ disk' = disk /\ refused' = refused
    BY <2>1, <2>2, MasterThrowCounts DEF Running
  <2>4. MasterCounts'
    BY <2>2, <2>3 DEF MasterCounts, Running
  <2>5. /\ Live' = Live \cup {w} /\ wfile'[w] = Len(disk) /\ wbuf'[w] = <<>> /\ wnonce'[w] = 0
        /\ \A v \in Workers \ {w} : wfile'[v] = wfile[v] /\ wbuf'[v] = wbuf[v] /\ wnonce'[v] = wnonce[v]
        /\ \A v \in Workers \ {w} : wst'[v] = wst[v]
        /\ wst'[w] = "live"
    <3>1. wnonce'[w] = 0 /\ \A v \in Workers \ {w} : wnonce'[v] = wnonce[v] /\ wst'[v] = wst[v]
      BY <2>2 DEF Forked, TypeOK
    <3>2. wst'[w] = "live"
      BY <2>2 DEF Forked, TypeOK
    <3> QED BY <2>2, <3>1, <3>2, ForkTypes
  <2>6. OwnCount(disk, w, <<>>, 0, refused) /\ NothingBeyond(disk, Len(disk), w)
    BY <1>0, <2>2, CountWritten DEF NumbersInv, NoneAreFresh, Running, NothingBeyond
  <2>7. WorkersCount'
    <3> SUFFICES ASSUME NEW v \in Live'
                 PROVE  /\ NothingBeyond(disk', wfile'[v], v)
                        /\ OwnCount(disk', v, wbuf'[v], wnonce'[v], refused')
      BY DEF WorkersCount
    <3>1. CASE v = w
      BY <2>3, <2>5, <2>6, <3>1
    <3>2. CASE v # w
      <4>1. v \in Live /\ v \in Workers \ {w}
        BY <1>0, <2>5, <3>2
      <4> QED BY <2>3, <2>5, <4>1 DEF NumbersInv, WorkersCount
    <3> QED BY <3>1, <3>2
  <2>8. NoneAreFresh'
    BY <2>2, <2>3, <2>5 DEF NumbersInv, NoneAreFresh, Running
  <2> QED BY <2>3, <2>4, <2>7, <2>8 DEF NumbersInv
<1>5. ASSUME NEW w \in Workers, WORKER_EXITED(w) PROVE NumbersInv'
  <2> DEFINE r == MasterRecord("WORKER_EXITED", w, {})
  <2>1. r \in Record /\ r.event = "WORKER_EXITED" /\ r.nonce = mnonce
    BY RecordTypes DEF Events, MasterRecord
  <2> HIDE DEF r
  <2>2. /\ mpc = "up" /\ LogAndFlush(r) /\ mpc' = "up" /\ wst[w] = "exited"
        /\ wst' = [wst EXCEPT ![w] = "reaped"] /\ UNCHANGED <<wfile, wbuf, wnonce, refused>>
    BY <1>5 DEF WORKER_EXITED, r
  <2>3. /\ Numbered(disk', refused) /\ OwnCount(disk', NoWorker, mbuf', mnonce', refused)
        /\ KeepsCounts(disk, disk', NoWorker)
        /\ \A g : \A v \in Workers : NothingBeyond(disk, g, v) => NothingBeyond(disk', g, v)
    BY <2>1, <2>2, MasterLogCounts DEF Running
  <2>4. Live' = Live /\ \A v \in Workers : wst'[v] = "none" => wst[v] = "none"
    BY <2>2 DEF Live, TypeOK
  <2>5. WorkersCount' /\ NoneAreFresh'
    BY <1>0, <2>2, <2>3, <2>4, WorkersCountOn, NobodyStarts DEF NumbersInv, Running
  <2>6. MasterCounts'
    BY <2>2, <2>3 DEF MasterCounts, Running
  <2> QED BY <2>2, <2>3, <2>5, <2>6 DEF NumbersInv
<1>6. ASSUME NEW w \in Workers, WorkerExitedThrows(w) PROVE NumbersInv'
  <2> DEFINE r == MasterRecord("WORKER_EXITED", w, {})
  <2>1. r \in Record /\ r.event = "WORKER_EXITED" /\ r.nonce = mnonce
    BY RecordTypes DEF Events, MasterRecord
  <2> HIDE DEF r
  <2>2. /\ mpc = "up" /\ LogAndFlushThrows(r) /\ mpc' = "up" /\ wst[w] = "exited"
        /\ wst' = [wst EXCEPT ![w] = "reaped"] /\ UNCHANGED <<wfile, wbuf, wnonce>>
    BY <1>6 DEF WorkerExitedThrows, LogAndFlushThrows, r
  <2>3. OwnCount(disk', NoWorker, mbuf', mnonce', refused) /\ disk' = disk /\ refused' = refused
    BY <2>1, <2>2, MasterThrowCounts DEF Running
  <2>4. MasterCounts'
    BY <2>2, <2>3 DEF MasterCounts, Running
  <2>5. Live' = Live /\ \A v \in Workers : wst'[v] = "none" => wst[v] = "none"
    BY <2>2 DEF Live, TypeOK
  <2>6. WorkersCount' /\ NoneAreFresh'
    BY <2>2, <2>3, <2>5 DEF NumbersInv, WorkersCount, NoneAreFresh, Running
  <2> QED BY <2>3, <2>4, <2>6 DEF NumbersInv
<1>7. CASE MasterLog
  <2>1. PICK r \in {MasterRecord("MASTER_LOG", NoWorker, {}),
                   MasterRecord("MASTER_PING", NoWorker, workerIds)} :
          mbuf' = Append(mbuf, r)
    BY <1>7 DEF MasterLog
  <2>2. /\ mpc = "up" /\ mpc' = "up" /\ mnonce' = mnonce + 1
        /\ UNCHANGED <<disk, wst, wfile, wbuf, wnonce, refused>>
    BY <1>7 DEF MasterLog, workers
  <2>3. r \in Record /\ r.event # "STARTING_UP" /\ AuthorOf(r) = NoWorker /\ r.nonce = mnonce
    <3>1. workerIds \in SUBSET Workers
      BY DEF TypeOK
    <3>2. r \in Record
      BY <2>1, <3>1, RecordTypes DEF Events
    <3> QED BY <2>1, <3>2 DEF MasterRecord, AuthorOf
  <2>4. MasterCounts'
    <3>1. OwnCount(disk, NoWorker, mbuf, mnonce, refused)
      BY <2>2 DEF NumbersInv, MasterCounts, Running
    <3>2. OwnCount(disk, NoWorker, Append(mbuf, r), mnonce + 1, refused)
      BY <1>0, <2>3, <3>1, CountGrows
    <3> QED BY <2>1, <2>2, <3>2 DEF MasterCounts, Running
  <2> QED BY <2>2, <2>4 DEF NumbersInv, WorkersCount, NoneAreFresh, Running, Live
<1>8. CASE MasterLogThrows
  <2>1. /\ mpc = "up" /\ mpc' = "up" /\ mnonce' = mnonce + 1 /\ <<NoWorker, mnonce>> \in refused'
        /\ refused \subseteq refused' /\ UNCHANGED <<disk, mbuf, wst, wfile, wbuf, wnonce>>
    BY <1>8 DEF MasterLogThrows, workers
  <2>2. /\ Numbered(disk, refused')
        /\ \A a, m : CountedLast(disk, a, m, refused) => CountedLast(disk, a, m, refused')
        /\ \A a, batch, n : OwnCount(disk, a, batch, n, refused) => OwnCount(disk, a, batch, n, refused')
    BY <2>1, CountWidens DEF NumbersInv
  <2>3. MasterCounts'
    <3>1. OwnCount(disk, NoWorker, mbuf, mnonce, refused)
      BY <2>1 DEF NumbersInv, MasterCounts, Running
    <3>2. OwnCount(disk, NoWorker, mbuf, mnonce + 1, refused')
      BY <1>0, <2>1, <3>1, CountSkips
    <3> QED BY <2>1, <3>2 DEF MasterCounts, Running
  <2> QED BY <2>1, <2>2, <2>3 DEF NumbersInv, WorkersCount, NoneAreFresh, Running, Live
<1>9. CASE MasterFlush
  <2>1. /\ mpc = "up" /\ mpc' = "up" /\ disk' = WriteTo(disk, mfile, mbuf) /\ mbuf' = <<>>
        /\ UNCHANGED <<mnonce, wst, wfile, wbuf, wnonce, refused>>
    BY <1>9 DEF MasterFlush, workers
  <2>2. /\ Numbered(disk', refused) /\ OwnCount(disk', NoWorker, <<>>, mnonce, refused)
        /\ KeepsCounts(disk, disk', NoWorker)
        /\ \A g : \A w \in Workers : NothingBeyond(disk, g, w) => NothingBeyond(disk', g, w)
    BY <2>1, MasterFlushCounts DEF Running
  <2>3. WorkersCount' /\ NoneAreFresh'
    BY <1>0, <2>1, <2>2, WorkersCountOn, NobodyStarts DEF NumbersInv, Running, Live
  <2> QED BY <2>1, <2>2, <2>3 DEF NumbersInv, MasterCounts, Running
<1>10. CASE Rotate
  <2> DEFINE e == WriteTo(disk, mfile, mbuf)
  <2>1. /\ mpc = "up" /\ mpc' = "rotated" /\ disk' = Append(e, <<>>) /\ mbuf' = <<>>
        /\ UNCHANGED <<mnonce, wst, wfile, wbuf, wnonce, refused>>
    BY <1>10 DEF Rotate, workers
  <2>2. /\ Numbered(e, refused) /\ OwnCount(e, NoWorker, <<>>, mnonce, refused)
        /\ KeepsCounts(disk, e, NoWorker)
        /\ \A g : \A w \in Workers : NothingBeyond(disk, g, w) => NothingBeyond(e, g, w)
        /\ e \in Disks
    BY <2>1, MasterFlushCounts DEF Running
  <2> HIDE DEF e
  <2>3. /\ Numbered(disk', refused)
        /\ \A b, m, R : CountedLast(e, b, m, R) => CountedLast(disk', b, m, R)
        /\ \A f, b : NothingBeyond(e, f, b) => NothingBeyond(disk', f, b)
    BY <2>1, <2>2, NewFileKeepsNumbers
  <2>4. KeepsCounts(disk, disk', NoWorker) /\ OwnCount(disk', NoWorker, <<>>, mnonce, refused)
    BY <2>2, <2>3 DEF KeepsCounts, OwnCount
  <2>5. \A g : \A w \in Workers : NothingBeyond(disk, g, w) => NothingBeyond(disk', g, w)
    BY <2>2, <2>3
  <2>6. WorkersCount' /\ NoneAreFresh'
    BY <1>0, <2>1, <2>4, <2>5, WorkersCountOn, NobodyStarts DEF NumbersInv, Running, Live
  <2> QED BY <2>1, <2>3, <2>4, <2>6 DEF NumbersInv, MasterCounts, Running
<1>11. CASE RotatePing
  <2> DEFINE r == MasterRecord("MASTER_PING", NoWorker, workerIds)
  <2>1. r \in Record /\ r.event = "MASTER_PING" /\ r.nonce = mnonce
    BY RecordTypes DEF Events, MasterRecord
  <2> HIDE DEF r
  <2>2. /\ mpc = "rotated" /\ LogAndFlush(r) /\ mpc' = "up" /\ UNCHANGED <<wst, wfile, wbuf, wnonce, refused>>
    BY <1>11 DEF RotatePing, r
  <2>3. /\ Numbered(disk', refused) /\ OwnCount(disk', NoWorker, mbuf', mnonce', refused)
        /\ KeepsCounts(disk, disk', NoWorker)
        /\ \A g : \A v \in Workers : NothingBeyond(disk, g, v) => NothingBeyond(disk', g, v)
    BY <2>1, <2>2, MasterLogCounts DEF Running
  <2>4. WorkersCount' /\ NoneAreFresh'
    BY <1>0, <2>2, <2>3, WorkersCountOn, NobodyStarts DEF NumbersInv, Running, Live
  <2> QED BY <2>2, <2>3, <2>4 DEF NumbersInv, MasterCounts, Running
<1>12. CASE StopMaster
  <2>1. /\ mpc # "down" /\ mpc' = "down" /\ mbuf' = <<>> /\ UNCHANGED <<wst, wfile, wbuf, wnonce, refused>>
        /\ (disk' = disk) \/ (mpc = "up" /\ disk' = WriteTo(disk, mfile, mbuf))
    BY <1>12 DEF StopMaster, MasterUp, workers
  <2>2. /\ Numbered(disk', refused) /\ KeepsCounts(disk, disk', NoWorker)
        /\ \A g : \A w \in Workers : NothingBeyond(disk, g, w) => NothingBeyond(disk', g, w)
    <3>1. CASE disk' = disk
      BY <3>1 DEF NumbersInv, KeepsCounts
    <3>2. CASE mpc = "up" /\ disk' = WriteTo(disk, mfile, mbuf)
      BY <3>2, MasterFlushCounts DEF Running
    <3> QED BY <2>1, <3>1, <3>2
  <2>3. WorkersCount'
    BY <1>0, <2>1, <2>2, WorkersCountOn DEF NumbersInv, Live
  <2> QED BY <2>1, <2>2, <2>3 DEF NumbersInv, MasterCounts, NoneAreFresh, Running
<1>13. ASSUME NEW w \in Workers, WorkerLog(w) PROVE NumbersInv'
  <2> DEFINE r == WorkerRecord(w)
  <2>1. /\ wbuf' = [wbuf EXCEPT ![w] = Append(@, r)] /\ wnonce' = [wnonce EXCEPT ![w] = @ + 1]
        /\ w \in Live /\ UNCHANGED <<disk, mpc, mbuf, mnonce, wst, wfile, refused>>
    BY <1>13 DEF WorkerLog, master, Live
  <2>2. r \in Record /\ r.event # "STARTING_UP" /\ AuthorOf(r) = w /\ r.nonce = wnonce[w]
    BY RecordTypes DEF WorkerRecord, AuthorOf
  <2> HIDE DEF r
  <2>3. /\ wbuf'[w] = Append(wbuf[w], r) /\ wnonce'[w] = wnonce[w] + 1 /\ Live' = Live
        /\ \A v \in Workers : v # w => wbuf'[v] = wbuf[v] /\ wnonce'[v] = wnonce[v]
    BY <2>1 DEF TypeOK, Live
  <2>4. OwnCount(disk, w, wbuf'[w], wnonce'[w], refused)
    <3>1. OwnCount(disk, w, wbuf[w], wnonce[w], refused)
      BY <2>1 DEF NumbersInv, WorkersCount
    <3> QED BY <1>0, <2>2, <2>3, <3>1, CountGrows
  <2>5. WorkersCount'
    <3> SUFFICES ASSUME NEW v \in Live
                 PROVE  /\ NothingBeyond(disk, wfile[v], v)
                        /\ OwnCount(disk, v, wbuf'[v], wnonce'[v], refused)
      BY <2>1, <2>3 DEF WorkersCount
    <3>1. CASE v = w
      BY <2>4, <3>1 DEF NumbersInv, WorkersCount
    <3>2. CASE v # w
      BY <1>0, <2>3, <3>2 DEF NumbersInv, WorkersCount
    <3> QED BY <3>1, <3>2
  <2> QED BY <2>1, <2>5 DEF NumbersInv, MasterCounts, NoneAreFresh, Running
<1>14. ASSUME NEW w \in Workers, WorkerLogThrows(w) PROVE NumbersInv'
  <2>1. /\ wnonce' = [wnonce EXCEPT ![w] = @ + 1] /\ <<w, wnonce[w]>> \in refused' /\ refused \subseteq refused'
        /\ w \in Live /\ UNCHANGED <<disk, mpc, mbuf, mnonce, wst, wfile, wbuf>>
    BY <1>14 DEF WorkerLogThrows, master, Live
  <2>2. /\ wnonce'[w] = wnonce[w] + 1 /\ Live' = Live
        /\ \A v \in Workers : v # w => wnonce'[v] = wnonce[v]
    BY <2>1 DEF TypeOK, Live
  <2>3. /\ Numbered(disk, refused')
        /\ \A a, m : CountedLast(disk, a, m, refused) => CountedLast(disk, a, m, refused')
        /\ \A a, batch, n : OwnCount(disk, a, batch, n, refused) => OwnCount(disk, a, batch, n, refused')
    BY <2>1, CountWidens DEF NumbersInv
  <2>4. OwnCount(disk, w, wbuf[w], wnonce'[w], refused')
    <3>1. OwnCount(disk, w, wbuf[w], wnonce[w], refused)
      BY <2>1 DEF NumbersInv, WorkersCount
    <3> QED BY <1>0, <2>1, <2>2, <3>1, CountSkips
  <2>5. WorkersCount'
    <3> SUFFICES ASSUME NEW v \in Live
                 PROVE  /\ NothingBeyond(disk, wfile[v], v)
                        /\ OwnCount(disk, v, wbuf[v], wnonce'[v], refused')
      BY <2>1, <2>2 DEF WorkersCount
    <3>1. CASE v = w
      BY <2>4, <3>1 DEF NumbersInv, WorkersCount
    <3>2. CASE v # w
      BY <1>0, <2>2, <2>3, <3>2 DEF NumbersInv, WorkersCount
    <3> QED BY <3>1, <3>2
  <2>6. MasterCounts' /\ NoneAreFresh'
    BY <2>1, <2>3 DEF NumbersInv, MasterCounts, NoneAreFresh, Running
  <2> QED BY <2>1, <2>3, <2>5, <2>6 DEF NumbersInv
<1>15. ASSUME NEW w \in Workers, WorkerFlush(w) PROVE NumbersInv'
  <2>1. /\ w \in Live /\ disk' = WriteTo(disk, wfile[w], wbuf[w])
        /\ wbuf' = [wbuf EXCEPT ![w] = <<>>]
        /\ UNCHANGED <<mpc, mbuf, mnonce, wst, wfile, wnonce, refused>>
    BY <1>15 DEF WorkerFlush, master, Live
  <2>2. /\ wfile[w] \in DOMAIN disk /\ NothingBeyond(disk, wfile[w], w) /\ Numbered(disk, refused)
        /\ OwnCount(disk, w, wbuf[w], wnonce[w], refused)
    BY <2>1 DEF LiveHaveAFile, NumbersInv, WorkersCount
  <2>3. /\ Numbered(disk', refused) /\ CountedLast(disk', w, wnonce[w], refused) /\ KeepsCounts(disk, disk', w)
        /\ NothingBeyond(disk', wfile[w], w)
        /\ \A g : \A v \in Workers : v # w /\ NothingBeyond(disk, g, v) => NothingBeyond(disk', g, v)
    BY <1>0, <2>1, <2>2, WorkerBatchCounts
  <2>4. /\ Live' = Live /\ wbuf'[w] = <<>> /\ \A v \in Workers : wst'[v] = "none" => wst[v] = "none"
        /\ \A v \in Live' : v # w => wfile'[v] = wfile[v] /\ wbuf'[v] = wbuf[v] /\ wnonce'[v] = wnonce[v]
    BY <2>1 DEF TypeOK, Live
  <2>5. /\ MasterCounts' /\ NoneAreFresh'
        /\ \A v \in Live' : v # w => /\ NothingBeyond(disk', wfile'[v], v)
                                     /\ OwnCount(disk', v, wbuf'[v], wnonce'[v], refused')
    BY <1>0, <2>1, <2>3, <2>4, OthersCountOn
  <2>6. OwnCount(disk', w, wbuf'[w], wnonce'[w], refused')
    <3>1. w \in Workers /\ wnonce[w] \in Nat
      BY <1>0
    <3> QED BY <2>1, <2>3, <2>4, <3>1, CountWritten
  <2>7. WorkersCount'
    BY <2>1, <2>3, <2>5, <2>6 DEF WorkersCount
  <2> QED BY <2>1, <2>3, <2>5, <2>7 DEF NumbersInv
<1>16. ASSUME NEW w \in Workers, WorkerRotate(w) PROVE NumbersInv'
  <2> DEFINE f == Head(inbox[w])
             e == WriteTo(disk, wfile[w], wbuf[w])
             r == WorkerRecord(w)
  <2>1. /\ w \in Live /\ inbox[w] # <<>>
        /\ disk' = WriteTo(e, f, <<r>>)
        /\ wfile' = [wfile EXCEPT ![w] = f] /\ wbuf' = [wbuf EXCEPT ![w] = <<>>]
        /\ wnonce' = [wnonce EXCEPT ![w] = @ + 1]
        /\ UNCHANGED <<mpc, mbuf, mnonce, wst, refused>>
    BY <1>16 DEF WorkerRotate, master, Live
  <2>2. /\ wfile[w] \in DOMAIN disk /\ NothingBeyond(disk, wfile[w], w) /\ Numbered(disk, refused)
        /\ OwnCount(disk, w, wbuf[w], wnonce[w], refused)
    BY <2>1 DEF LiveHaveAFile, NumbersInv, WorkersCount
  <2>3. /\ Numbered(e, refused) /\ CountedLast(e, w, wnonce[w], refused) /\ KeepsCounts(disk, e, w)
        /\ NothingBeyond(e, wfile[w], w)
        /\ \A g : \A v \in Workers : v # w /\ NothingBeyond(disk, g, v) => NothingBeyond(e, g, v)
        /\ e \in Disks /\ DOMAIN e = DOMAIN disk
    <3> HIDE DEF f, r
    <3> QED BY <1>0, <2>2, WorkerBatchCounts
  <2> HIDE DEF e
  <2>4. /\ <<r>> \in Seq(Record) /\ wnonce[w] \in Nat /\ wnonce[w] + 1 \in Nat
        /\ OwnCount(e, w, <<r>>, wnonce[w] + 1, refused)
    <3>1. r \in Record /\ r.event # "STARTING_UP" /\ AuthorOf(r) = w /\ r.nonce = wnonce[w]
      BY RecordTypes DEF WorkerRecord, AuthorOf
    <3> HIDE DEF r, f
    <3>2. wnonce[w] \in Nat /\ wnonce[w] + 1 \in Nat
      BY <1>0
    <3>3. <<>> \in Seq(Record) /\ <<r>> = Append(<<>>, r) /\ <<r>> \in Seq(Record)
      BY <3>1
    <3>4. OwnCount(e, w, <<>>, wnonce[w], refused)
      BY <2>3, <3>2, CountWritten
    <3>5. OwnCount(e, w, Append(<<>>, r), wnonce[w] + 1, refused)
      BY <3>1, <3>2, <3>3, <3>4, CountGrows
    <3> QED BY <3>2, <3>3, <3>5
  <2> HIDE DEF r
  <2>5. wfile[w] < f /\ f \in DOMAIN disk /\ f \in Nat /\ wfile[w] \in Nat
    <3>1. inbox[w] \in Seq(Nat) /\ Len(inbox[w]) \in Nat \ {0} /\ f = inbox[w][1]
          /\ 1 \in DOMAIN inbox[w] /\ f \in Nat
      BY <2>1, EmptySeq DEF TypeOK
    <3>2. wfile[w] < f /\ f <= Len(disk) /\ wfile[w] \in Nat
      BY <2>1, <3>1 DEF InboxLeadsForward, TypeOK
    <3> QED BY <1>0, <3>1, <3>2
  <2> HIDE DEF f
  <2>6. NothingBeyond(e, f, w)
    <3>1. \A g \in DOMAIN e : g > f => g > wfile[w]
      BY <1>0, <2>3, <2>5
    <3> QED BY <2>3, <3>1 DEF NothingBeyond
  <2>7. /\ Numbered(disk', refused) /\ CountedLast(disk', w, wnonce[w] + 1, refused) /\ KeepsCounts(e, disk', w)
        /\ NothingBeyond(disk', f, w)
        /\ \A g : \A v \in Workers : v # w /\ NothingBeyond(e, g, v) => NothingBeyond(disk', g, v)
    BY <2>1, <2>3, <2>4, <2>5, <2>6, WorkerBatchCounts
  <2>8. KeepsCounts(disk, disk', w)
    BY <2>3, <2>7 DEF KeepsCounts
  <2>9. \A g : \A v \in Workers : v # w /\ NothingBeyond(disk, g, v) => NothingBeyond(disk', g, v)
    BY <2>3, <2>7
  <2>10. /\ Live' = Live /\ wbuf'[w] = <<>> /\ wfile'[w] = f /\ wnonce'[w] = wnonce[w] + 1
         /\ \A v \in Workers : wst'[v] = "none" => wst[v] = "none"
         /\ \A v \in Live' : v # w => wfile'[v] = wfile[v] /\ wbuf'[v] = wbuf[v] /\ wnonce'[v] = wnonce[v]
    BY <2>1 DEF TypeOK, Live
  <2>11. /\ MasterCounts' /\ NoneAreFresh'
         /\ \A v \in Live' : v # w => /\ NothingBeyond(disk', wfile'[v], v)
                                      /\ OwnCount(disk', v, wbuf'[v], wnonce'[v], refused')
    BY <1>0, <2>1, <2>8, <2>9, <2>10, OthersCountOn
  <2>12. OwnCount(disk', w, wbuf'[w], wnonce'[w], refused')
    BY <2>1, <2>4, <2>7, <2>10, CountWritten
  <2>13. WorkersCount'
    BY <2>7, <2>10, <2>11, <2>12 DEF WorkersCount
  <2> QED BY <2>1, <2>7, <2>11, <2>13 DEF NumbersInv
<1>17. ASSUME NEW w \in Workers, WorkerExit(w) PROVE NumbersInv'
  <2>1. /\ w \in Live /\ wst' = [wst EXCEPT ![w] = "exited"]
        /\ (disk' = disk) \/ (disk' = WriteTo(disk, wfile[w], wbuf[w]))
        /\ wfile' = [wfile EXCEPT ![w] = 0] /\ wbuf' = [wbuf EXCEPT ![w] = <<>>]
        /\ wnonce' = [wnonce EXCEPT ![w] = 0]
        /\ UNCHANGED <<mpc, mbuf, mnonce, refused>>
    BY <1>17 DEF WorkerExit, master, Live
  <2>2. /\ wfile[w] \in DOMAIN disk /\ NothingBeyond(disk, wfile[w], w) /\ Numbered(disk, refused)
        /\ OwnCount(disk, w, wbuf[w], wnonce[w], refused)
    BY <2>1 DEF LiveHaveAFile, NumbersInv, WorkersCount
  <2>3. /\ Numbered(disk', refused) /\ KeepsCounts(disk, disk', w)
        /\ \A g : \A v \in Workers : v # w /\ NothingBeyond(disk, g, v) => NothingBeyond(disk', g, v)
    <3>1. CASE disk' = disk
      BY <2>2, <3>1 DEF KeepsCounts
    <3>2. CASE disk' = WriteTo(disk, wfile[w], wbuf[w])
      BY <1>0, <2>2, <3>2, WorkerBatchCounts
    <3> QED BY <2>1, <3>1, <3>2
  <2>4. /\ Live' = Live \ {w} /\ \A v \in Workers : wst'[v] = "none" => wst[v] = "none"
        /\ \A v \in Live' : v # w => wfile'[v] = wfile[v] /\ wbuf'[v] = wbuf[v] /\ wnonce'[v] = wnonce[v]
    BY <2>1 DEF TypeOK, Live
  <2>5. /\ MasterCounts' /\ NoneAreFresh'
        /\ \A v \in Live' : v # w => /\ NothingBeyond(disk', wfile'[v], v)
                                     /\ OwnCount(disk', v, wbuf'[v], wnonce'[v], refused')
    BY <1>0, <2>1, <2>3, <2>4, OthersCountOn
  <2> QED BY <2>1, <2>3, <2>4, <2>5 DEF NumbersInv, WorkersCount
<1>18. CASE Tick \/ UNCHANGED vars
  <2>1. UNCHANGED <<disk, mbuf, mnonce, mpc, wst, wfile, wbuf, wnonce, refused>>
    BY <1>18 DEF Tick, vars, master, workers
  <2> QED BY <2>1 DEF NumbersInv, MasterCounts, WorkersCount, NoneAreFresh, Running, Live
<1> QED
  BY <1>1, <1>2, <1>3, <1>4, <1>5, <1>6, <1>7, <1>8, <1>9, <1>10, <1>11, <1>12,
     <1>13, <1>14, <1>15, <1>16, <1>17, <1>18 DEF Next, MasterNext, WorkerNext

-----------------------------------------------------------------------------
(* The count at each position of the stream.                                *)

\* Records q + 1 .. p - 1 hold no start.
NoStartBetween(S, q, p) == \A r \in q + 1 .. p : r < p => S[r].event # "STARTING_UP"

\* Recent by places is recent by positions.
LEMMA RecentByPlace ==
  ASSUME NEW d, NEW S \in Seq(Record), NEW loc, Located(d, S, loc),
         NEW a, NEW q \in DOMAIN S, NEW p \in DOMAIN S
  PROVE  IsRecent(d, loc[q][1], loc[q][2], a, loc[p][1], loc[p][2])
           <=> q < p /\ AuthorOf(S[q]) = a /\ NoStartBetween(S, q, p)
<1>0. DOMAIN S = 1 .. Len(S) /\ Len(S) \in Nat
  BY LenProperties
<1>1. /\ \A x \in DOMAIN S : /\ loc[x][1] \in DOMAIN d /\ loc[x][2] \in DOMAIN d[loc[x][1]]
                             /\ S[x] = d[loc[x][1]][loc[x][2]]
      /\ \A x, y \in DOMAIN S : x < y <=> Before(loc[x][1], loc[x][2], loc[y][1], loc[y][2])
      /\ \A h \in DOMAIN d : \A k \in DOMAIN d[h] : \E x \in DOMAIN S : loc[x] = <<h, k>>
  BY DEF Located
<1>2. ASSUME IsRecent(d, loc[q][1], loc[q][2], a, loc[p][1], loc[p][2])
      PROVE  /\ q < p /\ AuthorOf(S[q]) = a
             /\ \A r \in q + 1 .. p : r < p => S[r].event # "STARTING_UP"
  <2>1. q < p /\ AuthorOf(S[q]) = a
    BY <1>1, <1>2 DEF IsRecent
  <2>2. ASSUME NEW r \in q + 1 .. p, r < p PROVE S[r].event # "STARTING_UP"
    <3>1. r \in DOMAIN S /\ q < r
      BY <1>0, <2>2
    <3> QED BY <1>1, <1>2, <2>2, <3>1 DEF IsRecent
  <2> QED BY <2>1, <2>2
<1>3. ASSUME q < p, AuthorOf(S[q]) = a,
             \A r \in q + 1 .. p : r < p => S[r].event # "STARTING_UP"
      PROVE  IsRecent(d, loc[q][1], loc[q][2], a, loc[p][1], loc[p][2])
  <2>1. ASSUME NEW h \in DOMAIN d, NEW k \in DOMAIN d[h],
               Before(loc[q][1], loc[q][2], h, k), Before(h, k, loc[p][1], loc[p][2])
        PROVE  d[h][k].event # "STARTING_UP"
    <3>1. PICK r \in DOMAIN S : loc[r] = <<h, k>>
      BY <1>1
    <3>2. loc[r][1] = h /\ loc[r][2] = k
      BY <3>1
    <3>3. q < r /\ r < p
      BY <1>1, <2>1, <3>2
    <3>4. r \in q + 1 .. p
      BY <1>0, <3>3
    <3> QED BY <1>1, <1>3, <3>2, <3>3, <3>4
  <2> QED BY <1>1, <1>3, <2>1 DEF IsRecent
<1> QED BY <1>2, <1>3 DEF NoStartBetween

\* And in the last run is after the last start.
LEMMA RecentAtLast ==
  ASSUME NEW d \in Disks, NEW S \in Seq(Record), NEW loc, Located(d, S, loc),
         NEW a, NEW q \in DOMAIN S
  PROVE  IsRecent(d, loc[q][1], loc[q][2], a, Len(d) + 1, 1)
           <=> AuthorOf(S[q]) = a /\ \A r \in q + 1 .. Len(S) : S[r].event # "STARTING_UP"
<1>0. DOMAIN S = 1 .. Len(S) /\ Len(S) \in Nat
  BY LenProperties
<1>1. /\ \A x \in DOMAIN S : /\ loc[x][1] \in DOMAIN d /\ loc[x][2] \in DOMAIN d[loc[x][1]]
                             /\ S[x] = d[loc[x][1]][loc[x][2]]
      /\ \A x, y \in DOMAIN S : x < y <=> Before(loc[x][1], loc[x][2], loc[y][1], loc[y][2])
      /\ \A h \in DOMAIN d : \A k \in DOMAIN d[h] : \E x \in DOMAIN S : loc[x] = <<h, k>>
  BY DEF Located
<1>2. ASSUME NEW h \in DOMAIN d, NEW k PROVE Before(h, k, Len(d) + 1, 1)
  <2>1. h \in 1 .. Len(d) /\ Len(d) \in Nat
    BY LenProperties DEF Disks
  <2> QED BY <2>1 DEF Before
<1>3. ASSUME IsRecent(d, loc[q][1], loc[q][2], a, Len(d) + 1, 1)
      PROVE  AuthorOf(S[q]) = a /\ \A r \in q + 1 .. Len(S) : S[r].event # "STARTING_UP"
  <2>1. ASSUME NEW r \in q + 1 .. Len(S) PROVE S[r].event # "STARTING_UP"
    <3>1. r \in DOMAIN S /\ q < r
      BY <1>0
    <3> QED BY <1>1, <1>2, <1>3, <3>1 DEF IsRecent
  <2> QED BY <1>1, <1>3, <2>1 DEF IsRecent
<1>4. ASSUME AuthorOf(S[q]) = a, \A r \in q + 1 .. Len(S) : S[r].event # "STARTING_UP"
      PROVE  IsRecent(d, loc[q][1], loc[q][2], a, Len(d) + 1, 1)
  <2>1. ASSUME NEW h \in DOMAIN d, NEW k \in DOMAIN d[h], Before(loc[q][1], loc[q][2], h, k)
        PROVE  d[h][k].event # "STARTING_UP"
    <3>1. PICK r \in DOMAIN S : loc[r] = <<h, k>>
      BY <1>1
    <3>2. loc[r][1] = h /\ loc[r][2] = k
      BY <3>1
    <3>3. q < r
      BY <1>1, <2>1, <3>2
    <3>4. r \in q + 1 .. Len(S)
      BY <1>0, <3>3
    <3> QED BY <1>1, <1>4, <3>2, <3>4
  <2> QED BY <1>1, <1>2, <1>4, <2>1 DEF IsRecent
<1> QED BY <1>3, <1>4

\* A record has a greater nonce than its author's earlier ones.
LEMMA NoncesRise ==
  ASSUME NEW d, NEW S \in Seq(Record), NEW loc, Located(d, S, loc), Rising(d),
         NEW p \in DOMAIN S, NEW q \in 1 .. p - 1,
         \A r \in q + 1 .. p : S[r].event # "STARTING_UP", AuthorOf(S[q]) = AuthorOf(S[p])
  PROVE  S[q].nonce \in 0 .. S[p].nonce - 1
<1>0. DOMAIN S = 1 .. Len(S) /\ Len(S) \in Nat
  BY LenProperties
<1>1. \A x \in DOMAIN S : /\ loc[x][1] \in DOMAIN d /\ loc[x][2] \in DOMAIN d[loc[x][1]]
                          /\ S[x] = d[loc[x][1]][loc[x][2]]
  BY DEF Located
<1>2. q \in DOMAIN S /\ q < p /\ p \in q + 1 .. p
  BY <1>0
<1>3. IsRecent(d, loc[q][1], loc[q][2], AuthorOf(S[p]), loc[p][1], loc[p][2])
  BY <1>2, RecentByPlace DEF NoStartBetween
<1>4. Below(d, AuthorOf(S[p]), loc[p][1], loc[p][2], S[p].nonce)
  <2>1. /\ loc[p][1] \in DOMAIN d /\ loc[p][2] \in DOMAIN d[loc[p][1]]
        /\ S[p] = d[loc[p][1]][loc[p][2]]
    BY <1>1
  <2>2. d[loc[p][1]][loc[p][2]].event # "STARTING_UP"
    BY <1>2, <2>1
  <2>3. Below(d, AuthorOf(d[loc[p][1]][loc[p][2]]), loc[p][1], loc[p][2],
              d[loc[p][1]][loc[p][2]].nonce)
    BY <2>1, <2>2, Zenon DEF Rising
  <2> QED BY <2>1, <2>3
<1>5. S[q] = d[loc[q][1]][loc[q][2]]
  BY <1>1, <1>2
<1>6. d[loc[q][1]][loc[q][2]].nonce \in 0 .. S[p].nonce - 1
  BY <1>3, <1>4, Zenon DEF Below
<1> QED BY <1>5, <1>6

\* In the last run none is left out but the refused ones.
LEMMA NoncesFill ==
  ASSUME NEW d \in Disks, NEW S \in Seq(Record), NEW loc, Located(d, S, loc), NEW R, Numbered(d, R),
         NEW p \in DOMAIN S, \A r \in p + 1 .. Len(S) : S[r].event # "STARTING_UP",
         NEW n \in 0 .. S[p].nonce - 1
  PROVE  \/ \E q \in 1 .. p - 1 : /\ \A r \in q + 1 .. p : S[r].event # "STARTING_UP"
                                 /\ AuthorOf(S[q]) = AuthorOf(S[p])
                                 /\ S[q].nonce = n
         \/ <<AuthorOf(S[p]), n>> \in R
<1> DEFINE a == AuthorOf(S[p])
<1>0. DOMAIN S = 1 .. Len(S) /\ Len(S) \in Nat
  BY LenProperties
<1>1. \A x \in DOMAIN S : /\ loc[x][1] \in DOMAIN d /\ loc[x][2] \in DOMAIN d[loc[x][1]]
                          /\ S[x] = d[loc[x][1]][loc[x][2]]
  BY DEF Located
<1>2. IsRecent(d, loc[p][1], loc[p][2], a, Len(d) + 1, 1)
  BY RecentAtLast
<1>3. Covered(d, a, n, R)
  BY <1>1, <1>2 DEF Numbered, Gapless
<1>4. ASSUME NEW g, NEW j, IsRecent(d, g, j, a, Len(d) + 1, 1), d[g][j].nonce = n
      PROVE  \E q \in 1 .. p - 1 : /\ \A r \in q + 1 .. p : S[r].event # "STARTING_UP"
                                  /\ AuthorOf(S[q]) = a /\ S[q].nonce = n
  <2>1. PICK q \in DOMAIN S : loc[q] = <<g, j>>
    BY <1>4 DEF Located, IsRecent
  <2>2. loc[q][1] = g /\ loc[q][2] = j
    BY <2>1
  <2>3. /\ AuthorOf(S[q]) = a /\ S[q].nonce = n
        /\ \A r \in q + 1 .. Len(S) : S[r].event # "STARTING_UP"
    <3>1. IsRecent(d, loc[q][1], loc[q][2], a, Len(d) + 1, 1) /\ S[q] = d[g][j]
      BY <1>1, <1>4, <2>2
    <3>2. AuthorOf(S[q]) = a /\ \A r \in q + 1 .. Len(S) : S[r].event # "STARTING_UP"
      <4> HIDE DEF a
      <4> QED BY <3>1, RecentAtLast
    <3> QED BY <1>4, <3>1, <3>2
  <2>4. S[q].nonce < S[p].nonce /\ S[p].nonce \in Nat
    <3>1. S[p].nonce \in Nat
      <4>1. S[p] \in Record
        BY <1>0, ElementOfSeq
      <4> QED BY <4>1 DEF Record
    <3> QED BY <2>3, <3>1
  <2>5. ~ (p < q)
    <3> SUFFICES ASSUME p < q PROVE FALSE
      OBVIOUS
    <3>1. p \in 1 .. q - 1 /\ \A r \in p + 1 .. q : r \in p + 1 .. Len(S)
      BY <1>0
    <3>2. S[p].nonce \in 0 .. S[q].nonce - 1
      BY <2>3, <3>1, NoncesRise DEF Numbered
    <3>3. S[q].nonce \in Nat
      BY <2>3
    <3> QED BY <2>4, <3>2, <3>3
  <2>6. p # q
    BY <2>4
  <2>7. q \in 1 .. p - 1 /\ \A r \in q + 1 .. p : r \in q + 1 .. Len(S)
    BY <1>0, <2>5, <2>6
  <2> QED BY <2>3, <2>7
<1> QED BY <1>3, <1>4 DEF Covered

\* NumbersInv is an invariant.
LEMMA NumbersInvariant == Spec => [](TypeOK /\ NumbersInv)
<1>1. Init => NumbersInv
  <2> SUFFICES ASSUME Init PROVE NumbersInv
    OBVIOUS
  <2>1. disk = <<>> /\ DOMAIN <<>> = {} /\ Live = {} /\ mpc = "down" /\ mbuf = <<>>
    BY DEF Init, Live
  <2>2. Gapless(<<>>, refused)
    BY <2>1 DEF Gapless, IsRecent
  <2> QED BY <2>1, <2>2 DEF NumbersInv, Numbered, Rising, MasterCounts, WorkersCount, NoneAreFresh, Running
<1>2. IInv /\ IInv' /\ NumbersInv /\ [Next]_vars => NumbersInv'
  BY NumbersStep DEF IInv
<1>3. IInv => TypeOK
  BY DEF IInv
<1> QED BY <1>1, <1>2, <1>3, ClusterInvariant, PTL DEF Spec

\* Read end to end, the nonces of a process rise in each run, and in the last
\* one leave out none but those of logs that could not be expressed.
THEOREM ProcessesAreContiguous == Spec => []EachProcessIsContiguous
<1>1. TypeOK /\ NumbersInv => EachProcessIsContiguous
  <2> SUFFICES ASSUME TypeOK, NumbersInv PROVE EachProcessIsContiguous
    OBVIOUS
  <2>1. disk \in Seq(Seq(Record)) /\ disk \in Disks /\ Numbered(disk, refused) /\ Rising(disk)
    BY DEF TypeOK, NumbersInv, Numbered, Disks
  <2> DEFINE S == Stream
             Author(p) == IF S[p].event = "WORKER_LOG" THEN S[p].workerId ELSE NoWorker
             None(a, b) == \A r \in a .. b : S[r].event # "STARTING_UP"
             earlier(p) == {q \in 1 .. p - 1 : None(q + 1, p) /\ Author(q) = Author(p)}
  <2>2. S \in Seq(Record)
    BY <2>1, FlattenIsLocated DEF Stream
  <2>3. PICK loc : Located(disk, S, loc)
    BY <2>1, FlattenIsLocated DEF Stream
  <2> HIDE DEF S
  <2>4. \A p : Author(p) = AuthorOf(S[p])
    BY DEF AuthorOf
  <2>5. ASSUME NEW p \in DOMAIN S, NEW q \in earlier(p) PROVE S[q].nonce < S[p].nonce
    <3>1. S[q].nonce \in 0 .. S[p].nonce - 1
      BY <2>1, <2>2, <2>3, <2>4, NoncesRise
    <3>2. S[p].nonce \in Nat
      <4>1. S[p] \in Record
        BY <2>2, ElementOfSeq, LenProperties
      <4> QED BY <4>1 DEF Record
    <3> QED BY <3>1, <3>2
  <2>6. ASSUME NEW p \in DOMAIN S, None(p + 1, Len(S)), NEW n \in 0 .. S[p].nonce - 1
        PROVE  (\E q \in earlier(p) : S[q].nonce = n) \/ <<Author(p), n>> \in refused
    BY <2>1, <2>2, <2>3, <2>4, <2>6, NoncesFill
  <2> QED BY <2>5, <2>6 DEF EachProcessIsContiguous, S
<1> QED BY <1>1, NumbersInvariant, PTL


-----------------------------------------------------------------------------
(* 3. Time, as the stream tells it.                                         *)

\* A record of the life of a, before everything a writes.
Begins(r, a) == r.event = "STARTING_UP" \/ Spawns(r, a)

\* What a's records come after.
Concerns(r, a) == AuthorOf(r) = a \/ Begins(r, a)

\* A record that was made before another one that comes after it.
Precedes(r, s) == Concerns(r, AuthorOf(s)) \/ Kills(s, AuthorOf(r))

\* Between those two the clock has not gone backward.
Ordered(d) ==
  \A f \in DOMAIN d : \A i \in DOMAIN d[f] : \A g \in DOMAIN d : \A j \in DOMAIN d[g] :
    Before(f, i, g, j) /\ Precedes(d[f][i], d[g][j]) => d[f][i].timestamp <= d[g][j].timestamp

DatedBy(d, t) == \A f \in DOMAIN d : \A i \in DOMAIN d[f] : d[f][i].timestamp <= t

\* Who is spawned was not alive, and who exits was.
LivesOnce(d) ==
  \A f \in DOMAIN d : \A i \in DOMAIN d[f] :
    /\ d[f][i].event = "WORKER_SPAWNED" => d[f][i].workerId \in Workers \ AliveBefore(d, f, i)
    /\ d[f][i].event = "WORKER_EXITED" => d[f][i].workerId \in AliveBefore(d, f, i)

\* Records of a that wait to be written are younger than what they come after.
Waiting(d, batch, a, t) ==
  /\ \A k \in DOMAIN batch : batch[k].timestamp <= t
  /\ \A k, l \in DOMAIN batch : k < l => batch[k].timestamp <= batch[l].timestamp
  /\ \A k \in DOMAIN batch : \A g \in DOMAIN d : \A j \in DOMAIN d[g] :
       Concerns(d[g][j], a) => d[g][j].timestamp <= batch[k].timestamp

\* Beyond file f there is nothing of a, and nothing that ends it.
NothingAbout(d, f, a) ==
  \A g \in DOMAIN d : g > f =>
    \A i \in DOMAIN d[g] : AuthorOf(d[g][i]) # a /\ ~ Kills(d[g][i], a)

\* Quiet records, all of a's.
QuietOf(batch, a) == \A k \in DOMAIN batch : Quiet(batch[k]) /\ AuthorOf(batch[k]) = a

LEMMA TimesAreNumbers ==
  ASSUME NEW d \in Disks, NEW f \in DOMAIN d, NEW i \in DOMAIN d[f]
  PROVE  d[f][i] \in Record /\ d[f][i].timestamp \in Int
<1>1. d[f] \in Seq(Record)
  BY ElementOfSeq DEF Disks
<1>2. d[f][i] \in Record
  BY <1>1, ElementOfSeq
<1> QED BY <1>2, ClusterAssumption DEF Record

\* A flush of what has waited.
LEMMA QuietWriteKeepsTime ==
  ASSUME NEW d, NEW f, NEW batch, NEW e, Grown(d, f, batch, e), NEW a, NEW t \in Int,
         QuietOf(batch, a), Waiting(d, batch, a, t), NothingAbout(d, f, a),
         Ordered(d), DatedBy(d, t), LivesOnce(d)
  PROVE  /\ Ordered(e) /\ DatedBy(e, t) /\ LivesOnce(e)
         /\ \A x, other : x # a /\ Waiting(d, other, x, t) => Waiting(e, other, x, t)
<1>0. /\ f \in DOMAIN d /\ DOMAIN e = DOMAIN d /\ DOMAIN d = 1 .. Len(d) /\ Len(d) \in Nat
      /\ \A g \in DOMAIN d : DOMAIN d[g] = 1 .. Len(d[g]) /\ Len(d[g]) \in Nat
      /\ DOMAIN batch = 1 .. Len(batch) /\ Len(batch) \in Nat
  BY DEF Grown
<1>1. ASSUME NEW g \in DOMAIN e, NEW j \in DOMAIN e[g]
      PROVE  \/ j \in DOMAIN d[g] /\ e[g][j] = d[g][j]
             \/ g = f /\ \E k \in DOMAIN batch : j = Len(d[f]) + k /\ e[g][j] = batch[k]
  BY <1>0, GrownKeeps, GrownAdds
<1>2. ASSUME NEW r, NEW k \in DOMAIN batch
      PROVE  /\ Precedes(r, batch[k]) => Concerns(r, a)
             /\ Precedes(batch[k], r) => AuthorOf(r) = a \/ Kills(r, a)
             /\ \A x : Concerns(batch[k], x) => x = a
  BY DEF QuietOf, Quiet, Precedes, Concerns, Begins, Spawns, Kills
<1>3. Ordered(e)
  <2> SUFFICES ASSUME NEW g \in DOMAIN e, NEW i \in DOMAIN e[g],
                      NEW h \in DOMAIN e, NEW j \in DOMAIN e[h],
                      Before(g, i, h, j), Precedes(e[g][i], e[h][j])
               PROVE  e[g][i].timestamp <= e[h][j].timestamp
    BY DEF Ordered
  <2>1. CASE j \in DOMAIN d[h] /\ e[h][j] = d[h][j]
    <3>1. CASE i \in DOMAIN d[g] /\ e[g][i] = d[g][i]
      BY <1>0, <2>1, <3>1 DEF Ordered
    <3>2. CASE g = f /\ \E k \in DOMAIN batch : i = Len(d[f]) + k /\ e[g][i] = batch[k]
      <4>1. PICK k \in DOMAIN batch : i = Len(d[f]) + k /\ e[g][i] = batch[k]
        BY <3>2
      <4>2. h > f
        <5>1. j \in 1 .. Len(d[h]) /\ Len(d[h]) \in Nat /\ h \in Nat /\ f \in Nat /\ k \in Nat
          BY <1>0, <2>1
        <5>2. f < h \/ (f = h /\ i < j)
          BY <3>2 DEF Before
        <5> QED BY <4>1, <5>1, <5>2
      <4>3. AuthorOf(d[h][j]) # a /\ ~ Kills(d[h][j], a)
        BY <1>0, <2>1, <4>2 DEF NothingAbout
      <4> QED BY <1>2, <2>1, <4>1, <4>3
    <3> QED BY <1>1, <3>1, <3>2
  <2>2. CASE h = f /\ \E k \in DOMAIN batch : j = Len(d[f]) + k /\ e[h][j] = batch[k]
    <3>0. PICK l \in DOMAIN batch : j = Len(d[f]) + l /\ e[h][j] = batch[l]
      BY <2>2
    <3>1. CASE i \in DOMAIN d[g] /\ e[g][i] = d[g][i]
      BY <1>0, <1>2, <3>0, <3>1 DEF Waiting
    <3>2. CASE g = f /\ \E k \in DOMAIN batch : i = Len(d[f]) + k /\ e[g][i] = batch[k]
      <4>1. PICK k \in DOMAIN batch : i = Len(d[f]) + k /\ e[g][i] = batch[k]
        BY <3>2
      <4>2. k < l
        <5>1. k \in Nat /\ l \in Nat /\ Len(d[f]) \in Nat /\ f \in Nat
          BY <1>0
        <5>2. i < j
          BY <2>2, <3>2, <5>1 DEF Before
        <5> QED BY <3>0, <4>1, <5>1, <5>2
      <4> QED BY <3>0, <4>1, <4>2 DEF Waiting
    <3> QED BY <1>1, <3>1, <3>2
  <2> QED BY <1>1, <2>1, <2>2
<1>4. DatedBy(e, t)
  BY <1>0, <1>1 DEF DatedBy, Waiting
<1>5. LivesOnce(e)
  <2> SUFFICES ASSUME NEW g \in DOMAIN e, NEW i \in DOMAIN e[g]
               PROVE  /\ e[g][i].event = "WORKER_SPAWNED" =>
                           e[g][i].workerId \in Workers \ AliveBefore(e, g, i)
                      /\ e[g][i].event = "WORKER_EXITED" => e[g][i].workerId \in AliveBefore(e, g, i)
    BY DEF LivesOnce
  <2>1. CASE i \in DOMAIN d[g] /\ e[g][i] = d[g][i]
    <3>1. AliveBefore(e, g, i) = AliveBefore(d, g, i)
      BY QuietWriteKeepsLives DEF QuietOf
    <3> QED BY <1>0, <2>1, <3>1 DEF LivesOnce
  <2>2. CASE \E k \in DOMAIN batch : e[g][i] = batch[k]
    BY <2>2 DEF QuietOf, Quiet
  <2> QED BY <1>1, <2>1, <2>2
<1>6. ASSUME NEW x, NEW other, x # a, Waiting(d, other, x, t) PROVE Waiting(e, other, x, t)
  <2> SUFFICES ASSUME NEW k \in DOMAIN other, NEW g \in DOMAIN e, NEW j \in DOMAIN e[g],
                      Concerns(e[g][j], x)
               PROVE  e[g][j].timestamp <= other[k].timestamp
    BY <1>6 DEF Waiting
  <2>1. j \in DOMAIN d[g] /\ e[g][j] = d[g][j]
    BY <1>1, <1>2, <1>6
  <2> QED BY <1>0, <1>6, <2>1 DEF Waiting
<1> QED BY <1>3, <1>4, <1>5, <1>6

\* What comes before the end of a file is there already.
LEMMA AliveAtNewEnd ==
  ASSUME NEW d, NEW f, NEW batch, NEW e, Grown(d, f, batch, e)
  PROVE  AliveBefore(e, f, Len(d[f]) + 1) = AliveBefore(d, f, Len(d[f]) + 1)
<1> DEFINE i == Len(d[f]) + 1
<1>0. /\ f \in DOMAIN d /\ DOMAIN e = DOMAIN d /\ DOMAIN d = 1 .. Len(d) /\ Len(d) \in Nat
      /\ \A g \in DOMAIN d : DOMAIN d[g] = 1 .. Len(d[g]) /\ Len(d[g]) \in Nat
      /\ DOMAIN batch = 1 .. Len(batch) /\ Len(batch) \in Nat
  BY DEF Grown
<1>1. ASSUME NEW g \in DOMAIN e, NEW j \in DOMAIN e[g], Before(g, j, f, i)
      PROVE  g \in DOMAIN d /\ j \in DOMAIN d[g] /\ e[g][j] = d[g][j]
  <2>1. CASE j \in DOMAIN d[g]
    BY <1>0, <2>1, GrownKeeps
  <2>2. CASE ~ (j \in DOMAIN d[g])
    <3>1. PICK k \in DOMAIN batch : g = f /\ j = Len(d[f]) + k
      BY <2>2, GrownAdds
    <3>2. k \in Nat /\ k >= 1 /\ Len(d[f]) \in Nat /\ f \in Nat /\ j < i
      BY <1>0, <1>1, <3>1 DEF Before
    <3> QED BY <3>1, <3>2
  <2> QED BY <2>1, <2>2
<1>2. ASSUME NEW g \in DOMAIN d, NEW j \in DOMAIN d[g]
      PROVE  g \in DOMAIN e /\ j \in DOMAIN e[g] /\ e[g][j] = d[g][j]
  BY <1>2, GrownKeeps
<1> HIDE DEF i
<1>3. ASSUME NEW g, NEW j, NEW w
      PROVE  LivesFrom(e, g, j, w, f, i) <=> LivesFrom(d, g, j, w, f, i)
  BY <1>1, <1>2 DEF LivesFrom
<1> QED BY <1>3 DEF AliveBefore, i

\* One record more at the very end, as young as the clock.
LEMMA LastWriteKeepsTime ==
  ASSUME NEW d, NEW r, NEW e, Grown(d, Len(d), <<r>>, e), NEW t \in Int, r.timestamp = t,
         Ordered(d), DatedBy(d, t), LivesOnce(d),
         r.event = "WORKER_SPAWNED" => r.workerId \in Workers \ AliveLast(d),
         r.event = "WORKER_EXITED" => r.workerId \in AliveLast(d)
  PROVE  /\ Ordered(e) /\ DatedBy(e, t) /\ LivesOnce(e)
         /\ \A x, other : ~ Concerns(r, x) /\ Waiting(d, other, x, t) => Waiting(e, other, x, t)
<1> DEFINE f == Len(d)
<1>0. /\ d \in Disks /\ f \in DOMAIN d /\ DOMAIN e = DOMAIN d /\ DOMAIN d = 1 .. Len(d) /\ Len(d) \in Nat
      /\ \A g \in DOMAIN d : DOMAIN d[g] = 1 .. Len(d[g]) /\ Len(d[g]) \in Nat
      /\ DOMAIN <<r>> = {1} /\ <<r>>[1] = r
  BY DEF Grown
<1>1. ASSUME NEW g \in DOMAIN e, NEW j \in DOMAIN e[g]
      PROVE  \/ j \in DOMAIN d[g] /\ e[g][j] = d[g][j]
             \/ g = f /\ j = Len(d[f]) + 1 /\ e[g][j] = r
  BY <1>0, GrownKeeps, GrownAdds
<1>2. DatedBy(e, t)
  BY <1>0, <1>1 DEF DatedBy
<1>3. Ordered(e)
  <2> SUFFICES ASSUME NEW g \in DOMAIN e, NEW i \in DOMAIN e[g],
                      NEW h \in DOMAIN e, NEW j \in DOMAIN e[h],
                      Before(g, i, h, j), Precedes(e[g][i], e[h][j])
               PROVE  e[g][i].timestamp <= e[h][j].timestamp
    BY DEF Ordered
  <2>1. CASE h = f /\ j = Len(d[f]) + 1 /\ e[h][j] = r
    BY <1>2, <2>1 DEF DatedBy
  <2>2. CASE j \in DOMAIN d[h] /\ e[h][j] = d[h][j]
    <3>1. CASE i \in DOMAIN d[g] /\ e[g][i] = d[g][i]
      BY <1>0, <2>2, <3>1 DEF Ordered
    <3>2. CASE g = f /\ i = Len(d[f]) + 1
      <4>1. h \in 1 .. f /\ f \in Nat /\ j \in 1 .. Len(d[h]) /\ Len(d[h]) \in Nat
        BY <1>0, <2>2
      <4>2. f < h \/ (f = h /\ Len(d[f]) + 1 < j)
        BY <3>2 DEF Before
      <4> QED BY <4>1, <4>2
    <3> QED BY <1>1, <3>1, <3>2
  <2> QED BY <1>1, <2>1, <2>2
<1>4. LivesOnce(e)
  <2> SUFFICES ASSUME NEW g \in DOMAIN e, NEW i \in DOMAIN e[g]
               PROVE  /\ e[g][i].event = "WORKER_SPAWNED" =>
                           e[g][i].workerId \in Workers \ AliveBefore(e, g, i)
                      /\ e[g][i].event = "WORKER_EXITED" => e[g][i].workerId \in AliveBefore(e, g, i)
    BY DEF LivesOnce
  <2>1. CASE i \in DOMAIN d[g] /\ e[g][i] = d[g][i]
    <3>1. AliveBefore(e, g, i) = AliveBefore(d, g, i)
      BY <1>0, <2>1, LastWriteKeepsLives
    <3> QED BY <1>0, <2>1, <3>1 DEF LivesOnce
  <2>2. CASE g = f /\ i = Len(d[f]) + 1 /\ e[g][i] = r
    <3>1. AliveBefore(e, f, i) = AliveBefore(d, f, i)
      BY <2>2, AliveAtNewEnd
    <3>2. f # 0 /\ i \in Nat /\ i > Len(d[f])
      BY <1>0, <2>2
    <3>3. AliveBefore(d, f, i) = AliveLast(d)
      BY <1>0, <3>2, EndsAreOne
    <3> QED BY <2>2, <3>1, <3>3
  <2> QED BY <1>1, <2>1, <2>2
<1>5. ASSUME NEW x, NEW other, ~ Concerns(r, x), Waiting(d, other, x, t) PROVE Waiting(e, other, x, t)
  <2> SUFFICES ASSUME NEW k \in DOMAIN other, NEW g \in DOMAIN e, NEW j \in DOMAIN e[g],
                      Concerns(e[g][j], x)
               PROVE  e[g][j].timestamp <= other[k].timestamp
    BY <1>5 DEF Waiting
  <2>1. j \in DOMAIN d[g] /\ e[g][j] = d[g][j]
    BY <1>1, <1>5
  <2> QED BY <1>0, <1>5, <2>1 DEF Waiting
<1> QED BY <1>2, <1>3, <1>4, <1>5

LEMMA NewFileKeepsTime ==
  ASSUME NEW d \in Disks, NEW t, Ordered(d), DatedBy(d, t), LivesOnce(d)
  PROVE  LET e == Append(d, <<>>) IN
           /\ Ordered(e) /\ DatedBy(e, t) /\ LivesOnce(e)
           /\ \A x, other : Waiting(d, other, x, t) => Waiting(e, other, x, t)
<1> DEFINE e == Append(d, <<>>)
<1>1. /\ e \in Disks /\ DOMAIN e = 1 .. Len(d) + 1 /\ e[Len(d) + 1] = <<>>
      /\ \A g \in DOMAIN d : e[g] = d[g]
      /\ Len(d) \in Nat /\ DOMAIN d = 1 .. Len(d) /\ DOMAIN <<>> = {}
  BY NewFileProperties, LenProperties DEF Disks
<1>2. \A g, j : AliveBefore(e, g, j) = AliveBefore(d, g, j)
  BY NewFileKeepsLives
<1> HIDE DEF e
<1>3. ASSUME NEW g \in DOMAIN e, NEW j \in DOMAIN e[g]
      PROVE  g \in DOMAIN d /\ j \in DOMAIN d[g] /\ e[g][j] = d[g][j]
  <2>1. g # Len(d) + 1
    BY <1>1, <1>3
  <2> QED BY <1>1, <1>3, <2>1
<1>4. Ordered(e) /\ DatedBy(e, t)
  BY <1>3 DEF Ordered, DatedBy
<1>5. LivesOnce(e)
  BY <1>2, <1>3 DEF LivesOnce
<1>6. ASSUME NEW x, NEW other, Waiting(d, other, x, t) PROVE Waiting(e, other, x, t)
  BY <1>3, <1>6 DEF Waiting
<1> QED BY <1>4, <1>5, <1>6 DEF e

LEMMA NothingWaits ==
  ASSUME NEW d, NEW a, NEW t
  PROVE  Waiting(d, <<>>, a, t)
<1>1. DOMAIN <<>> = {}
  OBVIOUS
<1> QED BY <1>1 DEF Waiting

\* What has waited, waits on, and the newest record with it.
LEMMA WaitingGrows ==
  ASSUME NEW d \in Disks, NEW batch \in Seq(Record), NEW r \in Record, NEW a, NEW t \in Int,
         Waiting(d, batch, a, t), DatedBy(d, t), r.timestamp = t
  PROVE  Waiting(d, Append(batch, r), a, t)
<1> DEFINE b == Append(batch, r)
<1>1. /\ DOMAIN batch = 1 .. Len(batch) /\ Len(batch) \in Nat
      /\ DOMAIN b = 1 .. Len(batch) + 1
      /\ \A k \in DOMAIN batch : b[k] = batch[k]
      /\ b[Len(batch) + 1] = r
  BY AppendProperties, LenProperties
<1> HIDE DEF b
<1>2. ASSUME NEW k \in DOMAIN b PROVE (k \in DOMAIN batch /\ b[k] = batch[k]) \/ (k = Len(batch) + 1 /\ b[k] = r)
  BY <1>1, <1>2
<1>3. ASSUME NEW k \in DOMAIN b PROVE b[k].timestamp <= t
  BY <1>2, <1>3 DEF Waiting
<1>4. ASSUME NEW k \in DOMAIN b, NEW l \in DOMAIN b, k < l PROVE b[k].timestamp <= b[l].timestamp
  <2>1. CASE l = Len(batch) + 1 /\ b[l] = r
    BY <1>3, <2>1
  <2>2. CASE l \in DOMAIN batch /\ b[l] = batch[l]
    <3>1. k \in DOMAIN batch
      BY <1>1, <1>4, <2>2
    <3> QED BY <1>1, <1>4, <2>2, <3>1 DEF Waiting
  <2> QED BY <1>2, <2>1, <2>2
<1>5. ASSUME NEW k \in DOMAIN b, NEW g \in DOMAIN d, NEW j \in DOMAIN d[g], Concerns(d[g][j], a)
      PROVE  d[g][j].timestamp <= b[k].timestamp
  BY <1>2, <1>5 DEF Waiting, DatedBy
<1> QED BY <1>3, <1>4, <1>5 DEF Waiting, b

\* The clock goes on.
LEMMA WaitingLasts ==
  ASSUME NEW d \in Disks, NEW batch \in Seq(Record), NEW a, NEW t \in Int, Waiting(d, batch, a, t)
  PROVE  Waiting(d, batch, a, t + 1)
<1>1. ASSUME NEW k \in DOMAIN batch PROVE batch[k].timestamp \in Int
  <2>1. batch[k] \in Record
    BY <1>1, ElementOfSeq
  <2> QED BY <2>1, ClusterAssumption DEF Record
<1> QED BY <1>1 DEF Waiting

-----------------------------------------------------------------------------
\* The set the master keeps is that of the workers it has not seen exit.
WorkersKnown ==
  /\ mpc # "down" => workerIds = {w \in Workers : wst[w] \in {"live", "exited"}}
  /\ mpc = "opened" => workerIds = {}

\* Time in the files and in the buffers, as long as no lifecycle write has thrown.
TimesInv ==
  /\ LivesOnce(disk) /\ Ordered(disk) /\ DatedBy(disk, clock)
  /\ WorkersKnown
  /\ Waiting(disk, mbuf, NoWorker, clock)
  /\ \A w \in Live : Waiting(disk, wbuf[w], w, clock)

\* What a write leaves in order.
InTimeOrder(e) ==
  LivesOnce(e) /\ Ordered(e) /\ DatedBy(e, clock)

LEMMA MasterFlushKeepsTime ==
  ASSUME TypeOK, MasterOnLast, LivesInv, TimesInv, mpc # "down"
  PROVE  LET e == WriteTo(disk, mfile, mbuf) IN
           /\ InTimeOrder(e)
           /\ \A x, other : x # NoWorker /\ Waiting(disk, other, x, clock) => Waiting(e, other, x, clock)
<1> DEFINE e == WriteTo(disk, mfile, mbuf)
<1>1. /\ disk \in Disks /\ mbuf \in Seq(Record) /\ mfile \in DOMAIN disk /\ mfile = Len(disk)
      /\ clock \in Int
  BY MasterFileOpen DEF TypeOK, Disks
<1>2. Grown(disk, mfile, mbuf, e)
  BY <1>1, WriteGrows
<1> HIDE DEF e
<1>3. QuietOf(mbuf, NoWorker)
  <2>1. DOMAIN <<>> = {}
    OBVIOUS
  <2> QED BY <2>1 DEF QuietOf, LivesInv, MasterKnows, Quiet, AuthorOf
<1>4. NothingAbout(disk, mfile, NoWorker)
  <2>1. DOMAIN disk = 1 .. Len(disk) /\ Len(disk) \in Nat
    BY <1>1, LenProperties DEF Disks
  <2> QED BY <1>1, <2>1 DEF NothingAbout
<1> QED BY <1>1, <1>2, <1>3, <1>4, QuietWriteKeepsTime DEF TimesInv, InTimeOrder, e

\* What comes after a worker's file does not concern it.
LEMMA FilesBeyondAreOthers ==
  ASSUME FilesAwait, NEW w \in Live
  PROVE  NothingAbout(disk, wfile[w], w)
<1>1. w # NoWorker
  BY ClusterAssumption DEF Live
<1> QED BY <1>1 DEF FilesAwait, NothingAbout, AllFit, Fits, AuthorOf, Kills

LEMMA WorkerFlushKeepsTime ==
  ASSUME TypeOK, Shape, FilesAwait, TimesInv, NEW w \in Live
  PROVE  LET e == WriteTo(disk, wfile[w], wbuf[w]) IN
           /\ InTimeOrder(e)
           /\ \A x, other : x # w /\ Waiting(disk, other, x, clock) => Waiting(e, other, x, clock)
<1> DEFINE e == WriteTo(disk, wfile[w], wbuf[w])
<1>1. /\ disk \in Disks /\ wbuf[w] \in Seq(Record) /\ wfile[w] \in DOMAIN disk /\ clock \in Int
  BY DEF TypeOK, Disks, Shape, LiveHaveAFile, Live
<1>2. Grown(disk, wfile[w], wbuf[w], e)
  BY <1>1, WriteGrows
<1> HIDE DEF e
<1>3. QuietOf(wbuf[w], w)
  BY DEF QuietOf, Shape, OwnRecords, Quiet, AuthorOf
<1>4. NothingAbout(disk, wfile[w], w)
  BY FilesBeyondAreOthers
<1> QED BY <1>1, <1>2, <1>3, <1>4, QuietWriteKeepsTime DEF TimesInv, InTimeOrder, e

\* super.log(record).flush(): what has waited, and then the record of now.
LEMMA MasterRecordKeepsTime ==
  ASSUME TypeOK, MasterOnLast, LivesInv, TimesInv, mpc # "down", NEW r \in Record, LogAndFlush(r),
         r.timestamp = clock,
         r.event = "WORKER_SPAWNED" => r.workerId \in Workers \ AliveLast(disk),
         r.event = "WORKER_EXITED" => r.workerId \in AliveLast(disk)
  PROVE  /\ InTimeOrder(disk')
         /\ \A x, other : x # NoWorker /\ ~ Concerns(r, x) /\ Waiting(disk, other, x, clock)
              => Waiting(disk', other, x, clock)
         /\ mbuf' = <<>>
<1> DEFINE e == WriteTo(disk, mfile, mbuf)
<1>1. /\ disk \in Disks /\ mbuf \in Seq(Record) /\ mfile \in DOMAIN disk /\ clock \in Int
  BY MasterFileOpen DEF TypeOK, Disks
<1>2. disk' = WriteTo(e, mfile, <<r>>) /\ mbuf' = <<>> /\ <<r>> \in Seq(Record)
  BY <1>1, WriteSplit DEF LogAndFlush
<1>3. SameLives(disk, e) /\ e \in Disks /\ mfile = Len(e) /\ mfile \in DOMAIN e
  BY MasterFlushAgrees
<1>3a. Len(e) = Len(disk)
  BY MasterFlushAgrees
<1>4. /\ InTimeOrder(e)
      /\ \A x, other : x # NoWorker /\ Waiting(disk, other, x, clock) => Waiting(e, other, x, clock)
  BY MasterFlushKeepsTime
<1> HIDE DEF e
<1>5. Grown(e, Len(e), <<r>>, disk')
  BY <1>2, <1>3, WriteGrows
<1>6. AliveLast(e) = AliveLast(disk)
  BY <1>3 DEF SameLives
<1>7. /\ Ordered(disk') /\ DatedBy(disk', clock) /\ LivesOnce(disk')
      /\ \A x, other : ~ Concerns(r, x) /\ Waiting(e, other, x, clock) => Waiting(disk', other, x, clock)
  BY <1>1, <1>4, <1>5, <1>6, LastWriteKeepsTime DEF InTimeOrder
<1> QED BY <1>2, <1>4, <1>7 DEF InTimeOrder

\* The master's set follows the workers.
LEMMA KnownStep ==
  ASSUME TypeOK, NobodyBefore, WorkersKnown, [Next]_vars, throws = 0, throws' = 0
  PROVE  WorkersKnown'
<1> DEFINE Unseen(st) == {w \in Workers : st[w] \in {"live", "exited"}}
<1>1. CASE StartMaster
  BY <1>1 DEF StartMaster, WorkersKnown
<1>2. CASE STARTING_UP
  BY <1>2 DEF STARTING_UP, WorkersKnown
<1>3. ASSUME NEW w \in Workers, WORKER_SPAWNED(w) PROVE WorkersKnown'
  BY <1>3 DEF WORKER_SPAWNED, Forked, WorkersKnown, TypeOK
<1>4. ASSUME NEW w \in Workers, WORKER_EXITED(w) PROVE WorkersKnown'
  BY <1>4 DEF WORKER_EXITED, WorkersKnown, TypeOK
<1>5. ASSUME NEW w \in Workers, WorkerSpawnedThrows(w) \/ WorkerExitedThrows(w) PROVE FALSE
  BY <1>5 DEF WorkerSpawnedThrows, WorkerExitedThrows, LogAndFlushThrows
<1>6. CASE MasterLog \/ MasterLogThrows \/ MasterFlush \/ Rotate \/ RotatePing
  BY <1>6 DEF MasterLog, MasterLogThrows, MasterFlush, Rotate, RotatePing, workers, WorkersKnown
<1>7. CASE StopMaster
  BY <1>7 DEF StopMaster, WorkersKnown
<1>8. ASSUME NEW w \in Workers,
             WorkerLog(w) \/ WorkerLogThrows(w) \/ WorkerFlush(w) \/ WorkerRotate(w)
      PROVE  WorkersKnown'
  BY <1>8 DEF WorkerLog, WorkerLogThrows, WorkerFlush, WorkerRotate, master, WorkersKnown
<1>9. ASSUME NEW w \in Workers, WorkerExit(w) PROVE WorkersKnown'
  <2>1. wst[w] = "live" /\ wst' = [wst EXCEPT ![w] = "exited"] /\ UNCHANGED <<mpc, workerIds>>
    BY <1>9 DEF WorkerExit, master
  <2>2. Unseen(wst') = Unseen(wst)
    BY <2>1 DEF TypeOK
  <2> QED BY <2>1, <2>2 DEF WorkersKnown
<1>10. CASE Tick \/ UNCHANGED vars
  BY <1>10 DEF Tick, vars, master, workers, WorkersKnown
<1> QED
  BY <1>1, <1>2, <1>3, <1>4, <1>5, <1>6, <1>7, <1>8, <1>9, <1>10 DEF Next, MasterNext, WorkerNext

LEMMA TimesStep ==
  ASSUME TypeOK, Shape, Accounted, LivesInv, TimesInv, [Next]_vars, throws = 0, throws' = 0
  PROVE  TimesInv'
<1> USE DEF Shape
<1>0. /\ disk \in Disks /\ clock \in Int /\ mbuf \in Seq(Record)
      /\ \A w \in Workers : wbuf[w] \in Seq(Record) /\ w # NoWorker
      /\ Live \subseteq Workers
  BY ClusterAssumption DEF TypeOK, Disks, Live
<1>k. WorkersKnown'
  BY KnownStep DEF TimesInv
<1>o. \A e : InTimeOrder(e) <=> LivesOnce(e) /\ Ordered(e) /\ DatedBy(e, clock)
  BY DEF InTimeOrder
<1>i. InTimeOrder(disk)
  BY DEF InTimeOrder, TimesInv
\* It is enough to look at the files and the buffers.
<1>s. ASSUME clock' = clock, InTimeOrder(disk'), Waiting(disk', mbuf', NoWorker, clock),
             \A w \in Live' : Waiting(disk', wbuf'[w], w, clock)
      PROVE  TimesInv'
  BY <1>k, <1>s DEF TimesInv, InTimeOrder
<1>1. CASE StartMaster
  <2>1. Live' = {} /\ mbuf' = <<>> /\ clock' = clock
    BY <1>1 DEF StartMaster, Live
  <2>2. InTimeOrder(disk')
    <3>1. disk' = disk \/ disk' = Append(disk, <<>>)
      BY <1>1 DEF StartMaster
    <3> QED BY <1>0, <1>i, <3>1, NewFileKeepsTime DEF InTimeOrder
  <2>3. Waiting(disk', mbuf', NoWorker, clock)
    BY <2>1, NothingWaits
  <2> QED BY <1>s, <2>1, <2>2, <2>3
<1>2. CASE STARTING_UP
  <2> DEFINE r == MasterRecord("STARTING_UP", NoWorker, {})
  <2>1. r \in Record /\ r.event = "STARTING_UP" /\ r.timestamp = clock
    BY RecordTypes DEF Events, MasterRecord
  <2> HIDE DEF r
  <2>2. mpc = "opened" /\ LogAndFlush(r) /\ wst' = wst /\ clock' = clock
    BY <1>2 DEF STARTING_UP, r
  <2>3. InTimeOrder(disk') /\ mbuf' = <<>>
    BY <2>1, <2>2, MasterRecordKeepsTime
  <2>4. Live' = {}
    BY <2>2 DEF NobodyBefore, Live
  <2>5. Waiting(disk', mbuf', NoWorker, clock)
    BY <2>3, NothingWaits
  <2> QED BY <1>s, <2>2, <2>3, <2>4, <2>5
<1>3. ASSUME NEW w \in Workers, WORKER_SPAWNED(w) PROVE TimesInv'
  <2> DEFINE r == MasterRecord("WORKER_SPAWNED", w, {})
  <2>1. r \in Record /\ r.event = "WORKER_SPAWNED" /\ r.workerId = w /\ r.timestamp = clock
    BY RecordTypes DEF Events, MasterRecord
  <2> HIDE DEF r
  <2>2. mpc = "up" /\ wst[w] = "none" /\ LogAndFlush(r) /\ Forked(w) /\ clock' = clock
    BY <1>3 DEF WORKER_SPAWNED, r
  <2>3. w \notin AliveLast(disk)
    <3>1. w \notin workerIds
      BY <2>2 DEF TimesInv, WorkersKnown
    <3> QED BY <2>2, <3>1 DEF LivesInv, MasterKnows, Running
  <2>4. /\ InTimeOrder(disk') /\ mbuf' = <<>>
        /\ \A x, other : x # NoWorker /\ ~ Concerns(r, x) /\ Waiting(disk, other, x, clock)
              => Waiting(disk', other, x, clock)
    BY <2>1, <2>2, <2>3, MasterRecordKeepsTime
  <2>5. /\ Live' = Live \cup {w} /\ wbuf'[w] = <<>>
        /\ \A v \in Workers \ {w} : wbuf'[v] = wbuf[v]
    BY <2>2, ForkTypes
  <2>6. ASSUME NEW v \in Live' PROVE Waiting(disk', wbuf'[v], v, clock)
    <3>1. CASE v = w
      BY <2>5, <3>1, NothingWaits
    <3>2. CASE v # w
      <4>1. v \in Live /\ v \in Workers /\ wbuf'[v] = wbuf[v] /\ v # NoWorker
        BY <1>0, <2>5, <3>2
      <4>2. ~ Concerns(r, v)
        BY <2>1, <3>2, <4>1 DEF Concerns, Begins, Spawns, AuthorOf
      <4> QED BY <2>4, <4>1, <4>2 DEF TimesInv
    <3> QED BY <3>1, <3>2
  <2>7. Waiting(disk', mbuf', NoWorker, clock)
    BY <2>4, NothingWaits
  <2> QED BY <1>s, <2>2, <2>4, <2>6, <2>7
<1>4. ASSUME NEW w \in Workers, WORKER_EXITED(w) PROVE TimesInv'
  <2> DEFINE r == MasterRecord("WORKER_EXITED", w, {})
  <2>1. r \in Record /\ r.event = "WORKER_EXITED" /\ r.workerId = w /\ r.timestamp = clock
    BY RecordTypes DEF Events, MasterRecord
  <2> HIDE DEF r
  <2>2. /\ mpc = "up" /\ wst[w] = "exited" /\ LogAndFlush(r) /\ clock' = clock
        /\ wst' = [wst EXCEPT ![w] = "reaped"] /\ wbuf' = wbuf
    BY <1>4 DEF WORKER_EXITED, r
  <2>3. w \in AliveLast(disk)
    <3>1. w \in workerIds
      BY <2>2 DEF TimesInv, WorkersKnown
    <3> QED BY <2>2, <3>1 DEF LivesInv, MasterKnows, Running
  <2>4. /\ InTimeOrder(disk') /\ mbuf' = <<>>
        /\ \A x, other : x # NoWorker /\ ~ Concerns(r, x) /\ Waiting(disk, other, x, clock)
              => Waiting(disk', other, x, clock)
    BY <2>1, <2>2, <2>3, MasterRecordKeepsTime
  <2>5. Live' = Live
    BY <2>2 DEF Live, TypeOK
  <2>6. ASSUME NEW v \in Live' PROVE Waiting(disk', wbuf'[v], v, clock)
    <3>1. ~ Concerns(r, v) /\ v # NoWorker /\ v \in Live
      BY <1>0, <2>1, <2>5 DEF Concerns, Begins, Spawns, AuthorOf
    <3> QED BY <2>2, <2>4, <3>1 DEF TimesInv
  <2>7. Waiting(disk', mbuf', NoWorker, clock)
    BY <2>4, NothingWaits
  <2> QED BY <1>s, <2>2, <2>4, <2>6, <2>7
<1>5. ASSUME NEW w \in Workers, WorkerSpawnedThrows(w) \/ WorkerExitedThrows(w) PROVE FALSE
  BY <1>5 DEF WorkerSpawnedThrows, WorkerExitedThrows, LogAndFlushThrows
<1>6. CASE MasterLog
  <2>1. PICK r \in {MasterRecord("MASTER_LOG", NoWorker, {}),
                   MasterRecord("MASTER_PING", NoWorker, workerIds)} :
          mbuf' = Append(mbuf, r)
    BY <1>6 DEF MasterLog
  <2>2. UNCHANGED <<clock, disk, wst, wbuf>>
    BY <1>6 DEF MasterLog, workers
  <2>3. r \in Record /\ r.timestamp = clock
    <3>1. r \in Record
      BY <2>1, RecordTypes DEF Events
    <3>2. r.timestamp = clock
      BY <2>1 DEF MasterRecord
    <3> QED BY <3>1, <3>2
  <2>4. Waiting(disk, Append(mbuf, r), NoWorker, clock)
    BY <1>0, <2>3, WaitingGrows DEF TimesInv
  <2> QED BY <1>s, <1>i, <2>1, <2>2, <2>4 DEF TimesInv, Live
<1>7. CASE MasterFlush
  <2>1. /\ mpc = "up" /\ disk' = WriteTo(disk, mfile, mbuf) /\ mbuf' = <<>>
        /\ UNCHANGED <<clock, wst, wbuf>>
    BY <1>7 DEF MasterFlush, workers
  <2>2. /\ InTimeOrder(disk')
        /\ \A x, other : x # NoWorker /\ Waiting(disk, other, x, clock) => Waiting(disk', other, x, clock)
    BY <2>1, MasterFlushKeepsTime
  <2>3. Waiting(disk', mbuf', NoWorker, clock)
    BY <2>1, NothingWaits
  <2>4. \A w \in Live' : Waiting(disk', wbuf'[w], w, clock)
    BY <1>0, <2>1, <2>2 DEF Live, TimesInv
  <2> QED BY <1>s, <2>1, <2>2, <2>3, <2>4
<1>8. CASE Rotate
  <2> DEFINE e == WriteTo(disk, mfile, mbuf)
  <2>1. /\ mpc = "up" /\ disk' = Append(e, <<>>) /\ mbuf' = <<>>
        /\ UNCHANGED <<clock, wst, wbuf>>
    BY <1>8 DEF Rotate, workers
  <2>2. /\ InTimeOrder(e) /\ e \in Disks
        /\ \A x, other : x # NoWorker /\ Waiting(disk, other, x, clock) => Waiting(e, other, x, clock)
    BY <2>1, MasterFlushKeepsTime, MasterFlushAgrees
  <2> HIDE DEF e
  <2>3. /\ InTimeOrder(disk')
        /\ \A x, other : Waiting(e, other, x, clock) => Waiting(disk', other, x, clock)
    BY <2>1, <2>2, NewFileKeepsTime DEF InTimeOrder
  <2>4. Waiting(disk', mbuf', NoWorker, clock)
    BY <2>1, NothingWaits
  <2>5. \A w \in Live' : Waiting(disk', wbuf'[w], w, clock)
    BY <1>0, <2>1, <2>2, <2>3 DEF Live, TimesInv
  <2> QED BY <1>s, <2>1, <2>3, <2>4, <2>5
<1>9. CASE RotatePing
  <2> DEFINE r == MasterRecord("MASTER_PING", NoWorker, workerIds)
  <2>1. r \in Record /\ r.event = "MASTER_PING" /\ r.timestamp = clock
    BY RecordTypes DEF Events, MasterRecord
  <2> HIDE DEF r
  <2>2. mpc = "rotated" /\ LogAndFlush(r) /\ UNCHANGED <<clock, wst, wbuf>>
    BY <1>9 DEF RotatePing, r
  <2>3. /\ InTimeOrder(disk') /\ mbuf' = <<>>
        /\ \A x, other : x # NoWorker /\ ~ Concerns(r, x) /\ Waiting(disk, other, x, clock)
              => Waiting(disk', other, x, clock)
    BY <2>1, <2>2, MasterRecordKeepsTime
  <2>4. ASSUME NEW v \in Live' PROVE Waiting(disk', wbuf'[v], v, clock)
    <3>1. v \in Live /\ v # NoWorker
      BY <1>0, <2>2 DEF Live
    <3>2. ~ Concerns(r, v)
      BY <2>1, <3>1 DEF Concerns, Begins, Spawns, AuthorOf
    <3> QED BY <2>2, <2>3, <3>1, <3>2 DEF TimesInv
  <2>5. Waiting(disk', mbuf', NoWorker, clock)
    BY <2>3, NothingWaits
  <2> QED BY <1>s, <2>2, <2>3, <2>4, <2>5
<1>10. CASE StopMaster
  <2>1. /\ mpc # "down" /\ mbuf' = <<>> /\ UNCHANGED <<clock, wst, wbuf>>
        /\ (disk' = disk) \/ (disk' = WriteTo(disk, mfile, mbuf))
    BY <1>10 DEF StopMaster, MasterUp, workers
  <2>2. /\ InTimeOrder(disk')
        /\ \A x, other : x # NoWorker /\ Waiting(disk, other, x, clock) => Waiting(disk', other, x, clock)
    <3>1. CASE disk' = disk
      BY <1>i, <3>1
    <3>2. CASE disk' = WriteTo(disk, mfile, mbuf)
      BY <2>1, <3>2, MasterFlushKeepsTime
    <3> QED BY <2>1, <3>1, <3>2
  <2>3. Waiting(disk', mbuf', NoWorker, clock)
    BY <2>1, NothingWaits
  <2>4. \A w \in Live' : Waiting(disk', wbuf'[w], w, clock)
    BY <1>0, <2>1, <2>2 DEF Live, TimesInv
  <2> QED BY <1>s, <2>1, <2>2, <2>3, <2>4
<1>11. ASSUME NEW w \in Workers, WorkerLog(w) PROVE TimesInv'
  <2> DEFINE r == WorkerRecord(w)
  <2>1. UNCHANGED <<clock, disk, mbuf, wst>> /\ wbuf' = [wbuf EXCEPT ![w] = Append(@, r)] /\ w \in Live
    BY <1>11 DEF WorkerLog, master, Live
  <2>2. r \in Record /\ r.timestamp = clock
    BY RecordTypes DEF WorkerRecord
  <2> HIDE DEF r
  <2>3. Waiting(disk, Append(wbuf[w], r), w, clock)
    BY <1>0, <2>1, <2>2, WaitingGrows DEF TimesInv
  <2>4. ASSUME NEW v \in Live' PROVE Waiting(disk', wbuf'[v], v, clock)
    <3>1. v \in Live /\ wbuf'[v] = IF v = w THEN Append(wbuf[w], r) ELSE wbuf[v]
      BY <2>1 DEF Live, TypeOK
    <3> QED BY <2>1, <2>3, <3>1 DEF TimesInv
  <2> QED BY <1>s, <1>i, <2>1, <2>4 DEF TimesInv
<1>12. ASSUME NEW w \in Workers, WorkerFlush(w) PROVE TimesInv'
  <2>1. /\ w \in Live /\ disk' = WriteTo(disk, wfile[w], wbuf[w])
        /\ wbuf' = [wbuf EXCEPT ![w] = <<>>]
        /\ UNCHANGED <<clock, mbuf, wst>>
    BY <1>12 DEF WorkerFlush, master, Live
  <2>2. /\ InTimeOrder(disk')
        /\ \A x, other : x # w /\ Waiting(disk, other, x, clock) => Waiting(disk', other, x, clock)
    BY <2>1, WorkerFlushKeepsTime DEF Accounted
  <2>3. ASSUME NEW v \in Live' PROVE Waiting(disk', wbuf'[v], v, clock)
    <3>1. v \in Live /\ wbuf'[v] = IF v = w THEN <<>> ELSE wbuf[v]
      BY <2>1 DEF Live, TypeOK
    <3> QED BY <2>2, <3>1, NothingWaits DEF TimesInv
  <2> QED BY <1>s, <1>0, <2>1, <2>2, <2>3 DEF TimesInv
<1>13. ASSUME NEW w \in Workers, WorkerRotate(w) PROVE TimesInv'
  <2> DEFINE f == Head(inbox[w])
             e == WriteTo(disk, wfile[w], wbuf[w])
             r == WorkerRecord(w)
  <2>1. /\ w \in Live /\ inbox[w] # <<>>
        /\ disk' = WriteTo(e, f, <<r>>)
        /\ wbuf' = [wbuf EXCEPT ![w] = <<>>]
        /\ UNCHANGED <<clock, mbuf, wst>>
    BY <1>13 DEF WorkerRotate, master, Live
  <2>2. /\ InTimeOrder(e) /\ e \in Disks /\ Len(e) = Len(disk) /\ DOMAIN e = DOMAIN disk
        /\ \A x, other : x # w /\ Waiting(disk, other, x, clock) => Waiting(e, other, x, clock)
    BY <2>1, WorkerFlushAgrees, WorkerFlushKeepsTime DEF Accounted
  <2>3. \A g \in DOMAIN disk : g # wfile[w] => e[g] = disk[g]
    <3>1. wfile[w] \in DOMAIN disk
      BY <2>1 DEF LiveHaveAFile
    <3> QED BY <1>0, <3>1, WriteToProperties
  <2> HIDE DEF e
  <2>4. r \in Record /\ r.event = "WORKER_LOG" /\ r.workerId = w /\ r.timestamp = clock
        /\ <<r>> \in Seq(Record) /\ DOMAIN <<r>> = {1} /\ <<r>>[1] = r
    BY RecordTypes DEF WorkerRecord
  <2> HIDE DEF r
  <2>5. wfile[w] < f /\ f \in DOMAIN disk /\ f \in Nat /\ wfile[w] \in Nat
    <3>1. inbox[w] \in Seq(Nat) /\ Len(inbox[w]) \in Nat \ {0} /\ f = inbox[w][1]
          /\ 1 \in DOMAIN inbox[w] /\ f \in Nat
      BY <2>1, EmptySeq DEF TypeOK
    <3>2. wfile[w] < f /\ f <= Len(disk) /\ wfile[w] \in Nat
      BY <2>1, <3>1 DEF InboxLeadsForward, TypeOK
    <3> QED BY <1>0, <3>1, <3>2, LenProperties DEF Disks
  <2> HIDE DEF f
  <2>6. Grown(e, f, <<r>>, disk')
    BY <2>1, <2>2, <2>4, <2>5, WriteGrows
  <2>7. QuietOf(<<r>>, w)
    BY <2>4 DEF QuietOf, Quiet, AuthorOf
  <2>8. NothingAbout(e, f, w)
    <3>1. NothingAbout(disk, wfile[w], w)
      BY <2>1, FilesBeyondAreOthers DEF Accounted
    <3>2. \A g \in DOMAIN e : g > f => g \in DOMAIN disk /\ g > wfile[w] /\ e[g] = disk[g]
      <4>1. DOMAIN disk \subseteq Nat
        BY <1>0, LenProperties DEF Disks
      <4> QED BY <2>2, <2>3, <2>5, <4>1
    <3> QED BY <3>1, <3>2 DEF NothingAbout
  <2>9. Waiting(e, <<r>>, w, clock)
    BY <1>0, <2>2, <2>4 DEF Waiting, InTimeOrder, DatedBy
  <2>10. /\ InTimeOrder(disk')
         /\ \A x, other : x # w /\ Waiting(e, other, x, clock) => Waiting(disk', other, x, clock)
    BY <1>0, <2>2, <2>6, <2>7, <2>8, <2>9, QuietWriteKeepsTime DEF InTimeOrder
  <2>11. ASSUME NEW v \in Live' PROVE Waiting(disk', wbuf'[v], v, clock)
    <3>1. v \in Live /\ wbuf'[v] = IF v = w THEN <<>> ELSE wbuf[v]
      BY <2>1 DEF Live, TypeOK
    <3> QED BY <2>2, <2>10, <3>1, NothingWaits DEF TimesInv
  <2> QED BY <1>s, <1>0, <2>1, <2>2, <2>10, <2>11 DEF TimesInv
<1>14. ASSUME NEW w \in Workers, WorkerExit(w) PROVE TimesInv'
  <2>1. /\ w \in Live /\ wst' = [wst EXCEPT ![w] = "exited"]
        /\ (disk' = disk) \/ (disk' = WriteTo(disk, wfile[w], wbuf[w]))
        /\ wbuf' = [wbuf EXCEPT ![w] = <<>>]
        /\ UNCHANGED <<clock, mbuf>>
    BY <1>14 DEF WorkerExit, master, Live
  <2>2. /\ InTimeOrder(disk')
        /\ \A x, other : x # w /\ Waiting(disk, other, x, clock) => Waiting(disk', other, x, clock)
    <3>1. CASE disk' = disk
      BY <1>i, <3>1
    <3>2. CASE disk' = WriteTo(disk, wfile[w], wbuf[w])
      BY <2>1, <3>2, WorkerFlushKeepsTime DEF Accounted
    <3> QED BY <2>1, <3>1, <3>2
  <2>3. ASSUME NEW v \in Live' PROVE Waiting(disk', wbuf'[v], v, clock)
    <3>1. v \in Live /\ v # w /\ wbuf'[v] = wbuf[v]
      BY <2>1 DEF Live, TypeOK
    <3> QED BY <2>2, <3>1 DEF TimesInv
  <2> QED BY <1>s, <1>0, <2>1, <2>2, <2>3 DEF TimesInv
<1>15. CASE Tick
  <2>1. clock' = clock + 1 /\ UNCHANGED <<disk, mbuf, wst, wbuf>>
    BY <1>15 DEF Tick, master, workers
  <2>2. DatedBy(disk, clock + 1)
    <3>1. \A f \in DOMAIN disk : \A i \in DOMAIN disk[f] : disk[f][i].timestamp \in Int
      BY <1>0, TimesAreNumbers
    <3> QED BY <1>0, <3>1 DEF TimesInv, DatedBy
  <2>3. Waiting(disk, mbuf, NoWorker, clock + 1)
    BY <1>0, WaitingLasts DEF TimesInv
  <2>4. \A w \in Live : Waiting(disk, wbuf[w], w, clock + 1)
    BY <1>0, WaitingLasts DEF TimesInv
  <2> QED BY <1>k, <2>1, <2>2, <2>3, <2>4 DEF TimesInv, Live
<1>16. CASE MasterLogThrows \/ (\E w \in Workers : WorkerLogThrows(w)) \/ UNCHANGED vars
  <2>1. UNCHANGED <<clock, disk, mbuf, wst, wbuf>>
    BY <1>16 DEF MasterLogThrows, WorkerLogThrows, master, workers, vars
  <2> QED BY <1>k, <2>1 DEF TimesInv, Live
<1> QED
  BY <1>1, <1>2, <1>3, <1>4, <1>5, <1>6, <1>7, <1>8, <1>9, <1>10, <1>11, <1>12,
     <1>13, <1>14, <1>15, <1>16 DEF Next, MasterNext, WorkerNext

\* TimesInv holds as long as no lifecycle write has thrown.
LEMMA TimesInvariant == Spec => [](throws = 0 => TimesInv)
<1>1. Init => (throws = 0 => TimesInv)
  <2> SUFFICES ASSUME Init PROVE TimesInv
    OBVIOUS
  <2>1. disk = <<>> /\ DOMAIN <<>> = {} /\ Live = {} /\ mpc = "down" /\ mbuf = <<>>
    BY DEF Init, Live
  <2> QED BY <2>1, NothingWaits DEF TimesInv, LivesOnce, Ordered, DatedBy, WorkersKnown
<1>2. StreamInv /\ StreamInv' /\ (throws = 0 => TimesInv) /\ [Next]_vars => (throws = 0 => TimesInv)'
  BY ThrowsStay, TimesStep DEF StreamInv, IInv
<1> QED BY <1>1, <1>2, StreamInvariant, PTL DEF Spec

-----------------------------------------------------------------------------
\* What a stream of the writers promises to a reader.
Sound(S) ==
  /\ S \in Seq(Record)
  /\ DOMAIN S = 1 .. Len(S) /\ Len(S) \in Nat
  /\ \A p \in DOMAIN S :
       /\ S[p] \in Record
       /\ S[p].event = "MASTER_PING" => S[p].workerIds = AliveAt(S, p)
       /\ S[p].event = "WORKER_LOG" => S[p].workerId \in AliveAt(S, p)
       /\ S[p].event = "WORKER_SPAWNED" => S[p].workerId \in Workers \ AliveAt(S, p)
       /\ S[p].event = "WORKER_EXITED" => S[p].workerId \in AliveAt(S, p)
  /\ \A p, q \in DOMAIN S :
       p < q /\ Precedes(S[p], S[q]) => S[p].timestamp <= S[q].timestamp

\* So does that of a directory.
Truthful(d) == PingsAgree(d) /\ LogsBracketed(d) /\ LivesOnce(d) /\ Ordered(d)

LEMMA DirectoryIsSound ==
  ASSUME NEW d \in Disks, Truthful(d)
  PROVE  Sound(FlattenSeq(d))
<1> DEFINE S == FlattenSeq(d)
<1>1. S \in Seq(Record) /\ DOMAIN S = 1 .. Len(S) /\ Len(S) \in Nat
  BY FlattenIsLocated DEF Disks
<1>2. PICK loc : Located(d, S, loc)
  BY FlattenIsLocated DEF Disks
<1> HIDE DEF S
<1>3. ASSUME NEW p \in DOMAIN S
      PROVE  /\ S[p] \in Record
             /\ S[p].event = "MASTER_PING" => S[p].workerIds = AliveAt(S, p)
             /\ S[p].event = "WORKER_LOG" => S[p].workerId \in AliveAt(S, p)
             /\ S[p].event = "WORKER_SPAWNED" => S[p].workerId \in Workers \ AliveAt(S, p)
             /\ S[p].event = "WORKER_EXITED" => S[p].workerId \in AliveAt(S, p)
  <2>1. /\ loc[p][1] \in DOMAIN d /\ loc[p][2] \in DOMAIN d[loc[p][1]]
        /\ S[p] = d[loc[p][1]][loc[p][2]]
    BY <1>2 DEF Located
  <2>2. AliveAt(S, p) = AliveBefore(d, loc[p][1], loc[p][2])
    BY <1>1, <1>2, AliveByPlace
  <2>3. S[p] \in Record
    BY <1>1, ElementOfSeq
  <2> QED BY <2>1, <2>2, <2>3 DEF Truthful, PingsAgree, LogsBracketed, LivesOnce
<1>4. ASSUME NEW p \in DOMAIN S, NEW q \in DOMAIN S, p < q, Precedes(S[p], S[q])
      PROVE  S[p].timestamp <= S[q].timestamp
  <2>1. /\ loc[p][1] \in DOMAIN d /\ loc[p][2] \in DOMAIN d[loc[p][1]]
        /\ S[p] = d[loc[p][1]][loc[p][2]]
        /\ loc[q][1] \in DOMAIN d /\ loc[q][2] \in DOMAIN d[loc[q][1]]
        /\ S[q] = d[loc[q][1]][loc[q][2]]
        /\ Before(loc[p][1], loc[p][2], loc[q][1], loc[q][2])
    BY <1>2, <1>4 DEF Located
  <2> QED BY <1>4, <2>1 DEF Truthful, Ordered
<1> QED BY <1>1, <1>3, <1>4 DEF Sound, S

\* The first files of a directory are such a directory.
LEMMA FirstFilesAreTruthful ==
  ASSUME NEW d \in Disks, Truthful(d), NEW k \in DOMAIN d
  PROVE  SubSeq(d, 1, k) \in Disks /\ Truthful(SubSeq(d, 1, k))
<1> DEFINE e == SubSeq(d, 1, k)
<1>0. DOMAIN d = 1 .. Len(d) /\ Len(d) \in Nat /\ \A g \in DOMAIN d : d[g] \in Seq(Record)
  BY LenProperties, ElementOfSeq DEF Disks
<1>1. /\ e \in Disks /\ DOMAIN e = 1 .. k /\ k \in Nat
      /\ \A g \in 1 .. k : e[g] = d[g]
  BY <1>0, SubSeqProperties DEF Disks
<1> HIDE DEF e
<1>2. ASSUME NEW g \in DOMAIN e PROVE g \in DOMAIN d /\ e[g] = d[g]
  BY <1>0, <1>1, <1>2
<1>3. ASSUME NEW f \in DOMAIN e, NEW i \in DOMAIN e[f]
      PROVE  AliveBefore(e, f, i) = AliveBefore(d, f, i)
  <2>0. ASSUME NEW h \in DOMAIN d, NEW l, Before(h, l, f, i) PROVE h \in DOMAIN e
    BY <1>0, <1>1, <2>0 DEF Before
  <2>1. ASSUME NEW g, NEW j, NEW w
        PROVE  LivesFrom(e, g, j, w, f, i) <=> LivesFrom(d, g, j, w, f, i)
    BY <1>2, <2>0 DEF LivesFrom
  <2> QED BY <2>1 DEF AliveBefore
<1>4. PingsAgree(e) /\ LogsBracketed(e)
  BY <1>2, <1>3 DEF Truthful, PingsAgree, LogsBracketed
<1>5. LivesOnce(e)
  BY <1>2, <1>3 DEF Truthful, LivesOnce
<1>6. Ordered(e)
  BY <1>2 DEF Truthful, Ordered
<1> QED BY <1>1, <1>4, <1>5, <1>6 DEF Truthful, e

-----------------------------------------------------------------------------
(* Who is alive, from one record to the next.                               *)

LEMMA AliveStep ==
  ASSUME NEW S, Sound(S), NEW p \in DOMAIN S
  PROVE  /\ S[p].event = "STARTING_UP" => AliveAt(S, p + 1) = {}
         /\ S[p].event = "WORKER_SPAWNED" => AliveAt(S, p + 1) = AliveAt(S, p) \cup {S[p].workerId}
         /\ S[p].event = "WORKER_EXITED" => AliveAt(S, p + 1) = AliveAt(S, p) \ {S[p].workerId}
         /\ Quiet(S[p]) => AliveAt(S, p + 1) = AliveAt(S, p)
<1>0. p \in Nat /\ p + 1 - 1 = p
  BY DEF Sound
<1> DEFINE From(w, q, n) == /\ S[q].event = "WORKER_SPAWNED" /\ S[q].workerId = w
                            /\ \A r \in q + 1 .. n : ~ Kills(S[r], w)
<1>a. \A n : AliveAt(S, n) = {w \in Workers : \E q \in 1 .. n - 1 : From(w, q, n - 1)}
  BY DEF AliveAt, Kills
<1>b. ASSUME NEW w, NEW q \in 1 .. p - 1
      PROVE  From(w, q, p) <=> From(w, q, p - 1) /\ ~ Kills(S[p], w)
  <2>1. q + 1 .. p = (q + 1 .. p - 1) \cup {p}
    BY <1>0
  <2> QED BY <2>1
<1>c. ASSUME NEW w PROVE From(w, p, p) <=> Spawns(S[p], w)
  <2>1. p + 1 .. p = {}
    BY <1>0
  <2> QED BY <2>1 DEF Spawns
<1>d. 1 .. p = (1 .. p - 1) \cup {p}
  BY <1>0 DEF Sound
<1>e. ASSUME NEW w \in Workers
      PROVE  w \in AliveAt(S, p + 1) <=> (w \in AliveAt(S, p) /\ ~ Kills(S[p], w)) \/ Spawns(S[p], w)
  <2> HIDE DEF From
  <2> QED BY <1>0, <1>a, <1>b, <1>c, <1>d
<1>f. AliveAt(S, p + 1) \subseteq Workers /\ AliveAt(S, p) \subseteq Workers
  BY DEF AliveAt
<1>g. S[p].event = "WORKER_SPAWNED" => S[p].workerId \in Workers
  BY DEF Sound
<1> HIDE DEF From
<1> QED BY <1>e, <1>f, <1>g DEF Kills, Spawns, Quiet

\* Who came to life after place n was spawned after it.
LEMMA NewcomerSpawns ==
  ASSUME NEW S, Sound(S), NEW n \in Nat, NEW j \in DOMAIN S, n <= j, n >= 1,
         NEW w \in AliveAt(S, j) \ AliveAt(S, n)
  PROVE  \E q \in n .. j - 1 : Spawns(S[q], w)
<1>0. DOMAIN S = 1 .. Len(S) /\ Len(S) \in Nat
  BY DEF Sound
<1>1. PICK q \in 1 .. j - 1 :
        /\ S[q].event = "WORKER_SPAWNED" /\ S[q].workerId = w
        /\ \A r \in q + 1 .. j - 1 :
             /\ S[r].event # "STARTING_UP"
             /\ ~(S[r].event = "WORKER_EXITED" /\ S[r].workerId = w)
  BY DEF AliveAt
<1>2. q >= n
  <2> SUFFICES ASSUME q < n PROVE FALSE
    BY <1>0
  <2>1. q \in 1 .. n - 1 /\ \A r \in q + 1 .. n - 1 : r \in q + 1 .. j - 1
    BY <1>0
  <2>2. w \in AliveAt(S, n)
    BY <1>1, <2>1 DEF AliveAt
  <2> QED BY <2>2
<1> QED BY <1>0, <1>1, <1>2 DEF Spawns

\* Who is no longer alive at place n was ended before it.
LEMMA LeaverIsKilled ==
  ASSUME NEW S, Sound(S), NEW n \in Nat, NEW j \in DOMAIN S, j <= n,
         NEW w \in AliveAt(S, j) \ AliveAt(S, n)
  PROVE  \E q \in j .. n - 1 : Kills(S[q], w)
<1>0. DOMAIN S = 1 .. Len(S) /\ Len(S) \in Nat
  BY DEF Sound
<1>1. PICK q \in 1 .. j - 1 :
        /\ S[q].event = "WORKER_SPAWNED" /\ S[q].workerId = w
        /\ \A r \in q + 1 .. j - 1 :
             /\ S[r].event # "STARTING_UP"
             /\ ~(S[r].event = "WORKER_EXITED" /\ S[r].workerId = w)
  BY DEF AliveAt
<1>2. w \in Workers /\ q \in 1 .. n - 1
  BY <1>0 DEF AliveAt
<1>3. PICK r \in q + 1 .. n - 1 : Kills(S[r], w)
  BY <1>1, <1>2 DEF AliveAt, Kills
<1>4. ~ (r \in q + 1 .. j - 1)
  BY <1>1, <1>3 DEF Kills
<1> QED BY <1>0, <1>3, <1>4

-----------------------------------------------------------------------------
(* 4. The bound finder, reading forward.                                    *)

Everyone == Workers \cup {NoWorker}

Finders == [known : BOOLEAN, all : SUBSET Everyone, pending : SUBSET Everyone,
            reached : BOOLEAN, read : Nat]

\* A finder that knows who is alive knows it right.
KnowsAt(S, n, finder) ==
  finder.known => finder.all = AliveAt(S, n) \cup {NoWorker}

\* Nothing that a writes from record n on is within the bound.
YoungFrom(S, n, a, bound) ==
  \A j \in n .. Len(S) : AuthorOf(S[j]) = a => S[j].timestamp > bound

\* What the finder knows before it is passed record n: those it does not wait
\* for have passed the bound, and when it has reached the bound all have.
ForwardInv(S, n, finder, bound) ==
  /\ finder \in Finders
  /\ KnowsAt(S, n, finder)
  /\ finder.known => \A a \in finder.all \ finder.pending : YoungFrom(S, n, a, bound)
  /\ finder.reached => \A j \in n .. Len(S) : S[j].timestamp > bound

\* A record past the bound tells that what comes after it is too.
LEMMA YoungAfter ==
  ASSUME NEW S, Sound(S), NEW p \in DOMAIN S, NEW bound \in Int, S[p].timestamp > bound,
         NEW a, Concerns(S[p], a)
  PROVE  YoungFrom(S, p + 1, a, bound)
<1> SUFFICES ASSUME NEW j \in p + 1 .. Len(S), AuthorOf(S[j]) = a PROVE S[j].timestamp > bound
  BY DEF YoungFrom
<1>1. p < j /\ j \in DOMAIN S
  BY DEF Sound
<1>2. S[p].timestamp <= S[j].timestamp
  BY <1>1 DEF Sound, Precedes
<1>3. S[p].timestamp \in Int /\ S[j].timestamp \in Int
  BY <1>1, ClusterAssumption DEF Sound, Record
<1> QED BY <1>2, <1>3

\* When nobody who is alive is waited for, nobody has to be: who comes later is
\* spawned by the master, which has passed the bound.
LEMMA NobodyIsLeftForward ==
  ASSUME NEW S, Sound(S), NEW n \in Nat, n >= 1, NEW bound \in Int,
         \A a \in AliveAt(S, n) \cup {NoWorker} : YoungFrom(S, n, a, bound)
  PROVE  \A j \in n .. Len(S) : S[j].timestamp > bound
<1> SUFFICES ASSUME NEW j \in n .. Len(S) PROVE S[j].timestamp > bound
  OBVIOUS
<1>0. j \in DOMAIN S /\ n <= j
  BY DEF Sound
<1> DEFINE a == AuthorOf(S[j])
<1>1. CASE a \in AliveAt(S, n) \cup {NoWorker}
  BY <1>1 DEF YoungFrom
<1>2. CASE ~ (a \in AliveAt(S, n) \cup {NoWorker})
  <2>1. a \in AliveAt(S, j) \ AliveAt(S, n)
    BY <1>0, <1>2 DEF Sound, AuthorOf
  <2>2. PICK q \in n .. j - 1 : Spawns(S[q], a)
    BY <1>0, <2>1, NewcomerSpawns
  <2>3. q \in n .. Len(S) /\ q \in DOMAIN S /\ j \in q + 1 .. Len(S)
    BY <1>0, <2>2 DEF Sound
  <2>4. AuthorOf(S[q]) = NoWorker
    BY <2>2 DEF Spawns, AuthorOf
  <2>5. S[q].timestamp > bound
    BY <2>3, <2>4 DEF YoungFrom
  <2>6. Concerns(S[q], a)
    BY <2>2 DEF Concerns, Begins
  <2>7. YoungFrom(S, q + 1, a, bound)
    BY <2>3, <2>5, <2>6, YoungAfter
  <2> QED BY <2>3, <2>7 DEF YoungFrom
<1> QED BY <1>1, <1>2

\* What the finder's two changes of its workers do.
LEMMA DropDrops ==
  ASSUME NEW finder \in Finders, NEW ids, NEW d, d = Drop(finder, ids)
  PROVE  /\ d \in Finders /\ d.known = finder.known /\ d.all = finder.all /\ d.read = finder.read
         /\ d.pending = finder.pending \ ids /\ (d.reached <=> d.pending = {})
BY DEF Drop, Finders

LEMMA LearnLearns ==
  ASSUME NEW finder \in Finders, NEW log \in Record, NEW past \in BOOLEAN, NEW d, d = Learn(finder, log, past)
  PROVE  /\ d \in Finders /\ d.known /\ d.all = log.workerIds \cup {NoWorker}
         /\ d.pending = (IF past THEN log.workerIds ELSE d.all)
         /\ d.reached <=> past /\ log.workerIds = {}
<1>1. log.workerIds \subseteq Workers
  BY DEF Record
<1> QED BY <1>1 DEF Learn, Finders, Everyone

\* A worker who comes or goes.
LEMMA AllChanges ==
  ASSUME NEW finder \in Finders, NEW ids, ids \subseteq Everyone, NEW d, d = [finder EXCEPT !.all = ids]
  PROVE  /\ d \in Finders /\ d.known = finder.known /\ d.all = ids /\ d.read = finder.read
         /\ d.pending = finder.pending /\ d.reached = finder.reached
BY DEF Finders

\* One record more.
LEMMA ForwardStep ==
  ASSUME NEW S, Sound(S), NEW p \in DOMAIN S, NEW bound \in Int,
         NEW finder, ForwardInv(S, p, finder, bound), ~ finder.reached
  PROVE  ForwardInv(S, p + 1, [reachedUpperBound(finder, S[p], bound) EXCEPT !.read = @ + 1], bound)
<1> DEFINE log == S[p]
           past == log.timestamp > bound
           raw == reachedUpperBound(finder, log, bound)
           next == [raw EXCEPT !.read = @ + 1]
<1>0. /\ finder \in Finders /\ log \in Record /\ p + 1 \in Nat /\ p + 1 >= 1 /\ p \in Nat
      /\ log.workerId \in Everyone /\ log.workerIds \subseteq Workers /\ log.event \in Events
      /\ KnowsAt(S, p, finder)
  BY DEF ForwardInv, Sound, Record, Everyone
<1>1. ASSUME NEW a, YoungFrom(S, p, a, bound) PROVE YoungFrom(S, p + 1, a, bound)
  BY <1>0, <1>1 DEF YoungFrom
<1>2. ASSUME NEW a, past, Concerns(log, a) PROVE YoungFrom(S, p + 1, a, bound)
  BY <1>2, YoungAfter
<1>3. /\ log.event = "STARTING_UP" => AliveAt(S, p + 1) = {}
      /\ log.event = "WORKER_SPAWNED" => AliveAt(S, p + 1) = AliveAt(S, p) \cup {log.workerId}
      /\ log.event = "WORKER_EXITED" => AliveAt(S, p + 1) = AliveAt(S, p) \ {log.workerId}
      /\ Quiet(log) => AliveAt(S, p + 1) = AliveAt(S, p)
  BY AliveStep
<1>4. /\ log.event = "MASTER_PING" => log.workerIds = AliveAt(S, p)
      /\ log.event = "WORKER_LOG" => log.workerId \in AliveAt(S, p)
      /\ log.event = "WORKER_SPAWNED" => log.workerId \in Workers \ AliveAt(S, p)
      /\ log.event = "WORKER_EXITED" => log.workerId \in AliveAt(S, p)
      /\ AliveAt(S, p) \subseteq Workers /\ NoWorker \notin Workers
  BY ClusterAssumption DEF Sound, AliveAt
<1>5. past \in BOOLEAN
  OBVIOUS
\* It is enough that who is not waited for is past, and that the bound is only
\* reached by a start or when nobody is waited for.
<1>s. ASSUME raw \in Finders, KnowsAt(S, p + 1, raw),
             raw.known => \A a \in raw.all \ raw.pending : YoungFrom(S, p + 1, a, bound),
             raw.reached => \/ raw.known /\ raw.pending = {}
                            \/ past /\ log.event = "STARTING_UP"
      PROVE  ForwardInv(S, p + 1, next, bound)
  <2>1. /\ next \in Finders /\ next.known = raw.known /\ next.all = raw.all
        /\ next.pending = raw.pending /\ next.reached = raw.reached
    BY <1>s DEF Finders
  <2>2. ASSUME raw.reached PROVE \A j \in p + 1 .. Len(S) : S[j].timestamp > bound
    <3>1. CASE raw.known /\ raw.pending = {}
      <4>1. \A a \in AliveAt(S, p + 1) \cup {NoWorker} : YoungFrom(S, p + 1, a, bound)
        BY <1>s, <3>1 DEF KnowsAt
      <4> QED BY <1>0, <4>1, NobodyIsLeftForward
    <3>2. CASE past /\ log.event = "STARTING_UP"
      <4>1. \A a : YoungFrom(S, p + 1, a, bound)
        BY <1>2, <3>2 DEF Concerns, Begins
      <4> QED BY <4>1 DEF YoungFrom
    <3> QED BY <1>s, <2>2, <3>1, <3>2
  <2> QED BY <1>s, <2>1, <2>2 DEF ForwardInv, KnowsAt
<1> SUFFICES ForwardInv(S, p + 1, next, bound)
  OBVIOUS
<1> HIDE DEF next, raw
<1>6. finder.known => /\ finder.all = AliveAt(S, p) \cup {NoWorker}
                      /\ \A a \in finder.all \ finder.pending : YoungFrom(S, p + 1, a, bound)
  BY <1>1 DEF ForwardInv, KnowsAt
<1> HIDE DEF past
<1>7. CASE log.event = "WORKER_LOG"
  <2>1. raw = IF finder.known /\ past THEN Drop(finder, {log.workerId}) ELSE finder
    BY <1>7 DEF reachedUpperBound, OfWorker, past, raw
  <2>2. AliveAt(S, p + 1) = AliveAt(S, p) /\ Concerns(log, log.workerId)
    BY <1>3, <1>7 DEF Quiet, Concerns, AuthorOf
  <2>3. CASE finder.known /\ past
    <3>1. /\ raw \in Finders /\ raw.known /\ raw.all = finder.all
          /\ raw.pending = finder.pending \ {log.workerId} /\ (raw.reached => raw.pending = {})
      BY <1>0, <2>1, <2>3 DEF Drop, Finders
    <3>2. KnowsAt(S, p + 1, raw)
      BY <1>6, <2>2, <2>3, <3>1 DEF KnowsAt
    <3>3. \A a \in raw.all \ raw.pending : YoungFrom(S, p + 1, a, bound)
      BY <1>2, <1>6, <2>2, <2>3, <3>1
    <3> QED BY <1>s, <3>1, <3>2, <3>3
  <2>4. CASE ~ (finder.known /\ past)
    <3>1. raw = finder
      BY <2>1, <2>4
    <3>2. KnowsAt(S, p + 1, finder)
      BY <1>0, <2>2 DEF KnowsAt
    <3> QED BY <1>0, <1>s, <1>6, <3>1, <3>2
  <2> QED BY <2>3, <2>4
<1>8. CASE log.event = "STARTING_UP"
  <2>1. raw = [finder EXCEPT !.known = TRUE, !.all = {NoWorker}, !.pending = {NoWorker},
                             !.reached = past]
    BY <1>8 DEF reachedUpperBound, OfWorker, past, raw
  <2>2. /\ raw \in Finders /\ raw.all = {NoWorker} /\ raw.pending = {NoWorker} /\ (raw.reached <=> past)
    BY <1>0, <1>5, <2>1 DEF Finders, Everyone
  <2>3. KnowsAt(S, p + 1, raw)
    BY <1>3, <1>8, <2>2 DEF KnowsAt
  <2> QED BY <1>s, <1>8, <2>2, <2>3
<1>9. CASE log.event = "MASTER_PING" /\ ~ finder.known
  <2>1. raw = Learn(finder, log, past)
    BY <1>9 DEF reachedUpperBound, OfWorker, past, raw
  <2>2. /\ raw \in Finders /\ raw.known /\ raw.all = log.workerIds \cup {NoWorker}
        /\ raw.pending = (IF past THEN log.workerIds ELSE raw.all)
        /\ raw.reached <=> past /\ log.workerIds = {}
    BY <1>0, <1>5, <2>1, LearnLearns
  <2>3. KnowsAt(S, p + 1, raw)
    BY <1>3, <1>4, <1>9, <2>2 DEF KnowsAt, Quiet
  <2>4. Concerns(log, NoWorker)
    BY <1>9 DEF Concerns, AuthorOf
  <2>5. \A a \in raw.all \ raw.pending : YoungFrom(S, p + 1, a, bound)
    BY <1>2, <2>2, <2>4
  <2> QED BY <1>s, <2>2, <2>3, <2>5
<1>10. CASE log.event = "WORKER_SPAWNED" /\ finder.known
  <2>1. raw = IF past THEN [Drop(finder, {NoWorker}) EXCEPT !.all = @ \cup {log.workerId}]
              ELSE [finder EXCEPT !.all = @ \cup {log.workerId}, !.pending = @ \cup {log.workerId}]
    BY <1>10 DEF reachedUpperBound, OfWorker, past, raw
  <2>2. /\ raw \in Finders /\ raw.known /\ raw.all = finder.all \cup {log.workerId}
        /\ past => raw.pending = finder.pending \ {NoWorker}
        /\ ~ past => raw.pending = finder.pending \cup {log.workerId}
        /\ raw.reached => raw.pending = {}
    <3>0. finder.all \cup {log.workerId} \subseteq Everyone
      BY <1>0 DEF Finders
    <3>1. CASE past
      <4> DEFINE d == Drop(finder, {NoWorker})
      <4>1. /\ d \in Finders /\ d.known = finder.known /\ d.all = finder.all
            /\ d.pending = finder.pending \ {NoWorker} /\ (d.reached <=> d.pending = {})
        BY <1>0, DropDrops
      <4>2. raw = [d EXCEPT !.all = finder.all \cup {log.workerId}]
        BY <2>1, <3>1, <4>1
      <4> HIDE DEF d
      <4>3. /\ raw \in Finders /\ raw.known = d.known /\ raw.all = finder.all \cup {log.workerId}
            /\ raw.pending = d.pending /\ raw.reached = d.reached
        <5> DEFINE more == finder.all \cup {log.workerId}
        <5>1. more \subseteq Everyone /\ raw = [d EXCEPT !.all = more]
          BY <3>0, <4>2
        <5>2. raw.all = more
          <6> HIDE DEF more
          <6> QED BY <4>1, <5>1, AllChanges
        <5>3. raw \in Finders /\ raw.known = d.known /\ raw.pending = d.pending /\ raw.reached = d.reached
          <6> HIDE DEF more
          <6> QED BY <4>1, <5>1, AllChanges
        <5> QED BY <5>2, <5>3
      <4> QED BY <1>10, <3>1, <4>1, <4>3
    <3>2. CASE ~ past
      <4>1. raw = [finder EXCEPT !.all = @ \cup {log.workerId}, !.pending = @ \cup {log.workerId}]
        BY <2>1, <3>2
      <4>2. ~ raw.reached
        BY <1>0, <4>1 DEF Finders
      <4>3. raw \in Finders /\ raw.known /\ raw.all = finder.all \cup {log.workerId}
            /\ raw.pending = finder.pending \cup {log.workerId}
        BY <1>0, <1>10, <4>1 DEF Finders
      <4> QED BY <3>2, <4>2, <4>3
    <3> QED BY <3>1, <3>2
  <2>3. KnowsAt(S, p + 1, raw)
    BY <1>3, <1>6, <1>10, <2>2 DEF KnowsAt
  <2>4. Concerns(log, NoWorker) /\ Concerns(log, log.workerId)
    BY <1>10 DEF Concerns, AuthorOf, Begins, Spawns
  <2>5. \A a \in raw.all \ raw.pending : YoungFrom(S, p + 1, a, bound)
    BY <1>2, <1>6, <1>10, <2>2, <2>4
  <2> QED BY <1>s, <2>2, <2>3, <2>5
<1>11. CASE log.event = "WORKER_EXITED" /\ finder.known
  <2>1. raw = [Drop(finder, (IF past THEN {NoWorker} ELSE {}) \cup {log.workerId})
                 EXCEPT !.all = @ \ {log.workerId}]
    BY <1>11 DEF reachedUpperBound, OfWorker, past, raw
  <2>2. /\ raw \in Finders /\ raw.known /\ raw.all = finder.all \ {log.workerId}
        /\ past => raw.pending = finder.pending \ {NoWorker, log.workerId}
        /\ ~ past => raw.pending = finder.pending \ {log.workerId}
        /\ raw.reached => raw.pending = {}
    <3> DEFINE ids == (IF past THEN {NoWorker} ELSE {}) \cup {log.workerId}
               d == Drop(finder, ids)
    <3>1. finder.all \ {log.workerId} \subseteq Everyone
      BY <1>0 DEF Finders
    <3>2. /\ d \in Finders /\ d.known = finder.known /\ d.all = finder.all
          /\ d.pending = finder.pending \ ids /\ (d.reached <=> d.pending = {})
      BY <1>0, DropDrops
    <3>3. raw = [d EXCEPT !.all = finder.all \ {log.workerId}]
      BY <2>1, <3>2
    <3>4. /\ past => ids = {NoWorker, log.workerId}
          /\ ~ past => ids = {log.workerId}
      OBVIOUS
    <3> HIDE DEF ids, d
    <3>5. /\ raw \in Finders /\ raw.known = d.known /\ raw.all = finder.all \ {log.workerId}
          /\ raw.pending = d.pending /\ raw.reached = d.reached
      <4> DEFINE rest == finder.all \ {log.workerId}
      <4>1. rest \subseteq Everyone /\ raw = [d EXCEPT !.all = rest]
        BY <3>1, <3>3
      <4>2. raw.all = rest
        <5> HIDE DEF rest
        <5> QED BY <3>2, <4>1, AllChanges
      <4>3. raw \in Finders /\ raw.known = d.known /\ raw.pending = d.pending /\ raw.reached = d.reached
        <5> HIDE DEF rest
        <5> QED BY <3>2, <4>1, AllChanges
      <4> QED BY <4>2, <4>3
    <3> QED BY <1>11, <3>2, <3>4, <3>5
  <2>3. KnowsAt(S, p + 1, raw)
    BY <1>3, <1>4, <1>6, <1>11, <2>2 DEF KnowsAt
  <2>4. Concerns(log, NoWorker)
    BY <1>11 DEF Concerns, AuthorOf
  <2>5. \A a \in raw.all \ raw.pending : YoungFrom(S, p + 1, a, bound)
    BY <1>2, <1>6, <1>11, <2>2, <2>4
  <2> QED BY <1>s, <2>2, <2>3, <2>5
<1>12. CASE \/ log.event = "MASTER_LOG"
            \/ log.event = "MASTER_PING" /\ finder.known
            \/ ~ finder.known /\ log.event \in {"WORKER_SPAWNED", "WORKER_EXITED"}
  <2>1. raw = IF finder.known /\ past THEN Drop(finder, {NoWorker}) ELSE finder
    BY <1>12 DEF reachedUpperBound, OfWorker, past, raw
  <2>2. /\ raw \in Finders /\ (raw.known <=> finder.known) /\ raw.all = finder.all
        /\ raw.pending = (IF finder.known /\ past THEN finder.pending \ {NoWorker} ELSE finder.pending)
        /\ raw.reached => raw.known /\ raw.pending = {}
    BY <1>0, <2>1 DEF Drop, Finders
  <2>3. KnowsAt(S, p + 1, raw)
    <3>1. raw.known => AliveAt(S, p + 1) = AliveAt(S, p)
      BY <1>3, <1>12, <2>2 DEF Quiet
    <3> QED BY <1>6, <2>2, <3>1 DEF KnowsAt
  <2>4. Concerns(log, NoWorker)
    BY <1>12 DEF Concerns, AuthorOf
  <2>5. raw.known => \A a \in raw.all \ raw.pending : YoungFrom(S, p + 1, a, bound)
    BY <1>2, <1>6, <2>2, <2>4
  <2> QED BY <1>s, <2>2, <2>3, <2>5
<1> QED BY <1>0, <1>7, <1>8, <1>9, <1>10, <1>11, <1>12 DEF Events

(* The finder, reading backward.                                            *)

\* Nothing that a has written before record n is within the bound.
OldBefore(S, n, a, bound) ==
  \A j \in 1 .. n - 1 : AuthorOf(S[j]) = a => S[j].timestamp < bound

\* What the finder knows once record n has been passed to it.
BackwardInv(S, n, finder, bound) ==
  /\ finder \in Finders
  /\ KnowsAt(S, n, finder)
  /\ finder.known => \A a \in finder.all \ finder.pending : OldBefore(S, n, a, bound)
  /\ finder.reached => \A j \in 1 .. n - 1 : S[j].timestamp < bound

\* A record past the bound tells that what came before it is too.
LEMMA OldUntil ==
  ASSUME NEW S, Sound(S), NEW p \in DOMAIN S, NEW bound \in Int, S[p].timestamp < bound,
         NEW a, AuthorOf(S[p]) = a \/ Kills(S[p], a)
  PROVE  OldBefore(S, p, a, bound)
<1> SUFFICES ASSUME NEW j \in 1 .. p - 1, AuthorOf(S[j]) = a PROVE S[j].timestamp < bound
  BY DEF OldBefore
<1>1. j < p /\ j \in DOMAIN S
  BY DEF Sound
<1>2. S[j].timestamp <= S[p].timestamp
  BY <1>1 DEF Sound, Precedes, Concerns
<1>3. S[p].timestamp \in Int /\ S[j].timestamp \in Int
  BY <1>1, ClusterAssumption DEF Sound, Record
<1> QED BY <1>2, <1>3

\* Who is no longer alive was ended by the master, which has passed the bound.
LEMMA NobodyIsLeftBackward ==
  ASSUME NEW S, Sound(S), NEW n \in Nat, n <= Len(S) + 1, NEW bound \in Int,
         \A a \in AliveAt(S, n) \cup {NoWorker} : OldBefore(S, n, a, bound)
  PROVE  \A j \in 1 .. n - 1 : S[j].timestamp < bound
<1> SUFFICES ASSUME NEW j \in 1 .. n - 1 PROVE S[j].timestamp < bound
  OBVIOUS
<1>0. j \in DOMAIN S /\ j <= n
  BY DEF Sound
<1> DEFINE a == AuthorOf(S[j])
<1>1. CASE a \in AliveAt(S, n) \cup {NoWorker}
  BY <1>1 DEF OldBefore
<1>2. CASE ~ (a \in AliveAt(S, n) \cup {NoWorker})
  <2>1. a \in AliveAt(S, j) \ AliveAt(S, n) /\ S[j].event = "WORKER_LOG"
    BY <1>0, <1>2 DEF Sound, AuthorOf
  <2>2. PICK q \in j .. n - 1 : Kills(S[q], a)
    BY <1>0, <2>1, LeaverIsKilled
  <2>3. AuthorOf(S[q]) = NoWorker /\ q # j
    BY <2>1, <2>2 DEF Kills, AuthorOf
  <2>4. q \in 1 .. n - 1 /\ q \in DOMAIN S /\ j \in 1 .. q - 1
    BY <1>0, <2>2, <2>3 DEF Sound
  <2>5. S[q].timestamp < bound
    BY <2>3, <2>4 DEF OldBefore
  <2>6. OldBefore(S, q, a, bound)
    BY <2>2, <2>4, <2>5, OldUntil
  <2> QED BY <2>4, <2>6 DEF OldBefore
<1> QED BY <1>1, <1>2

LEMMA BackwardStep ==
  ASSUME NEW S, Sound(S), NEW p \in DOMAIN S, NEW bound \in Int,
         NEW finder, BackwardInv(S, p + 1, finder, bound), ~ finder.reached
  PROVE  BackwardInv(S, p, [reachedLowerBound(finder, S[p], bound) EXCEPT !.read = @ + 1], bound)
<1> DEFINE log == S[p]
           past == log.timestamp < bound
           raw == reachedLowerBound(finder, log, bound)
           next == [raw EXCEPT !.read = @ + 1]
<1>0. /\ finder \in Finders /\ log \in Record /\ p + 1 \in Nat /\ p \in Nat /\ p <= Len(S) + 1
      /\ log.workerId \in Everyone /\ log.workerIds \subseteq Workers /\ log.event \in Events
      /\ KnowsAt(S, p + 1, finder)
  BY DEF BackwardInv, Sound, Record, Everyone
<1>1. ASSUME NEW a, OldBefore(S, p + 1, a, bound) PROVE OldBefore(S, p, a, bound)
  BY <1>0, <1>1 DEF OldBefore
<1>2. ASSUME NEW a, past, AuthorOf(log) = a \/ Kills(log, a) PROVE OldBefore(S, p, a, bound)
  BY <1>2, OldUntil
<1>3. /\ log.event = "STARTING_UP" => AliveAt(S, p + 1) = {}
      /\ log.event = "WORKER_SPAWNED" => AliveAt(S, p + 1) = AliveAt(S, p) \cup {log.workerId}
      /\ log.event = "WORKER_EXITED" => AliveAt(S, p + 1) = AliveAt(S, p) \ {log.workerId}
      /\ Quiet(log) => AliveAt(S, p + 1) = AliveAt(S, p)
  BY AliveStep
<1>4. /\ log.event = "MASTER_PING" => log.workerIds = AliveAt(S, p)
      /\ log.event = "WORKER_LOG" => log.workerId \in AliveAt(S, p)
      /\ log.event = "WORKER_SPAWNED" => log.workerId \in Workers \ AliveAt(S, p)
      /\ log.event = "WORKER_EXITED" => log.workerId \in AliveAt(S, p)
      /\ AliveAt(S, p) \subseteq Workers /\ NoWorker \notin Workers
  BY ClusterAssumption DEF Sound, AliveAt
<1>5. past \in BOOLEAN
  OBVIOUS
<1>s. ASSUME raw \in Finders, KnowsAt(S, p, raw),
             raw.known => \A a \in raw.all \ raw.pending : OldBefore(S, p, a, bound),
             raw.reached => \/ raw.known /\ raw.pending = {}
                            \/ past /\ log.event = "STARTING_UP"
      PROVE  BackwardInv(S, p, next, bound)
  <2>1. /\ next \in Finders /\ next.known = raw.known /\ next.all = raw.all
        /\ next.pending = raw.pending /\ next.reached = raw.reached
    BY <1>s DEF Finders
  <2>2. ASSUME raw.reached PROVE \A j \in 1 .. p - 1 : S[j].timestamp < bound
    <3>1. CASE raw.known /\ raw.pending = {}
      <4>1. \A a \in AliveAt(S, p) \cup {NoWorker} : OldBefore(S, p, a, bound)
        BY <1>s, <3>1 DEF KnowsAt
      <4> QED BY <1>0, <4>1, NobodyIsLeftBackward
    <3>2. CASE past /\ log.event = "STARTING_UP"
      <4>1. \A a : OldBefore(S, p, a, bound)
        BY <1>2, <3>2 DEF Kills
      <4> QED BY <4>1 DEF OldBefore
    <3> QED BY <1>s, <2>2, <3>1, <3>2
  <2> QED BY <1>s, <2>1, <2>2 DEF BackwardInv, KnowsAt
<1> SUFFICES BackwardInv(S, p, next, bound)
  OBVIOUS
<1> HIDE DEF next, raw
<1>6. finder.known => /\ finder.all = AliveAt(S, p + 1) \cup {NoWorker}
                      /\ \A a \in finder.all \ finder.pending : OldBefore(S, p, a, bound)
  BY <1>1 DEF BackwardInv, KnowsAt
<1> HIDE DEF past
<1>7. CASE log.event = "WORKER_LOG"
  <2>1. raw = IF finder.known /\ past THEN Drop(finder, {log.workerId}) ELSE finder
    BY <1>7 DEF reachedLowerBound, OfWorker, past, raw
  <2>2. AliveAt(S, p + 1) = AliveAt(S, p) /\ AuthorOf(log) = log.workerId
    BY <1>3, <1>7 DEF Quiet, AuthorOf
  <2>3. CASE finder.known /\ past
    <3>1. /\ raw \in Finders /\ raw.known /\ raw.all = finder.all
          /\ raw.pending = finder.pending \ {log.workerId} /\ (raw.reached => raw.pending = {})
      BY <1>0, <2>1, <2>3, DropDrops
    <3>2. KnowsAt(S, p, raw)
      BY <1>6, <2>2, <2>3, <3>1 DEF KnowsAt
    <3>3. \A a \in raw.all \ raw.pending : OldBefore(S, p, a, bound)
      BY <1>2, <1>6, <2>2, <2>3, <3>1
    <3> QED BY <1>s, <3>1, <3>2, <3>3
  <2>4. CASE ~ (finder.known /\ past)
    <3>1. raw = finder
      BY <2>1, <2>4
    <3>2. KnowsAt(S, p, finder)
      BY <1>0, <2>2 DEF KnowsAt
    <3> QED BY <1>0, <1>s, <1>6, <3>1, <3>2
  <2> QED BY <2>3, <2>4
<1>8. CASE log.event = "STARTING_UP"
  <2>1. raw = [Unknown EXCEPT !.reached = past, !.read = finder.read]
    BY <1>8 DEF reachedLowerBound, OfWorker, past, raw
  <2>2. raw \in Finders /\ ~ raw.known /\ (raw.reached <=> past)
    BY <1>0, <1>5, <2>1 DEF Finders, Unknown
  <2>3. KnowsAt(S, p, raw)
    BY <2>2 DEF KnowsAt
  <2> QED BY <1>s, <1>8, <2>2, <2>3
<1>9. CASE log.event = "MASTER_PING" /\ ~ finder.known
  <2>1. raw = Learn(finder, log, past)
    BY <1>9 DEF reachedLowerBound, OfWorker, past, raw
  <2>2. /\ raw \in Finders /\ raw.known /\ raw.all = log.workerIds \cup {NoWorker}
        /\ raw.pending = (IF past THEN log.workerIds ELSE raw.all)
        /\ raw.reached <=> past /\ log.workerIds = {}
    BY <1>0, <1>5, <2>1, LearnLearns
  <2>3. KnowsAt(S, p, raw)
    BY <1>4, <1>9, <2>2 DEF KnowsAt
  <2>4. AuthorOf(log) = NoWorker
    BY <1>9 DEF AuthorOf
  <2>5. \A a \in raw.all \ raw.pending : OldBefore(S, p, a, bound)
    BY <1>2, <2>2, <2>4
  <2> QED BY <1>s, <2>2, <2>3, <2>5
<1>10. CASE log.event = "WORKER_EXITED" /\ finder.known
  <2>1. raw = IF past THEN [Drop(finder, {NoWorker}) EXCEPT !.all = @ \cup {log.workerId}]
              ELSE [finder EXCEPT !.all = @ \cup {log.workerId}, !.pending = @ \cup {log.workerId}]
    BY <1>10 DEF reachedLowerBound, OfWorker, past, raw
  <2>2. /\ raw \in Finders /\ raw.known /\ raw.all = finder.all \cup {log.workerId}
        /\ past => raw.pending = finder.pending \ {NoWorker}
        /\ ~ past => raw.pending = finder.pending \cup {log.workerId}
        /\ raw.reached => raw.pending = {}
    <3>0. finder.all \cup {log.workerId} \subseteq Everyone
      BY <1>0 DEF Finders
    <3>1. CASE past
      <4> DEFINE d == Drop(finder, {NoWorker})
      <4>1. /\ d \in Finders /\ d.known = finder.known /\ d.all = finder.all
            /\ d.pending = finder.pending \ {NoWorker} /\ (d.reached <=> d.pending = {})
        BY <1>0, DropDrops
      <4>2. raw = [d EXCEPT !.all = finder.all \cup {log.workerId}]
        BY <2>1, <3>1, <4>1
      <4> HIDE DEF d
      <4>3. /\ raw \in Finders /\ raw.known = d.known /\ raw.all = finder.all \cup {log.workerId}
            /\ raw.pending = d.pending /\ raw.reached = d.reached
        <5> DEFINE more == finder.all \cup {log.workerId}
        <5>1. more \subseteq Everyone /\ raw = [d EXCEPT !.all = more]
          BY <3>0, <4>2
        <5>2. raw.all = more
          <6> HIDE DEF more
          <6> QED BY <4>1, <5>1, AllChanges
        <5>3. raw \in Finders /\ raw.known = d.known /\ raw.pending = d.pending /\ raw.reached = d.reached
          <6> HIDE DEF more
          <6> QED BY <4>1, <5>1, AllChanges
        <5> QED BY <5>2, <5>3
      <4> QED BY <1>10, <3>1, <4>1, <4>3
    <3>2. CASE ~ past
      <4>1. raw = [finder EXCEPT !.all = @ \cup {log.workerId}, !.pending = @ \cup {log.workerId}]
        BY <2>1, <3>2
      <4>2. ~ raw.reached
        BY <1>0, <4>1 DEF Finders
      <4>3. raw \in Finders /\ raw.known /\ raw.all = finder.all \cup {log.workerId}
            /\ raw.pending = finder.pending \cup {log.workerId}
        BY <1>0, <1>10, <4>1 DEF Finders
      <4> QED BY <3>2, <4>2, <4>3
    <3> QED BY <3>1, <3>2
  <2>3. KnowsAt(S, p, raw)
    BY <1>3, <1>4, <1>6, <1>10, <2>2 DEF KnowsAt
  <2>4. AuthorOf(log) = NoWorker /\ Kills(log, log.workerId)
    BY <1>10 DEF AuthorOf, Kills
  <2>5. \A a \in raw.all \ raw.pending : OldBefore(S, p, a, bound)
    BY <1>2, <1>6, <1>10, <2>2, <2>4
  <2> QED BY <1>s, <2>2, <2>3, <2>5
<1>11. CASE log.event = "WORKER_SPAWNED" /\ finder.known
  <2>1. raw = [Drop(finder, (IF past THEN {NoWorker} ELSE {}) \cup {log.workerId})
                 EXCEPT !.all = @ \ {log.workerId}]
    BY <1>11 DEF reachedLowerBound, OfWorker, past, raw
  <2>2. /\ raw \in Finders /\ raw.known /\ raw.all = finder.all \ {log.workerId}
        /\ past => raw.pending = finder.pending \ {NoWorker, log.workerId}
        /\ ~ past => raw.pending = finder.pending \ {log.workerId}
        /\ raw.reached => raw.pending = {}
    <3> DEFINE ids == (IF past THEN {NoWorker} ELSE {}) \cup {log.workerId}
               d == Drop(finder, ids)
    <3>1. finder.all \ {log.workerId} \subseteq Everyone
      BY <1>0 DEF Finders
    <3>2. /\ d \in Finders /\ d.known = finder.known /\ d.all = finder.all
          /\ d.pending = finder.pending \ ids /\ (d.reached <=> d.pending = {})
      BY <1>0, DropDrops
    <3>3. raw = [d EXCEPT !.all = finder.all \ {log.workerId}]
      BY <2>1, <3>2
    <3>4. /\ past => ids = {NoWorker, log.workerId}
          /\ ~ past => ids = {log.workerId}
      OBVIOUS
    <3> HIDE DEF ids, d
    <3>5. /\ raw \in Finders /\ raw.known = d.known /\ raw.all = finder.all \ {log.workerId}
          /\ raw.pending = d.pending /\ raw.reached = d.reached
      <4> DEFINE rest == finder.all \ {log.workerId}
      <4>1. rest \subseteq Everyone /\ raw = [d EXCEPT !.all = rest]
        BY <3>1, <3>3
      <4>2. raw.all = rest
        <5> HIDE DEF rest
        <5> QED BY <3>2, <4>1, AllChanges
      <4>3. raw \in Finders /\ raw.known = d.known /\ raw.pending = d.pending /\ raw.reached = d.reached
        <5> HIDE DEF rest
        <5> QED BY <3>2, <4>1, AllChanges
      <4> QED BY <4>2, <4>3
    <3> QED BY <1>11, <3>2, <3>4, <3>5
  <2>3. KnowsAt(S, p, raw)
    BY <1>3, <1>4, <1>6, <1>11, <2>2 DEF KnowsAt
  <2>4. AuthorOf(log) = NoWorker
    BY <1>11 DEF AuthorOf
  <2>5. \A a \in raw.all \ raw.pending : OldBefore(S, p, a, bound)
    BY <1>2, <1>6, <1>11, <2>2, <2>4
  <2> QED BY <1>s, <2>2, <2>3, <2>5
<1>12. CASE \/ log.event = "MASTER_LOG"
            \/ log.event = "MASTER_PING" /\ finder.known
            \/ ~ finder.known /\ log.event \in {"WORKER_SPAWNED", "WORKER_EXITED"}
  <2>1. raw = IF finder.known /\ past THEN Drop(finder, {NoWorker}) ELSE finder
    BY <1>12 DEF reachedLowerBound, OfWorker, past, raw
  <2>2. /\ raw \in Finders /\ (raw.known <=> finder.known) /\ raw.all = finder.all
        /\ raw.pending = (IF finder.known /\ past THEN finder.pending \ {NoWorker} ELSE finder.pending)
        /\ raw.reached => raw.known /\ raw.pending = {}
    <3>1. CASE finder.known /\ past
      BY <1>0, <2>1, <3>1, DropDrops
    <3>2. CASE ~ (finder.known /\ past)
      BY <1>0, <2>1, <3>2
    <3> QED BY <3>1, <3>2
  <2>3. KnowsAt(S, p, raw)
    <3>1. raw.known => AliveAt(S, p + 1) = AliveAt(S, p)
      BY <1>3, <1>12, <2>2 DEF Quiet
    <3> QED BY <1>6, <2>2, <3>1 DEF KnowsAt
  <2>4. AuthorOf(log) = NoWorker
    BY <1>12 DEF AuthorOf
  <2>5. raw.known => \A a \in raw.all \ raw.pending : OldBefore(S, p, a, bound)
    BY <1>2, <1>6, <2>2, <2>4
  <2> QED BY <1>s, <2>2, <2>3, <2>5
<1> QED BY <1>0, <1>7, <1>8, <1>9, <1>10, <1>11, <1>12 DEF Events

-----------------------------------------------------------------------------
\* Finders stay finders, and do not change what the scan counts.
LEMMA FindersStay ==
  ASSUME NEW finder \in Finders, NEW log \in Record, NEW bound \in Int
  PROVE  /\ reachedUpperBound(finder, log, bound) \in Finders
         /\ reachedUpperBound(finder, log, bound).read = finder.read
         /\ reachedLowerBound(finder, log, bound) \in Finders
         /\ reachedLowerBound(finder, log, bound).read = finder.read
<1> DEFINE upper == reachedUpperBound(finder, log, bound)
           lower == reachedLowerBound(finder, log, bound)
           young == log.timestamp > bound
           old == log.timestamp < bound
<1>0. /\ log.workerId \in Everyone /\ log.workerIds \subseteq Everyone /\ NoWorker \in Everyone
      /\ young \in BOOLEAN /\ old \in BOOLEAN
  BY DEF Record, Everyone
<1> HIDE DEF young, old
<1>d. ASSUME NEW ids PROVE Drop(finder, ids) \in Finders /\ Drop(finder, ids).read = finder.read
  BY DropDrops
<1>1. CASE log.event = "WORKER_LOG"
  BY <1>1, <1>d DEF reachedUpperBound, reachedLowerBound, OfWorker
<1>2. CASE log.event = "STARTING_UP"
  <2>1. upper = [finder EXCEPT !.known = TRUE, !.all = {NoWorker}, !.pending = {NoWorker},
                               !.reached = young]
    BY <1>2 DEF reachedUpperBound, OfWorker, young
  <2>2. lower = [Unknown EXCEPT !.reached = old, !.read = finder.read]
    BY <1>2 DEF reachedLowerBound, OfWorker, old
  <2> HIDE DEF upper, lower
  <2>3. upper \in Finders /\ upper.read = finder.read
    BY <1>0, <2>1 DEF Finders
  <2>4. lower \in Finders /\ lower.read = finder.read
    BY <1>0, <2>2 DEF Finders, Unknown
  <2> QED BY <2>3, <2>4 DEF upper, lower
<1>3. CASE log.event = "MASTER_PING"
  <2>1. ASSUME NEW past \in BOOLEAN
        PROVE  Learn(finder, log, past) \in Finders /\ Learn(finder, log, past).read = finder.read
    <3>1. Learn(finder, log, past).read = finder.read
      BY DEF Learn, Finders
    <3> QED BY <3>1, LearnLearns
  <2>2. upper = IF ~ finder.known THEN Learn(finder, log, young)
                ELSE IF young THEN Drop(finder, {NoWorker}) ELSE finder
    BY <1>3 DEF reachedUpperBound, OfWorker, young
  <2>3. lower = IF ~ finder.known THEN Learn(finder, log, old)
                ELSE IF old THEN Drop(finder, {NoWorker}) ELSE finder
    BY <1>3 DEF reachedLowerBound, OfWorker, old
  <2> HIDE DEF upper, lower
  <2>4. upper \in Finders /\ upper.read = finder.read
    BY <1>0, <1>d, <2>1, <2>2
  <2>5. lower \in Finders /\ lower.read = finder.read
    BY <1>0, <1>d, <2>1, <2>3
  <2> QED BY <2>4, <2>5 DEF upper, lower
<1>4. ASSUME NEW d \in Finders, d.read = finder.read
      PROVE  /\ [d EXCEPT !.all = @ \cup {log.workerId}] \in Finders
             /\ [d EXCEPT !.all = @ \cup {log.workerId}].read = finder.read
             /\ [d EXCEPT !.all = @ \ {log.workerId}] \in Finders
             /\ [d EXCEPT !.all = @ \ {log.workerId}].read = finder.read
  BY <1>0, <1>4 DEF Finders
<1>8. ASSUME NEW past \in BOOLEAN, NEW come,
             come = IF past THEN [Drop(finder, {NoWorker}) EXCEPT !.all = @ \cup {log.workerId}]
                    ELSE [finder EXCEPT !.all = @ \cup {log.workerId}, !.pending = @ \cup {log.workerId}]
      PROVE  come \in Finders /\ come.read = finder.read
  <2>1. /\ [finder EXCEPT !.all = @ \cup {log.workerId}, !.pending = @ \cup {log.workerId}] \in Finders
        /\ [finder EXCEPT !.all = @ \cup {log.workerId}, !.pending = @ \cup {log.workerId}].read = finder.read
    BY <1>0 DEF Finders
  <2> QED BY <1>d, <1>4, <1>8, <2>1
<1>9. ASSUME NEW ids, NEW go, go = [Drop(finder, ids) EXCEPT !.all = @ \ {log.workerId}]
      PROVE  go \in Finders /\ go.read = finder.read
  <2> DEFINE d == Drop(finder, ids)
  <2>1. d \in Finders /\ d.read = finder.read /\ go = [d EXCEPT !.all = @ \ {log.workerId}]
    BY <1>d, <1>9
  <2> HIDE DEF d
  <2> QED BY <1>4, <2>1
<1>5. CASE log.event = "WORKER_SPAWNED"
  <2>1. upper = IF finder.known
                THEN IF young THEN [Drop(finder, {NoWorker}) EXCEPT !.all = @ \cup {log.workerId}]
                     ELSE [finder EXCEPT !.all = @ \cup {log.workerId}, !.pending = @ \cup {log.workerId}]
                ELSE finder
    BY <1>5 DEF reachedUpperBound, OfWorker, young
  <2>2. lower = IF finder.known
                THEN [Drop(finder, (IF old THEN {NoWorker} ELSE {}) \cup {log.workerId})
                        EXCEPT !.all = @ \ {log.workerId}]
                ELSE finder
    BY <1>5 DEF reachedLowerBound, OfWorker, old
  <2> HIDE DEF upper, lower
  <2>3. upper \in Finders /\ upper.read = finder.read
    BY <1>0, <1>8, <2>1
  <2>4. lower \in Finders /\ lower.read = finder.read
    <3> DEFINE ids == (IF old THEN {NoWorker} ELSE {}) \cup {log.workerId}
    <3>1. CASE finder.known
      <4>1. lower = [Drop(finder, ids) EXCEPT !.all = @ \ {log.workerId}]
        BY <2>2, <3>1
      <4> HIDE DEF ids
      <4> QED BY <1>9, <4>1
    <3>2. CASE ~ finder.known
      BY <2>2, <3>2
    <3> QED BY <3>1, <3>2
  <2> QED BY <2>3, <2>4 DEF upper, lower
<1>6. CASE log.event = "WORKER_EXITED"
  <2>1. lower = IF finder.known
                THEN IF old THEN [Drop(finder, {NoWorker}) EXCEPT !.all = @ \cup {log.workerId}]
                     ELSE [finder EXCEPT !.all = @ \cup {log.workerId}, !.pending = @ \cup {log.workerId}]
                ELSE finder
    BY <1>6 DEF reachedLowerBound, OfWorker, old
  <2>2. upper = IF finder.known
                THEN [Drop(finder, (IF young THEN {NoWorker} ELSE {}) \cup {log.workerId})
                        EXCEPT !.all = @ \ {log.workerId}]
                ELSE finder
    BY <1>6 DEF reachedUpperBound, OfWorker, young
  <2> HIDE DEF upper, lower
  <2>3. upper \in Finders /\ upper.read = finder.read
    <3> DEFINE ids == (IF young THEN {NoWorker} ELSE {}) \cup {log.workerId}
    <3>1. CASE finder.known
      <4>1. upper = [Drop(finder, ids) EXCEPT !.all = @ \ {log.workerId}]
        BY <2>2, <3>1
      <4> HIDE DEF ids
      <4> QED BY <1>9, <4>1
    <3>2. CASE ~ finder.known
      BY <2>2, <3>2
    <3> QED BY <3>1, <3>2
  <2>4. lower \in Finders /\ lower.read = finder.read
    BY <1>0, <1>8, <2>1
  <2> QED BY <2>3, <2>4 DEF upper, lower
<1>7. CASE log.event = "MASTER_LOG"
  BY <1>7, <1>d DEF reachedUpperBound, reachedLowerBound, OfWorker
<1> QED BY <1>1, <1>2, <1>3, <1>5, <1>6, <1>7 DEF Record, Events

(* The scans.                                                               *)

\* What one more record makes of the finder.
Upward(f, log, bound) ==
  IF f.reached THEN f ELSE [reachedUpperBound(f, log, bound) EXCEPT !.read = @ + 1]

Downward(f, log, bound) ==
  IF f.reached THEN f ELSE [reachedLowerBound(f, log, bound) EXCEPT !.read = @ + 1]

\* g is the finder after each record of a scan from p.
IsForward(S, p, bound, finder, g) ==
  g = [n \in p - 1 .. Len(S) |-> IF n < p THEN finder ELSE Upward(g[n - 1], S[n], bound)]

IsBackward(S, p, bound, finder, g) ==
  g = [n \in 1 .. p |-> IF n = p THEN finder ELSE Downward(g[n + 1], S[n], bound)]

LEMMA ScansUnfold ==
  ASSUME NEW S, NEW p, NEW bound, NEW finder
  PROVE  /\ ForwardTo(S, p, bound, finder) = (CHOOSE g : IsForward(S, p, bound, finder, g))[Len(S)]
         /\ BackwardTo(S, p, bound, finder) = (CHOOSE g : IsBackward(S, p, bound, finder, g))[1]
<1>1. ForwardTo(S, p, bound, finder) = (CHOOSE g : IsForward(S, p, bound, finder, g))[Len(S)]
  BY Zenon DEF ForwardTo, IsForward, Upward
<1>2. BackwardTo(S, p, bound, finder) = (CHOOSE g : IsBackward(S, p, bound, finder, g))[1]
  BY Zenon DEF BackwardTo, IsBackward, Downward
<1> QED BY <1>1, <1>2

LEMMA StepsStay ==
  ASSUME NEW f \in Finders, NEW log \in Record, NEW bound \in Int
  PROVE  /\ Upward(f, log, bound) \in Finders /\ Downward(f, log, bound) \in Finders
         /\ ~ f.reached => /\ Upward(f, log, bound).read = f.read + 1
                           /\ Downward(f, log, bound).read = f.read + 1
<1> DEFINE u == reachedUpperBound(f, log, bound)
           d == reachedLowerBound(f, log, bound)
<1>1. u \in Finders /\ d \in Finders /\ u.read = f.read /\ d.read = f.read
  BY FindersStay
<1>2. Upward(f, log, bound) = IF f.reached THEN f ELSE [u EXCEPT !.read = @ + 1]
  BY DEF Upward
<1>3. Downward(f, log, bound) = IF f.reached THEN f ELSE [d EXCEPT !.read = @ + 1]
  BY DEF Downward
<1> HIDE DEF u, d
<1> QED BY <1>1, <1>2, <1>3 DEF Finders

LEMMA UpwardKeeps ==
  ASSUME NEW S, Sound(S), NEW p \in DOMAIN S, NEW bound \in Int,
         NEW f, ForwardInv(S, p, f, bound), ~ f.reached
  PROVE  ForwardInv(S, p + 1, Upward(f, S[p], bound), bound)
BY ForwardStep DEF Upward

LEMMA DownwardKeeps ==
  ASSUME NEW S, Sound(S), NEW p \in DOMAIN S, NEW bound \in Int,
         NEW f, BackwardInv(S, p + 1, f, bound), ~ f.reached
  PROVE  BackwardInv(S, p, Downward(f, S[p], bound), bound)
BY BackwardStep DEF Downward

LEMMA ForwardExists ==
  ASSUME NEW S, Sound(S), NEW p \in 1 .. Len(S) + 1, NEW bound \in Int, NEW finder \in Finders
  PROVE  \E g : IsForward(S, p, bound, finder, g)
<1> DEFINE b == Len(S) - p + 1
           step == [k \in 1 .. b |-> [f \in Finders |-> Upward(f, S[p - 1 + k], bound)]]
<1>0. DOMAIN S = 1 .. Len(S) /\ Len(S) \in Nat /\ p \in Nat /\ p >= 1 /\ b \in Nat
  BY DEF Sound
<1>1. ASSUME NEW k \in 1 .. b, NEW f \in Finders PROVE Upward(f, S[p - 1 + k], bound) \in Finders
  <2>1. S[p - 1 + k] \in Record
    <3>1. p - 1 + k \in DOMAIN S
      BY <1>0
    <3> QED BY <3>1 DEF Sound
  <2> QED BY <2>1, StepsStay
<1>2. StepsOf(Finders, b, step)
  BY <1>1 DEF StepsOf
<1>3. PICK h : IsChain(Finders, finder, b, step, h)
  <2> HIDE DEF step, b
  <2>1. b \in Nat
    BY <1>0 DEF b
  <2> QED BY <1>2, <2>1, ChainExists
<1>4. ASSUME NEW k \in 1 .. b PROVE h[k] = Upward(h[k - 1], S[p - 1 + k], bound)
  <2>1. h[k - 1] \in Finders
    BY <1>0, <1>3 DEF IsChain
  <2> QED BY <1>3, <1>4, <2>1 DEF IsChain
<1> DEFINE g == [n \in p - 1 .. Len(S) |-> h[n - p + 1]]
<1>5. ASSUME NEW n \in p - 1 .. Len(S)
      PROVE  g[n] = IF n < p THEN finder ELSE Upward(g[n - 1], S[n], bound)
  <2>1. CASE n < p
    <3>1. n - p + 1 = 0
      BY <1>0, <2>1
    <3> QED BY <1>3, <2>1, <3>1 DEF IsChain
  <2>2. CASE ~ (n < p)
    <3>1. n - p + 1 \in 1 .. b /\ n - 1 \in p - 1 .. Len(S) /\ p - 1 + (n - p + 1) = n
          /\ (n - p + 1) - 1 = (n - 1) - p + 1
      BY <1>0, <2>2
    <3>2. h[n - p + 1] = Upward(h[(n - p + 1) - 1], S[p - 1 + (n - p + 1)], bound)
      BY <1>4, <3>1
    <3> HIDE DEF b, step
    <3> QED BY <2>2, <3>1, <3>2
  <2> QED BY <2>1, <2>2
<1>6. IsForward(S, p, bound, finder, g)
  <2>1. g = [n \in p - 1 .. Len(S) |-> g[n]]
    OBVIOUS
  <2> HIDE DEF g
  <2> QED BY <1>5, <2>1 DEF IsForward
<1> QED BY <1>6

\* A scan ends where it has read to, past the bound or at the end.
LEMMA ForwardResult ==
  ASSUME NEW S, Sound(S), NEW p \in 1 .. Len(S) + 1, NEW bound \in Int, NEW finder,
         ForwardInv(S, p, finder, bound), ~ finder.reached, finder.read = 0
  PROVE  LET upper == ForwardTo(S, p, bound, finder) IN
           /\ upper.read \in 0 .. Len(S) - p + 1
           /\ ForwardInv(S, p + upper.read, upper, bound)
           /\ upper.reached \/ p + upper.read = Len(S) + 1
<1> DEFINE g == CHOOSE h : IsForward(S, p, bound, finder, h)
<1>0. DOMAIN S = 1 .. Len(S) /\ Len(S) \in Nat /\ p \in Nat /\ p >= 1 /\ p <= Len(S) + 1 /\ finder \in Finders
  BY DEF Sound, ForwardInv
<1>1. IsForward(S, p, bound, finder, g)
  BY <1>0, ForwardExists
<1>2. ForwardTo(S, p, bound, finder) = g[Len(S)]
  BY ScansUnfold
<1> HIDE DEF g
<1>3. ASSUME NEW n \in p - 1 .. Len(S)
      PROVE  g[n] = IF n < p THEN finder ELSE Upward(g[n - 1], S[n], bound)
  BY <1>1 DEF IsForward
<1> DEFINE Good(n) == /\ g[n].read \in 0 .. n - p + 1
                      /\ ForwardInv(S, p + g[n].read, g[n], bound)
                      /\ g[n].reached \/ p + g[n].read = n + 1
           T == {k \in 0 .. Len(S) - p + 1 : ~ Good(p - 1 + k)}
<1>4. ASSUME T # {} PROVE FALSE
  <2>1. PICK k \in T : \A l \in T : k <= l
    <3>1. T \subseteq Nat
      BY <1>0
    <3> HIDE DEF T
    <3> QED BY <1>4, <3>1, LeastNumber
  <2>2. k \in 0 .. Len(S) - p + 1 /\ ~ Good(p - 1 + k) /\ k \in Nat
    BY <1>0
  <2>3. CASE k = 0
    <3>1. g[p - 1] = finder
      <4>1. p - 1 \in p - 1 .. Len(S) /\ p - 1 < p
        BY <1>0
      <4> QED BY <1>3, <4>1
    <3>2. p - 1 + k = p - 1 /\ p + 0 = p /\ (p - 1) - p + 1 = 0 /\ (p - 1) + 1 = p
      BY <1>0, <2>3
    <3> QED BY <2>2, <3>1, <3>2
  <2>4. CASE k # 0
    <3> DEFINE n == p - 1 + k
               f == g[n - 1]
    <3>1. k - 1 \in 0 .. Len(S) - p + 1 /\ ~ (k <= k - 1) /\ p - 1 + (k - 1) = n - 1
      BY <1>0, <2>2, <2>4
    <3>2. Good(n - 1)
      <4>1. k - 1 \notin T
        <5> HIDE DEF T
        <5> QED BY <2>1, <3>1
      <4> QED BY <3>1, <4>1
    <3>3. n \in DOMAIN S /\ g[n] = Upward(f, S[n], bound) /\ n \in Nat
      <4>1. n \in p - 1 .. Len(S) /\ ~ (n < p) /\ n \in DOMAIN S /\ n \in Nat
        BY <1>0, <2>2, <2>4
      <4> QED BY <1>3, <4>1
    <3>4. S[n] \in Record
      BY <3>3 DEF Sound
    <3>5. f \in Finders
      BY <3>2 DEF ForwardInv
    <3>a. f.read \in 0 .. (n - 1) - p + 1 /\ ForwardInv(S, p + f.read, f, bound)
          /\ (f.reached \/ p + f.read = (n - 1) + 1)
      BY <3>2
    <3> HIDE DEF f, n
    <3>6. CASE f.reached
      <4>1. g[n] = f
        BY <3>3, <3>6 DEF Upward
      <4>2. f.read \in 0 .. n - p + 1
        BY <1>0, <3>3, <3>a
      <4>3. Good(n)
        BY <3>a, <3>6, <4>1, <4>2
      <4> QED BY <2>2, <4>3 DEF n
    <3>7. CASE ~ f.reached
      <4>1. p + f.read = n /\ f.read \in Nat
        BY <1>0, <3>3, <3>a, <3>7
      <4>3. ForwardInv(S, n + 1, g[n], bound)
        <5>1. ForwardInv(S, n, f, bound)
          BY <3>a, <4>1
        <5> QED BY <3>3, <3>7, <5>1, UpwardKeeps
      <4>4. g[n].read = f.read + 1
        BY <3>3, <3>4, <3>5, <3>7, StepsStay
      <4>5. p + g[n].read = n + 1 /\ g[n].read \in 0 .. n - p + 1
        BY <1>0, <3>3, <4>1, <4>4
      <4>6. Good(n)
        BY <4>3, <4>5
      <4> QED BY <2>2, <4>6 DEF n
    <3> QED BY <3>6, <3>7
  <2> QED BY <2>3, <2>4
<1>5. Good(Len(S))
  <2>1. Len(S) - p + 1 \in 0 .. Len(S) - p + 1 /\ p - 1 + (Len(S) - p + 1) = Len(S)
    BY <1>0
  <2> QED BY <1>4, <2>1
<1> QED BY <1>0, <1>2, <1>5

LEMMA BackwardExists ==
  ASSUME NEW S, Sound(S), NEW p \in 1 .. Len(S) + 1, NEW bound \in Int, NEW finder \in Finders
  PROVE  \E g : IsBackward(S, p, bound, finder, g)
<1> DEFINE b == p - 1
           step == [k \in 1 .. b |-> [f \in Finders |-> Downward(f, S[p - k], bound)]]
<1>0. DOMAIN S = 1 .. Len(S) /\ Len(S) \in Nat /\ p \in Nat /\ p >= 1 /\ p <= Len(S) + 1 /\ b \in Nat
  BY DEF Sound
<1>1. ASSUME NEW k \in 1 .. b, NEW f \in Finders PROVE Downward(f, S[p - k], bound) \in Finders
  <2>1. S[p - k] \in Record
    <3>1. p - k \in DOMAIN S
      BY <1>0
    <3> QED BY <3>1 DEF Sound
  <2> QED BY <2>1, StepsStay
<1>2. StepsOf(Finders, b, step)
  BY <1>1 DEF StepsOf
<1>3. PICK h : IsChain(Finders, finder, b, step, h)
  <2> HIDE DEF step, b
  <2>1. b \in Nat
    BY <1>0 DEF b
  <2> QED BY <1>2, <2>1, ChainExists
<1>4. ASSUME NEW k \in 1 .. b PROVE h[k] = Downward(h[k - 1], S[p - k], bound)
  <2>1. h[k - 1] \in Finders
    BY <1>0, <1>3 DEF IsChain
  <2> QED BY <1>3, <1>4, <2>1 DEF IsChain
<1> DEFINE g == [n \in 1 .. p |-> h[p - n]]
<1>5. ASSUME NEW n \in 1 .. p
      PROVE  g[n] = IF n = p THEN finder ELSE Downward(g[n + 1], S[n], bound)
  <2>1. CASE n = p
    <3>1. p - n = 0
      BY <1>0, <2>1
    <3> QED BY <1>3, <2>1, <3>1 DEF IsChain
  <2>2. CASE n # p
    <3>1. p - n \in 1 .. b /\ n + 1 \in 1 .. p /\ p - (p - n) = n /\ (p - n) - 1 = p - (n + 1)
      BY <1>0, <2>2
    <3>2. h[p - n] = Downward(h[(p - n) - 1], S[p - (p - n)], bound)
      BY <1>4, <3>1
    <3> HIDE DEF b, step
    <3> QED BY <2>2, <3>1, <3>2
  <2> QED BY <2>1, <2>2
<1>6. IsBackward(S, p, bound, finder, g)
  <2>1. g = [n \in 1 .. p |-> g[n]]
    OBVIOUS
  <2> HIDE DEF g
  <2> QED BY <1>5, <2>1 DEF IsBackward
<1> QED BY <1>6

LEMMA BackwardResult ==
  ASSUME NEW S, Sound(S), NEW p \in 1 .. Len(S) + 1, NEW bound \in Int, NEW finder,
         BackwardInv(S, p, finder, bound), ~ finder.reached, finder.read = 0
  PROVE  LET lower == BackwardTo(S, p, bound, finder) IN
           /\ lower.read \in 0 .. p - 1
           /\ BackwardInv(S, p - lower.read, lower, bound)
           /\ lower.reached \/ p - lower.read = 1
<1> DEFINE g == CHOOSE h : IsBackward(S, p, bound, finder, h)
<1>0. DOMAIN S = 1 .. Len(S) /\ Len(S) \in Nat /\ p \in Nat /\ p >= 1 /\ p <= Len(S) + 1 /\ finder \in Finders
  BY DEF Sound, BackwardInv
<1>1. IsBackward(S, p, bound, finder, g)
  BY <1>0, BackwardExists
<1>2. BackwardTo(S, p, bound, finder) = g[1]
  BY ScansUnfold
<1> HIDE DEF g
<1>3. ASSUME NEW n \in 1 .. p
      PROVE  g[n] = IF n = p THEN finder ELSE Downward(g[n + 1], S[n], bound)
  BY <1>1 DEF IsBackward
<1> DEFINE Good(n) == /\ g[n].read \in 0 .. p - n
                      /\ BackwardInv(S, p - g[n].read, g[n], bound)
                      /\ g[n].reached \/ p - g[n].read = n
           T == {k \in 0 .. p - 1 : ~ Good(p - k)}
<1>4. ASSUME T # {} PROVE FALSE
  <2>1. PICK k \in T : \A l \in T : k <= l
    <3>1. T \subseteq Nat
      BY <1>0
    <3> HIDE DEF T
    <3> QED BY <1>4, <3>1, LeastNumber
  <2>2. k \in 0 .. p - 1 /\ ~ Good(p - k) /\ k \in Nat
    BY <1>0
  <2>3. CASE k = 0
    <3>1. g[p] = finder
      BY <1>0, <1>3
    <3>2. p - k = p /\ p - 0 = p /\ p - p = 0
      BY <1>0, <2>3
    <3> QED BY <2>2, <3>1, <3>2
  <2>4. CASE k # 0
    <3> DEFINE n == p - k
               f == g[n + 1]
    <3>1. k - 1 \in 0 .. p - 1 /\ ~ (k <= k - 1) /\ p - (k - 1) = n + 1
      BY <1>0, <2>2, <2>4
    <3>2. Good(n + 1)
      <4>1. k - 1 \notin T
        <5> HIDE DEF T
        <5> QED BY <2>1, <3>1
      <4> QED BY <3>1, <4>1
    <3>3. n \in DOMAIN S /\ g[n] = Downward(f, S[n], bound) /\ n \in Nat
      <4>1. n \in 1 .. p /\ n # p /\ n \in DOMAIN S /\ n \in Nat
        BY <1>0, <2>2, <2>4
      <4> QED BY <1>3, <4>1
    <3>4. S[n] \in Record
      BY <3>3 DEF Sound
    <3>5. f \in Finders
      BY <3>2 DEF BackwardInv
    <3>a. f.read \in 0 .. p - (n + 1) /\ BackwardInv(S, p - f.read, f, bound)
          /\ (f.reached \/ p - f.read = n + 1)
      BY <3>2
    <3> HIDE DEF f, n
    <3>6. CASE f.reached
      <4>1. g[n] = f
        BY <3>3, <3>6 DEF Downward
      <4>2. f.read \in 0 .. p - n
        BY <1>0, <3>3, <3>a
      <4>3. Good(n)
        BY <3>a, <3>6, <4>1, <4>2
      <4> QED BY <2>2, <4>3 DEF n
    <3>7. CASE ~ f.reached
      <4>1. p - f.read = n + 1 /\ f.read \in Nat
        BY <1>0, <3>3, <3>a, <3>7
      <4>3. BackwardInv(S, n, g[n], bound)
        <5>1. BackwardInv(S, n + 1, f, bound)
          BY <3>a, <4>1
        <5> QED BY <3>3, <3>7, <5>1, DownwardKeeps
      <4>4. g[n].read = f.read + 1
        BY <3>3, <3>4, <3>5, <3>7, StepsStay
      <4>5. p - g[n].read = n /\ g[n].read \in 0 .. p - n
        BY <1>0, <3>3, <4>1, <4>4
      <4>6. Good(n)
        BY <4>3, <4>5
      <4> QED BY <2>2, <4>6 DEF n
    <3> QED BY <3>6, <3>7
  <2> QED BY <2>3, <2>4
<1>5. Good(1)
  <2>1. p - 1 \in 0 .. p - 1 /\ p - (p - 1) = 1
    BY <1>0
  <2> QED BY <1>4, <2>1
<1> QED BY <1>0, <1>2, <1>5

-----------------------------------------------------------------------------
\* Where the ends are.
LEMMA FreshFinder ==
  ASSUME NEW S, NEW n, NEW bound
  PROVE  /\ ForwardInv(S, n, Unknown, bound) /\ BackwardInv(S, n, Unknown, bound)
         /\ ~ Unknown.reached /\ Unknown.read = 0
BY DEF ForwardInv, BackwardInv, KnowsAt, Unknown, Finders

LEMMA InheritedFinder ==
  ASSUME NEW S, NEW n, NEW bound, NEW finder \in Finders, KnowsAt(S, n, finder)
  PROVE  /\ ForwardInv(S, n, Inherit(finder), bound) /\ BackwardInv(S, n, Inherit(finder), bound)
         /\ ~ Inherit(finder).reached /\ Inherit(finder).read = 0
<1> DEFINE f == Inherit(finder)
<1>1. /\ f \in Finders /\ f.known = finder.known /\ f.all = finder.all /\ f.pending = finder.all
      /\ ~ f.reached /\ f.read = 0
  BY DEF Inherit, Unknown, Finders
<1> HIDE DEF f
<1>2. ForwardInv(S, n, f, bound) /\ BackwardInv(S, n, f, bound)
  BY <1>1 DEF ForwardInv, BackwardInv, KnowsAt
<1> QED BY <1>1, <1>2 DEF f

\* A backward scan ends where everything before is too old, a forward one where
\* everything after is too young.
LEMMA LowerEndIsLow ==
  ASSUME NEW S, Sound(S), NEW p \in 1 .. Len(S) + 1, NEW min \in Int, NEW bound,
         NEW lower, lower = LowerEnd(S, p, min)
  PROVE  /\ lower.at \in 1 .. p
         /\ \A j \in 1 .. lower.at - 1 : S[j].timestamp < min
         /\ ForwardInv(S, lower.at, lower.finder, bound)
         /\ ~ lower.finder.reached /\ lower.finder.read = 0
<1> DEFINE f == BackwardTo(S, p, min, Unknown)
<1>0. p \in Nat /\ p >= 1 /\ Len(S) \in Nat
  BY DEF Sound
<1>1. /\ f.read \in 0 .. p - 1 /\ BackwardInv(S, p - f.read, f, min)
      /\ f.reached \/ p - f.read = 1
  BY FreshFinder, BackwardResult
<1>2. lower.at = p - f.read /\ lower.finder = Inherit(f)
  BY DEF LowerEnd
<1> HIDE DEF f
<1>3. \A j \in 1 .. (p - f.read) - 1 : S[j].timestamp < min
  <2>1. CASE f.reached
    BY <1>1, <2>1 DEF BackwardInv
  <2>2. CASE p - f.read = 1
    BY <2>2
  <2> QED BY <1>1, <2>1, <2>2
<1>4. ForwardInv(S, p - f.read, Inherit(f), bound)
  BY <1>1, InheritedFinder DEF BackwardInv
<1>5. ~ Inherit(f).reached /\ Inherit(f).read = 0
  BY <1>1, InheritedFinder DEF BackwardInv
<1>6. p - f.read \in 1 .. p
  BY <1>0, <1>1
<1> QED BY <1>2, <1>3, <1>4, <1>5, <1>6

LEMMA UpperEndIsHigh ==
  ASSUME NEW S, Sound(S), NEW p \in 1 .. Len(S) + 1, NEW max \in Int, NEW bound,
         NEW upper, upper = UpperEnd(S, p, max)
  PROVE  /\ upper.at \in p .. Len(S) + 1
         /\ \A j \in upper.at .. Len(S) : S[j].timestamp > max
         /\ BackwardInv(S, upper.at, upper.finder, bound)
         /\ ~ upper.finder.reached /\ upper.finder.read = 0
<1> DEFINE f == ForwardTo(S, p, max, Unknown)
<1>0. p \in Nat /\ p >= 1 /\ Len(S) \in Nat /\ p <= Len(S) + 1
  BY DEF Sound
<1>1. /\ f.read \in 0 .. Len(S) - p + 1 /\ ForwardInv(S, p + f.read, f, max)
      /\ f.reached \/ p + f.read = Len(S) + 1
  BY FreshFinder, ForwardResult
<1>2. upper.at = p + f.read /\ upper.finder = Inherit(f)
  BY DEF UpperEnd
<1> HIDE DEF f
<1>3. \A j \in p + f.read .. Len(S) : S[j].timestamp > max
  <2>1. CASE f.reached
    BY <1>1, <2>1 DEF ForwardInv
  <2>2. CASE p + f.read = Len(S) + 1
    BY <1>0, <2>2
  <2> QED BY <1>1, <2>1, <2>2
<1>4. BackwardInv(S, p + f.read, Inherit(f), bound)
  BY <1>1, InheritedFinder DEF ForwardInv
<1>5. ~ Inherit(f).reached /\ Inherit(f).read = 0
  BY <1>1, InheritedFinder DEF ForwardInv
<1>6. p + f.read \in p .. Len(S) + 1
  BY <1>0, <1>1
<1> QED BY <1>2, <1>3, <1>4, <1>5, <1>6

(* What the records with some timestamps are.                               *)

\* g[n] is what Within keeps of the records up to n.
IsKept(S, first, last, times, g) ==
  g = [n \in first - 1 .. last |->
        IF n < first THEN <<>>
        ELSE IF S[n].timestamp \in times THEN Append(g[n - 1], S[n])
        ELSE g[n - 1]]

LEMMA KeptExists ==
  ASSUME NEW S \in Seq(Record), NEW first \in Nat, first >= 1, NEW last \in Nat,
         last <= Len(S), first - 1 <= last, NEW times
  PROVE  \E g : IsKept(S, first, last, times, g) /\ Within(S, first, last, times) = g[last]
<1> DEFINE b == last - first + 1
           keep(log, kept) == IF log.timestamp \in times THEN Append(kept, log) ELSE kept
           step == [k \in 1 .. b |-> [kept \in Seq(Record) |-> keep(S[first - 1 + k], kept)]]
<1>0. DOMAIN S = 1 .. Len(S) /\ Len(S) \in Nat /\ b \in Nat
  BY LenProperties
<1>1. ASSUME NEW k \in 1 .. b, NEW kept \in Seq(Record) PROVE keep(S[first - 1 + k], kept) \in Seq(Record)
  <2>1. S[first - 1 + k] \in Record
    <3>1. first - 1 + k \in DOMAIN S
      BY <1>0
    <3> QED BY <3>1, ElementOfSeq
  <2> QED BY <2>1, AppendProperties
<1>2. StepsOf(Seq(Record), b, step)
  BY <1>1 DEF StepsOf
<1>3. PICK h : IsChain(Seq(Record), <<>>, b, step, h)
  <2> HIDE DEF step, b
  <2>1. b \in Nat
    BY <1>0 DEF b
  <2>2. <<>> \in Seq(Record)
    OBVIOUS
  <2> QED BY <1>2, <2>1, <2>2, ChainExists
<1>4. ASSUME NEW k \in 1 .. b PROVE h[k] = keep(S[first - 1 + k], h[k - 1])
  <2>1. h[k - 1] \in Seq(Record)
    BY <1>0, <1>3 DEF IsChain
  <2> QED BY <1>3, <1>4, <2>1 DEF IsChain
<1> DEFINE g == [n \in first - 1 .. last |-> h[n - first + 1]]
<1>5. ASSUME NEW n \in first - 1 .. last
      PROVE  g[n] = IF n < first THEN <<>> ELSE keep(S[n], g[n - 1])
  <2>1. CASE n < first
    <3>1. n - first + 1 = 0
      BY <1>0, <2>1
    <3> QED BY <1>3, <2>1, <3>1 DEF IsChain
  <2>2. CASE ~ (n < first)
    <3>1. n - first + 1 \in 1 .. b /\ n - 1 \in first - 1 .. last /\ first - 1 + (n - first + 1) = n
          /\ (n - first + 1) - 1 = (n - 1) - first + 1
      BY <1>0, <2>2
    <3>2. h[n - first + 1] = keep(S[first - 1 + (n - first + 1)], h[(n - first + 1) - 1])
      BY <1>4, <3>1
    <3> HIDE DEF b, step
    <3> QED BY <2>2, <3>1, <3>2
  <2> QED BY <2>1, <2>2
<1>6. IsKept(S, first, last, times, g)
  <2>1. g = [n \in first - 1 .. last |-> g[n]]
    OBVIOUS
  <2> HIDE DEF g
  <2> QED BY <1>5, <2>1 DEF IsKept
<1>7. Within(S, first, last, times) = (CHOOSE f : IsKept(S, first, last, times, f))[last]
  BY Zenon DEF Within, IsKept
<1>8. IsKept(S, first, last, times, CHOOSE f : IsKept(S, first, last, times, f))
  BY <1>6
<1> QED BY <1>7, <1>8

LEMMA KeptStep ==
  ASSUME NEW S, NEW first \in Nat, NEW last \in Nat, NEW times, NEW g,
         IsKept(S, first, last, times, g), NEW n \in first - 1 .. last
  PROVE  g[n] = IF n < first THEN <<>>
                ELSE IF S[n].timestamp \in times THEN Append(g[n - 1], S[n])
                ELSE g[n - 1]
BY DEF IsKept

\* None of the records after x up to z has one of the timestamps.
NoneOf(S, x, z, T) == \A i \in x + 1 .. z : ~ (S[i].timestamp \in T)

\* The records from a to b have one of the timestamps in T where they have one in U.
SameTimes(S, a, b, T, U) ==
  \A j \in a .. b : S[j].timestamp \in T <=> S[j].timestamp \in U

\* The n records after x of one stream are those after y of the other.
SameRecords(S, x, T, R, y, U, n) ==
  \A i \in 1 .. n : /\ S[x + i] = R[y + i]
                    /\ S[x + i].timestamp \in T <=> R[y + i].timestamp \in U

\* Where two streams hold the same records, the same are kept.
LEMMA KeptAlike ==
  ASSUME NEW S, NEW R, NEW T, NEW U, NEW g, NEW h,
         NEW a \in Nat, NEW b \in Nat, NEW c \in Nat, NEW d \in Nat,
         IsKept(S, a, b, T, g), IsKept(R, c, d, U, h),
         NEW x \in Nat, x >= a - 1, NEW y \in Nat, y >= c - 1, NEW n \in Nat, x + n <= b, y + n <= d,
         g[x] = h[y],
         SameRecords(S, x, T, R, y, U, n)
  PROVE  g[x + n] = h[y + n]
<1> DEFINE Bad == {k \in 0 .. n : g[x + k] # h[y + k]}
<1>1. ASSUME Bad # {} PROVE FALSE
  <2>1. PICK k \in Bad : \A l \in Bad : k <= l
    <3>1. Bad \subseteq Nat
      OBVIOUS
    <3> HIDE DEF Bad
    <3> QED BY <1>1, <3>1, LeastNumber
  <2>2. k \in 0 .. n /\ k \in Nat /\ g[x + k] # h[y + k]
    OBVIOUS
  <2>3. k # 0
    BY <2>2
  <2>4. g[x + (k - 1)] = h[y + (k - 1)]
    <3>1. k - 1 \in 0 .. n /\ ~ (k <= k - 1)
      BY <2>2, <2>3
    <3>2. k - 1 \notin Bad
      <4> HIDE DEF Bad
      <4> QED BY <2>1, <3>1
    <3> QED BY <3>1, <3>2
  <2> HIDE DEF Bad
  <2>5. /\ x + k \in a - 1 .. b /\ ~ (x + k < a) /\ (x + k) - 1 = x + (k - 1)
        /\ y + k \in c - 1 .. d /\ ~ (y + k < c) /\ (y + k) - 1 = y + (k - 1)
        /\ k \in 1 .. n
    BY <2>2, <2>3
  <2>6. g[x + k] = IF S[x + k].timestamp \in T THEN Append(g[x + (k - 1)], S[x + k]) ELSE g[x + (k - 1)]
    BY <2>5, KeptStep
  <2>7. h[y + k] = IF R[y + k].timestamp \in U THEN Append(h[y + (k - 1)], R[y + k]) ELSE h[y + (k - 1)]
    BY <2>5, KeptStep
  <2> QED BY <2>2, <2>4, <2>5, <2>6, <2>7 DEF SameRecords
<1>2. n \notin Bad
  BY <1>1
<1> QED BY <1>2

\* Where none of the records has one of the timestamps, nothing is added.
LEMMA KeptNothing ==
  ASSUME NEW S, NEW T, NEW g, NEW a \in Nat, NEW b \in Nat, IsKept(S, a, b, T, g),
         NEW x \in Nat, x >= a - 1, NEW z \in Nat, x <= z, z <= b,
         NoneOf(S, x, z, T)
  PROVE  g[z] = g[x]
<1> DEFINE Bad == {k \in 0 .. z : k >= x /\ g[k] # g[x]}
<1>1. ASSUME Bad # {} PROVE FALSE
  <2>1. PICK k \in Bad : \A l \in Bad : k <= l
    <3>1. Bad \subseteq Nat
      OBVIOUS
    <3> HIDE DEF Bad
    <3> QED BY <1>1, <3>1, LeastNumber
  <2>2. k \in 0 .. z /\ k \in Nat /\ k >= x /\ g[k] # g[x] /\ k # x
    OBVIOUS
  <2>3. g[k - 1] = g[x]
    <3>1. k - 1 \in 0 .. z /\ k - 1 >= x /\ ~ (k <= k - 1)
      BY <2>2
    <3>2. k - 1 \notin Bad
      <4> HIDE DEF Bad
      <4> QED BY <2>1, <3>1
    <3> QED BY <3>1, <3>2
  <2> HIDE DEF Bad
  <2>4. k \in a - 1 .. b /\ ~ (k < a) /\ k \in x + 1 .. z
    BY <2>2
  <2>5. g[k] = g[k - 1]
    BY <2>4, KeptStep DEF NoneOf
  <2> QED BY <2>2, <2>3, <2>5
<1>2. z \notin Bad
  BY <1>1
<1> QED BY <1>2

\* Leaving out what has no such timestamp loses nothing.
LEMMA WithinBetween ==
  ASSUME NEW S \in Seq(Record), NEW a \in Nat, a >= 1, NEW b \in Nat, a - 1 <= b, b <= Len(S), NEW T,
         NoneOf(S, 0, a - 1, T), NoneOf(S, b, Len(S), T)
  PROVE  Within(S, a, b, T) = Within(S, 1, Len(S), T)
<1>0. Len(S) \in Nat
  BY LenProperties
<1>1. PICK g : IsKept(S, a, b, T, g) /\ Within(S, a, b, T) = g[b]
  BY <1>0, KeptExists
<1>2. PICK h : IsKept(S, 1, Len(S), T, h) /\ Within(S, 1, Len(S), T) = h[Len(S)]
  BY <1>0, KeptExists
<1>3. g[a - 1] = <<>> /\ h[0] = <<>>
  <2>1. a - 1 \in a - 1 .. b /\ a - 1 < a /\ 0 \in 1 - 1 .. Len(S) /\ 0 < 1
    BY <1>0
  <2> QED BY <1>0, <1>1, <1>2, <2>1, KeptStep
<1>4. h[a - 1] = h[0]
  <2>1. /\ 1 \in Nat /\ 0 \in Nat /\ 0 >= 1 - 1 /\ a - 1 \in Nat /\ 0 <= a - 1 /\ a - 1 <= Len(S)
        /\ NoneOf(S, 0, a - 1, T)
    BY <1>0 DEF NoneOf
  <2>2. IsKept(S, 1, Len(S), T, h)
    BY <1>2
  <2> QED BY <1>0, <2>1, <2>2, KeptNothing
<1>5. g[b] = h[b]
  <2> DEFINE n == b - (a - 1)
  <2>1. n \in Nat /\ (a - 1) + n = b /\ a - 1 \in Nat
    BY <1>0
  <2>2. SameRecords(S, a - 1, T, S, a - 1, T, n)
    BY DEF SameRecords
  <2> HIDE DEF n
  <2>3. g[(a - 1) + n] = h[(a - 1) + n]
    <3>1. /\ 1 \in Nat /\ a - 1 >= a - 1 /\ a - 1 >= 1 - 1
          /\ (a - 1) + n <= b /\ (a - 1) + n <= Len(S) /\ g[a - 1] = h[a - 1]
      BY <1>0, <1>3, <1>4, <2>1
    <3>2. IsKept(S, a, b, T, g) /\ IsKept(S, 1, Len(S), T, h)
      BY <1>1, <1>2
    <3> QED BY <1>0, <2>1, <2>2, <3>1, <3>2, KeptAlike
  <2> QED BY <2>1, <2>3
<1>6. h[Len(S)] = h[b]
  <2>1. /\ 1 \in Nat /\ b \in Nat /\ b >= 1 - 1 /\ b <= Len(S) /\ Len(S) <= Len(S)
        /\ NoneOf(S, b, Len(S), T)
    BY <1>0 DEF NoneOf
  <2>2. IsKept(S, 1, Len(S), T, h)
    BY <1>2
  <2> QED BY <1>0, <2>1, <2>2, KeptNothing
<1> QED BY <1>1, <1>2, <1>5, <1>6

\* R is what S holds from a to b.
PartOf(R, S, a, b) ==
  /\ R \in Seq(Record) /\ Len(R) = (IF a <= b THEN b - a + 1 ELSE 0)
  /\ \A i \in 1 .. Len(R) : R[i] = S[a + i - 1]

LEMMA SubSeqIsPart ==
  ASSUME NEW S \in Seq(Record), NEW a \in Nat, a >= 1, NEW b \in Nat, b <= Len(S)
  PROVE  PartOf(SubSeq(S, a, b), S, a, b)
<1>1. Len(S) \in Nat
  BY LenProperties
<1> QED BY <1>1, SubSeqProperties DEF PartOf

\* The same of a part of the stream.
LEMMA WithinPart ==
  ASSUME NEW S \in Seq(Record), NEW a \in Nat, a >= 1, NEW b \in Nat, b <= Len(S), NEW T, NEW U,
         NoneOf(S, 0, a - 1, U), NoneOf(S, b, Len(S), U), SameTimes(S, a, b, T, U),
         NEW R, PartOf(R, S, a, b)
  PROVE  Within(R, 1, Len(R), T) = Within(S, 1, Len(S), U)
<1>0. Len(S) \in Nat /\ DOMAIN S = 1 .. Len(S)
  BY LenProperties
<1>1. /\ R \in Seq(Record) /\ Len(R) = (IF a <= b THEN b - a + 1 ELSE 0)
      /\ \A i \in 1 .. Len(R) : R[i] = S[a + i - 1]
  BY DEF PartOf
<1>2. Len(R) \in Nat
  BY <1>1
<1>3. PICK g : IsKept(R, 1, Len(R), T, g) /\ Within(R, 1, Len(R), T) = g[Len(R)]
  <2>1. 1 \in Nat /\ 1 >= 1 /\ 1 - 1 <= Len(R) /\ Len(R) <= Len(R)
    BY <1>2
  <2>2. R \in Seq(Record)
    BY <1>1
  <2> QED BY <1>2, <2>1, <2>2, KeptExists
<1>4. PICK h : IsKept(S, 1, Len(S), U, h) /\ Within(S, 1, Len(S), U) = h[Len(S)]
  BY <1>0, KeptExists
<1>5. g[0] = <<>> /\ h[0] = <<>>
  <2>1. 0 \in 1 - 1 .. Len(R) /\ 0 < 1 /\ 0 \in 1 - 1 .. Len(S) /\ 0 \in Nat
    BY <1>0, <1>2
  <2>2. IsKept(R, 1, Len(R), T, g) /\ IsKept(S, 1, Len(S), U, h) /\ 1 \in Nat
    BY <1>3, <1>4
  <2>3. g[0] = <<>>
    BY <2>1, <2>2 DEF IsKept
  <2>4. h[0] = <<>>
    BY <1>0, <2>1, <2>2, KeptStep
  <2> QED BY <2>3, <2>4
<1>8. IsKept(R, 1, Len(R), T, g) /\ IsKept(S, 1, Len(S), U, h) /\ 1 \in Nat /\ 0 \in Nat /\ 0 >= 1 - 1
  BY <1>3, <1>4
<1>6. CASE a <= b
  <2>1. h[a - 1] = h[0]
    <3>1. a - 1 \in Nat /\ 0 <= a - 1 /\ Len(S) <= Len(S) /\ a - 1 <= Len(S) /\ NoneOf(S, 0, a - 1, U)
      BY <1>0, <1>6 DEF NoneOf
    <3> QED BY <1>0, <1>8, <3>1, KeptNothing
  <2>2. g[0 + Len(R)] = h[(a - 1) + Len(R)]
    <3>1. /\ a - 1 \in Nat /\ a - 1 >= 1 - 1 /\ 0 + Len(R) <= Len(R) /\ (a - 1) + Len(R) <= Len(S)
      BY <1>0, <1>1, <1>6
    <3>2. SameRecords(R, 0, T, S, a - 1, U, Len(R))
      <4> SUFFICES ASSUME NEW i \in 1 .. Len(R)
                   PROVE  /\ R[0 + i] = S[(a - 1) + i]
                          /\ R[0 + i].timestamp \in T <=> S[(a - 1) + i].timestamp \in U
        BY DEF SameRecords
      <4>1. 0 + i = i /\ a + i - 1 = (a - 1) + i /\ (a - 1) + i \in a .. b
        BY <1>1, <1>2, <1>6
      <4>2. R[i] = S[(a - 1) + i]
        BY <1>1, <4>1
      <4> QED BY <4>1, <4>2 DEF SameTimes
    <3>3. g[0] = h[a - 1]
      BY <1>5, <2>1
    <3> QED BY <1>0, <1>2, <1>8, <3>1, <3>2, <3>3, KeptAlike
  <2>3. 0 + Len(R) = Len(R) /\ (a - 1) + Len(R) = b
    BY <1>1, <1>6
  <2>4. h[Len(S)] = h[b]
    <3>1. b \in Nat /\ b >= 1 - 1 /\ b <= Len(S) /\ Len(S) <= Len(S) /\ NoneOf(S, b, Len(S), U)
      BY <1>0 DEF NoneOf
    <3> QED BY <1>0, <1>8, <3>1, KeptNothing
  <2> QED BY <1>3, <1>4, <2>2, <2>3, <2>4
<1>7. CASE ~ (a <= b)
  <2>1. NoneOf(S, 0, Len(S), U)
    <3> SUFFICES ASSUME NEW i \in 1 .. Len(S) PROVE ~ (S[i].timestamp \in U)
      BY DEF NoneOf
    <3>1. i \in 0 + 1 .. a - 1 \/ i \in b + 1 .. Len(S)
      BY <1>0, <1>7
    <3> QED BY <3>1 DEF NoneOf
  <2>2. h[Len(S)] = h[0]
    BY <1>0, <1>8, <2>1, KeptNothing
  <2>3. Len(R) = 0
    BY <1>1, <1>7
  <2> QED BY <1>3, <1>4, <1>5, <2>2, <2>3
<1> QED BY <1>6, <1>7

(* What the queries answer.                                                 *)

\* No query on S misses a record, wherever the binary search starts it.
NothingIsMissed(S, min, max) ==
  LET expected == Within(S, 1, Len(S), min .. max)
  IN /\ \A lower \in LowerEnds(S, min) :
          /\ range(S, lower, min, max) = expected
          /\ tail(S, lower, min) = Within(S, 1, Len(S), {time \in Nat : time >= min})
     /\ \A upper \in UpperEnds(S, max) : rangeReversed(S, upper, min, max) = expected
     /\ \A lower \in LowerEnds(S, min), upper \in UpperEnds(S, max) :
          LET bulk == bulkRange(S, lower, upper)
          IN Within(bulk, 1, Len(bulk), min .. max) = expected

LEMMA RecordTimes ==
  ASSUME NEW S, Sound(S)
  PROVE  /\ S \in Seq(Record) /\ Len(S) \in Nat
         /\ \A j \in 1 .. Len(S) : S[j].timestamp \in Nat
<1>1. \A j \in 1 .. Len(S) : S[j] \in Record
  BY DEF Sound
<1>2. 0 .. MaxTime \subseteq Nat
  BY ClusterAssumption
<1> QED BY <1>1, <1>2 DEF Sound, Record

LEMMA RangeMissesNothing ==
  ASSUME NEW S, Sound(S), NEW min \in Nat, NEW max \in Nat, NEW lower \in LowerEnds(S, min)
  PROVE  range(S, lower, min, max) = Within(S, 1, Len(S), min .. max)
<1>0. /\ S \in Seq(Record) /\ Len(S) \in Nat
      /\ \A j \in 1 .. Len(S) : S[j].timestamp \in Nat
  BY RecordTimes
<1>1. PICK p \in 1 .. Len(S) + 1 : lower = LowerEnd(S, p, min)
  BY DEF LowerEnds
<1>2. /\ lower.at \in 1 .. p
      /\ \A j \in 1 .. lower.at - 1 : S[j].timestamp < min
      /\ ForwardInv(S, lower.at, lower.finder, max)
      /\ ~ lower.finder.reached /\ lower.finder.read = 0
  <2>1. min \in Int
    OBVIOUS
  <2> QED BY <1>1, <2>1, LowerEndIsLow
<1> DEFINE upper == ForwardTo(S, lower.at, max, lower.finder)
           a == lower.at
           b == a + upper.read - 1
           times == min .. max
<1>3. a \in 1 .. Len(S) + 1 /\ a \in Nat /\ a >= 1
  BY <1>0, <1>2
<1>4. /\ upper.read \in 0 .. Len(S) - a + 1
      /\ ForwardInv(S, a + upper.read, upper, max)
      /\ upper.reached \/ a + upper.read = Len(S) + 1
  BY <1>2, <1>3, ForwardResult
<1> HIDE DEF upper, a
<1>5. b \in Nat /\ a - 1 <= b /\ b <= Len(S) /\ b + 1 = a + upper.read
  BY <1>0, <1>3, <1>4
<1>6. \A j \in b + 1 .. Len(S) : S[j].timestamp > max
  <2>1. CASE upper.reached
    BY <1>4, <1>5, <2>1 DEF ForwardInv
  <2>2. CASE a + upper.read = Len(S) + 1
    BY <1>0, <1>5, <2>2
  <2> QED BY <1>4, <2>1, <2>2
<1>7. range(S, lower, min, max) = Within(S, a, b, min .. max)
  BY DEF range, upper, a
<1> HIDE DEF b
<1>8. NoneOf(S, 0, a - 1, times)
  <2> SUFFICES ASSUME NEW j \in 0 + 1 .. a - 1 PROVE ~ (S[j].timestamp \in times)
    BY DEF NoneOf
  <2>1. S[j].timestamp < min /\ j \in 1 .. Len(S)
    BY <1>0, <1>2, <1>3 DEF a
  <2> QED BY <1>0, <2>1
<1>9. NoneOf(S, b, Len(S), times)
  <2> SUFFICES ASSUME NEW j \in b + 1 .. Len(S) PROVE ~ (S[j].timestamp \in times)
    BY DEF NoneOf
  <2>1. S[j].timestamp > max /\ j \in 1 .. Len(S)
    BY <1>0, <1>5, <1>6
  <2> QED BY <1>0, <2>1
<1> HIDE DEF times
<1>10. Within(S, a, b, times) = Within(S, 1, Len(S), times)
  BY <1>0, <1>3, <1>5, <1>8, <1>9, WithinBetween
<1> QED BY <1>7, <1>10 DEF times

LEMMA ReversedMissesNothing ==
  ASSUME NEW S, Sound(S), NEW min \in Nat, NEW max \in Nat, NEW upper \in UpperEnds(S, max)
  PROVE  rangeReversed(S, upper, min, max) = Within(S, 1, Len(S), min .. max)
<1>0. /\ S \in Seq(Record) /\ Len(S) \in Nat
      /\ \A j \in 1 .. Len(S) : S[j].timestamp \in Nat
  BY RecordTimes
<1>1. PICK p \in 1 .. Len(S) + 1 : upper = UpperEnd(S, p, max)
  BY DEF UpperEnds
<1>2. /\ upper.at \in p .. Len(S) + 1
      /\ \A j \in upper.at .. Len(S) : S[j].timestamp > max
      /\ BackwardInv(S, upper.at, upper.finder, min)
      /\ ~ upper.finder.reached /\ upper.finder.read = 0
  <2>1. max \in Int
    OBVIOUS
  <2> QED BY <1>1, <2>1, UpperEndIsHigh
<1> DEFINE lower == BackwardTo(S, upper.at, min, upper.finder)
           a == upper.at - lower.read
           b == upper.at - 1
           times == min .. max
<1>3. upper.at \in 1 .. Len(S) + 1 /\ upper.at \in Nat
  BY <1>0, <1>2
<1>4. /\ lower.read \in 0 .. upper.at - 1
      /\ BackwardInv(S, upper.at - lower.read, lower, min)
      /\ lower.reached \/ upper.at - lower.read = 1
  BY <1>2, <1>3, BackwardResult
<1> HIDE DEF lower
<1>5. b \in Nat /\ a \in Nat /\ a >= 1 /\ a - 1 <= b /\ b <= Len(S) /\ b + 1 = upper.at
  BY <1>0, <1>3, <1>4
<1>6. \A j \in 1 .. a - 1 : S[j].timestamp < min
  <2>1. CASE lower.reached
    BY <1>4, <2>1 DEF BackwardInv
  <2>2. CASE upper.at - lower.read = 1
    BY <2>2
  <2> QED BY <1>4, <2>1, <2>2
<1>7. rangeReversed(S, upper, min, max) = Within(S, a, b, min .. max)
  BY DEF rangeReversed, lower
<1> HIDE DEF a, b
<1>8. NoneOf(S, 0, a - 1, times)
  <2> SUFFICES ASSUME NEW j \in 0 + 1 .. a - 1 PROVE ~ (S[j].timestamp \in times)
    BY DEF NoneOf
  <2>1. S[j].timestamp < min /\ j \in 1 .. Len(S)
    BY <1>0, <1>5, <1>6
  <2> QED BY <1>0, <2>1
<1>9. NoneOf(S, b, Len(S), times)
  <2> SUFFICES ASSUME NEW j \in b + 1 .. Len(S) PROVE ~ (S[j].timestamp \in times)
    BY DEF NoneOf
  <2>1. S[j].timestamp > max /\ j \in 1 .. Len(S)
    BY <1>0, <1>2, <1>3, <1>5
  <2> QED BY <1>0, <2>1
<1> HIDE DEF times
<1>10. Within(S, a, b, times) = Within(S, 1, Len(S), times)
  <2>1. S \in Seq(Record)
    BY <1>0
  <2> QED BY <1>5, <1>8, <1>9, <2>1, WithinBetween
<1> QED BY <1>7, <1>10 DEF times

LEMMA TailMissesNothing ==
  ASSUME NEW S, Sound(S), NEW min \in Nat, NEW lower \in LowerEnds(S, min), NEW times,
         SameTimes(S, 1, Len(S), {time \in Nat : time >= min}, times)
  PROVE  tail(S, lower, min) = Within(S, 1, Len(S), times)
<1>0. /\ S \in Seq(Record) /\ Len(S) \in Nat
      /\ \A j \in 1 .. Len(S) : S[j].timestamp \in Nat
  BY RecordTimes
<1>1. PICK p \in 1 .. Len(S) + 1 : lower = LowerEnd(S, p, min)
  BY DEF LowerEnds
<1>2. /\ lower.at \in 1 .. p
      /\ \A j \in 1 .. lower.at - 1 : S[j].timestamp < min
  <2>1. min \in Int
    OBVIOUS
  <2> QED BY <1>1, <2>1, LowerEndIsLow
<1> DEFINE R == SubSeq(S, lower.at, Len(S))
           all == {time \in Nat : time >= min}
<1>3. tail(S, lower, min) = Within(R, 1, Len(R), all)
  BY DEF tail, bulkTail
<1>4. lower.at \in Nat /\ lower.at >= 1 /\ lower.at <= Len(S) + 1
  BY <1>0, <1>2
<1>5. NoneOf(S, 0, lower.at - 1, times)
  <2> SUFFICES ASSUME NEW j \in 0 + 1 .. lower.at - 1 PROVE ~ (S[j].timestamp \in times)
    BY DEF NoneOf
  <2>1. S[j].timestamp < min /\ j \in 1 .. Len(S)
    BY <1>0, <1>2, <1>4
  <2> QED BY <1>0, <2>1 DEF SameTimes
<1>6. NoneOf(S, Len(S), Len(S), times)
  BY <1>0 DEF NoneOf
<1>7. SameTimes(S, lower.at, Len(S), all, times)
  <2> SUFFICES ASSUME NEW j \in lower.at .. Len(S) PROVE S[j].timestamp \in all <=> S[j].timestamp \in times
    BY DEF SameTimes
  <2>1. j \in 1 .. Len(S)
    BY <1>0, <1>4
  <2> QED BY <1>0, <2>1 DEF SameTimes
<1>9. PartOf(R, S, lower.at, Len(S))
  <2>1. Len(S) <= Len(S)
    BY <1>0
  <2> QED BY <1>0, <1>4, <2>1, SubSeqIsPart
<1> HIDE DEF all, R
<1>8. Within(R, 1, Len(R), all) = Within(S, 1, Len(S), times)
  <2>1. Len(S) <= Len(S)
    BY <1>0
  <2> QED BY <1>0, <1>4, <1>5, <1>6, <1>7, <1>9, <2>1, WithinPart
<1> QED BY <1>3, <1>8

LEMMA BulkMissesNothing ==
  ASSUME NEW S, Sound(S), NEW min \in Nat, NEW max \in Nat,
         NEW lower \in LowerEnds(S, min), NEW upper \in UpperEnds(S, max)
  PROVE  LET bulk == bulkRange(S, lower, upper)
         IN Within(bulk, 1, Len(bulk), min .. max) = Within(S, 1, Len(S), min .. max)
<1>0. /\ S \in Seq(Record) /\ Len(S) \in Nat
      /\ \A j \in 1 .. Len(S) : S[j].timestamp \in Nat
  BY RecordTimes
<1>1. PICK p \in 1 .. Len(S) + 1 : lower = LowerEnd(S, p, min)
  BY DEF LowerEnds
<1>2. /\ lower.at \in 1 .. p
      /\ \A j \in 1 .. lower.at - 1 : S[j].timestamp < min
  <2>1. min \in Int
    OBVIOUS
  <2> QED BY <1>1, <2>1, LowerEndIsLow
<1>3. PICK q \in 1 .. Len(S) + 1 : upper = UpperEnd(S, q, max)
  BY DEF UpperEnds
<1>4. /\ upper.at \in q .. Len(S) + 1
      /\ \A j \in upper.at .. Len(S) : S[j].timestamp > max
  <2>1. max \in Int
    OBVIOUS
  <2> QED BY <1>3, <2>1, UpperEndIsHigh
<1> DEFINE a == lower.at
           b == upper.at - 1
           times == min .. max
<1>5. a \in Nat /\ a >= 1 /\ b \in Nat /\ b <= Len(S) /\ b + 1 = upper.at
  BY <1>0, <1>2, <1>4
<1>6. NoneOf(S, 0, a - 1, times)
  <2> SUFFICES ASSUME NEW j \in 0 + 1 .. a - 1 PROVE ~ (S[j].timestamp \in times)
    BY DEF NoneOf
  <2>1. S[j].timestamp < min /\ j \in 1 .. Len(S)
    BY <1>0, <1>2, <1>5
  <2> QED BY <1>0, <2>1
<1>7. NoneOf(S, b, Len(S), times)
  <2> SUFFICES ASSUME NEW j \in b + 1 .. Len(S) PROVE ~ (S[j].timestamp \in times)
    BY DEF NoneOf
  <2>1. S[j].timestamp > max /\ j \in 1 .. Len(S)
    BY <1>0, <1>4, <1>5
  <2> QED BY <1>0, <2>1
<1> DEFINE bulk == bulkRange(S, lower, upper)
<1>8. PartOf(bulk, S, a, b)
  BY <1>0, <1>5, SubSeqIsPart DEF bulkRange
<1>9. SameTimes(S, a, b, times, times)
  BY DEF SameTimes
<1> HIDE DEF a, b, times, bulk
<1>10. Within(bulk, 1, Len(bulk), times) = Within(S, 1, Len(S), times)
  BY <1>0, <1>5, <1>6, <1>7, <1>8, <1>9, WithinPart
<1> QED BY <1>10 DEF times, bulk

LEMMA SoundStreamsMissNothing ==
  ASSUME NEW S, Sound(S), NEW min \in Nat, NEW max \in Nat
  PROVE  NothingIsMissed(S, min, max)
<1>1. ASSUME NEW lower \in LowerEnds(S, min)
      PROVE  tail(S, lower, min) = Within(S, 1, Len(S), {time \in Nat : time >= min})
  <2> DEFINE all == {time \in Nat : time >= min}
  <2>1. SameTimes(S, 1, Len(S), {time \in Nat : time >= min}, all)
    BY DEF SameTimes
  <2> HIDE DEF all
  <2>2. tail(S, lower, min) = Within(S, 1, Len(S), all)
    BY <2>1, TailMissesNothing
  <2> QED BY <2>2 DEF all
<1> QED BY <1>1, RangeMissesNothing, ReversedMissesNothing, BulkMissesNothing DEF NothingIsMissed

-----------------------------------------------------------------------------
\* As long as no lifecycle write has thrown.
SoundNow ==
  throws = 0 => /\ disk \in Disks /\ Truthful(disk) /\ DatedBy(disk, clock)
                /\ clock \in Nat

LEMMA StreamsAreSound == Spec => []SoundNow
<1>1. StreamInv /\ (throws = 0 => TimesInv) => SoundNow
  <2> SUFFICES ASSUME StreamInv, throws = 0, TimesInv
               PROVE  disk \in Disks /\ Truthful(disk) /\ DatedBy(disk, clock) /\ clock \in Nat
    BY DEF SoundNow
  <2>1. disk \in Disks /\ clock \in Nat
    BY ClusterAssumption DEF StreamInv, IInv, TypeOK, Disks
  <2> QED BY <2>1 DEF StreamInv, LivesInv, TimesInv, Truthful
<1> QED BY <1>1, StreamInvariant, TimesInvariant, PTL

\* At any moment, on as many of the files as a reader has opened.
QueriesMissNothing ==
  throws = 0 => \A k \in DOMAIN disk : \A min, max \in Nat :
    NothingIsMissed(FlattenSeq(SubSeq(disk, 1, k)), min, max)

\* Whatever a reader is looking at while the cluster runs, and wherever the binary
\* search starts it, no query misses a record of its range.
THEOREM NoQueryMissesARecord == Spec => []QueriesMissNothing
<1>1. SoundNow => QueriesMissNothing
  <2> SUFFICES ASSUME disk \in Disks, Truthful(disk), NEW k \in DOMAIN disk, NEW min \in Nat, NEW max \in Nat
               PROVE  NothingIsMissed(FlattenSeq(SubSeq(disk, 1, k)), min, max)
    BY DEF SoundNow, QueriesMissNothing
  <2>1. Sound(FlattenSeq(SubSeq(disk, 1, k)))
    BY FirstFilesAreTruthful, DirectoryIsSound
  <2> QED BY <2>1, SoundStreamsMissNothing
<1> QED BY <1>1, StreamsAreSound, PTL

\* A stream a reader may be looking at keeps the promises, and its records are
\* not younger than the clock.
LEMMA StreamsKeepPromises ==
  ASSUME SoundNow, NEW S \in Streams
  PROVE  Sound(S) /\ clock \in Nat /\ \A j \in 1 .. Len(S) : S[j].timestamp <= clock
<1>1. throws = 0 /\ disk \in Disks /\ Truthful(disk) /\ DatedBy(disk, clock) /\ clock \in Nat
  BY DEF Streams, SoundNow
<1>2. PICK k \in DOMAIN disk : S = FlattenSeq(SubSeq(disk, 1, k))
  BY DEF Streams
<1> DEFINE d == SubSeq(disk, 1, k)
<1>3. d \in Disks /\ Truthful(d)
  BY <1>1, FirstFilesAreTruthful
<1>4. DOMAIN disk = 1 .. Len(disk) /\ Len(disk) \in Nat
  BY <1>1, LenProperties DEF Disks
<1>5. \A f \in DOMAIN d : f \in DOMAIN disk /\ d[f] = disk[f]
  BY <1>1, <1>4, SubSeqProperties DEF Disks
<1> HIDE DEF d
<1>6. Sound(FlattenSeq(d))
  BY <1>3, DirectoryIsSound
<1>7. PICK loc : Located(d, FlattenSeq(d), loc)
  BY <1>3, FlattenIsLocated DEF Disks
<1>8. \A j \in DOMAIN FlattenSeq(d) : FlattenSeq(d)[j].timestamp <= clock
  BY <1>1, <1>5, <1>7 DEF Located, DatedBy
<1> QED BY <1>1, <1>2, <1>6, <1>8 DEF d, Sound

\* range() and rangeReversed() return what a filter over all the records returns,
\* whatever order spawns, exits, rotations, restarts and late flushes left them in
\* (log-reader.js:79-173, bound-finder.js:4-16).
THEOREM RangeQueriesAreComplete == Spec => []RangesAreComplete
<1>1. SoundNow => RangesAreComplete
  <2> SUFFICES ASSUME SoundNow, NEW S \in Streams, NEW min \in Times, NEW max \in Times
               PROVE  LET expected == Within(S, 1, Len(S), min .. max)
                      IN /\ \A lower \in LowerEnds(S, min) : range(S, lower, min, max) = expected
                         /\ \A upper \in UpperEnds(S, max) : rangeReversed(S, upper, min, max) = expected
    BY DEF RangesAreComplete
  <2>1. Sound(S) /\ min \in Nat /\ max \in Nat
    BY StreamsKeepPromises DEF Times
  <2> QED BY <2>1, RangeMissesNothing, ReversedMissesNothing
<1> QED BY <1>1, StreamsAreSound, PTL

\* tail() returns all that has been written from its minimum on, although it stops
\* its search for the start at a bound (log-reader.js:22-77).
THEOREM TailQueriesAreComplete == Spec => []TailIsComplete
<1>1. SoundNow => TailIsComplete
  <2> SUFFICES ASSUME SoundNow, NEW S \in Streams, NEW min \in Times, NEW lower \in LowerEnds(S, min)
               PROVE  tail(S, lower, min) = Within(S, 1, Len(S), min .. clock)
    BY DEF TailIsComplete
  <2>1. Sound(S) /\ min \in Nat /\ clock \in Nat /\ \A j \in 1 .. Len(S) : S[j].timestamp <= clock
    BY StreamsKeepPromises DEF Times
  <2> DEFINE times == min .. clock
  <2>2. SameTimes(S, 1, Len(S), {time \in Nat : time >= min}, times)
    BY <2>1, RecordTimes DEF SameTimes
  <2> HIDE DEF times
  <2>3. tail(S, lower, min) = Within(S, 1, Len(S), times)
    BY <2>1, <2>2, TailMissesNothing
  <2> QED BY <2>3 DEF times
<1> QED BY <1>1, StreamsAreSound, PTL

\* What a bulk query cuts out of the files holds all records of its range
\* (log-reader.js:233-339).
THEOREM BulkQueriesCover == Spec => []BulkRangesCover
<1>1. SoundNow => BulkRangesCover
  <2> SUFFICES ASSUME SoundNow, NEW S \in Streams, NEW min \in Times, NEW max \in Times,
                      NEW lower \in LowerEnds(S, min), NEW upper \in UpperEnds(S, max)
               PROVE  LET bulk == bulkRange(S, lower, upper)
                      IN Within(bulk, 1, Len(bulk), min .. max) = Within(S, 1, Len(S), min .. max)
    BY DEF BulkRangesCover
  <2>1. Sound(S) /\ min \in Nat /\ max \in Nat
    BY StreamsKeepPromises DEF Times
  <2> QED BY <2>1, BulkMissesNothing
<1> QED BY <1>1, StreamsAreSound, PTL
=============================================================================
