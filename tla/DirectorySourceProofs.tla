------------------------ MODULE DirectorySourceProofs ------------------------
(***************************************************************************)
(* For any number of workers, files, restarts, sessions and deletions:     *)
(* what LogDirectorySource knows of a directory that is being written to,  *)
(* and what it hands out.  The invariants rest on one another:             *)
(*   - IInv, of the cluster, which a reader cannot disturb;                *)
(*   - ReaderShape: known files are in the directory's order, no longer    *)
(*     than they are, the rotating ones last, and the handles fit the      *)
(*     phase updateState() is in;                                          *)
(*   - Passed: nobody writes to a file before a readable one.  A file      *)
(*     becomes readable when its own contents say that its rotation has    *)
(*     ended, and SettledIsFinal says that they tell the truth;            *)
(*   - Complete: those files have been measured since, or will be in the   *)
(*     pass under way, or have been left unmeasured by a pass that threw;  *)
(*   - ServedIs: what was served is what read(0, size()) gives at rest,    *)
(*     and the start of the files up to some readable one.  There a file   *)
(*     may be found, marked or grow without moving what was served.        *)
(*                                                                         *)
(* A read() by offsets is one cut out of the readable files end to end     *)
(* (ChunksAreCuts), which is proved for each chunk and then for their      *)
(* concatenation by least counterexample.                                  *)
(***************************************************************************)
EXTENDS DirectorySource, ClusterProofs

-----------------------------------------------------------------------------
(* The reader leaves the cluster alone.                                     *)

\* A step of the whole is a step of the cluster, or none.
LEMMA SourceStepOfCluster ==
  ASSUME [ClusterNext \/ SourceNext \/ Delete]_allVars
  PROVE  [Next]_vars
<1>1. CASE ClusterNext
  BY <1>1 DEF ClusterNext
<1>2. CASE SourceNext
  <2>1. CASE UpdateNext
    BY <2>1 DEF UpdateNext, ReadDir, ReadDirEmpty, CheckSettled, CheckRotating, CheckNone,
       UpdateSize, OpenHandle, OpenFails
  <2>2. ASSUME NEW from \in 0 .. Size(files), NEW to \in from + 1 .. Size(files), Read(from, to)
        PROVE  UNCHANGED vars
    BY <2>2 DEF Read
  <2>3. CASE Teardown
    BY <2>3 DEF Teardown
  <2> QED BY <1>2, <2>1, <2>2, <2>3 DEF SourceNext
<1>3. CASE Delete
  BY <1>3 DEF Delete
<1>4. CASE UNCHANGED allVars
  BY <1>4 DEF allVars
<1> QED BY <1>1, <1>2, <1>3, <1>4

\* Next to a reader and a deleting LogManager, the writers are the cluster's.
THEOREM WritersAreUnaware == SourceSpec => Spec
<1>1. SourceInit => Init
  BY DEF SourceInit
<1> QED BY <1>1, SourceStepOfCluster, PTL DEF SourceSpec, Spec

\* So what a reader takes for final is final for it, too.
LEMMA SourceInvariant == SourceSpec => []IInv
  BY WritersAreUnaware, ClusterInvariant, PTL

-----------------------------------------------------------------------------
(* What the cluster's steps do to files no writer is behind.                *)

NobodyBehind(k) == /\ \A w \in Live : wfile[w] >= k
                   /\ MasterUp => mfile >= k

\* e has the files of d, longer ones perhaps, but the same ones before file k.
GrownFrom(d, e, k) ==
  /\ e \in Disks
  /\ DOMAIN d \subseteq DOMAIN e
  /\ Len(d) <= Len(e)
  /\ \A f \in DOMAIN d : /\ \E u \in Seq(Record) : e[f] = d[f] \o u
                         /\ f < k => e[f] = d[f]

\* Nothing has happened to the files.
LEMMA NotGrown ==
  ASSUME NEW d \in Disks, NEW k
  PROVE  GrownFrom(d, d, k)
<1>1. \A f \in DOMAIN d : d[f] \in Seq(Record) /\ <<>> \in Seq(Record) /\ Len(d) \in Nat
  BY LenProperties, ElementOfSeq DEF Disks
<1>2. \A f \in DOMAIN d : d[f] = d[f] \o <<>>
  BY <1>1, ConcatEmptySeq
<1>3. Len(d) \in Nat
  BY LenProperties DEF Disks
<1>4. \A f \in DOMAIN d : \E u \in Seq(Record) : d[f] = d[f] \o u
  <2>1. <<>> \in Seq(Record)
    OBVIOUS
  <2> QED BY <1>2, <2>1
<1> HIDE <1>1, <1>2
<1> QED BY <1>3, <1>4 DEF GrownFrom

\* A write to a file from k on.
LEMMA WriteGrowsFrom ==
  ASSUME NEW d \in Disks, NEW f \in DOMAIN d, NEW batch \in Seq(Record), NEW k \in Nat, f >= k
  PROVE  GrownFrom(d, WriteTo(d, f, batch), k)
<1> DEFINE e == WriteTo(d, f, batch)
<1>1. /\ e \in Disks /\ Len(e) = Len(d) /\ DOMAIN e = DOMAIN d /\ e[f] = d[f] \o batch
      /\ \A g \in DOMAIN d : g # f => e[g] = d[g]
  BY WriteToProperties
<1>2. /\ Len(d) \in Nat /\ DOMAIN d = 1 .. Len(d) /\ \A g \in DOMAIN d : d[g] \in Seq(Record)
      /\ <<>> \in Seq(Record)
  BY LenProperties, ElementOfSeq DEF Disks
<1> HIDE DEF e
<1>3. ASSUME NEW g \in DOMAIN d
      PROVE  (\E u \in Seq(Record) : e[g] = d[g] \o u) /\ (g < k => e[g] = d[g])
  <2>1. CASE g = f
    <3>1. ~ (g < k)
      BY <1>2, <2>1
    <3> QED BY <1>1, <2>1, <3>1
  <2>2. CASE g # f
    <3>1. e[g] = d[g] /\ d[g] = d[g] \o <<>>
      BY <1>1, <1>2, <2>2, ConcatEmptySeq
    <3> QED BY <1>2, <3>1
  <2> QED BY <2>1, <2>2
<1>4. Len(d) <= Len(e) /\ DOMAIN d \subseteq DOMAIN e
  BY <1>1, <1>2
<1> QED BY <1>1, <1>3, <1>4 DEF GrownFrom, e

\* A new file.
LEMMA NewFileGrowsFrom ==
  ASSUME NEW d \in Disks, NEW k
  PROVE  GrownFrom(d, Append(d, <<>>), k)
<1>1. /\ Len(d) \in Nat /\ DOMAIN d = 1 .. Len(d) /\ \A g \in DOMAIN d : d[g] \in Seq(Record)
      /\ <<>> \in Seq(Record)
  BY LenProperties, ElementOfSeq DEF Disks
<1>2. \A g \in DOMAIN d : d[g] = d[g] \o <<>>
  BY <1>1, ConcatEmptySeq
<1>3. /\ Append(d, <<>>) \in Disks /\ Len(d) <= Len(Append(d, <<>>))
      /\ DOMAIN d \subseteq DOMAIN Append(d, <<>>)
      /\ \A g \in DOMAIN d : Append(d, <<>>)[g] = d[g]
  BY <1>1, NewFileProperties
<1> HIDE <1>1
<1> QED BY <1>1, <1>2, <1>3 DEF GrownFrom

\* One after the other.
LEMMA GrownTwice ==
  ASSUME NEW d \in Disks, NEW e, NEW c, NEW k, GrownFrom(d, e, k), GrownFrom(e, c, k)
  PROVE  GrownFrom(d, c, k)
<1>1. ASSUME NEW f \in DOMAIN d
      PROVE  (\E u \in Seq(Record) : c[f] = d[f] \o u) /\ (f < k => c[f] = d[f])
  <2>1. PICK u \in Seq(Record) : e[f] = d[f] \o u
    BY DEF GrownFrom
  <2>2. PICK v \in Seq(Record) : c[f] = e[f] \o v
    BY DEF GrownFrom
  <2>3. d[f] \in Seq(Record)
    BY LenProperties, ElementOfSeq DEF Disks
  <2>4. (d[f] \o u) \o v = d[f] \o (u \o v) /\ u \o v \in Seq(Record)
    BY <2>3, ConcatAssociative, ConcatProperties
  <2>5. f < k => c[f] = d[f]
    BY DEF GrownFrom
  <2> QED BY <2>1, <2>2, <2>4, <2>5
<1>2. Len(d) <= Len(c)
  <2>1. Len(d) \in Nat /\ Len(e) \in Nat /\ Len(c) \in Nat
    BY LenProperties DEF GrownFrom, Disks
  <2> QED BY <2>1 DEF GrownFrom
<1> QED BY <1>1, <1>2 DEF GrownFrom

\* Nobody falls behind file k, so that files before it are final.
LEMMA NobodyFallsBehind ==
  ASSUME TypeOK, Shape, TypeOK', [Next]_vars, NEW k \in 0 .. Len(disk), NobodyBehind(k)
  PROVE  NobodyBehind(k)' /\ GrownFrom(disk, disk', k)
<1> USE DEF Shape
<1>0. /\ disk \in Disks /\ disk' \in Disks /\ Len(disk) \in Nat /\ DOMAIN disk = 1 .. Len(disk)
      /\ k \in Nat /\ k <= Len(disk)
      /\ Live \subseteq Workers
      /\ \A w \in Workers : wbuf[w] \in Seq(Record) /\ wfile[w] \in Nat
      /\ mbuf \in Seq(Record) /\ mfile \in Nat /\ <<>> \in Seq(Record)
  BY LenProperties DEF TypeOK, Disks, Live
<1>1. ASSUME mpc # "down" PROVE mfile \in DOMAIN disk /\ mfile >= k
  BY <1>1, MasterFileOpen DEF NobodyBehind, MasterUp
<1>2. ASSUME NEW w \in Live PROVE wfile[w] \in DOMAIN disk /\ wfile[w] >= k
  BY DEF NobodyBehind, LiveHaveAFile
<1>3. ASSUME NEW r \in Record, mpc # "down", LogAndFlush(r)
      PROVE  GrownFrom(disk, disk', k)
  BY <1>0, <1>1, <1>3, LogAndFlushTypes, WriteGrowsFrom
<1>4. CASE StartMaster
  <2>1. Live' = {} /\ mfile' >= k
    BY <1>0, <1>4 DEF StartMaster, Live
  <2>2. disk' = disk \/ disk' = Append(disk, <<>>)
    BY <1>4 DEF StartMaster
  <2> QED BY <1>0, <2>1, <2>2, NotGrown, NewFileGrowsFrom DEF NobodyBehind
<1>5. CASE STARTING_UP
  <2>1. MasterRecord("STARTING_UP", NoWorker, {}) \in Record
    BY RecordTypes DEF Events
  <2>2. mpc # "down" /\ LogAndFlush(MasterRecord("STARTING_UP", NoWorker, {}))
        /\ UNCHANGED <<mfile, wst, wfile>>
    BY <1>5 DEF STARTING_UP
  <2> QED BY <1>1, <1>3, <2>1, <2>2 DEF NobodyBehind, Live
<1>6. ASSUME NEW w \in Workers, WORKER_SPAWNED(w) \/ WorkerSpawnedThrows(w)
      PROVE  NobodyBehind(k)' /\ GrownFrom(disk, disk', k)
  <2>1. MasterRecord("WORKER_SPAWNED", w, {}) \in Record
    BY RecordTypes DEF Events
  <2>2. /\ mpc = "up" /\ mfile' = mfile /\ Forked(w)
        /\ \/ LogAndFlush(MasterRecord("WORKER_SPAWNED", w, {}))
           \/ disk' = disk
    BY <1>6 DEF WORKER_SPAWNED, WorkerSpawnedThrows, LogAndFlushThrows
  <2>3. GrownFrom(disk, disk', k)
    BY <1>0, <1>3, <2>1, <2>2, NotGrown
  <2>4. Live' = Live \cup {w} /\ wfile'[w] = Len(disk) /\ \A v \in Workers \ {w} : wfile'[v] = wfile[v]
    BY <2>2, ForkTypes
  <2>5. \A v \in Live' : wfile'[v] >= k
    BY <1>0, <1>2, <2>4
  <2> QED BY <1>1, <2>2, <2>3, <2>5 DEF NobodyBehind
<1>7. ASSUME NEW w \in Workers, WORKER_EXITED(w) \/ WorkerExitedThrows(w)
      PROVE  NobodyBehind(k)' /\ GrownFrom(disk, disk', k)
  <2>1. MasterRecord("WORKER_EXITED", w, {}) \in Record
    BY RecordTypes DEF Events
  <2>2. /\ mpc = "up" /\ mfile' = mfile /\ wfile' = wfile /\ wst[w] = "exited"
        /\ wst' = [wst EXCEPT ![w] = "reaped"]
        /\ \/ LogAndFlush(MasterRecord("WORKER_EXITED", w, {}))
           \/ disk' = disk
    BY <1>7 DEF WORKER_EXITED, WorkerExitedThrows, LogAndFlushThrows
  <2>3. GrownFrom(disk, disk', k)
    BY <1>0, <1>3, <2>1, <2>2, NotGrown
  <2>4. Live' = Live
    BY <2>2 DEF Live, TypeOK
  <2> QED BY <1>1, <1>2, <2>2, <2>3, <2>4 DEF NobodyBehind
<1>8. CASE MasterLog \/ MasterLogThrows \/ Tick \/ UNCHANGED vars
  <2>1. UNCHANGED <<disk, mpc, mfile, wst, wfile>>
    BY <1>8 DEF MasterLog, MasterLogThrows, Tick, vars, master, workers
  <2> QED BY <1>0, <2>1, NotGrown DEF NobodyBehind, Live, MasterUp
<1>9. CASE MasterFlush
  <2>1. mpc # "down" /\ disk' = WriteTo(disk, mfile, mbuf) /\ UNCHANGED <<mfile, wst, wfile>>
    BY <1>9 DEF MasterFlush, workers
  <2> QED BY <1>0, <1>1, <2>1, WriteGrowsFrom DEF NobodyBehind, Live
<1>10. CASE Rotate
  <2> DEFINE e == WriteTo(disk, mfile, mbuf)
  <2>1. mpc # "down" /\ disk' = Append(e, <<>>) /\ mfile' = Len(disk) + 1 /\ UNCHANGED <<wst, wfile>>
    BY <1>10 DEF Rotate, workers
  <2>2. GrownFrom(disk, e, k) /\ e \in Disks
    BY <1>0, <1>1, <2>1, WriteGrowsFrom, WriteToProperties
  <2> HIDE DEF e
  <2>3. GrownFrom(disk, disk', k)
    BY <1>0, <2>1, <2>2, NewFileGrowsFrom, GrownTwice
  <2>4. mfile' >= k
    BY <1>0, <2>1
  <2> QED BY <2>1, <2>3, <2>4 DEF NobodyBehind, Live
<1>11. CASE RotatePing
  <2>1. MasterRecord("MASTER_PING", NoWorker, workerIds) \in Record
    BY RecordTypes DEF Events
  <2>2. mpc # "down" /\ LogAndFlush(MasterRecord("MASTER_PING", NoWorker, workerIds))
        /\ UNCHANGED <<mfile, wst, wfile>>
    BY <1>11 DEF RotatePing
  <2> QED BY <1>1, <1>3, <2>1, <2>2 DEF NobodyBehind, Live
<1>12. CASE StopMaster
  <2>1. /\ mpc # "down" /\ mpc' = "down" /\ UNCHANGED <<wst, wfile>>
        /\ (disk' = disk) \/ (disk' = WriteTo(disk, mfile, mbuf))
    BY <1>12 DEF StopMaster, MasterUp, workers
  <2>2. GrownFrom(disk, disk', k)
    BY <1>0, <1>1, <2>1, NotGrown, WriteGrowsFrom
  <2> QED BY <2>1, <2>2 DEF NobodyBehind, Live, MasterUp
<1>13. ASSUME NEW w \in Workers, WorkerLog(w) \/ WorkerLogThrows(w)
       PROVE  NobodyBehind(k)' /\ GrownFrom(disk, disk', k)
  <2>1. UNCHANGED <<disk, mpc, mfile, wst, wfile>>
    BY <1>13 DEF WorkerLog, WorkerLogThrows, master
  <2> QED BY <1>0, <2>1, NotGrown DEF NobodyBehind, Live, MasterUp
<1>14. ASSUME NEW w \in Workers, WorkerFlush(w)
       PROVE  NobodyBehind(k)' /\ GrownFrom(disk, disk', k)
  <2>1. w \in Live /\ disk' = WriteTo(disk, wfile[w], wbuf[w]) /\ UNCHANGED <<mpc, mfile, wst, wfile>>
    BY <1>14 DEF WorkerFlush, master, Live
  <2>2. wfile[w] \in DOMAIN disk /\ wfile[w] >= k /\ wbuf[w] \in Seq(Record)
    BY <1>0, <1>2, <2>1
  <2> QED BY <1>0, <2>1, <2>2, WriteGrowsFrom DEF NobodyBehind, Live, MasterUp
<1>15. ASSUME NEW w \in Workers, WorkerRotate(w)
       PROVE  NobodyBehind(k)' /\ GrownFrom(disk, disk', k)
  <2> DEFINE f == Head(inbox[w])
             e == WriteTo(disk, wfile[w], wbuf[w])
             r == WorkerRecord(w)
  <2>1. /\ w \in Live /\ inbox[w] # <<>> /\ disk' = WriteTo(e, f, <<r>>)
        /\ wfile' = [wfile EXCEPT ![w] = f] /\ UNCHANGED <<mpc, mfile, wst>>
    BY <1>15 DEF WorkerRotate, master, Live
  <2>2. wfile[w] \in DOMAIN disk /\ wfile[w] >= k /\ wfile[w] \in Nat /\ wbuf[w] \in Seq(Record)
    BY <1>0, <1>2, <2>1
  <2>3. <<r>> \in Seq(Record)
    <3>1. r \in Record
      BY RecordTypes
    <3> HIDE DEF r
    <3> QED BY <3>1
  <2>4. f \in Nat /\ f \in DOMAIN disk /\ f >= k
    <3>1. inbox[w] \in Seq(Nat) /\ Len(inbox[w]) \in Nat \ {0} /\ f = inbox[w][1]
          /\ 1 \in DOMAIN inbox[w] /\ f \in Nat
      BY <2>1, EmptySeq, SMTT(30) DEF TypeOK
    <3>2. wfile[w] < f /\ f <= Len(disk)
      BY <2>1, <3>1 DEF InboxLeadsForward
    <3> QED BY <1>0, <2>2, <3>1, <3>2
  <2> HIDE DEF f, r
  <2>5. GrownFrom(disk, e, k) /\ e \in Disks /\ DOMAIN e = DOMAIN disk
    BY <1>0, <2>2, WriteGrowsFrom, WriteToProperties
  <2> HIDE DEF e
  <2>6. GrownFrom(e, disk', k)
    BY <1>0, <2>1, <2>3, <2>4, <2>5, WriteGrowsFrom
  <2>7. GrownFrom(disk, disk', k)
    BY <1>0, <2>5, <2>6, GrownTwice
  <2>8. \A v \in Live : wfile'[v] >= k
    BY <1>0, <1>2, <2>1, <2>4 DEF TypeOK
  <2> QED BY <2>1, <2>7, <2>8 DEF NobodyBehind, Live, MasterUp
<1>16. ASSUME NEW w \in Workers, WorkerExit(w)
       PROVE  NobodyBehind(k)' /\ GrownFrom(disk, disk', k)
  <2>1. /\ w \in Live /\ wst' = [wst EXCEPT ![w] = "exited"] /\ wfile' = [wfile EXCEPT ![w] = 0]
        /\ UNCHANGED <<mpc, mfile>>
        /\ (disk' = disk) \/ (disk' = WriteTo(disk, wfile[w], wbuf[w]))
    BY <1>16 DEF WorkerExit, master, Live
  <2>2. wfile[w] \in DOMAIN disk /\ wfile[w] >= k /\ wbuf[w] \in Seq(Record)
    BY <1>0, <1>2, <2>1
  <2>3. GrownFrom(disk, disk', k)
    BY <1>0, <2>1, <2>2, NotGrown, WriteGrowsFrom
  <2>4. \A v \in Live' : v \in Live /\ wfile'[v] = wfile[v]
    BY <2>1 DEF Live, TypeOK
  <2> QED BY <1>2, <2>1, <2>3, <2>4 DEF NobodyBehind, MasterUp
<1> QED
  BY <1>4, <1>5, <1>6, <1>7, <1>8, <1>9, <1>10, <1>11, <1>12, <1>13, <1>14, <1>15, <1>16
  DEF Next, MasterNext, WorkerNext

-----------------------------------------------------------------------------
(* The list of known files.                                                 *)

\* A function on 1 .. n is a list of files.
LEMMA FilesFromFunction ==
  ASSUME NEW n \in Nat, NEW fs \in [1 .. n -> File]
  PROVE  fs \in Seq(File) /\ Len(fs) = n /\ DOMAIN fs = 1 .. n
<1>1. fs \in Seq(File)
  BY IsASeq
<1>2. DOMAIN fs = 1 .. n /\ DOMAIN fs = 1 .. Len(fs) /\ Len(fs) \in Nat
  BY <1>1, LenProperties
<1> QED BY <1>1, <1>2

\* What a list of files is made of.
LEMMA FileFields ==
  ASSUME NEW fs \in Seq(File)
  PROVE  /\ Len(fs) \in Nat /\ DOMAIN fs = 1 .. Len(fs)
         /\ \A i \in DOMAIN fs : /\ fs[i] \in File
                                 /\ fs[i].id \in Nat /\ fs[i].size \in Nat
                                 /\ fs[i].isRotating \in BOOLEAN /\ fs[i].handle \in BOOLEAN
<1>1. Len(fs) \in Nat /\ DOMAIN fs = 1 .. Len(fs)
  BY LenProperties
<1>2. \A i \in DOMAIN fs : fs[i] \in File
  BY <1>1, ElementOfSeq
<1> QED BY <1>1, <1>2 DEF File

\* gs are the same files, whatever is known of their sizes.
Alike(fs, gs) ==
  /\ gs \in Seq(File) /\ Len(gs) = Len(fs) /\ DOMAIN gs = DOMAIN fs
  /\ \A i \in DOMAIN fs : gs[i].id = fs[i].id /\ gs[i].isRotating = fs[i].isRotating

\* A handle is opened or closed.
LEMMA HandleSet ==
  ASSUME NEW fs \in Seq(File), NEW i \in DOMAIN fs, NEW b \in BOOLEAN
  PROVE  LET gs == [fs EXCEPT ![i].handle = b] IN
           /\ Alike(fs, gs)
           /\ \A j \in DOMAIN fs : gs[j].size = fs[j].size
           /\ gs[i].handle = b
           /\ \A j \in DOMAIN fs : j # i => gs[j].handle = fs[j].handle
<1> DEFINE gs == [fs EXCEPT ![i].handle = b]
<1>1. \A j \in DOMAIN fs : fs[j] \in File
  BY FileFields
<1>2. Len(fs) \in Nat /\ DOMAIN fs = 1 .. Len(fs)
  BY FileFields
<1>3. gs \in [1 .. Len(fs) -> File]
  BY <1>1, <1>2 DEF File
<1>4. gs \in Seq(File) /\ Len(gs) = Len(fs) /\ DOMAIN gs = DOMAIN fs
  <2> HIDE DEF gs
  <2> QED BY <1>2, <1>3, FilesFromFunction
<1>5. \A j \in DOMAIN fs : gs[j] = IF j = i THEN [fs[j] EXCEPT !.handle = b] ELSE fs[j]
  OBVIOUS
<1> HIDE DEF gs
<1>6. \A j \in DOMAIN fs : /\ gs[j].id = fs[j].id /\ gs[j].isRotating = fs[j].isRotating
                           /\ gs[j].size = fs[j].size
                           /\ gs[j].handle = IF j = i THEN b ELSE fs[j].handle
  BY <1>1, <1>5 DEF File
<1> QED BY <1>4, <1>6 DEF Alike, gs

\* A file is measured.
LEMMA SizeSet ==
  ASSUME NEW fs \in Seq(File), NEW i \in DOMAIN fs, NEW s \in Nat
  PROVE  LET gs == [fs EXCEPT ![i].size = s] IN
           /\ Alike(fs, gs)
           /\ \A j \in DOMAIN fs : gs[j].handle = fs[j].handle
           /\ gs[i].size = s
           /\ \A j \in DOMAIN fs : j # i => gs[j].size = fs[j].size
<1> DEFINE gs == [fs EXCEPT ![i].size = s]
<1>1. \A j \in DOMAIN fs : fs[j] \in File
  BY FileFields
<1>2. Len(fs) \in Nat /\ DOMAIN fs = 1 .. Len(fs)
  BY FileFields
<1>3. gs \in [1 .. Len(fs) -> File]
  BY <1>1, <1>2 DEF File
<1>4. gs \in Seq(File) /\ Len(gs) = Len(fs) /\ DOMAIN gs = DOMAIN fs
  <2> HIDE DEF gs
  <2> QED BY <1>2, <1>3, FilesFromFunction
<1>5. \A j \in DOMAIN fs : gs[j] = IF j = i THEN [fs[j] EXCEPT !.size = s] ELSE fs[j]
  OBVIOUS
<1> HIDE DEF gs
<1>6. \A j \in DOMAIN fs : /\ gs[j].id = fs[j].id /\ gs[j].isRotating = fs[j].isRotating
                           /\ gs[j].handle = fs[j].handle
                           /\ gs[j].size = IF j = i THEN s ELSE fs[j].size
  BY <1>1, <1>5 DEF File
<1> QED BY <1>4, <1>6 DEF Alike, gs

\* Closing the handles of some files changes nothing else; HandlesClosed
\* closes them all.
LEMMA HandlesCleared ==
  ASSUME NEW fs \in Seq(File), NEW C
  PROVE  LET gs == [i \in DOMAIN fs |-> IF i \in C THEN [fs[i] EXCEPT !.handle = FALSE] ELSE fs[i]] IN
           /\ Alike(fs, gs)
           /\ \A j \in DOMAIN fs : gs[j].size = fs[j].size
           /\ \A j \in DOMAIN fs : gs[j].handle = IF j \in C THEN FALSE ELSE fs[j].handle
<1> DEFINE gs == [i \in DOMAIN fs |-> IF i \in C THEN [fs[i] EXCEPT !.handle = FALSE] ELSE fs[i]]
<1>1. \A j \in DOMAIN fs : fs[j] \in File
  BY FileFields
<1>2. Len(fs) \in Nat /\ DOMAIN fs = 1 .. Len(fs)
  BY FileFields
<1>3. gs \in [1 .. Len(fs) -> File]
  BY <1>1, <1>2 DEF File
<1>4. gs \in Seq(File) /\ Len(gs) = Len(fs) /\ DOMAIN gs = DOMAIN fs
  <2> HIDE DEF gs
  <2> QED BY <1>2, <1>3, FilesFromFunction
<1>5. \A j \in DOMAIN fs : gs[j] = IF j \in C THEN [fs[j] EXCEPT !.handle = FALSE] ELSE fs[j]
  OBVIOUS
<1> HIDE DEF gs
<1>6. \A j \in DOMAIN fs : /\ gs[j].id = fs[j].id /\ gs[j].isRotating = fs[j].isRotating
                           /\ gs[j].size = fs[j].size
                           /\ gs[j].handle = IF j \in C THEN FALSE ELSE fs[j].handle
  BY <1>1, <1>5 DEF File
<1> QED BY <1>4, <1>6 DEF Alike, gs

\* All handles are closed.
LEMMA AllHandlesClosed ==
  ASSUME NEW fs \in Seq(File)
  PROVE  /\ Alike(fs, HandlesClosed(fs))
         /\ \A j \in DOMAIN fs : /\ HandlesClosed(fs)[j].size = fs[j].size
                                 /\ ~ HandlesClosed(fs)[j].handle
<1> DEFINE C == DOMAIN fs
           gs == [i \in DOMAIN fs |-> IF i \in C THEN [fs[i] EXCEPT !.handle = FALSE] ELSE fs[i]]
<1>1. HandlesClosed(fs) = gs
  BY DEF HandlesClosed
<1> HIDE DEF C
<1>2. /\ Alike(fs, gs)
      /\ \A j \in DOMAIN fs : gs[j].size = fs[j].size
      /\ \A j \in DOMAIN fs : gs[j].handle = IF j \in C THEN FALSE ELSE fs[j].handle
  BY HandlesCleared
<1> HIDE DEF gs
<1>3. \A j \in DOMAIN fs : ~ gs[j].handle
  BY <1>2 DEF C
<1> QED BY <1>1, <1>2, <1>3

\* Files become readable.
LEMMA RotationsEnded ==
  ASSUME NEW fs \in Seq(File), NEW C
  PROVE  LET gs == [i \in DOMAIN fs |-> IF i \in C THEN [fs[i] EXCEPT !.isRotating = FALSE] ELSE fs[i]] IN
           /\ gs \in Seq(File) /\ Len(gs) = Len(fs) /\ DOMAIN gs = DOMAIN fs
           /\ \A j \in DOMAIN fs : /\ gs[j].id = fs[j].id /\ gs[j].size = fs[j].size
                                   /\ gs[j].handle = fs[j].handle
                                   /\ gs[j].isRotating = IF j \in C THEN FALSE ELSE fs[j].isRotating
<1> DEFINE gs == [i \in DOMAIN fs |-> IF i \in C THEN [fs[i] EXCEPT !.isRotating = FALSE] ELSE fs[i]]
<1>1. \A j \in DOMAIN fs : fs[j] \in File
  BY FileFields
<1>2. Len(fs) \in Nat /\ DOMAIN fs = 1 .. Len(fs)
  BY FileFields
<1>3. gs \in [1 .. Len(fs) -> File]
  BY <1>1, <1>2 DEF File
<1>4. gs \in Seq(File) /\ Len(gs) = Len(fs) /\ DOMAIN gs = DOMAIN fs
  <2> HIDE DEF gs
  <2> QED BY <1>2, <1>3, FilesFromFunction
<1>5. \A j \in DOMAIN fs : gs[j] = IF j \in C THEN [fs[j] EXCEPT !.isRotating = FALSE] ELSE fs[j]
  OBVIOUS
<1> HIDE DEF gs
<1>6. \A j \in DOMAIN fs : /\ gs[j].id = fs[j].id /\ gs[j].handle = fs[j].handle
                           /\ gs[j].size = fs[j].size
                           /\ gs[j].isRotating = IF j \in C THEN FALSE ELSE fs[j].isRotating
  BY <1>1, <1>5 DEF File
<1> QED BY <1>4, <1>6 DEF gs

\* The live files start at the last that is not rotating, or at the first.
LEMMA FirstLiveIsLive ==
  ASSUME NEW fs \in Seq(File), fs # <<>>
  PROVE  /\ FirstLive(fs) \in DOMAIN fs
         /\ FirstLive(fs) = 1 \/ ~ fs[FirstLive(fs)].isRotating
         /\ \A j \in DOMAIN fs : j > FirstLive(fs) => fs[j].isRotating
<1>0. Len(fs) \in Nat /\ Len(fs) # 0 /\ DOMAIN fs = 1 .. Len(fs)
  BY FileFields, EmptySeq
<1> DEFINE C == {i \in DOMAIN fs : i = 1 \/ ~ fs[i].isRotating}
<1>1. 1 \in C /\ C \subseteq 0 .. Len(fs)
  BY <1>0
<1>2. PICK m \in C : \A i \in C : i <= m
  <2> HIDE DEF C
  <2>1. Max(C) \in C /\ \A i \in C : i <= Max(C)
    BY <1>0, <1>1, GreatestNumber
  <2> QED BY <2>1
<1>3. /\ m \in DOMAIN fs /\ (m = 1 \/ ~ fs[m].isRotating)
      /\ \A j \in m + 1 .. Len(fs) : fs[j].isRotating
  <2>1. m \in DOMAIN fs /\ (m = 1 \/ ~ fs[m].isRotating) /\ m \in Nat /\ m >= 1
    BY <1>0
  <2>2. ASSUME NEW j \in m + 1 .. Len(fs) PROVE fs[j].isRotating
    <3>1. j \in DOMAIN fs /\ ~ (j <= m)
      BY <1>0, <2>1
    <3>2. j \notin C
      BY <1>2, <3>1
    <3> QED BY <3>1, <3>2
  <2> QED BY <2>1, <2>2
<1>4. /\ FirstLive(fs) \in DOMAIN fs
      /\ FirstLive(fs) = 1 \/ ~ fs[FirstLive(fs)].isRotating
      /\ \A j \in FirstLive(fs) + 1 .. Len(fs) : fs[j].isRotating
  BY <1>3 DEF FirstLive
<1>5. \A j \in DOMAIN fs : j > FirstLive(fs) => j \in FirstLive(fs) + 1 .. Len(fs)
  BY <1>0, <1>4
<1> QED BY <1>4, <1>5

\* Math.max of two numbers.
LEMMA MaxOfTwo ==
  ASSUME NEW a \in Int, NEW b \in Int
  PROVE  Max({a, b}) = IF a >= b THEN a ELSE b
<1> DEFINE m == IF a >= b THEN a ELSE b
<1>1. m \in {a, b} /\ \A y \in {a, b} : m >= y
  OBVIOUS
<1>2. \A x \in {a, b} : (\A y \in {a, b} : x >= y) => x = m
  OBVIOUS
<1> HIDE DEF m
<1> QED BY <1>1, <1>2 DEF Max, m

\* Math.min of two numbers.
LEMMA MinOfTwo ==
  ASSUME NEW a \in Int, NEW b \in Int
  PROVE  Min({a, b}) = IF a <= b THEN a ELSE b
<1> DEFINE m == IF a <= b THEN a ELSE b
<1>1. m \in {a, b} /\ \A y \in {a, b} : m <= y
  OBVIOUS
<1>2. \A x \in {a, b} : (\A y \in {a, b} : x <= y) => x = m
  OBVIOUS
<1> HIDE DEF m
<1> QED BY <1>1, <1>2 DEF Min, m

\* Known files are in the directory's order, as long as is known or longer, and
\* the rotating ones come last.
InOrder(fs, d) ==
  /\ \A i \in DOMAIN fs : fs[i].id \in DOMAIN d /\ fs[i].size <= Len(d[fs[i].id])
  /\ \A i, j \in DOMAIN fs : i < j => /\ fs[i].id < fs[j].id
                                      /\ ~ fs[j].isRotating => ~ fs[i].isRotating

\* What readdir adds is new, empty as yet, and sorts last.
LEMMA FoundOnTop ==
  ASSUME files \in Seq(File), gone \in Nat, disk \in Disks, InOrder(files, disk)
  PROVE  /\ Found \in Seq(File) /\ InOrder(Found, disk)
         /\ DOMAIN files \subseteq DOMAIN Found
         /\ \A i \in DOMAIN files : Found[i] = files[i]
         /\ \A i \in DOMAIN Found : i \notin DOMAIN files =>
              Found[i].isRotating /\ Found[i].size = 0 /\ ~ Found[i].handle
<1> DEFINE last == IF files = <<>> THEN 0 ELSE Last(files).id
           first == Max({last, gone}) + 1
           N == Max({0, Len(disk) + 1 - first})
           new == [k \in 1 .. N |-> [id |-> first + k - 1, size |-> 0, isRotating |-> TRUE,
                                     handle |-> FALSE]]
<1>0. /\ Len(disk) \in Nat /\ DOMAIN disk = 1 .. Len(disk) /\ \A f \in DOMAIN disk : Len(disk[f]) \in Nat
      /\ Len(files) \in Nat /\ DOMAIN files = 1 .. Len(files)
      /\ \A i \in DOMAIN files : files[i].id \in Nat
  BY FileFields, LenProperties, ElementOfSeq DEF Disks
<1>1. last \in Nat /\ \A i \in DOMAIN files : files[i].id <= last
  <2>1. CASE files = <<>>
    <3>1. DOMAIN <<>> = {}
      OBVIOUS
    <3> QED BY <2>1, <3>1
  <2>2. CASE files # <<>>
    <3>1. Len(files) \in DOMAIN files /\ last = files[Len(files)].id
      BY <1>0, <2>2, EmptySeq DEF Last
    <3>2. \A i \in DOMAIN files : i < Len(files) \/ i = Len(files)
      BY <1>0
    <3>3. ASSUME NEW i \in DOMAIN files PROVE files[i].id <= last
      <4>1. files[i].id < last \/ files[i].id = last
        BY <3>1, <3>2 DEF InOrder
      <4> HIDE DEF last
      <4> QED BY <1>0, <3>1, <4>1
    <3> QED BY <1>0, <3>1, <3>3
  <2> QED BY <2>1, <2>2
<1> HIDE DEF last
<1>2. first \in Nat /\ first > last /\ first >= 1
  BY <1>1, MaxOfTwo
<1> HIDE DEF first
<1>3. N \in Nat /\ \A k \in 1 .. N : first + k - 1 \in 1 .. Len(disk)
  <2>1. N = IF 0 >= Len(disk) + 1 - first THEN 0 ELSE Len(disk) + 1 - first
    BY <1>0, <1>2, MaxOfTwo
  <2> HIDE DEF N
  <2> QED BY <1>0, <1>2, <2>1
<1> HIDE DEF N
<1>4. new \in Seq(File) /\ Len(new) = N /\ DOMAIN new = 1 .. N
  <2>1. new \in [1 .. N -> File]
    BY <1>2, <1>3 DEF File
  <2> HIDE DEF new
  <2> QED BY <1>3, <2>1, FilesFromFunction
<1>5. \A k \in 1 .. N : /\ new[k].id = first + k - 1 /\ new[k].size = 0 /\ new[k].isRotating
                        /\ ~ new[k].handle
  OBVIOUS
<1> HIDE DEF new
<1>6. Found = files \o new
  BY DEF Found, new, N, first, last
<1>7. /\ Found \in Seq(File) /\ Len(Found) = Len(files) + N /\ DOMAIN Found = 1 .. Len(files) + N
      /\ \A i \in 1 .. Len(files) + N : Found[i] = IF i <= Len(files) THEN files[i] ELSE new[i - Len(files)]
  <2>1. files \o new \in Seq(File) /\ Len(files \o new) = Len(files) + Len(new)
        /\ \A i \in 1 .. Len(files) + Len(new) :
             (files \o new)[i] = IF i <= Len(files) THEN files[i] ELSE new[i - Len(files)]
    BY <1>4, ConcatProperties
  <2>2. DOMAIN (files \o new) = 1 .. Len(files \o new)
    BY <2>1, FileFields
  <2> QED BY <1>4, <1>6, <2>1, <2>2
<1>8. \A i \in DOMAIN files : i \in DOMAIN Found /\ Found[i] = files[i]
  BY <1>0, <1>3, <1>7
<1>9. ASSUME NEW i \in DOMAIN Found, i \notin DOMAIN files
      PROVE  /\ Found[i].isRotating /\ Found[i].size = 0 /\ ~ Found[i].handle
             /\ i > Len(files) /\ Found[i].id = first + (i - Len(files)) - 1
             /\ Found[i].id \in DOMAIN disk /\ Found[i].id > last
  <2> DEFINE k == i - Len(files)
  <2>1. k \in 1 .. N /\ i > Len(files) /\ ~ (i <= Len(files))
    BY <1>0, <1>3, <1>7, <1>9
  <2>2. Found[i] = new[k]
    BY <1>7, <2>1
  <2>3. first + k - 1 \in DOMAIN disk /\ first + k - 1 > last
    <3> HIDE DEF k
    <3>1. first + k - 1 \in DOMAIN disk
      BY <1>0, <1>3, <2>1
    <3>2. k \in Nat /\ k >= 1
      BY <1>3, <2>1
    <3> QED BY <1>1, <1>2, <3>1, <3>2
  <2>4. i > Len(files) /\ k = i - Len(files)
    BY <2>1
  <2> HIDE DEF k
  <2>5. Found[i].id = first + k - 1 /\ Found[i].size = 0 /\ Found[i].isRotating /\ ~ Found[i].handle
    BY <1>5, <2>1, <2>2
  <2> QED BY <2>3, <2>4, <2>5
<1>10. \A i \in DOMAIN Found : Found[i].id \in DOMAIN disk /\ Found[i].size <= Len(disk[Found[i].id])
  <2>1. ASSUME NEW i \in DOMAIN Found, i \notin DOMAIN files
        PROVE  Found[i].id \in DOMAIN disk /\ Found[i].size <= Len(disk[Found[i].id])
    <3>1. Found[i].id \in DOMAIN disk /\ Found[i].size = 0
      BY <1>9, <2>1
    <3> QED BY <1>0, <3>1
  <2> QED BY <1>8, <2>1 DEF InOrder
<1>11. ASSUME NEW i \in DOMAIN Found, NEW j \in DOMAIN Found, i < j
       PROVE  Found[i].id < Found[j].id /\ (~ Found[j].isRotating => ~ Found[i].isRotating)
  <2>1. CASE j \in DOMAIN files
    <3>1. i \in DOMAIN files
      BY <1>0, <1>7, <1>11, <2>1
    <3> QED BY <1>8, <1>11, <2>1, <3>1 DEF InOrder
  <2>2. CASE j \notin DOMAIN files
    <3>1. Found[j].isRotating
      BY <1>9, <2>2
    <3>2. Found[j].id > last /\ Found[j].id = first + (j - Len(files)) - 1 /\ Found[j].id \in Nat
      BY <1>0, <1>9, <2>2
    <3>3. CASE i \in DOMAIN files
      <4>1. Found[i].id <= last /\ Found[i].id \in Nat
        BY <1>0, <1>1, <1>8, <3>3
      <4> QED BY <1>1, <3>1, <3>2, <4>1
    <3>4. CASE i \notin DOMAIN files
      <4>1. Found[i].id = first + (i - Len(files)) - 1
        BY <1>9, <3>4
      <4>2. i \in Nat /\ j \in Nat
        BY <1>0, <1>3, <1>7
      <4>3. Found[i].id < Found[j].id
        BY <1>0, <1>2, <1>11, <3>2, <4>1, <4>2
      <4> QED BY <3>1, <4>3
    <3> QED BY <3>3, <3>4
  <2> QED BY <2>1, <2>2
<1>12. InOrder(Found, disk)
  BY <1>10, <1>11 DEF InOrder
<1>13. DOMAIN files \subseteq DOMAIN Found
  BY <1>8
<1> QED BY <1>7, <1>8, <1>9, <1>12, <1>13

-----------------------------------------------------------------------------
(* Where a call of the reader's is.                                         *)

\* The reader's variables without what was served.
ReaderTypes ==
  /\ mode \in Modes
  /\ gone \in 0 .. MaxDeletes
  /\ sessions \in 0 .. MaxSessions
  /\ {open, failure, missed} \subseteq BOOLEAN
  /\ files \in Seq(File)
  /\ rpc \in {"idle", "check", "stat", "read"}
  /\ checking \in Nat
  /\ pending \in SUBSET (DOMAIN files)

\* What runs when.
Phases ==
  /\ rpc \in {"idle", "check"} => pending = {} /\ ~ failure
  /\ rpc \in {"stat", "read"} => pending # {}
  /\ rpc = "stat" => \A i \in pending : ~ files[i].isRotating
  /\ rpc = "check" => files # <<>> /\ checking <= Len(files)
  /\ rpc = "read" => open /\ mode.lazy
  /\ sessions = 0 => files = <<>> /\ ~ open /\ rpc = "idle"

\* An immutable source is opened once no server is left.
Still == mode.immutable /\ files # <<>> => mpc = "down" /\ runs = MaxRuns /\ Live = {}

\* Files with something to read are open.
Opened(fs) == \A i \in DOMAIN fs : fs[i].size > 0 => fs[i].handle

\* Between sessions all are closed, and an eager first session has them open.
Handles ==
  /\ rpc = "idle" /\ ~ open => \A i \in DOMAIN files : ~ files[i].handle
  /\ ~ mode.lazy /\ sessions = 1 /\ (open \/ rpc # "idle") => Opened(files)

\* What every step keeps, whatever is served.
ReaderShape == ReaderTypes /\ InOrder(files, disk) /\ Phases /\ Still /\ Handles

\* An update or a lazy read may end with these files.
Fit(fs) == /\ fs \in Seq(File) /\ fs # <<>> /\ DOMAIN fs = DOMAIN files /\ InOrder(fs, disk)
           /\ ~ mode.lazy /\ sessions = 1 => Opened(fs)

\* A list is empty if it has no place.
LEMMA SomeFiles ==
  ASSUME NEW fs \in Seq(File)
  PROVE  fs # <<>> <=> DOMAIN fs # {}
<1>1. fs # <<>> => Len(fs) \in Nat \ {0}
  BY EmptySeq
<1>2. DOMAIN fs = 1 .. Len(fs)
  BY FileFields
<1>3. fs # <<>> => 1 \in DOMAIN fs
  BY <1>1, <1>2
<1>4. fs = <<>> => DOMAIN fs = {}
  <2>1. DOMAIN <<>> = {}
    OBVIOUS
  <2> QED BY <2>1, Zenon
<1> QED BY <1>3, <1>4, Zenon

\* Opening and closing leaves the order alone.
LEMMA AlikeInOrder ==
  ASSUME NEW d, NEW fs, InOrder(fs, d), NEW gs, Alike(fs, gs),
         \A i \in DOMAIN fs : gs[i].size = fs[i].size
  PROVE  InOrder(gs, d)
BY DEF InOrder, Alike

\* updateState() ends.
LEMMA UpdatedShape ==
  ASSUME ReaderShape, NEW fs, Fit(fs), Updated(fs), UNCHANGED <<vars, gone, mode, sessions>>,
         sessions # 0
  PROVE  ReaderShape'
<1>1. /\ rpc' = "idle" /\ checking' = 0 /\ pending' = {} /\ failure' = FALSE /\ open' = TRUE
      /\ missed' = missed
      /\ files' = fs \/ (files' = HandlesClosed(fs) /\ mode.lazy)
  BY DEF Updated
<1>2. UNCHANGED <<disk, mpc, runs, wst, gone, mode, sessions>>
  BY DEF vars, master, workers
<1>3. /\ files' \in Seq(File) /\ DOMAIN files' = DOMAIN files /\ InOrder(files', disk)
      /\ ~ mode.lazy /\ sessions = 1 => Opened(files')
  <2>1. CASE files' = fs
    BY <2>1 DEF Fit
  <2>2. CASE files' = HandlesClosed(fs) /\ mode.lazy
    <3>1. /\ Alike(fs, HandlesClosed(fs))
          /\ \A j \in DOMAIN fs : HandlesClosed(fs)[j].size = fs[j].size
      BY AllHandlesClosed DEF Fit
    <3>2. InOrder(HandlesClosed(fs), disk)
      BY <3>1, AlikeInOrder DEF Fit
    <3> QED BY <2>2, <3>1, <3>2 DEF Alike, Fit
  <2> QED BY <1>1, <2>1, <2>2
<1>4. ReaderTypes'
  BY <1>1, <1>2, <1>3 DEF ReaderShape, ReaderTypes
<1>5. Phases'
  BY <1>1, <1>2 DEF Phases
<1>6. Still'
  <2>1. files # <<>>
    <3>1. DOMAIN files # {} /\ files \in Seq(File)
      BY SomeFiles DEF Fit, ReaderShape, ReaderTypes
    <3> QED BY <3>1, SomeFiles
  <2> QED BY <1>2, <2>1 DEF Still, ReaderShape, Live
<1>7. Handles'
  BY <1>1, <1>2, <1>3 DEF Handles
<1> QED BY <1>2, <1>3, <1>4, <1>5, <1>6, <1>7 DEF ReaderShape

\* waitAll() throws, or goes on to wait.
LEMMA ThrewShape ==
  ASSUME ReaderShape, NEW fs, Fit(fs), NEW waiting \in SUBSET DOMAIN fs, Threw(fs, waiting),
         UNCHANGED <<vars, gone, mode, sessions>>, sessions # 0,
         waiting # {} => rpc \in {"stat", "read"},
         rpc = "stat" => \A i \in waiting : ~ fs[i].isRotating
  PROVE  ReaderShape'
<1>1. /\ pending' = waiting /\ open' = open
      /\ \/ /\ waiting # {} /\ failure' = TRUE /\ files' = fs
            /\ UNCHANGED <<rpc, checking, missed>>
         \/ /\ waiting = {} /\ failure' = FALSE /\ rpc' = "idle" /\ checking' = 0
            /\ missed' = (missed \/ rpc # "read")
            /\ (files' = fs /\ open) \/ (files' = HandlesClosed(fs) /\ ~ open)
  BY DEF Threw
<1>2. UNCHANGED <<disk, mpc, runs, wst, gone, mode, sessions>>
  BY DEF vars, master, workers
<1>3. /\ Alike(fs, HandlesClosed(fs))
      /\ \A j \in DOMAIN fs : HandlesClosed(fs)[j].size = fs[j].size
      /\ \A j \in DOMAIN fs : ~ HandlesClosed(fs)[j].handle
  BY AllHandlesClosed DEF Fit
<1>4. InOrder(HandlesClosed(fs), disk)
  BY <1>3, AlikeInOrder DEF Fit
<1>5. /\ files' \in Seq(File) /\ DOMAIN files' = DOMAIN files /\ InOrder(files', disk)
      /\ files' = fs \/ (files' = HandlesClosed(fs) /\ ~ open /\ rpc' = "idle")
  BY <1>1, <1>3, <1>4 DEF Fit, Alike
<1>6. ReaderTypes'
  <2>1. missed' \in BOOLEAN
    BY <1>1 DEF ReaderShape, ReaderTypes
  <2>2. open' \in BOOLEAN /\ failure' \in BOOLEAN
    <3>1. open \in BOOLEAN
      BY DEF ReaderShape, ReaderTypes
    <3>2. failure' = TRUE \/ failure' = FALSE
      BY <1>1
    <3> QED BY <1>1, <3>1, <3>2
  <2>4. rpc' \in {"idle", "check", "stat", "read"} /\ checking' \in Nat
    BY <1>1 DEF ReaderShape, ReaderTypes
  <2>3. pending' \in SUBSET (DOMAIN files')
    BY <1>1, <1>5 DEF Fit
  <2> QED BY <1>2, <1>5, <2>1, <2>2, <2>3, <2>4 DEF ReaderShape, ReaderTypes
<1>7. Phases'
  <2>1. CASE waiting # {}
    BY <1>1, <1>2, <2>1 DEF ReaderShape, Phases
  <2>2. CASE waiting = {}
    BY <1>1, <1>2, <2>2 DEF ReaderShape, Phases
  <2> QED BY <2>1, <2>2
<1>8. Still'
  <2>1. files # <<>>
    <3>1. DOMAIN files # {} /\ files \in Seq(File)
      BY SomeFiles DEF Fit, ReaderShape, ReaderTypes
    <3> QED BY <3>1, SomeFiles
  <2> QED BY <1>2, <2>1 DEF Still, ReaderShape, Live
<1>9. Handles'
  <2>1. CASE waiting # {}
    <3>1. files' = fs /\ rpc' # "idle"
      BY <1>1, <2>1 
    <3> QED BY <1>2, <3>1 DEF Handles, Fit
  <2>2. CASE waiting = {}
    <3>1. (files' = fs /\ open) \/ (files' = HandlesClosed(fs) /\ ~ open)
      BY <1>1, <2>2
    <3>2. rpc' = "idle" /\ open' = open
      BY <1>1, <2>2
    <3>3. CASE open
      BY <1>2, <3>1, <3>2, <3>3 DEF Handles, Fit
    <3>4. CASE ~ open
      BY <1>2, <1>3, <3>1, <3>2, <3>4 DEF Handles, Fit, Alike
    <3> QED BY <3>3, <3>4
  <2> QED BY <2>1, <2>2
<1> QED BY <1>2, <1>5, <1>6, <1>7, <1>8, <1>9 DEF ReaderShape

\* A promise is fulfilled.
LEMMA FulfilledShape ==
  ASSUME ReaderShape, NEW fs, Fit(fs), Alike(files, fs), NEW i \in pending, rpc \in {"stat", "read"},
         Fulfilled(fs, i), UNCHANGED <<vars, gone, mode, sessions>>
  PROVE  ReaderShape'
<1> DEFINE waiting == pending \ {i}
<1>1. sessions # 0 /\ waiting \in SUBSET DOMAIN fs /\ (rpc = "stat" => \A j \in waiting : ~ fs[j].isRotating)
  BY DEF ReaderShape, Phases, ReaderTypes, Fit, Alike
<1>2. \/ failure /\ Threw(fs, waiting)
      \/ ~ failure /\ waiting = {} /\ rpc = "stat" /\ Updated(fs)
      \/ /\ ~ failure /\ ~ (waiting = {} /\ rpc = "stat")
         /\ pending' = waiting /\ files' = fs
         /\ rpc' = IF waiting = {} THEN "idle" ELSE rpc
         /\ UNCHANGED <<open, checking, failure, missed, served>>
  BY DEF Fulfilled
<1> HIDE DEF waiting
<1>3. CASE failure /\ Threw(fs, waiting)
  BY <1>1, <1>3, ThrewShape
<1>4. CASE ~ failure /\ waiting = {} /\ rpc = "stat" /\ Updated(fs)
  BY <1>1, <1>4, UpdatedShape
<1>5. CASE /\ ~ failure /\ ~ (waiting = {} /\ rpc = "stat")
           /\ pending' = waiting /\ files' = fs
           /\ rpc' = IF waiting = {} THEN "idle" ELSE rpc
           /\ UNCHANGED <<open, checking, failure, missed, served>>
  <2>1. UNCHANGED <<disk, mpc, runs, wst, gone, mode, sessions>>
    BY DEF vars, master, workers
  <2>2. files' \in Seq(File) /\ InOrder(files', disk) /\ DOMAIN files' = DOMAIN files
    BY <1>5 DEF Fit
  <2>3. ReaderTypes'
    <3>1. rpc' \in {"idle", "check", "stat", "read"}
      BY <1>5 DEF ReaderShape, ReaderTypes
    <3>2. pending' \in SUBSET (DOMAIN files')
      BY <1>1, <1>5
    <3> QED BY <1>5, <2>1, <2>2, <3>1, <3>2 DEF ReaderShape, ReaderTypes
  <2>4. Phases'
    <3>1. CASE waiting = {}
      BY <1>1, <1>5, <2>1, <3>1 DEF ReaderShape, Phases
    <3>2. CASE waiting # {}
      BY <1>1, <1>5, <2>1, <3>2 DEF ReaderShape, Phases
    <3> QED BY <3>1, <3>2
  <2>5. Still'
    <3>1. DOMAIN files # {} /\ files \in Seq(File)
      BY DEF ReaderShape, ReaderTypes
    <3>2. files # <<>>
      BY <3>1, SomeFiles
    <3> QED BY <2>1, <3>2 DEF Still, ReaderShape, Live
  <2>6. Handles'
    <3>1. rpc' = "idle" => open'
      BY <1>5 DEF ReaderShape, Phases
    <3> QED BY <1>5, <2>1, <3>1 DEF Handles, Fit
  <2> QED BY <2>1, <2>2, <2>3, <2>4, <2>5, <2>6 DEF ReaderShape
<1> QED BY <1>2, <1>3, <1>4, <1>5

\* readdir.
LEMMA ReadDirShape ==
  ASSUME TypeOK, ReaderShape, ReadDir
  PROVE  ReaderShape'
<1>0. /\ MayUpdate /\ Found # <<>> /\ files' = Found /\ rpc = "idle" /\ pending = {} /\ ~ failure
      /\ UNCHANGED <<gone, mode, open, failure, missed, served>>
      /\ UNCHANGED <<disk, mpc, runs, wst>>
  BY DEF ReadDir, MayUpdate, ReaderShape, Phases, vars, master, workers
<1>1. /\ Found \in Seq(File) /\ InOrder(Found, disk) /\ DOMAIN files \subseteq DOMAIN Found
      /\ \A i \in DOMAIN files : Found[i] = files[i]
      /\ \A i \in DOMAIN Found : i \notin DOMAIN files =>
           Found[i].isRotating /\ Found[i].size = 0 /\ ~ Found[i].handle
  <2>1. files \in Seq(File) /\ gone \in Nat /\ disk \in Disks /\ InOrder(files, disk)
    BY SourceAssumption DEF ReaderShape, ReaderTypes, TypeOK, Disks
  <2> QED BY <2>1, FoundOnTop
<1>2. Len(Found) \in Nat /\ Len(Found) \in DOMAIN Found /\ DOMAIN Found = 1 .. Len(Found)
  <2>1. Len(Found) \in Nat \ {0}
    BY <1>0, <1>1, EmptySeq
  <2> QED BY <1>1, <2>1, FileFields
<1>3. \/ sessions' = sessions /\ open
      \/ sessions' = sessions + 1 /\ sessions < MaxSessions /\ ~ open
  BY <1>0 DEF MayUpdate
<1>4. sessions' \in 0 .. MaxSessions /\ sessions' # 0 /\ sessions \in Nat
  BY <1>3, SourceAssumption DEF ReaderShape, ReaderTypes, Phases
<1>5. \/ rpc' = "check" /\ checking' = Len(Found) /\ pending' = pending
      \/ rpc' = "stat" /\ ~ Found[Len(Found)].isRotating /\ pending' = {Len(Found)} /\ checking' = checking
  BY <1>0 DEF ReadDir, Last
<1>6. ReaderTypes'
  BY <1>0, <1>1, <1>2, <1>4, <1>5 DEF ReaderShape, ReaderTypes
<1>7. Phases'
  <2>1. CASE rpc' = "check" /\ checking' = Len(Found) /\ pending' = pending
    BY <1>0, <1>2, <1>4, <2>1 DEF Phases
  <2>2. CASE rpc' = "stat" /\ ~ Found[Len(Found)].isRotating /\ pending' = {Len(Found)} /\ checking' = checking
    BY <1>0, <1>2, <1>4, <2>2 DEF Phases
  <2> QED BY <1>5, <2>1, <2>2
<1>8. Still'
  BY <1>0 DEF MayUpdate, Still, Live
<1>9. Handles'
  <2>1. rpc' # "idle"
    BY <1>5
  <2>2. ASSUME ~ mode.lazy, sessions' = 1 PROVE Opened(Found)
    <3>1. CASE open
      <4>1. Opened(files)
        BY <1>3, <2>2, <3>1 DEF ReaderShape, Handles
      <4>2. ASSUME NEW i \in DOMAIN Found, Found[i].size > 0 PROVE Found[i].handle
        <5>1. i \in DOMAIN files
          BY <1>1, <4>2
        <5> QED BY <1>1, <4>1, <4>2, <5>1 DEF Opened
      <4> QED BY <4>2 DEF Opened
    <3>2. CASE ~ open
      <4>1. sessions = 0
        BY <1>3, <1>4, <2>2, <3>2
      <4>2. files = <<>>
        BY <4>1 DEF ReaderShape, Phases
      <4>3. DOMAIN files = {}
        <5>1. DOMAIN <<>> = {}
          OBVIOUS
        <5> QED BY <4>2, <5>1, Zenon
      <4>4. \A i \in DOMAIN Found : ~ (Found[i].size > 0)
        BY <1>1, <4>3
      <4> QED BY <4>4 DEF Opened
    <3> QED BY <3>1, <3>2
  <2> QED BY <1>0, <2>1, <2>2 DEF Handles
<1> QED BY <1>0, <1>1, <1>6, <1>7, <1>8, <1>9 DEF ReaderShape

\* The loop has found the last file that is readable.
LEMMA CheckSettledShape ==
  ASSUME TypeOK, ReaderShape, CheckSettled
  PROVE  /\ ReaderShape'
         /\ FirstLive(files) <= checking /\ checking \in DOMAIN files /\ FirstLive(files) \in DOMAIN files
         /\ pending' = FirstLive(files) .. checking
         /\ DOMAIN files' = DOMAIN files
         /\ \A j \in DOMAIN files :
              /\ files'[j].id = files[j].id /\ files'[j].size = files[j].size
              /\ files'[j].isRotating = IF j \in FirstLive(files) .. checking THEN FALSE
                                        ELSE files[j].isRotating
<1> DEFINE first == FirstLive(files)
           C == first .. checking
<1>0. /\ rpc = "check" /\ checking >= first /\ rpc' = "stat" /\ checking' = 0 /\ pending' = C
      /\ files' = [i \in DOMAIN files |-> IF i \in C THEN [files[i] EXCEPT !.isRotating = FALSE]
                                                      ELSE files[i]]
      /\ UNCHANGED <<gone, mode, sessions, open, failure, missed, served>>
      /\ UNCHANGED <<disk, mpc, runs, wst>>
      /\ sessions # 0 /\ ~ failure
  BY DEF CheckSettled, Checked, vars, master, workers, ReaderShape, Phases
<1>1. files \in Seq(File) /\ files # <<>> /\ checking <= Len(files) /\ InOrder(files, disk) /\ checking \in Nat
  BY <1>0 DEF ReaderShape, ReaderTypes, Phases
<1>2. /\ first \in DOMAIN files
      /\ first = 1 \/ ~ files[first].isRotating
      /\ \A j \in DOMAIN files : j > first => files[j].isRotating
  BY <1>1, FirstLiveIsLive
<1>3. Len(files) \in Nat /\ DOMAIN files = 1 .. Len(files)
  BY <1>1, FileFields
<1> HIDE DEF C
<1> DEFINE gs == [i \in DOMAIN files |-> IF i \in C THEN [files[i] EXCEPT !.isRotating = FALSE]
                                                    ELSE files[i]]
<1>4. /\ files' \in Seq(File) /\ Len(files') = Len(files) /\ DOMAIN files' = DOMAIN files
      /\ \A j \in DOMAIN files : /\ files'[j].id = files[j].id /\ files'[j].size = files[j].size
                                 /\ files'[j].handle = files[j].handle
                                 /\ files'[j].isRotating = IF j \in C THEN FALSE ELSE files[j].isRotating
  <2>1. files' = gs
    BY <1>0
  <2>2. /\ gs \in Seq(File) /\ Len(gs) = Len(files) /\ DOMAIN gs = DOMAIN files
        /\ \A j \in DOMAIN files : /\ gs[j].id = files[j].id /\ gs[j].size = files[j].size
                                   /\ gs[j].handle = files[j].handle
                                   /\ gs[j].isRotating = IF j \in C THEN FALSE ELSE files[j].isRotating
    BY <1>1, RotationsEnded
  <2> HIDE DEF gs
  <2> QED BY <2>1, <2>2
<1> HIDE DEF first
<1>5. first <= checking /\ checking \in DOMAIN files /\ first \in C /\ C \subseteq DOMAIN files
  BY <1>0, <1>1, <1>2, <1>3 DEF C
<1>6. InOrder(files', disk)
  <2>1. ASSUME NEW i \in DOMAIN files, NEW j \in DOMAIN files, i < j, ~ files'[j].isRotating
        PROVE  ~ files'[i].isRotating
    <3>1. i \in Nat /\ j \in Nat /\ first \in Nat
      BY <1>2, <1>3
    <3>2. CASE j \in C
      <4>1. i \in C \/ i < first
        BY <1>0, <1>1, <2>1, <3>1, <3>2 DEF C
      <4>2. CASE i \in C
        BY <1>4, <4>2
      <4>3. CASE i < first
        <5>1. first # 1
          BY <1>3, <3>1, <4>3
        <5>2. ~ files[i].isRotating
          BY <1>1, <1>2, <4>3, <5>1 DEF InOrder
        <5> QED BY <1>4, <5>2
      <4> QED BY <4>1, <4>2, <4>3
    <3>3. CASE j \notin C
      <4>1. ~ files[j].isRotating
        BY <1>4, <2>1, <3>3
      <4>2. ~ files[i].isRotating
        BY <1>1, <2>1, <4>1 DEF InOrder
      <4> QED BY <1>4, <4>2
    <3> QED BY <3>2, <3>3
  <2> QED BY <1>1, <1>4, <2>1 DEF InOrder
<1>7. ReaderTypes'
  BY <1>0, <1>4, <1>5 DEF ReaderShape, ReaderTypes
<1>8. Phases'
  BY <1>0, <1>4, <1>5 DEF Phases
<1>9. Still'
  BY <1>0, <1>1 DEF Still, ReaderShape, Live
<1>10. Handles'
  BY <1>0, <1>4 DEF ReaderShape, Handles, Opened
<1> QED BY <1>0, <1>2, <1>4, <1>5, <1>6, <1>7, <1>8, <1>9, <1>10 DEF ReaderShape, first, C

\* Who opens a file, and when.
LEMMA OpensShape ==
  ASSUME ReaderShape, NEW i \in DOMAIN files, Opens(i)
  PROVE  /\ Fit(files) /\ sessions # 0 /\ files \in Seq(File)
         /\ \/ i \in pending /\ rpc \in {"stat", "read"}
            \/ rpc = "check" /\ pending = {}
<1>1. files \in Seq(File) /\ InOrder(files, disk)
  BY DEF ReaderShape, ReaderTypes
<1>2. (i \in pending /\ rpc \in {"stat", "read"}) \/ (rpc = "check" /\ pending = {})
  BY DEF Opens, ReaderShape, ReaderTypes, Phases
<1>3. sessions # 0 /\ rpc # "idle"
  BY <1>2 DEF ReaderShape, Phases
<1>4. files # <<>>
  BY <1>1, SomeFiles
<1> QED BY <1>1, <1>2, <1>3, <1>4 DEF Fit, ReaderShape, Handles

\* A file is opened.
LEMMA OpenHandleShape ==
  ASSUME ReaderShape, NEW i \in DOMAIN files, OpenHandle(i)
  PROVE  ReaderShape'
<1> DEFINE fs == [files EXCEPT ![i].handle = TRUE]
<1>1. /\ Fit(files) /\ sessions # 0 /\ files \in Seq(File)
      /\ (i \in pending /\ rpc \in {"stat", "read"}) \/ (rpc = "check" /\ pending = {})
  BY OpensShape DEF OpenHandle
<1>2. /\ Alike(files, fs) /\ \A j \in DOMAIN files : fs[j].size = files[j].size
      /\ \A j \in DOMAIN files : files[j].handle => fs[j].handle
  <2>1. /\ Alike(files, fs) /\ \A j \in DOMAIN files : fs[j].size = files[j].size
        /\ fs[i].handle = TRUE /\ \A j \in DOMAIN files : j # i => fs[j].handle = files[j].handle
    BY <1>1, HandleSet
  <2> HIDE DEF fs
  <2>2. \A j \in DOMAIN files : files[j].handle => fs[j].handle
    BY <2>1
  <2> QED BY <2>1, <2>2
<1>0. /\ IF rpc = "read" THEN Fulfilled(fs, i)
         ELSE files' = fs /\ UNCHANGED <<open, rpc, checking, pending, failure, missed, served>>
      /\ UNCHANGED <<vars, gone, mode, sessions>>
  BY DEF OpenHandle
<1> HIDE DEF fs
<1>3. Fit(fs)
  <2>1. fs # <<>>
    <3>1. fs \in Seq(File) /\ DOMAIN fs # {}
      BY <1>2 DEF Alike
    <3> QED BY <3>1, SomeFiles
  <2>2. InOrder(fs, disk)
    BY <1>1, <1>2, AlikeInOrder DEF Fit
  <2> QED BY <1>1, <1>2, <2>1, <2>2 DEF Fit, Alike, Opened
<1>4. CASE rpc = "read"
  <2>1. i \in pending
    BY <1>1, <1>4
  <2> QED BY <1>0, <1>2, <1>3, <1>4, <2>1, FulfilledShape
<1>5. CASE rpc # "read"
  <2>1. files' = fs /\ UNCHANGED <<open, rpc, checking, pending, failure, missed, gone, mode, sessions>>
        /\ UNCHANGED <<disk, mpc, runs, wst>>
    BY <1>0, <1>5 DEF vars, master, workers
  <2>2. rpc \in {"stat", "check"}
    BY <1>1, <1>5
  <2>3. ReaderTypes'
    BY <1>2, <2>1 DEF ReaderShape, ReaderTypes, Alike
  <2>4. Phases'
    <3>1. \A j \in pending : files'[j].isRotating = files[j].isRotating
      BY <1>2, <2>1 DEF Alike, ReaderShape, ReaderTypes
    <3>2. files' # <<>> /\ Len(files') = Len(files)
      BY <1>2, <1>3, <2>1 DEF Fit, Alike
    <3> QED BY <2>1, <2>2, <3>1, <3>2 DEF ReaderShape, Phases
  <2>5. Still'
    <3>1. files # <<>>
      BY <1>1 DEF Fit
    <3> QED BY <2>1, <3>1 DEF Still, ReaderShape, Live
  <2>6. Handles'
    BY <1>3, <2>1, <2>2 DEF Handles, Fit
  <2> QED BY <1>3, <2>1, <2>3, <2>4, <2>5, <2>6 DEF ReaderShape, Fit
<1> QED BY <1>4, <1>5

\* A file is measured.
LEMMA UpdateSizeShape ==
  ASSUME TypeOK, ReaderShape, NEW i \in DOMAIN files, UpdateSize(i)
  PROVE  ReaderShape'
<1> DEFINE s == Len(disk[files[i].id])
           fs == [files EXCEPT ![i].size = s]
<1>0. /\ rpc = "stat" /\ i \in pending /\ files[i].handle /\ Fulfilled(fs, i)
      /\ UNCHANGED <<vars, gone, mode, sessions>>
  BY DEF UpdateSize
<1>1. files \in Seq(File) /\ InOrder(files, disk) /\ s \in Nat
  <2>1. files \in Seq(File) /\ InOrder(files, disk) /\ files[i].id \in DOMAIN disk
    BY DEF ReaderShape, ReaderTypes, InOrder
  <2> QED BY <2>1, LenProperties, ElementOfSeq DEF TypeOK
<1> HIDE DEF s
<1>2. /\ Alike(files, fs)
      /\ \A j \in DOMAIN files : fs[j].handle = files[j].handle
      /\ fs[i].size = s
      /\ \A j \in DOMAIN files : j # i => fs[j].size = files[j].size
  BY <1>1, SizeSet
<1> HIDE DEF fs
<1>3. Fit(fs)
  <2>1. fs # <<>>
    <3>1. fs \in Seq(File) /\ DOMAIN fs # {}
      BY <1>2 DEF Alike
    <3> QED BY <3>1, SomeFiles
  <2>2. \A j \in DOMAIN files : fs[j].size <= Len(disk[fs[j].id])
    <3>1. fs[i].size <= Len(disk[fs[i].id])
      BY <1>1, <1>2 DEF Alike, s
    <3>2. \A j \in DOMAIN files : j # i => fs[j].size <= Len(disk[fs[j].id])
      BY <1>1, <1>2 DEF Alike, InOrder
    <3> QED BY <3>1, <3>2
  <2>3. InOrder(fs, disk)
    BY <1>1, <1>2, <2>2 DEF Alike, InOrder
  <2>4. ~ mode.lazy /\ sessions = 1 => Opened(fs)
    <3>1. ~ mode.lazy /\ sessions = 1 => Opened(files)
      BY <1>0 DEF ReaderShape, Handles
    <3> QED BY <1>0, <1>2, <3>1 DEF Opened, Alike
  <2> QED BY <1>2, <2>1, <2>3, <2>4 DEF Fit, Alike
<1> QED BY <1>0, <1>2, <1>3, FulfilledShape

\* A cluster that is down for good does not write.
LEMMA StillStays ==
  ASSUME TypeOK, mpc = "down", runs = MaxRuns, Live = {}, Next
  PROVE  mpc' = "down" /\ runs' = MaxRuns /\ Live' = {}
<1>0. \A w \in Workers : wst[w] # "live"
  BY DEF Live
<1>1. ~ StartMaster
  BY ClusterAssumption DEF StartMaster
<1>2. \A w \in Workers : ~ WorkerNext(w)
  BY <1>0 DEF WorkerNext, WORKER_SPAWNED, WorkerSpawnedThrows, WORKER_EXITED, WorkerExitedThrows,
     WorkerLog, WorkerLogThrows, WorkerFlush, WorkerRotate, WorkerExit
<1>3. Tick
  BY <1>1, <1>2 DEF Next, MasterNext, STARTING_UP, MasterLog, MasterLogThrows, MasterFlush,
     Rotate, RotatePing, StopMaster, MasterUp
<1> QED BY <1>3 DEF Tick, master, workers, Live

\* Growing files keep their order, and lengths their bounds.
LEMMA GrownInOrder ==
  ASSUME TypeOK, NEW e, NEW k, GrownFrom(disk, e, k), files \in Seq(File), InOrder(files, disk)
  PROVE  InOrder(files, e)
<1>1. ASSUME NEW i \in DOMAIN files
      PROVE  files[i].id \in DOMAIN e /\ files[i].size <= Len(e[files[i].id])
  <2>1. files[i].id \in DOMAIN disk /\ files[i].size <= Len(disk[files[i].id]) /\ files[i].size \in Nat
    BY FileFields DEF InOrder
  <2>2. disk[files[i].id] \in Seq(Record)
    BY <2>1, LenProperties, ElementOfSeq DEF TypeOK
  <2>3. PICK u \in Seq(Record) : e[files[i].id] = disk[files[i].id] \o u
    BY <2>1 DEF GrownFrom
  <2>4. Len(e[files[i].id]) = Len(disk[files[i].id]) + Len(u) /\ Len(u) \in Nat
        /\ Len(disk[files[i].id]) \in Nat
    BY <2>2, <2>3, ConcatProperties, LenProperties
  <2>5. files[i].id \in DOMAIN e
    BY <2>1 DEF GrownFrom
  <2> QED BY <2>1, <2>4, <2>5
<1> QED BY <1>1 DEF InOrder

\* The loop goes on, or ends without a result.
LEMMA CheckShape ==
  ASSUME ReaderShape, CheckRotating \/ CheckNone
  PROVE  ReaderShape'
<1>1. files \in Seq(File) /\ files # <<>> /\ InOrder(files, disk) /\ rpc = "check" /\ sessions # 0
      /\ checking \in Nat /\ checking <= Len(files)
  BY DEF CheckRotating, CheckNone, Checked, ReaderShape, ReaderTypes, Phases
<1>2. CASE CheckRotating
  <2>1. /\ checking' = checking - 1 /\ checking >= FirstLive(files)
        /\ UNCHANGED <<gone, mode, sessions, open, files, rpc, pending, failure, missed>>
        /\ UNCHANGED <<disk, mpc, runs, wst>>
    BY <1>2 DEF CheckRotating, Checked, vars, master, workers
  <2>2. Len(files) \in Nat /\ FirstLive(files) \in 1 .. Len(files)
    BY <1>1, FirstLiveIsLive, FileFields
  <2>3. checking' \in Nat /\ checking' <= Len(files)
    BY <1>1, <2>1, <2>2
  <2> QED BY <1>1, <2>1, <2>3 DEF ReaderShape, ReaderTypes, Phases, Still, Live, Handles
<1>3. CASE CheckNone
  <2>1. Fit(files)
    BY <1>1 DEF Fit, ReaderShape, Handles
  <2> QED BY <1>1, <1>3, <2>1, UpdatedShape DEF CheckNone
<1> QED BY <1>2, <1>3

\* A file is gone.
LEMMA OpenFailsShape ==
  ASSUME ReaderShape, NEW i \in DOMAIN files, OpenFails(i)
  PROVE  ReaderShape'
<1> DEFINE waiting == pending \ {i}
<1>1. Opens(i) /\ Threw(files, waiting) /\ UNCHANGED <<vars, gone, mode, sessions>>
  BY DEF OpenFails
<1>2. Fit(files) /\ sessions # 0 /\ ((i \in pending /\ rpc \in {"stat", "read"}) \/ (rpc = "check" /\ pending = {}))
  BY <1>1, OpensShape
<1>3. waiting \in SUBSET DOMAIN files /\ (waiting # {} => rpc \in {"stat", "read"})
      /\ (rpc = "stat" => \A j \in waiting : ~ files[j].isRotating)
  BY <1>2 DEF ReaderShape, ReaderTypes, Phases
<1> HIDE DEF waiting
<1> QED BY <1>1, <1>2, <1>3, ThrewShape

\* What a lazy read() closes and opens.
LEMMA ReadShape ==
  ASSUME ReaderShape, NEW from, NEW to, Read(from, to)
  PROVE  ReaderShape' /\ Alike(files, files')
         /\ \A j \in DOMAIN files : files'[j].size = files[j].size
<1> DEFINE included == Included(files, from, to)
           excluded == {i \in Readable(files) \ included :
                          files[i].handle /\ (mode.polls => i # FirstLive(files))}
           waiting == {i \in included : ~files[i].handle}
           gs == [i \in DOMAIN files |-> IF i \in excluded THEN [files[i] EXCEPT !.handle = FALSE]
                                                           ELSE files[i]]
<1>1. /\ open /\ rpc = "idle" /\ mode.lazy /\ files' = gs /\ pending' = waiting
      /\ rpc' = IF waiting = {} THEN "idle" ELSE "read"
      /\ UNCHANGED <<gone, mode, sessions, open, checking, failure, missed>>
      /\ UNCHANGED <<disk, mpc, runs, wst>>
  BY DEF Read, vars, master, workers
<1>2. files \in Seq(File) /\ InOrder(files, disk) /\ pending = {} /\ ~ failure /\ sessions # 0
  BY <1>1 DEF ReaderShape, ReaderTypes, Phases
<1>3. waiting \subseteq DOMAIN files
  BY DEF Included, Readable
<1> HIDE DEF excluded, waiting
<1>4. /\ Alike(files, gs) /\ \A j \in DOMAIN files : gs[j].size = files[j].size
  BY <1>2, HandlesCleared
<1> HIDE DEF gs
<1>5. InOrder(gs, disk)
  BY <1>2, <1>4, AlikeInOrder
<1>6. ReaderTypes'
  BY <1>1, <1>3, <1>4 DEF ReaderShape, ReaderTypes, Alike
<1>7. Phases'
  BY <1>1, <1>2 DEF Phases
<1>8. Still'
  <2>1. files' # <<>> => files # <<>>
    BY <1>1, <1>2, <1>4, SomeFiles DEF Alike
  <2> QED BY <1>1, <2>1 DEF Still, ReaderShape, Live
<1>9. Handles'
  BY <1>1 DEF Handles
<1> QED BY <1>1, <1>4, <1>5, <1>6, <1>7, <1>8, <1>9 DEF ReaderShape

\* teardown().
LEMMA TeardownShape ==
  ASSUME ReaderShape, Teardown
  PROVE  ReaderShape'
<1>1. /\ open /\ rpc = "idle" /\ open' = FALSE /\ files' = HandlesClosed(files)
      /\ UNCHANGED <<gone, mode, sessions, rpc, checking, pending, failure, missed>>
      /\ UNCHANGED <<disk, mpc, runs, wst>>
  BY DEF Teardown, vars, master, workers
<1>2. files \in Seq(File) /\ InOrder(files, disk) /\ pending = {} /\ ~ failure /\ sessions # 0
  BY <1>1 DEF ReaderShape, ReaderTypes, Phases
<1>3. /\ Alike(files, files') /\ \A j \in DOMAIN files : files'[j].size = files[j].size
      /\ \A j \in DOMAIN files : ~ files'[j].handle
  BY <1>1, <1>2, AllHandlesClosed
<1>4. InOrder(files', disk)
  BY <1>2, <1>3, AlikeInOrder
<1>5. ReaderTypes'
  BY <1>1, <1>2, <1>3 DEF ReaderShape, ReaderTypes, Alike
<1>6. Phases'
  BY <1>1, <1>2 DEF Phases
<1>7. Still'
  <2>1. files' # <<>> => files # <<>>
    BY <1>2, <1>3, SomeFiles DEF Alike
  <2> QED BY <1>1, <2>1 DEF Still, ReaderShape, Live
<1>8. Handles'
  <2>1. \A j \in DOMAIN files' : ~ files'[j].handle
    BY <1>3 DEF Alike
  <2> QED BY <1>1, <2>1 DEF Handles
<1> QED BY <1>1, <1>4, <1>5, <1>6, <1>7, <1>8 DEF ReaderShape

\* The writers go on under the reader's eyes.
LEMMA ClusterShape ==
  ASSUME IInv, IInv', ReaderShape, ClusterNext
  PROVE  ReaderShape' /\ GrownFrom(disk, disk', 0)
<1>1. Next /\ UNCHANGED <<gone, mode, sessions, open, files, rpc, checking, pending, failure, missed>>
  BY DEF ClusterNext, reader
<1>2. TypeOK /\ Shape /\ TypeOK'
  BY DEF IInv
<1>3. GrownFrom(disk, disk', 0)
  <2>1. 0 \in 0 .. Len(disk) /\ NobodyBehind(0)
    <3>1. \A w \in Live : wfile[w] >= 0
      BY <1>2 DEF TypeOK, Live
    <3> QED BY <1>2, <3>1, LenProperties DEF TypeOK, NobodyBehind
  <2> QED BY <1>1, <1>2, <2>1, NobodyFallsBehind
<1>4. InOrder(files, disk')
  BY <1>2, <1>3, GrownInOrder DEF ReaderShape, ReaderTypes
<1>5. Still'
  BY <1>1, <1>2, StillStays DEF ReaderShape, Still
<1> QED BY <1>1, <1>3, <1>4, <1>5 DEF ReaderShape, ReaderTypes, Phases, Handles

\* Every action keeps ReaderShape.
LEMMA ReaderShapeStep ==
  ASSUME IInv, IInv', ReaderShape, [ClusterNext \/ SourceNext \/ Delete]_allVars
  PROVE  ReaderShape'
<1>0. TypeOK
  BY DEF IInv
<1>1. CASE ClusterNext
  BY <1>1, ClusterShape
<1>2. CASE ReadDir
  BY <1>0, <1>2, ReadDirShape
<1>3. CASE CheckSettled
  BY <1>0, <1>3, CheckSettledShape
<1>4. CASE CheckRotating \/ CheckNone
  BY <1>4, CheckShape
<1>5. ASSUME NEW i \in DOMAIN files, UpdateSize(i) \/ OpenHandle(i) \/ OpenFails(i)
      PROVE  ReaderShape'
  BY <1>0, <1>5, UpdateSizeShape, OpenHandleShape, OpenFailsShape
<1>6. ASSUME NEW from, NEW to, Read(from, to)
      PROVE  ReaderShape'
  BY <1>6, ReadShape
<1>7. CASE Teardown
  BY <1>7, TeardownShape
<1>8. CASE Delete
  <2>1. /\ gone' = gone + 1 /\ gone < MaxDeletes
        /\ UNCHANGED <<mode, sessions, open, files, rpc, checking, pending, failure, missed>>
        /\ UNCHANGED <<disk, mpc, runs, wst>>
    BY <1>8 DEF Delete, reader, vars, master, workers
  <2>2. gone' \in 0 .. MaxDeletes
    BY <2>1, SourceAssumption DEF ReaderShape, ReaderTypes
  <2> QED BY <2>1, <2>2 DEF ReaderShape, ReaderTypes, Phases, Still, Live, Handles
<1>9. CASE UNCHANGED allVars
  BY <1>9 DEF allVars, reader, vars, master, workers, ReaderShape, ReaderTypes, Phases, Still, Live, Handles
<1>10. CASE ReadDirEmpty
  <2>1. /\ UNCHANGED <<gone, mode, open, files, rpc, checking, pending, failure, missed>>
        /\ UNCHANGED <<disk, mpc, runs, wst>> /\ MayUpdate /\ Found = <<>> /\ rpc = "idle"
    BY <1>10 DEF ReadDirEmpty, MayUpdate, vars, master, workers
  <2>2. \/ sessions' = sessions
        \/ sessions' = sessions + 1 /\ sessions < MaxSessions /\ ~ open
    BY <2>1 DEF MayUpdate
  <2>3. sessions' \in 0 .. MaxSessions /\ (sessions = 0 \/ sessions' # 0)
    BY <2>2, SourceAssumption DEF ReaderShape, ReaderTypes
  <2>4. files = <<>>
    <3>1. files \in Seq(File) /\ DOMAIN files \subseteq DOMAIN Found /\ Found \in Seq(File)
      BY <1>0, SourceAssumption, FoundOnTop DEF ReaderShape, ReaderTypes, TypeOK, Disks
    <3>2. DOMAIN Found = {}
      BY <2>1, <3>1, SomeFiles
    <3> QED BY <3>1, <3>2, SomeFiles
  <2>5. DOMAIN files = {}
    BY <2>4
  <2>6. ReaderTypes'
    BY <2>1, <2>3 DEF ReaderShape, ReaderTypes
  <2>7. Phases'
    <3>1. sessions' = 0 => sessions = 0
      BY <2>2, <2>3 DEF ReaderShape, ReaderTypes
    <3> QED BY <2>1, <3>1 DEF ReaderShape, Phases
  <2>8. Handles'
    BY <2>1, <2>5 DEF Handles, Opened
  <2> QED BY <2>1, <2>6, <2>7, <2>8 DEF ReaderShape, Still, Live
<1> QED BY <1>1, <1>2, <1>3, <1>4, <1>5, <1>6, <1>7, <1>8, <1>9, <1>10 DEF SourceNext, UpdateNext

LEMMA ReaderShapeInit == SourceInit => ReaderShape
<1> SUFFICES ASSUME SourceInit PROVE ReaderShape
  OBVIOUS
<1> USE DEF SourceInit
<1>1. files = <<>> /\ files \in Seq(File) /\ DOMAIN files = {}
  <2>1. <<>> \in Seq(File) /\ DOMAIN <<>> = {}
    OBVIOUS
  <2> QED BY <2>1, Zenon
<1>2. ReaderTypes
  <2>1. gone = 0 /\ sessions = 0 /\ checking = 0 /\ pending = {} /\ rpc = "idle" /\ mode \in Modes
        /\ open = FALSE /\ failure = FALSE /\ missed = FALSE
    OBVIOUS
  <2>2. 0 \in 0 .. MaxDeletes /\ 0 \in 0 .. MaxSessions
    BY SourceAssumption
  <2>3. {open, failure, missed} \subseteq BOOLEAN
    BY <2>1
  <2>4. gone \in 0 .. MaxDeletes /\ sessions \in 0 .. MaxSessions
    BY <2>1, <2>2
  <2> QED BY <1>1, <2>1, <2>3, <2>4 DEF ReaderTypes
<1>3. InOrder(files, disk)
  BY <1>1, Zenon DEF InOrder
<1> QED BY <1>1, <1>2, <1>3 DEF ReaderShape, Phases, Still, Handles, Opened

\* ReaderShape is an invariant.
LEMMA ReaderInvariant == SourceSpec => [](IInv /\ ReaderShape)
<1>1. IInv /\ IInv' /\ ReaderShape /\ [ClusterNext \/ SourceNext \/ Delete]_allVars => ReaderShape'
  BY ReaderShapeStep
<1> QED BY <1>1, ReaderShapeInit, SourceInvariant, PTL DEF SourceSpec

\* Between calls, a source that is not set up holds no handle, and an eager one in
\* its first session holds every file it serves: whichever opens fail or finish
\* late in waitAll(), and whatever is deleted meanwhile.
THEOREM HandlesHeld == SourceSpec => []HandlesAreHeld
<1>1. ReaderShape => HandlesAreHeld
  BY FileFields DEF ReaderShape, ReaderTypes, Handles, Opened, HandlesAreHeld, CanRead
<1> QED BY <1>1, ReaderInvariant, PTL

-----------------------------------------------------------------------------
(* What has become readable stays so, and what was passed is complete.      *)

\* Nobody writes to the files before a readable one.
Passed == throws = 0 =>
            \A j \in DOMAIN files : ~ files[j].isRotating => NobodyBehind(files[j].id)

\* They are known to their last record, unless their stat is yet to come.
Complete ==
  throws = 0 /\ ~ missed /\ ~ (failure /\ rpc = "stat") =>
    \A i, j \in DOMAIN files :
      i < j /\ ~ files[j].isRotating => \/ files[i].size = Len(disk[files[i].id])
                                        \/ rpc = "stat" /\ i \in pending

\* The same files with the same sizes.
Same(fs, gs) == Alike(fs, gs) /\ \A i \in DOMAIN fs : gs[i].size = fs[i].size

LEMMA AlikeTwice ==
  ASSUME NEW fs, NEW gs, NEW hs, Alike(fs, gs), Alike(gs, hs)
  PROVE  Alike(fs, hs)
BY DEF Alike

LEMMA SameTwice ==
  ASSUME NEW fs, NEW gs, NEW hs, Same(fs, gs), Same(gs, hs)
  PROVE  Same(fs, hs)
BY DEF Alike, Same

LEMMA SameFiles ==
  ASSUME NEW fs \in Seq(File)
  PROVE  Same(fs, fs) /\ Same(fs, HandlesClosed(fs))
BY AllHandlesClosed DEF Same, Alike

\* However an update or a lazy read ends, it ends with the files it has.
LEMMA EndsWithSame ==
  ASSUME NEW fs \in Seq(File), NEW waiting, NEW i,
         Updated(fs) \/ Threw(fs, waiting) \/ Fulfilled(fs, i)
  PROVE  Same(fs, files')
<1>1. Updated(fs) => files' \in {fs, HandlesClosed(fs)}
  BY DEF Updated
<1>2. \A w : Threw(fs, w) => files' \in {fs, HandlesClosed(fs)}
  BY DEF Threw
<1>3. Fulfilled(fs, i) => files' \in {fs, HandlesClosed(fs)}
  BY <1>1, <1>2 DEF Fulfilled
<1>4. files' = fs \/ files' = HandlesClosed(fs)
  BY <1>1, <1>2, <1>3
<1> QED BY <1>4, SameFiles

\* The steps that find nothing new.
LEMMA QuietSame ==
  ASSUME ReaderShape, \/ CheckRotating \/ CheckNone \/ ReadDirEmpty
                      \/ Teardown \/ Delete \/ UNCHANGED allVars
  PROVE  Same(files, files') /\ UNCHANGED vars
<1>0. files \in Seq(File)
  BY DEF ReaderShape, ReaderTypes
<1>1. CASE CheckRotating \/ ReadDirEmpty \/ Delete \/ UNCHANGED allVars
  BY <1>0, <1>1, SameFiles DEF CheckRotating, ReadDirEmpty, Delete, allVars, reader
<1>2. CASE CheckNone
  BY <1>0, <1>2, EndsWithSame DEF CheckNone
<1>3. CASE Teardown
  BY <1>0, <1>3, SameFiles DEF Teardown
<1> QED BY <1>1, <1>2, <1>3

\* Opening a file, or failing to, finds nothing new.
LEMMA OpenSame ==
  ASSUME ReaderShape, NEW i \in DOMAIN files, OpenHandle(i) \/ OpenFails(i)
  PROVE  Same(files, files') /\ UNCHANGED vars
<1>0. files \in Seq(File)
  BY DEF ReaderShape, ReaderTypes
<1>1. CASE OpenFails(i)
  BY <1>0, <1>1, EndsWithSame DEF OpenFails
<1>2. CASE OpenHandle(i)
  <2> DEFINE fs == [files EXCEPT ![i].handle = TRUE]
  <2>1. Fulfilled(fs, i) \/ files' = fs
    BY <1>2 DEF OpenHandle
  <2>2. Same(files, fs)
    BY <1>0, HandleSet DEF Same
  <2> HIDE DEF fs
  <2>3. fs \in Seq(File)
    BY <2>2 DEF Same, Alike
  <2>4. Same(fs, files')
    BY <2>1, <2>3, EndsWithSame, SameFiles
  <2> QED BY <1>2, <2>2, <2>4, SameTwice DEF OpenHandle
<1> QED BY <1>1, <1>2

\* A measured file is known to its last record.
LEMMA UpdateSizeAlike ==
  ASSUME TypeOK, ReaderShape, NEW i \in DOMAIN files, UpdateSize(i)
  PROVE  /\ Alike(files, files')
         /\ files'[i].size = Len(disk[files[i].id])
         /\ \A j \in DOMAIN files : j # i => files'[j].size = files[j].size
<1> DEFINE s == Len(disk[files[i].id])
           fs == [files EXCEPT ![i].size = s]
<1>0. Fulfilled(fs, i)
  BY DEF UpdateSize
<1>1. files \in Seq(File) /\ s \in Nat
  <2>1. files \in Seq(File) /\ files[i].id \in DOMAIN disk
    BY DEF ReaderShape, ReaderTypes, InOrder
  <2> QED BY <2>1, LenProperties, ElementOfSeq DEF TypeOK
<1> HIDE DEF s
<1>2. /\ Alike(files, fs) /\ fs[i].size = s
      /\ \A j \in DOMAIN files : j # i => fs[j].size = files[j].size
  BY <1>1, SizeSet
<1> HIDE DEF fs
<1>3. fs \in Seq(File)
  BY <1>2 DEF Alike
<1>4. Same(fs, files')
  BY <1>0, <1>3, EndsWithSame
<1>5. Alike(files, files')
  BY <1>2, <1>4, AlikeTwice DEF Same
<1> QED BY <1>2, <1>4, <1>5 DEF Same, Alike, s

\* A file whose contents say so has no writer behind it.
LEMMA SettledHere ==
  ASSUME IInv, throws = 0, NEW f \in DOMAIN disk, Settled(disk[f])
  PROVE  NobodyBehind(f)
BY SettledIsFinal DEF NoWriterBehind, NobodyBehind

\* Nor is anybody behind an earlier file.
LEMMA NobodyBehindEarlier ==
  ASSUME TypeOK, NEW f \in Nat, NEW g \in Nat, f <= g, NobodyBehind(g)
  PROVE  NobodyBehind(f)
BY DEF NobodyBehind, TypeOK, Live

\* Passed depends on the marks alone.
LEMMA PassedKept ==
  ASSUME Passed, Alike(files, files'), UNCHANGED vars
  PROVE  Passed'
BY DEF Passed, Alike, NobodyBehind, Live, MasterUp, vars, master, workers

\* Every action keeps Passed.
LEMMA PassedStep ==
  ASSUME IInv, IInv', ReaderShape, Passed, [ClusterNext \/ SourceNext \/ Delete]_allVars
  PROVE  Passed'
<1>0. TypeOK /\ Shape /\ TypeOK' /\ files \in Seq(File) /\ InOrder(files, disk)
  BY DEF IInv, ReaderShape, ReaderTypes
<1>1. CASE ClusterNext
  <2>1. Next /\ files' = files
    BY <1>1 DEF ClusterNext, reader
  <2> SUFFICES ASSUME throws' = 0, NEW j \in DOMAIN files, ~ files[j].isRotating
               PROVE  NobodyBehind(files[j].id)'
    BY <2>1 DEF Passed
  <2>2. throws = 0
    BY <1>0, <2>1, ThrowsStay
  <2>3. NobodyBehind(files[j].id)
    BY <2>2 DEF Passed
  <2>4. files[j].id \in 0 .. Len(disk)
    BY <1>0, LenProperties DEF InOrder, TypeOK
  <2>5. PICK k \in 0 .. Len(disk) : k = files[j].id
    BY <2>4
  <2>6. NobodyBehind(k)'
    BY <1>0, <2>1, <2>3, <2>5, NobodyFallsBehind
  <2> QED BY <2>1, <2>5, <2>6 DEF NobodyBehind
<1>2. CASE ReadDir
  <2>1. files' = Found /\ UNCHANGED vars
    BY <1>2 DEF ReadDir
  <2>2. \A j \in DOMAIN Found : ~ Found[j].isRotating => j \in DOMAIN files /\ Found[j] = files[j]
    BY <1>0, SourceAssumption, FoundOnTop DEF ReaderShape, ReaderTypes, TypeOK, Disks
  <2>3. \A k : NobodyBehind(k) => NobodyBehind(k)'
    BY <2>1 DEF NobodyBehind, Live, MasterUp, vars, master, workers
  <2> HIDE DEF NobodyBehind
  <2>4. ASSUME throws' = 0, NEW j \in DOMAIN Found, ~ Found[j].isRotating
        PROVE  NobodyBehind(Found[j].id)
    <3>1. throws = 0
      BY <2>1, <2>4 DEF vars
    <3> QED BY <2>2, <2>4, <3>1 DEF Passed
  <2> QED BY <2>1, <2>3, <2>4 DEF Passed, NobodyBehind, Live, MasterUp, vars, master, workers
<1>3. CASE CheckSettled
  <2> DEFINE first == FirstLive(files)
             C == first .. checking
  <2>1. /\ first <= checking /\ checking \in DOMAIN files /\ first \in DOMAIN files
        /\ DOMAIN files' = DOMAIN files
        /\ \A j \in DOMAIN files :
             /\ files'[j].id = files[j].id
             /\ files'[j].isRotating = IF j \in C THEN FALSE ELSE files[j].isRotating
    BY <1>0, <1>3, CheckSettledShape
  <2>2. UNCHANGED vars /\ ~ StillRotating(checking)
    BY <1>3 DEF CheckSettled
  <2> HIDE DEF first
  <2>3. ASSUME throws = 0 PROVE NobodyBehind(files[checking].id)
    <3>1. CASE mode.immutable
      <4>1. files # <<>>
        BY <1>0, <2>1, SomeFiles
      <4>2. Live = {} /\ ~ MasterUp
        BY <3>1, <4>1 DEF ReaderShape, Still, MasterUp
      <4> QED BY <4>2 DEF NobodyBehind
    <3>2. CASE ~ files[checking].isRotating
      BY <2>1, <2>3, <3>2 DEF Passed
    <3>3. CASE Settled(disk[files[checking].id])
      BY <1>0, <2>1, <2>3, <3>3, SettledHere DEF InOrder
    <3> QED BY <2>2, <3>1, <3>2, <3>3 DEF StillRotating
  <2>4. ASSUME throws = 0, NEW j \in DOMAIN files, ~ files'[j].isRotating
        PROVE  NobodyBehind(files[j].id)
    <3>1. CASE j \in C
      <4>1. j \in Nat /\ checking \in Nat /\ j <= checking
        BY <1>0, <2>1, <3>1, FileFields
      <4>2. files[j].id <= files[checking].id /\ files[j].id \in Nat /\ files[checking].id \in Nat
        <5>1. files[j].id \in Nat /\ files[checking].id \in Nat
          BY <1>0, <2>1, FileFields
        <5>2. j = checking \/ files[j].id < files[checking].id
          BY <1>0, <2>1, <4>1 DEF InOrder
        <5> QED BY <5>1, <5>2
      <4> QED BY <1>0, <2>3, <2>4, <4>2, NobodyBehindEarlier
    <3>2. CASE j \notin C
      BY <2>1, <2>4, <3>2 DEF Passed
    <3> QED BY <3>1, <3>2
  <2> QED BY <2>1, <2>2, <2>4 DEF Passed, NobodyBehind, Live, MasterUp, vars, master, workers
<1>4. ASSUME NEW i \in DOMAIN files, UpdateSize(i)
      PROVE  Passed'
  BY <1>0, <1>4, UpdateSizeAlike, PassedKept DEF UpdateSize
<1>5. ASSUME NEW from, NEW to, Read(from, to)
      PROVE  Passed'
  BY <1>5, ReadShape, PassedKept DEF Read
<1>6. ASSUME NEW i \in DOMAIN files, OpenHandle(i) \/ OpenFails(i)
      PROVE  Passed'
  BY <1>6, OpenSame, PassedKept DEF Same
<1>7. CASE CheckRotating \/ CheckNone \/ ReadDirEmpty \/ Teardown \/ Delete \/ UNCHANGED allVars
  BY <1>7, QuietSame, PassedKept DEF Same
<1> QED BY <1>1, <1>2, <1>3, <1>4, <1>5, <1>6, <1>7 DEF SourceNext, UpdateNext

\* Whatever ends, or goes on, with the sizes it had or has completed.
LEMMA CompleteKept ==
  ASSUME Complete, Same(files, files'), UNCHANGED vars,
         ~ missed' /\ ~ (failure' /\ rpc' = "stat") =>
           /\ ~ missed /\ ~ (failure /\ rpc = "stat")
           /\ rpc = "stat" => rpc' = "stat" /\ pending' = pending
  PROVE  Complete'
BY DEF Complete, Same, Alike, vars

\* How waitAll() ends leaves no file unmeasured, or a mark.
LEMMA ThrewMarks ==
  ASSUME ReaderShape, NEW fs, NEW waiting, Threw(fs, waiting),
         waiting # {} => rpc \in {"stat", "read"}
  PROVE  ~ missed' /\ ~ (failure' /\ rpc' = "stat") => ~ missed /\ rpc = "read"
BY DEF Threw, ReaderShape, ReaderTypes

\* Nor does a fulfilled promise.
LEMMA FulfilledMarks ==
  ASSUME ReaderShape, NEW fs, NEW i \in pending, rpc \in {"stat", "read"}, Fulfilled(fs, i)
  PROVE  ~ missed' /\ ~ (failure' /\ rpc' = "stat") =>
           /\ ~ missed
           /\ rpc = "read" \/ /\ ~ failure
                              /\ rpc' = "stat" => pending' = pending \ {i}
                              /\ rpc' # "stat" => pending \ {i} = {}
<1> DEFINE waiting == pending \ {i}
<1>1. \/ failure /\ Threw(fs, waiting)
      \/ ~ failure /\ waiting = {} /\ rpc = "stat" /\ Updated(fs)
      \/ /\ ~ failure /\ ~ (waiting = {} /\ rpc = "stat")
         /\ pending' = waiting
         /\ rpc' = IF waiting = {} THEN "idle" ELSE rpc
         /\ UNCHANGED <<open, checking, failure, missed, served>>
  BY DEF Fulfilled
<1> HIDE DEF waiting
<1>2. CASE failure /\ Threw(fs, waiting)
  BY <1>2, ThrewMarks
<1>3. CASE ~ failure /\ waiting = {} /\ rpc = "stat" /\ Updated(fs)
  BY <1>3 DEF Updated, waiting
<1>4. CASE /\ ~ failure /\ ~ (waiting = {} /\ rpc = "stat")
           /\ pending' = waiting
           /\ rpc' = IF waiting = {} THEN "idle" ELSE rpc
           /\ UNCHANGED <<open, checking, failure, missed, served>>
  BY <1>4 DEF waiting
<1> QED BY <1>1, <1>2, <1>3, <1>4

\* Every action keeps Complete.
LEMMA CompleteStep ==
  ASSUME IInv, IInv', ReaderShape, Passed, Complete, [ClusterNext \/ SourceNext \/ Delete]_allVars
  PROVE  Complete'
<1>0. TypeOK /\ Shape /\ TypeOK' /\ files \in Seq(File) /\ InOrder(files, disk)
      /\ Len(files) \in Nat /\ DOMAIN files = 1 .. Len(files)
  BY FileFields DEF IInv, ReaderShape, ReaderTypes
<1>1. CASE ClusterNext
  <2>1. Next /\ UNCHANGED <<files, missed, failure, rpc, pending>>
    BY <1>1 DEF ClusterNext, reader
  <2>2. throws' = 0 => throws = 0
    BY <1>0, <2>1, ThrowsStay
  <2>3. ASSUME throws = 0, NEW i \in DOMAIN files, NEW j \in DOMAIN files, i < j, ~ files[j].isRotating
        PROVE  disk'[files[i].id] = disk[files[i].id]
    <3>1. NobodyBehind(files[j].id)
      BY <2>3 DEF Passed
    <3>2. PICK k \in 0 .. Len(disk) : k = files[j].id
      <4>1. files[j].id \in DOMAIN disk
        BY <1>0 DEF InOrder
      <4>2. files[j].id \in 0 .. Len(disk)
        BY <1>0, <4>1, LenProperties, SMTT(30) DEF TypeOK
      <4> QED BY <4>2
    <3>3. GrownFrom(disk, disk', k)
      BY <1>0, <2>1, <3>1, <3>2, NobodyFallsBehind
    <3>4. files[i].id < k /\ files[i].id \in DOMAIN disk
      BY <1>0, <2>3, <3>2 DEF InOrder
    <3> QED BY <3>3, <3>4 DEF GrownFrom
  <2> QED BY <2>1, <2>2, <2>3 DEF Complete
<1>2. CASE ReadDir
  <2>1. /\ files' = Found /\ UNCHANGED vars /\ UNCHANGED <<failure, missed>> /\ rpc = "idle" /\ ~ failure
    BY <1>2 DEF ReadDir, MayUpdate, ReaderShape, Phases
  <2>2. /\ DOMAIN files \subseteq DOMAIN Found /\ Found \in Seq(File)
        /\ \A i \in DOMAIN files : Found[i] = files[i]
        /\ \A j \in DOMAIN Found : ~ Found[j].isRotating => j \in DOMAIN files
    BY <1>0, SourceAssumption, FoundOnTop DEF ReaderShape, ReaderTypes, TypeOK, Disks
  <2>3. ASSUME NEW i \in DOMAIN Found, NEW j \in DOMAIN Found, i < j, ~ Found[j].isRotating,
               throws = 0, ~ missed
        PROVE  Found[i].size = Len(disk[Found[i].id])
    <3>1. j \in DOMAIN files /\ Found[j] = files[j]
      BY <2>2, <2>3
    <3>2. i \in DOMAIN files /\ Found[i] = files[i]
      BY <1>0, <2>2, <2>3, <3>1, FileFields
    <3> QED BY <2>1, <2>3, <3>1, <3>2 DEF Complete
  <2> QED BY <2>1, <2>3 DEF Complete, vars
<1>3. CASE CheckSettled
  <2> DEFINE first == FirstLive(files)
             C == first .. checking
  <2>1. /\ first <= checking /\ checking \in DOMAIN files /\ first \in DOMAIN files
        /\ pending' = C /\ DOMAIN files' = DOMAIN files
        /\ \A j \in DOMAIN files :
             /\ files'[j].id = files[j].id /\ files'[j].size = files[j].size
             /\ files'[j].isRotating = IF j \in C THEN FALSE ELSE files[j].isRotating
    BY <1>0, <1>3, CheckSettledShape
  <2>2. UNCHANGED vars /\ UNCHANGED <<failure, missed>> /\ rpc = "check" /\ rpc' = "stat" /\ ~ failure
    BY <1>3 DEF CheckSettled, Checked, ReaderShape, Phases
  <2>3. /\ first = 1 \/ ~ files[first].isRotating
        /\ \A j \in DOMAIN files : j > first => files[j].isRotating
    BY <1>0, <2>1, FirstLiveIsLive, SomeFiles
  <2> HIDE DEF first
  <2>4. ASSUME NEW i \in DOMAIN files, NEW j \in DOMAIN files, i < j, ~ files'[j].isRotating,
               throws = 0, ~ missed, i \notin C
        PROVE  files[i].size = Len(disk[files[i].id])
    <3>1. i \in Nat /\ j \in Nat /\ i >= 1 /\ first \in Nat /\ checking \in Nat
      BY <1>0, <2>1
    <3>2. i < first
      <4>1. i < first \/ i > checking
        BY <2>4, <3>1
      <4>2. ASSUME i > checking PROVE FALSE
        <5>1. j \notin C /\ j > first
          BY <2>1, <2>4, <3>1, <4>2
        <5> QED BY <2>1, <2>3, <2>4, <5>1
      <4> QED BY <4>1, <4>2
    <3>3. first # 1
      BY <3>1, <3>2
    <3> QED BY <2>1, <2>2, <2>3, <2>4, <3>2, <3>3 DEF Complete
  <2> HIDE DEF C
  <2> QED BY <2>1, <2>2, <2>4 DEF Complete, vars
<1>4. ASSUME NEW i \in DOMAIN files, UpdateSize(i)
      PROVE  Complete'
  <2>1. /\ Alike(files, files') /\ files'[i].size = Len(disk[files[i].id])
        /\ \A j \in DOMAIN files : j # i => files'[j].size = files[j].size
    BY <1>0, <1>4, UpdateSizeAlike
  <2>2. ~ missed' /\ ~ (failure' /\ rpc' = "stat") =>
           /\ ~ missed /\ ~ failure
           /\ rpc' = "stat" => pending' = pending \ {i}
           /\ rpc' # "stat" => pending \ {i} = {}
    BY <1>4, FulfilledMarks DEF UpdateSize
  <2>3. UNCHANGED vars
    BY <1>4 DEF UpdateSize
  <2> QED BY <2>1, <2>2, <2>3 DEF Complete, Alike, vars
<1>5. ASSUME NEW from, NEW to, Read(from, to)
      PROVE  Complete'
  BY <1>5, ReadShape, CompleteKept DEF Read, Same
<1>6. ASSUME NEW i \in DOMAIN files, OpenFails(i)
      PROVE  Complete'
  <2> DEFINE waiting == pending \ {i}
  <2>1. Same(files, files') /\ UNCHANGED vars
    BY <1>6, OpenSame
  <2>2. Threw(files, waiting) /\ Opens(i)
    BY <1>6 DEF OpenFails
  <2>3. waiting # {} => rpc \in {"stat", "read"}
    BY <2>2, OpensShape
  <2> HIDE DEF waiting
  <2> QED BY <2>1, <2>2, <2>3, ThrewMarks, CompleteKept
<1>7. ASSUME NEW i \in DOMAIN files, OpenHandle(i)
      PROVE  Complete'
  <2>1. Same(files, files') /\ UNCHANGED vars
    BY <1>7, OpenSame
  <2>2. CASE rpc # "read"
    BY <1>7, <2>1, <2>2, CompleteKept DEF OpenHandle
  <2>3. CASE rpc = "read"
    <3> DEFINE fs == [files EXCEPT ![i].handle = TRUE]
    <3>1. Fulfilled(fs, i) /\ i \in pending
      BY <1>7, <2>3 DEF OpenHandle, Opens
    <3> HIDE DEF fs
    <3>2. ~ missed' /\ ~ (failure' /\ rpc' = "stat") => ~ missed
      BY <2>3, <3>1, FulfilledMarks
    <3> QED BY <2>1, <2>3, <3>2, CompleteKept
  <2> QED BY <2>2, <2>3
<1>8. CASE CheckRotating \/ ReadDirEmpty \/ Teardown \/ Delete \/ UNCHANGED allVars
  <2>1. Same(files, files') /\ UNCHANGED vars
    BY <1>8, QuietSame
  <2>2. UNCHANGED <<missed, failure, rpc, pending>>
    BY <1>8 DEF CheckRotating, ReadDirEmpty, Teardown, Delete, allVars, reader
  <2> QED BY <2>1, <2>2, CompleteKept
<1>9. CASE CheckNone
  <2>1. Same(files, files') /\ UNCHANGED vars
    BY <1>9, QuietSame
  <2> QED BY <1>9, <2>1, CompleteKept DEF CheckNone, Updated
<1> QED BY <1>1, <1>2, <1>3, <1>4, <1>5, <1>6, <1>7, <1>8, <1>9 DEF SourceNext, UpdateNext

LEMMA PassedInit == SourceInit => Passed /\ Complete
<1> SUFFICES ASSUME SourceInit PROVE Passed /\ Complete
  OBVIOUS
<1>1. DOMAIN files = {}
  <2>1. files = <<>>
    BY DEF SourceInit
  <2>2. DOMAIN <<>> = {}
    OBVIOUS
  <2> QED BY <2>1, <2>2, Zenon
<1> QED BY <1>1 DEF Passed, Complete

\* Both are invariants.
LEMMA PassedInvariant == SourceSpec => [](IInv /\ ReaderShape /\ Passed /\ Complete)
<1>1. IInv /\ IInv' /\ ReaderShape /\ Passed /\ Complete /\ [ClusterNext \/ SourceNext \/ Delete]_allVars
      => Passed' /\ Complete'
  BY PassedStep, CompleteStep
<1> QED BY <1>1, PassedInit, ReaderInvariant, PTL DEF SourceSpec

\* Between updates, every file before a readable one is readable and known to its
\* last record, unless a lifecycle write or an updateState() has thrown.
THEOREM PassedAreComplete == SourceSpec => []PassedFilesAreComplete
<1>1. ReaderShape /\ Complete => PassedFilesAreComplete
  <2> SUFFICES ASSUME ReaderShape, Complete, throws = 0, ~ missed,
                      NEW i \in DOMAIN files, NEW j \in DOMAIN files,
                      i < j, ~ files[j].isRotating, pending = {}
               PROVE  ~ files[i].isRotating /\ files[i].size = Len(disk[files[i].id])
    BY DEF PassedFilesAreComplete
  <2>1. rpc # "stat"
    BY DEF ReaderShape, Phases
  <2> QED BY <2>1 DEF ReaderShape, InOrder, Complete
<1> QED BY <1>1, PassedInvariant, PTL

-----------------------------------------------------------------------------
(* Parts of sequences laid end to end.                                      *)

\* Positions a + 1 to b of s, as far as there are such.
Cut(s, a, b) == SubSeq(s, (IF a >= 0 THEN a ELSE 0) + 1, IF b <= Len(s) THEN b ELSE Len(s))

\* What a cut is made of.
LEMMA CutProperties ==
  ASSUME NEW R, NEW s \in Seq(R), NEW a \in Int, NEW b \in Int
  PROVE  LET from == IF a >= 0 THEN a ELSE 0
             to == IF b <= Len(s) THEN b ELSE Len(s)
         IN /\ Cut(s, a, b) \in Seq(R)
            /\ Len(Cut(s, a, b)) = IF from <= to THEN to - from ELSE 0
            /\ \A i \in 1 .. to - from : Cut(s, a, b)[i] = s[from + i]
<1> DEFINE from == IF a >= 0 THEN a ELSE 0
           to == IF b <= Len(s) THEN b ELSE Len(s)
<1>1. Len(s) \in Nat /\ \A i \in 1 .. Len(s) : s[i] \in R
  BY LenProperties, ElementOfSeq
<1>2. from \in Nat /\ to \in Int /\ to <= Len(s)
  BY <1>1
<1>3. Cut(s, a, b) = SubSeq(s, from + 1, to)
  BY DEF Cut
<1> HIDE DEF from, to
<1>4. \A i \in from + 1 .. to : s[i] \in R
  BY <1>1, <1>2
<1>5. /\ SubSeq(s, from + 1, to) \in Seq(R)
      /\ Len(SubSeq(s, from + 1, to)) = IF from + 1 <= to THEN to - (from + 1) + 1 ELSE 0
      /\ \A i \in 1 .. to - (from + 1) + 1 : SubSeq(s, from + 1, to)[i] = s[(from + 1) + i - 1]
  <2>1. from + 1 \in Int
    BY <1>2
  <2> DEFINE m == from + 1
  <2>2. m \in Int /\ \A i \in m .. to : s[i] \in R
    BY <1>4, <2>1
  <2> HIDE DEF m
  <2>3. /\ SubSeq(s, m, to) \in Seq(R)
        /\ Len(SubSeq(s, m, to)) = IF m <= to THEN to - m + 1 ELSE 0
        /\ \A i \in 1 .. to - m + 1 : SubSeq(s, m, to)[i] = s[m + i - 1]
    BY <1>2, <2>2, SubSeqProperties
  <2> QED BY <2>3 DEF m
<1>6. /\ (IF from + 1 <= to THEN to - (from + 1) + 1 ELSE 0) = (IF from <= to THEN to - from ELSE 0)
      /\ to - (from + 1) + 1 = to - from
      /\ \A i \in Int : (from + 1) + i - 1 = from + i
  BY <1>2
<1>7. \A i \in 1 .. to - from : SubSeq(s, from + 1, to)[i] = s[from + i]
  BY <1>2, <1>5, <1>6
<1> QED BY <1>3, <1>5, <1>6, <1>7 DEF from, to

\* A cut from start to end.
LEMMA CutAll ==
  ASSUME NEW R, NEW s \in Seq(R)
  PROVE  Cut(s, 0, Len(s)) = s
BY SubSeqFull, LenProperties DEF Cut

\* A cut of nothing.
LEMMA CutNone ==
  ASSUME NEW a \in Int, NEW b \in Int
  PROVE  Cut(<<>>, a, b) = <<>>
<1> DEFINE from == IF a >= 0 THEN a ELSE 0
           to == IF b <= Len(<<>>) THEN b ELSE Len(<<>>)
<1>1. from \in Nat /\ to \in Int /\ to <= 0
  <2>1. Len(<<>>) = 0
    BY EmptySeq
  <2> QED BY <2>1
<1>2. Cut(<<>>, a, b) = SubSeq(<<>>, from + 1, to)
  BY DEF Cut
<1> HIDE DEF from, to
<1>3. from + 1 \in Int /\ to < from + 1
  BY <1>1
<1> QED BY <1>1, <1>2, <1>3, SubSeqEmpty

\* A cut inside.
LEMMA CutPart ==
  ASSUME NEW R, NEW s \in Seq(R), NEW a \in Nat, NEW b \in Nat
  PROVE  LET to == IF b <= Len(s) THEN b ELSE Len(s)
         IN /\ Cut(s, a, b) \in Seq(R)
            /\ Len(Cut(s, a, b)) = IF a <= to THEN to - a ELSE 0
            /\ \A i \in 1 .. to - a : Cut(s, a, b)[i] = s[a + i]
<1> DEFINE from == IF a >= 0 THEN a ELSE 0
           t == IF b <= Len(s) THEN b ELSE Len(s)
<1>1. from = a
  OBVIOUS
<1>2. /\ Cut(s, a, b) \in Seq(R)
      /\ Len(Cut(s, a, b)) = IF from <= t THEN t - from ELSE 0
      /\ \A i \in 1 .. t - from : Cut(s, a, b)[i] = s[from + i]
  <2>1. a \in Int /\ b \in Int
    OBVIOUS
  <2> QED BY <2>1, CutProperties
<1> HIDE DEF from, t
<1>3. /\ Cut(s, a, b) \in Seq(R)
      /\ Len(Cut(s, a, b)) = IF a <= t THEN t - a ELSE 0
      /\ \A i \in 1 .. t - a : Cut(s, a, b)[i] = s[a + i]
  BY <1>1, <1>2
<1> QED BY <1>3 DEF t

\* How long the cuts of two pieces are.
LEMMA CutLengths ==
  ASSUME NEW a \in Nat, NEW b \in Nat, NEW U \in Nat, NEW V \in Nat,
         NEW to, to = (IF b <= U + V THEN b ELSE U + V),
         NEW xto, xto = (IF b <= U THEN b ELSE U),
         NEW yfrom, yfrom = (IF a - U >= 0 THEN a - U ELSE 0),
         NEW yto, yto = (IF b - U <= V THEN b - U ELSE V),
         NEW x, x = (IF a <= xto THEN xto - a ELSE 0),
         NEW y, y = (IF yfrom <= yto THEN yto - yfrom ELSE 0)
  PROVE  /\ (IF a <= to THEN to - a ELSE 0) = x + y
         /\ \A i \in 1 .. x + y :
              /\ i <= to - a /\ a + i <= U + V
              /\ i <= x => i \in 1 .. xto - a /\ a + i <= U
              /\ i > x => /\ i - x \in 1 .. yto - yfrom /\ ~ (a + i <= U)
                         /\ yfrom + (i - x) = (a + i) - U
OBVIOUS

\* The cut of a concatenation is the concatenation of the cuts.
LEMMA CutOfConcat ==
  ASSUME NEW R, NEW u \in Seq(R), NEW v \in Seq(R), NEW a \in Nat, NEW b \in Nat
  PROVE  Cut(u \o v, a, b) = Cut(u, a, b) \o Cut(v, a - Len(u), b - Len(u))
<1> DEFINE c == u \o v
           x == Cut(u, a, b)
           U == Len(u)
           V == Len(v)
           y == Cut(v, a - U, b - U)
           to == IF b <= U + V THEN b ELSE U + V
           xto == IF b <= U THEN b ELSE U
           yfrom == IF a - U >= 0 THEN a - U ELSE 0
           yto == IF b - U <= V THEN b - U ELSE V
<1>1. /\ c \in Seq(R) /\ Len(c) = U + V /\ U \in Nat /\ V \in Nat
      /\ \A i \in 1 .. U + V : c[i] = IF i <= U THEN u[i] ELSE v[i - U]
  BY ConcatProperties, LenProperties
<1> HIDE DEF c
<1>2. /\ Cut(c, a, b) \in Seq(R)
      /\ Len(Cut(c, a, b)) = IF a <= to THEN to - a ELSE 0
      /\ \A i \in 1 .. to - a : Cut(c, a, b)[i] = c[a + i]
  <2> DEFINE t == IF b <= Len(c) THEN b ELSE Len(c)
  <2>1. t = to
    BY <1>1
  <2>2. /\ Cut(c, a, b) \in Seq(R)
        /\ Len(Cut(c, a, b)) = IF a <= t THEN t - a ELSE 0
        /\ \A i \in 1 .. t - a : Cut(c, a, b)[i] = c[a + i]
    <3>1. c \in Seq(R)
      BY <1>1
    <3> QED BY <3>1, CutPart
  <2> HIDE DEF t, to
  <2> QED BY <2>1, <2>2
<1>3. /\ x \in Seq(R) /\ Len(x) = IF a <= xto THEN xto - a ELSE 0
      /\ \A i \in 1 .. xto - a : x[i] = u[a + i]
  BY CutPart
<1>4. /\ y \in Seq(R) /\ Len(y) = IF yfrom <= yto THEN yto - yfrom ELSE 0
      /\ \A i \in 1 .. yto - yfrom : y[i] = v[yfrom + i]
  <2>1. a - U \in Int /\ b - U \in Int
    BY <1>1
  <2> DEFINE p == a - U
             q == b - U
  <2>2. p \in Int /\ q \in Int
    BY <2>1
  <2> HIDE DEF p, q
  <2> DEFINE pp == IF p >= 0 THEN p ELSE 0
             qq == IF q <= V THEN q ELSE V
  <2>3. /\ Cut(v, p, q) \in Seq(R)
        /\ Len(Cut(v, p, q)) = IF pp <= qq THEN qq - pp ELSE 0
        /\ \A i \in 1 .. qq - pp : Cut(v, p, q)[i] = v[pp + i]
    BY <2>2, CutProperties
  <2> QED BY <2>3 DEF p, q
<1> DEFINE X == Len(x)
           Y == Len(y)
<1>5. /\ x \o y \in Seq(R) /\ Len(x \o y) = X + Y /\ X \in Nat /\ Y \in Nat
      /\ \A i \in 1 .. X + Y : (x \o y)[i] = IF i <= X THEN x[i] ELSE y[i - X]
  <2> HIDE DEF x, y
  <2> QED BY <1>3, <1>4, ConcatProperties, LenProperties
<1>6. X = (IF a <= xto THEN xto - a ELSE 0) /\ Y = (IF yfrom <= yto THEN yto - yfrom ELSE 0)
  BY <1>3, <1>4
<1> HIDE DEF x, y, U, V, X, Y
<1>7. /\ (IF a <= to THEN to - a ELSE 0) = X + Y
      /\ \A i \in 1 .. X + Y :
           /\ i <= to - a /\ a + i <= U + V
           /\ i <= X => i \in 1 .. xto - a /\ a + i <= U
           /\ i > X => /\ i - X \in 1 .. yto - yfrom /\ ~ (a + i <= U)
                      /\ yfrom + (i - X) = (a + i) - U
  BY <1>1, <1>6, CutLengths
<1>8. to \in Int /\ xto \in Int /\ yto \in Int /\ yfrom \in Int
  BY <1>1
<1> HIDE DEF to, xto, yto, yfrom
<1>9. ASSUME NEW i \in 1 .. X + Y
      PROVE  Cut(c, a, b)[i] = (x \o y)[i]
  <2>1. i \in Nat /\ i >= 1 /\ i <= to - a /\ a + i \in 1 .. U + V /\ i \in 1 .. to - a
    <3>1. i \in Nat /\ i >= 1
      BY <1>5
    <3>2. i <= to - a /\ a + i <= U + V
      BY <1>7
    <3>3. a \in Nat /\ U \in Nat /\ V \in Nat /\ to - a \in Int
      BY <1>1, <1>8
    <3> QED BY <3>1, <3>2, <3>3
  <2>2. Cut(c, a, b)[i] = IF a + i <= U THEN u[a + i] ELSE v[(a + i) - U]
    BY <1>1, <1>2, <2>1
  <2>3. CASE i <= X
    <3>1. i \in 1 .. xto - a /\ a + i <= U
      BY <1>7, <2>3
    <3>2. x[i] = u[a + i] /\ (x \o y)[i] = x[i]
      BY <1>3, <1>5, <2>3, <3>1
    <3> QED BY <2>2, <3>1, <3>2
  <2>4. CASE ~ (i <= X)
    <3> DEFINE k == i - X
    <3>1. k \in 1 .. yto - yfrom /\ ~ (a + i <= U) /\ yfrom + k = (a + i) - U
      BY <1>5, <1>7, <2>1, <2>4
    <3>2. (x \o y)[i] = y[k]
      BY <1>5, <2>4
    <3> HIDE DEF k
    <3>3. y[k] = v[yfrom + k]
      BY <1>4, <3>1
    <3> QED BY <2>2, <3>1, <3>2, <3>3
  <2> QED BY <2>3, <2>4
<1>10. Cut(c, a, b) = x \o y
  <2>1. Len(Cut(c, a, b)) = Len(x \o y) /\ Cut(c, a, b) \in Seq(R)
        /\ \A i \in 1 .. Len(Cut(c, a, b)) : Cut(c, a, b)[i] = (x \o y)[i]
    BY <1>2, <1>5, <1>7, <1>9
  <2> QED BY <1>5, <2>1, SeqEqual
<1> QED BY <1>10 DEF c, x, y, U

\* A part of the first n.
LEMMA CutOfPrefix ==
  ASSUME NEW R, NEW s \in Seq(R), NEW n \in 0 .. Len(s), NEW a \in Int, NEW b \in Int
  PROVE  /\ SubSeq(s, 1, n) \in Seq(R) /\ Len(SubSeq(s, 1, n)) = n
         /\ Cut(SubSeq(s, 1, n), a, b)
              = SubSeq(s, (IF a >= 0 THEN a ELSE 0) + 1, IF b <= n THEN b ELSE n)
<1> DEFINE p == SubSeq(s, 1, n)
           m == IF a >= 0 THEN a ELSE 0
           k == IF b <= n THEN b ELSE n
<1>0. Len(s) \in Nat /\ n \in Nat /\ \A i \in 1 .. Len(s) : s[i] \in R
  BY LenProperties, ElementOfSeq
<1>1. /\ p \in Seq(R) /\ Len(p) = n /\ \A i \in 1 .. n : p[i] = s[i]
  <2>1. \A i \in 1 .. n : s[i] \in R
    BY <1>0
  <2>2. /\ p \in Seq(R) /\ Len(p) = IF 1 <= n THEN n - 1 + 1 ELSE 0
        /\ \A i \in 1 .. n - 1 + 1 : p[i] = s[1 + i - 1]
    BY <1>0, <2>1, SubSeqProperties
  <2> HIDE DEF p
  <2>3. n - 1 + 1 = n /\ \A i \in 1 .. n : 1 + i - 1 = i
    BY <1>0
  <2> QED BY <1>0, <2>2, <2>3
<1> HIDE DEF p
<1>2. m = (IF a >= 0 THEN a ELSE 0) /\ k = (IF b <= n THEN b ELSE n)
  OBVIOUS
<1> HIDE DEF m, k
<1>3. m \in Nat /\ k \in Int /\ k <= n
  BY <1>0, <1>2
<1>4. /\ Cut(p, a, b) \in Seq(R)
      /\ Len(Cut(p, a, b)) = IF m <= k THEN k - m ELSE 0
      /\ \A i \in 1 .. k - m : Cut(p, a, b)[i] = p[m + i]
  <2>1. LET from == IF a >= 0 THEN a ELSE 0
            to == IF b <= Len(p) THEN b ELSE Len(p)
        IN /\ Cut(p, a, b) \in Seq(R)
           /\ Len(Cut(p, a, b)) = IF from <= to THEN to - from ELSE 0
           /\ \A i \in 1 .. to - from : Cut(p, a, b)[i] = p[from + i]
    BY <1>1, CutProperties
  <2> QED BY <1>1, <1>2, <2>1
<1>5. /\ SubSeq(s, m + 1, k) \in Seq(R)
      /\ Len(SubSeq(s, m + 1, k)) = IF m <= k THEN k - m ELSE 0
      /\ \A i \in 1 .. k - m : SubSeq(s, m + 1, k)[i] = s[m + i]
  <2> DEFINE f == m + 1
  <2>1. f \in Int /\ \A i \in f .. k : s[i] \in R
    BY <1>0, <1>3
  <2> HIDE DEF f
  <2>2. /\ SubSeq(s, f, k) \in Seq(R)
        /\ Len(SubSeq(s, f, k)) = IF f <= k THEN k - f + 1 ELSE 0
        /\ \A i \in 1 .. k - f + 1 : SubSeq(s, f, k)[i] = s[f + i - 1]
    BY <1>3, <2>1, SubSeqProperties
  <2>3. /\ (IF f <= k THEN k - f + 1 ELSE 0) = (IF m <= k THEN k - m ELSE 0)
        /\ k - f + 1 = k - m /\ \A i \in Int : f + i - 1 = m + i
    BY <1>3 DEF f
  <2>4. \A i \in 1 .. k - m : SubSeq(s, f, k)[i] = s[m + i]
    BY <1>3, <2>2, <2>3
  <2> QED BY <2>2, <2>3, <2>4 DEF f
<1>6. ASSUME NEW i \in 1 .. Len(Cut(p, a, b))
      PROVE  Cut(p, a, b)[i] = SubSeq(s, m + 1, k)[i]
  <2>1. i \in 1 .. k - m /\ m + i \in 1 .. n
    BY <1>3, <1>4
  <2> QED BY <1>1, <1>4, <1>5, <2>1
<1>7. Cut(p, a, b) = SubSeq(s, m + 1, k)
  BY <1>4, <1>5, <1>6, SeqEqual
<1> QED BY <1>1, <1>7 DEF p, m, k

\* IsPrefix, by concatenation.
LEMMA BeginningIsPrefix ==
  ASSUME NEW R, NEW s \in Seq(R), NEW u \in Seq(R)
  PROVE  IsPrefix(s, s \o u)
<1>1. Len(s) \in Nat /\ Len(u) \in Nat /\ Len(s \o u) = Len(s) + Len(u)
  BY ConcatProperties, LenProperties
<1>2. SubSeq(s, 1, Len(s)) = SubSeq(s \o u, 1, Len(s))
  <2>1. CASE Len(s) = 0
    <3>1. Len(s) \in Int /\ Len(s) < 1
      BY <2>1
    <3> QED BY <3>1, SubSeqEmpty
  <2>2. CASE Len(s) # 0
    <3>1. 1 \in 1 .. Len(s) /\ Len(s) \in 1 .. Len(s)
      BY <1>1, <2>2
    <3> QED BY <3>1, SubSeqOfConcat1
  <2> QED BY <2>1, <2>2
<1> QED BY <1>1, <1>2 DEF IsPrefix

-----------------------------------------------------------------------------
(* What a read() returns.                                                   *)

\* The part of each file that can be read, and all of it end to end.
Shown(fs, d) ==
  [i \in DOMAIN fs |-> IF i \in Readable(fs) THEN SubSeq(d[fs[i].id], 1, fs[i].size) ELSE <<>>]
All(fs, d) == FlattenSeq(Shown(fs, d))

\* A function to sequences is a sequence of sequences.
LEMMA SequencesFromFunction ==
  ASSUME NEW R, NEW n \in Nat, NEW s \in [1 .. n -> Seq(R)]
  PROVE  s \in Seq(Seq(R)) /\ Len(s) = n /\ DOMAIN s = 1 .. n
<1>1. s \in Seq(Seq(R))
  BY IsASeq
<1>2. DOMAIN s = 1 .. n /\ DOMAIN s = 1 .. Len(s) /\ Len(s) \in Nat
  BY <1>1, LenProperties
<1> QED BY <1>1, <1>2

\* What each file shows.
LEMMA ShownProperties ==
  ASSUME NEW fs \in Seq(File), NEW d \in Disks, InOrder(fs, d)
  PROVE  /\ Shown(fs, d) \in Seq(Seq(Record)) /\ Len(Shown(fs, d)) = Len(fs)
         /\ \A i \in DOMAIN fs :
              /\ Shown(fs, d)[i] = IF i \in Readable(fs) THEN SubSeq(d[fs[i].id], 1, fs[i].size)
                                                         ELSE <<>>
              /\ Shown(fs, d)[i] \in Seq(Record)
              /\ Len(Shown(fs, d)[i]) = IF i \in Readable(fs) THEN fs[i].size ELSE 0
              /\ d[fs[i].id] \in Seq(Record) /\ fs[i].size \in 0 .. Len(d[fs[i].id])
<1> DEFINE c == Shown(fs, d)
           part(i) == SubSeq(d[fs[i].id], 1, fs[i].size)
<1>1. /\ Len(fs) \in Nat /\ DOMAIN fs = 1 .. Len(fs)
      /\ \A i \in DOMAIN fs : d[fs[i].id] \in Seq(Record) /\ fs[i].size \in 0 .. Len(d[fs[i].id])
  <2>1. Len(fs) \in Nat /\ DOMAIN fs = 1 .. Len(fs) /\ \A i \in DOMAIN fs : fs[i].size \in Nat
    BY FileFields
  <2>2. \A f \in DOMAIN d : d[f] \in Seq(Record) /\ Len(d[f]) \in Nat
    BY LenProperties, ElementOfSeq DEF Disks
  <2> QED BY <2>1, <2>2 DEF InOrder
<1>2. \A i \in DOMAIN fs : c[i] = IF i \in Readable(fs) THEN part(i) ELSE <<>>
  BY DEF Shown
<1>3. ASSUME NEW i \in DOMAIN fs PROVE part(i) \in Seq(Record) /\ Len(part(i)) = fs[i].size
  <2> DEFINE s == d[fs[i].id]
             n == fs[i].size
  <2>1. s \in Seq(Record) /\ n \in 0 .. Len(s)
    BY <1>1
  <2> HIDE DEF s, n
  <2>2. SubSeq(s, 1, n) \in Seq(Record) /\ Len(SubSeq(s, 1, n)) = n
    <3>1. 0 \in Int
      OBVIOUS
    <3> QED BY <2>1, <3>1, CutOfPrefix
  <2> QED BY <2>2 DEF s, n
<1> HIDE DEF part
<1>4. \A i \in DOMAIN fs : c[i] \in Seq(Record) /\ Len(c[i]) = IF i \in Readable(fs) THEN fs[i].size ELSE 0
  <2>1. <<>> \in Seq(Record) /\ Len(<<>>) = 0
    BY EmptySeq
  <2> HIDE DEF c
  <2> QED BY <1>2, <1>3, <2>1
<1>5. c \in [1 .. Len(fs) -> Seq(Record)]
  <2>1. c = [i \in 1 .. Len(fs) |-> c[i]]
    BY <1>1 DEF Shown
  <2> HIDE DEF c
  <2> QED BY <1>1, <1>4, <2>1
<1> HIDE DEF c
<1>6. c \in Seq(Seq(Record)) /\ Len(c) = Len(fs)
  BY <1>1, <1>5, SequencesFromFunction
<1> QED BY <1>1, <1>2, <1>4, <1>6 DEF c, part

\* The offset of the next file.
LEMMA OffsetStep ==
  ASSUME NEW fs \in Seq(File)
  PROVE  /\ FileOffset(fs, 1) = 0
         /\ \A i \in DOMAIN fs : /\ FileOffset(fs, i) \in Nat
                                 /\ FileOffset(fs, i + 1)
                                      = FileOffset(fs, i) + IF i \in Readable(fs) THEN fs[i].size ELSE 0
<1> DEFINE sz == [j \in DOMAIN fs |-> fs[j].size]
           B(i) == {j \in Readable(fs) : j < i}
<1>1. Len(fs) \in Nat /\ DOMAIN fs = 1 .. Len(fs) /\ Readable(fs) \subseteq DOMAIN fs
      /\ \A i \in DOMAIN fs : fs[i].size \in Nat
  BY FileFields DEF Readable
<1>2. sz \in [DOMAIN fs -> Nat] /\ \A i \in DOMAIN fs : sz[i] = fs[i].size
  BY <1>1
<1>3. \A i : FileOffset(fs, i) = SumOver(sz, B(i))
  BY DEF FileOffset, SumFunctionOnSet, FoldFunctionOnSet, SumOver, MapThenSumSet
<1>4. ASSUME NEW i PROVE B(i) \in SUBSET DOMAIN fs /\ IsFiniteSet(B(i))
  <2>1. B(i) \subseteq 1 .. Len(fs)
    BY <1>1
  <2>2. IsFiniteSet(1 .. Len(fs))
    BY <1>1, FS_Interval
  <2> HIDE DEF B
  <2> QED BY <1>1, <2>1, <2>2, FS_Subset
<1> HIDE DEF sz
<1>5. B(1) = {}
  BY <1>1
<1>6. ASSUME NEW i \in DOMAIN fs, i \in Readable(fs)
      PROVE  i \in B(i + 1) /\ B(i + 1) \ {i} = B(i)
  BY <1>1, <1>6
<1>7. ASSUME NEW i \in DOMAIN fs, i \notin Readable(fs)
      PROVE  B(i + 1) = B(i)
  BY <1>1, <1>7
<1> HIDE DEF B
<1>8. ASSUME NEW i PROVE SumOver(sz, B(i)) \in Nat /\ (B(i) = {} => SumOver(sz, B(i)) = 0)
                         /\ \A x \in B(i) : SumOver(sz, B(i)) = sz[x] + SumOver(sz, B(i) \ {x})
  BY <1>2, <1>4, SumRemove
<1>9. FileOffset(fs, 1) = 0
  BY <1>3, <1>5, <1>8
<1>10. ASSUME NEW i \in DOMAIN fs
       PROVE  /\ FileOffset(fs, i) \in Nat
              /\ FileOffset(fs, i + 1) = FileOffset(fs, i) + IF i \in Readable(fs) THEN fs[i].size ELSE 0
  <2>1. FileOffset(fs, i) \in Nat
    BY <1>3, <1>8
  <2>2. CASE i \in Readable(fs)
    <3>1. FileOffset(fs, i + 1) = sz[i] + FileOffset(fs, i)
      BY <1>3, <1>6, <1>8, <2>2
    <3> QED BY <1>1, <1>2, <2>1, <2>2, <3>1
  <2>3. CASE i \notin Readable(fs)
    <3>1. FileOffset(fs, i + 1) = FileOffset(fs, i)
      BY <1>3, <1>7, <2>3
    <3> QED BY <2>1, <2>3, <3>1
  <2> QED BY <2>1, <2>2, <2>3
<1> QED BY <1>9, <1>10

\* fileOffset is where a file's part starts.
LEMMA OffsetIsLength ==
  ASSUME NEW fs \in Seq(File), NEW d \in Disks, InOrder(fs, d),
         NEW G, Heads(Shown(fs, d), Len(fs), G)
  PROVE  \A i \in 0 .. Len(fs) : FileOffset(fs, i + 1) = Len(G[i])
<1> DEFINE c == Shown(fs, d)
           n == Len(fs)
           T == {i \in 0 .. n : FileOffset(fs, i + 1) # Len(G[i])}
<1> SUFFICES ASSUME T # {} PROVE FALSE
  OBVIOUS
<1>0. n \in Nat /\ DOMAIN fs = 1 .. n
  BY FileFields
<1>1. PICK i \in T : \A j \in T : i <= j
  <2>1. T \subseteq Nat
    BY <1>0
  <2> HIDE DEF T
  <2> QED BY <2>1, LeastNumber
<1>2. i \in 0 .. n /\ FileOffset(fs, i + 1) # Len(G[i])
  OBVIOUS
<1>3. i # 0
  <2>1. FileOffset(fs, 0 + 1) = 0
    BY OffsetStep
  <2>2. Len(G[0]) = 0
    BY EmptySeq DEF Heads
  <2> QED BY <1>2, <2>1, <2>2
<1>4. PICK p \in 0 .. n : i = p + 1
  <2>1. i - 1 \in 0 .. n /\ i = (i - 1) + 1
    BY <1>0, <1>2, <1>3
  <2> QED BY <2>1
<1>5. p \notin T
  <2> HIDE DEF T
  <2> QED BY <1>0, <1>1, <1>4
<1>6. FileOffset(fs, i) = Len(G[p])
  BY <1>4, <1>5
<1>7. i \in 1 .. n /\ i - 1 = p
  BY <1>0, <1>2, <1>3, <1>4
<1> HIDE DEF T
<1>8. G[i] = G[p] \o c[i]
  BY <1>7 DEF Heads
<1>9. /\ c[i] \in Seq(Record) /\ Len(c[i]) = IF i \in Readable(fs) THEN fs[i].size ELSE 0
      /\ \A j \in 1 .. n : c[j] \in Seq(Record)
  BY <1>0, <1>7, ShownProperties
<1>10. G[p] \in Seq(Record)
  <2> HIDE DEF c, n
  <2> QED BY <1>0, <1>9, EndsAreSeqs DEF c, n
<1>11. Len(G[i]) = Len(G[p]) + Len(c[i])
  BY <1>8, <1>9, <1>10, ConcatProperties
<1>12. FileOffset(fs, i + 1) = FileOffset(fs, i) + IF i \in Readable(fs) THEN fs[i].size ELSE 0
  BY <1>0, <1>7, OffsetStep
<1> QED BY <1>2, <1>6, <1>9, <1>11, <1>12

\* All that is shown is the last of the ends.
LEMMA AllIsLast ==
  ASSUME NEW fs \in Seq(File), NEW d \in Disks, InOrder(fs, d)
  PROVE  \E G : /\ Heads(Shown(fs, d), Len(fs), G)
                /\ All(fs, d) = G[Len(fs)]
                /\ \A i \in 0 .. Len(fs) : G[i] \in Seq(Record)
<1>1. Shown(fs, d) \in Seq(Seq(Record)) /\ Len(Shown(fs, d)) = Len(fs)
      /\ Len(fs) \in Nat /\ \A i \in 1 .. Len(fs) : Shown(fs, d)[i] \in Seq(Record)
  BY ShownProperties, FileFields
<1>2. PICK G : Heads(Shown(fs, d), Len(fs), G) /\ All(fs, d) = G[Len(fs)]
  BY <1>1, EndsExist DEF All
<1>3. \A i \in 0 .. Len(fs) : G[i] \in Seq(Record)
  BY <1>1, <1>2, EndsAreSeqs
<1> QED BY <1>2, <1>3

\* One file's share of a read.
LEMMA ChunkIsCut ==
  ASSUME NEW s \in Seq(Record), NEW size \in 0 .. Len(s), NEW offset \in Nat,
         NEW from \in Nat, NEW to \in Nat
  PROVE  Cut(SubSeq(s, 1, size), from - offset, to - offset) =
           IF offset < to /\ offset + size > from
             THEN SubSeq(s, Max({from - offset, 0}) + 1, Min({to - offset, size}))
             ELSE <<>>
<1> DEFINE a == from - offset
           b == to - offset
           m == Max({a, 0})
           k == Min({b, size})
<1>1. a \in Int /\ b \in Int /\ size \in Nat
  BY LenProperties
<1>2. m = (IF a >= 0 THEN a ELSE 0) /\ k = (IF b <= size THEN b ELSE size)
  <2> HIDE DEF a, b
  <2> QED BY <1>1, MaxOfTwo, MinOfTwo
<1>3. Cut(SubSeq(s, 1, size), a, b) = SubSeq(s, m + 1, k)
  <2>1. a \in Int /\ b \in Int
    BY <1>1
  <2> HIDE DEF a, b, m, k
  <2>2. Cut(SubSeq(s, 1, size), a, b)
          = SubSeq(s, (IF a >= 0 THEN a ELSE 0) + 1, IF b <= size THEN b ELSE size)
    BY <2>1, CutOfPrefix
  <2> QED BY <1>2, <2>2
<1> HIDE DEF m, k
<1>4. ASSUME ~ (offset < to /\ offset + size > from)
      PROVE  SubSeq(s, m + 1, k) = <<>>
  <2>1. m + 1 \in Int /\ k \in Int /\ k < m + 1
    BY <1>1, <1>2, <1>4
  <2> QED BY <2>1, SubSeqEmpty
<1> QED BY <1>3, <1>4 DEF m, k

\* A read returns what is asked for, of the parts that can be read.
LEMMA ChunksAreCuts ==
  ASSUME disk \in Disks, NEW fs \in Seq(File), InOrder(fs, disk), NEW from \in Nat, NEW to \in Nat
  PROVE  Chunks(fs, from, to) = Cut(All(fs, disk), from, to)
<1> DEFINE c == Shown(fs, disk)
           n == Len(fs)
           offset(i) == FileOffset(fs, i)
           part(i) == SubSeq(disk[fs[i].id], Max({from - offset(i), 0}) + 1,
                             Min({to - offset(i), fs[i].size}))
           e == [i \in DOMAIN fs |-> IF i \in Included(fs, from, to) THEN part(i) ELSE <<>>]
<1>0. n \in Nat /\ DOMAIN fs = 1 .. n /\ \A i \in DOMAIN fs : fs[i].size \in Nat
  BY FileFields
<1>1. PICK G : Heads(c, n, G) /\ All(fs, disk) = G[n] /\ \A i \in 0 .. n : G[i] \in Seq(Record)
  BY AllIsLast
<1>2. Chunks(fs, from, to) = FlattenSeq(e)
  BY DEF Chunks
<1>3. \A i \in 0 .. n : FileOffset(fs, i + 1) = Len(G[i])
  BY <1>1, OffsetIsLength
<1>4. ASSUME NEW i \in DOMAIN fs
      PROVE  /\ e[i] = Cut(c[i], from - Len(G[i - 1]), to - Len(G[i - 1]))
             /\ c[i] \in Seq(Record) /\ e[i] \in Seq(Record)
  <2>1. /\ c[i] = IF i \in Readable(fs) THEN SubSeq(disk[fs[i].id], 1, fs[i].size) ELSE <<>>
        /\ c[i] \in Seq(Record)
        /\ disk[fs[i].id] \in Seq(Record) /\ fs[i].size \in 0 .. Len(disk[fs[i].id])
    BY ShownProperties
  <2>2. i - 1 \in 0 .. n /\ (i - 1) + 1 = i
    BY <1>0
  <2>3. offset(i) = Len(G[i - 1]) /\ offset(i) \in Nat
    BY <1>1, <1>3, <2>2, LenProperties
  <2>4. e[i] = IF i \in Included(fs, from, to) THEN part(i) ELSE <<>>
    OBVIOUS
  <2>5. i \in Included(fs, from, to) <=>
          i \in Readable(fs) /\ offset(i) < to /\ offset(i) + fs[i].size > from
    BY DEF Included
  <2>6. from - offset(i) \in Int /\ to - offset(i) \in Int
    BY <2>3
  <2>7. CASE i \in Readable(fs)
    <3> DEFINE o == offset(i)
               s == disk[fs[i].id]
               size == fs[i].size
    <3>1. Cut(SubSeq(s, 1, size), from - o, to - o) =
            IF o < to /\ o + size > from
              THEN SubSeq(s, Max({from - o, 0}) + 1, Min({to - o, size}))
              ELSE <<>>
      <4>1. s \in Seq(Record) /\ size \in 0 .. Len(s) /\ o \in Nat
        BY <2>1, <2>3
      <4> HIDE DEF o, s, size
      <4> QED BY <4>1, ChunkIsCut
    <3>2. c[i] = SubSeq(s, 1, size) /\ part(i) = SubSeq(s, Max({from - o, 0}) + 1, Min({to - o, size}))
      BY <2>1, <2>7
    <3>3. i \in Included(fs, from, to) <=> o < to /\ o + size > from
      BY <2>5, <2>7
    <3>5. o = Len(G[i - 1])
      BY <2>3
    <3> HIDE DEF o, s, size, part, offset, c, e
    <3>4. e[i] = Cut(c[i], from - o, to - o)
      BY <2>4, <3>1, <3>2, <3>3
    <3>6. from - o \in Int /\ to - o \in Int
      BY <2>6 DEF o
    <3>7. e[i] \in Seq(Record)
      BY <2>1, <3>4, <3>6, CutProperties, ZenonT(30)
    <3> QED BY <2>1, <3>4, <3>5, <3>7
  <2>8. CASE i \notin Readable(fs)
    <3>1. c[i] = <<>> /\ e[i] = <<>> /\ <<>> \in Seq(Record)
      BY <2>1, <2>4, <2>5, <2>8
    <3>2. Cut(<<>>, from - offset(i), to - offset(i)) = <<>>
      BY <2>6, CutNone
    <3> HIDE DEF c, e, part
    <3> QED BY <2>3, <3>1, <3>2
  <2> QED BY <2>7, <2>8
<1>5. DOMAIN e = 1 .. n /\ e = [i \in 1 .. n |-> e[i]]
  BY <1>0
<1> HIDE DEF e, offset, part
<1>6. e \in Seq(Seq(Record)) /\ Len(e) = n
  <2>1. e \in [1 .. n -> Seq(Record)]
    BY <1>0, <1>4, <1>5
  <2> HIDE DEF n
  <2> QED BY <1>0, <2>1, SequencesFromFunction
<1> DEFINE H == [i \in 0 .. n |-> Cut(G[i], from, to)]
<1>7. Heads(e, n, H)
  <2>1. H[0] = <<>>
    <3>1. H[0] = Cut(<<>>, from, to)
      BY <1>0, <1>1 DEF Heads
    <3>2. from \in Int /\ to \in Int
      OBVIOUS
    <3> QED BY <3>1, <3>2, CutNone
  <2>2. ASSUME NEW i \in 1 .. n PROVE H[i] = H[i - 1] \o e[i]
    <3>1. i \in 0 .. n /\ i - 1 \in 0 .. n /\ i \in DOMAIN fs
      BY <1>0
    <3>2. H[i] = Cut(G[i], from, to) /\ H[i - 1] = Cut(G[i - 1], from, to)
      BY <3>1
    <3>3. G[i] = G[i - 1] \o c[i] /\ G[i - 1] \in Seq(Record)
      BY <1>1, <3>1 DEF Heads
    <3> DEFINE u == G[i - 1]
               v == c[i]
    <3>4. Cut(u \o v, from, to) = Cut(u, from, to) \o Cut(v, from - Len(u), to - Len(u))
      <4>1. u \in Seq(Record) /\ v \in Seq(Record)
        BY <1>4, <3>1, <3>3
      <4> HIDE DEF u, v
      <4> QED BY <4>1, CutOfConcat
    <3> HIDE DEF H, c
    <3> QED BY <1>4, <3>1, <3>2, <3>3, <3>4
  <2> HIDE DEF H
  <2> QED BY <2>1, <2>2 DEF Heads
<1>8. H[n] = Cut(G[n], from, to)
  BY <1>0
<1> HIDE DEF H
<1>9. FlattenSeq(e) = H[Len(e)]
  BY <1>6, <1>7, FlattenIsLast
<1> QED BY <1>1, <1>2, <1>6, <1>8, <1>9

\* size() is the length of all, and read(0, size()) returns all.
LEMMA SizeOfAll ==
  ASSUME disk \in Disks, NEW fs \in Seq(File), InOrder(fs, disk)
  PROVE  /\ All(fs, disk) \in Seq(Record)
         /\ Size(fs) = Len(All(fs, disk))
         /\ Chunks(fs, 0, Size(fs)) = All(fs, disk)
<1>1. PICK G : /\ Heads(Shown(fs, disk), Len(fs), G) /\ All(fs, disk) = G[Len(fs)]
               /\ \A i \in 0 .. Len(fs) : G[i] \in Seq(Record)
  BY AllIsLast
<1>2. Len(fs) \in 0 .. Len(fs)
  BY FileFields
<1>3. All(fs, disk) \in Seq(Record)
  BY <1>1, <1>2
<1>4. Size(fs) = Len(All(fs, disk))
  BY <1>1, <1>2, OffsetIsLength DEF Size
<1>5. 0 \in Nat /\ Size(fs) \in Nat
  BY <1>3, <1>4, LenProperties
<1>6. Chunks(fs, 0, Size(fs)) = Cut(All(fs, disk), 0, Size(fs))
  BY <1>5, ChunksAreCuts
<1> QED BY <1>3, <1>4, <1>6, CutAll

\* It depends on nothing but sizes and rotations, and not on what was written
\* since.
LEMMA AllOfSame ==
  ASSUME NEW d, NEW fs \in Seq(File), NEW gs, Same(fs, gs)
  PROVE  All(gs, d) = All(fs, d)
<1>1. DOMAIN gs = DOMAIN fs /\ \A i \in DOMAIN fs : /\ gs[i].id = fs[i].id /\ gs[i].size = fs[i].size
                                                    /\ gs[i].isRotating = fs[i].isRotating
  BY DEF Same, Alike
<1>2. \A i \in DOMAIN fs : \A j \in 1 .. i : j \in DOMAIN fs
  BY FileFields
<1>3. Readable(gs) = Readable(fs)
  BY <1>1, <1>2 DEF Readable
<1>4. Shown(gs, d) = Shown(fs, d)
  BY <1>1, <1>3 DEF Shown
<1> QED BY <1>4 DEF All

\* Records written to the files do not show.
LEMMA AllOfGrown ==
  ASSUME NEW d \in Disks, NEW e, NEW k, GrownFrom(d, e, k), NEW fs \in Seq(File), InOrder(fs, d)
  PROVE  All(fs, e) = All(fs, d)
<1>1. ASSUME NEW i \in DOMAIN fs
      PROVE  SubSeq(e[fs[i].id], 1, fs[i].size) = SubSeq(d[fs[i].id], 1, fs[i].size)
  <2> DEFINE s == d[fs[i].id]
             n == fs[i].size
  <2>1. s \in Seq(Record) /\ n \in 0 .. Len(s)
    BY ShownProperties
  <2>2. PICK u \in Seq(Record) : e[fs[i].id] = s \o u
    BY DEF GrownFrom, InOrder
  <2> HIDE DEF s, n
  <2>3. SubSeq(s \o u, 1, n) = SubSeq(s, 1, n)
    <3>1. CASE n = 0
      <4>1. 0 \in Int /\ 1 \in Int /\ 0 < 1
        OBVIOUS
      <4> QED BY <3>1, <4>1, SubSeqEmpty
    <3>2. CASE n # 0
      <4>1. Len(s) \in Nat
        BY <2>1, LenProperties
      <4>2. 1 \in 1 .. Len(s) /\ n \in 1 .. Len(s)
        BY <2>1, <3>2, <4>1
      <4> QED BY <2>1, <4>2, SubSeqOfConcat1
    <3> QED BY <3>1, <3>2
  <2> QED BY <2>2, <2>3 DEF s, n
<1>2. Shown(fs, e) = Shown(fs, d)
  BY <1>1 DEF Shown
<1> QED BY <1>2 DEF All

-----------------------------------------------------------------------------
(* What callers have been given.                                            *)

\* At rest, served is what read(0, size()) returns.
ServedNow == rpc \in {"idle", "read"} /\ ~ missed => served = All(files, disk)

\* Steps that find nothing new leave it so.
LEMMA ServedKept ==
  ASSUME ReaderShape, ServedNow, Same(files, files'), UNCHANGED <<vars, served>>,
         rpc' \in {"idle", "read"} /\ ~ missed' => rpc \in {"idle", "read"} /\ ~ missed
  PROVE  ServedNow'
<1>1. All(files', disk) = All(files, disk)
  BY AllOfSame DEF ReaderShape, ReaderTypes
<1>2. disk' = disk
  BY DEF vars
<1> QED BY <1>1, <1>2 DEF ServedNow

\* An update makes it so.
LEMMA ServedAnew ==
  ASSUME TypeOK, NEW fs \in Seq(File), InOrder(fs, disk), Updated(fs), UNCHANGED vars
  PROVE  ServedNow' /\ served' \in Seq(Record)
<1>1. served' = All(fs, disk) /\ served' \in Seq(Record)
  BY SizeOfAll DEF Updated, TypeOK, Disks
<1>2. Same(fs, files') /\ disk' = disk
  BY EndsWithSame DEF vars
<1>3. All(files', disk) = All(fs, disk)
  BY <1>2, AllOfSame
<1> QED BY <1>1, <1>2, <1>3 DEF ServedNow

\* Every action keeps ServedNow, and only the end of an update changes served.
LEMMA ServedStep ==
  ASSUME IInv, IInv', ReaderShape, ReaderShape', served \in Seq(Record), ServedNow,
         [ClusterNext \/ SourceNext \/ Delete]_allVars
  PROVE  ServedNow' /\ served' \in Seq(Record) /\ (rpc' # "idle" => served' = served)
<1>0. TypeOK /\ disk \in Disks /\ files \in Seq(File) /\ InOrder(files, disk)
  BY DEF IInv, TypeOK, Disks, ReaderShape, ReaderTypes
<1>1. CASE ClusterNext
  <2>1. UNCHANGED <<files, missed, rpc, served>>
    BY <1>1 DEF ClusterNext, reader
  <2>2. GrownFrom(disk, disk', 0)
    BY <1>1, ClusterShape
  <2>3. All(files, disk') = All(files, disk)
    BY <1>0, <2>2, AllOfGrown
  <2> QED BY <2>1, <2>3 DEF ServedNow
<1>2. CASE ReadDir \/ CheckSettled \/ CheckRotating
  <2>1. rpc' \in {"check", "stat"} /\ served' = served
    BY <1>2 DEF ReadDir, CheckSettled, CheckRotating, Checked
  <2> QED BY <2>1 DEF ServedNow
<1>3. CASE CheckNone
  BY <1>0, <1>3, ServedAnew DEF CheckNone, Updated
<1>4. ASSUME NEW i \in DOMAIN files, UpdateSize(i)
      PROVE  ServedNow' /\ served' \in Seq(Record) /\ (rpc' # "idle" => served' = served)
  <2> DEFINE s == Len(disk[files[i].id])
             fs == [files EXCEPT ![i].size = s]
             waiting == pending \ {i}
  <2>1. rpc = "stat" /\ Fulfilled(fs, i) /\ UNCHANGED vars
    BY <1>4 DEF UpdateSize
  <2>2. fs \in Seq(File)
    <3>1. s \in Nat
      <4>1. files[i].id \in DOMAIN disk
        BY <1>0 DEF InOrder
      <4> QED BY <1>0, <4>1, LenProperties, ElementOfSeq DEF Disks
    <3> HIDE DEF s
    <3> QED BY <1>0, <3>1, SizeSet DEF Alike
  <2> HIDE DEF s, fs
  <2>3. InOrder(fs, disk)
    <3>1. Same(fs, files')
      BY <2>1, <2>2, EndsWithSame
    <3>2. InOrder(files', disk)
      BY <2>1 DEF ReaderShape, vars
    <3> QED BY <3>1, <3>2 DEF Same, Alike, InOrder
  <2>4. \/ failure /\ Threw(fs, waiting)
        \/ ~ failure /\ waiting = {} /\ Updated(fs)
        \/ /\ ~ failure /\ waiting # {}
           /\ rpc' = rpc /\ UNCHANGED <<open, checking, failure, missed, served>>
    BY <2>1 DEF Fulfilled
  <2> HIDE DEF waiting
  <2>5. CASE failure /\ Threw(fs, waiting)
    BY <2>1, <2>5 DEF Threw, ServedNow
  <2>6. CASE Updated(fs)
    BY <1>0, <2>1, <2>2, <2>3, <2>6, ServedAnew DEF Updated
  <2>7. CASE rpc' = rpc /\ UNCHANGED <<open, checking, failure, missed, served>>
    BY <2>1, <2>7 DEF ServedNow
  <2> QED BY <2>4, <2>5, <2>6, <2>7
<1>5. ASSUME NEW i \in DOMAIN files, OpenHandle(i)
      PROVE  ServedNow' /\ served' \in Seq(Record) /\ (rpc' # "idle" => served' = served)
  <2>1. Same(files, files') /\ UNCHANGED vars
    BY <1>5, OpenSame
  <2>2. served' = served /\ (rpc # "read" => rpc' = rpc) /\ (rpc = "read" /\ ~ missed' => ~ missed)
    BY <1>5 DEF OpenHandle, Fulfilled, Threw, ReaderShape, ReaderTypes
  <2>3. rpc # "idle"
    BY <1>5 DEF OpenHandle, Opens, ReaderShape, Phases
  <2>4. rpc = "read" \/ rpc' \notin {"idle", "read"}
    BY <2>2, <2>3
  <2> QED BY <2>1, <2>2, <2>4, ServedKept
<1>6. ASSUME NEW i \in DOMAIN files, OpenFails(i)
      PROVE  ServedNow' /\ served' \in Seq(Record) /\ (rpc' # "idle" => served' = served)
  <2> DEFINE waiting == pending \ {i}
  <2>1. Same(files, files') /\ UNCHANGED vars
    BY <1>6, OpenSame
  <2>2. Threw(files, waiting) /\ Opens(i)
    BY <1>6 DEF OpenFails
  <2> HIDE DEF waiting
  <2>3. rpc # "idle"
    BY <2>2 DEF Opens, ReaderShape, Phases
  <2>4. served' = served /\ (rpc' = rpc \/ rpc' = "idle")
        /\ (rpc' \in {"idle", "read"} /\ ~ missed' => rpc = "read" /\ ~ missed)
    BY <2>2, <2>3 DEF Threw, ReaderShape, ReaderTypes
  <2> QED BY <2>1, <2>4, ServedKept
<1>7. ASSUME NEW from, NEW to, Read(from, to)
      PROVE  ServedNow' /\ served' \in Seq(Record) /\ (rpc' # "idle" => served' = served)
  BY <1>7, ReadShape, ServedKept DEF Read, Same
<1>8. CASE ReadDirEmpty \/ Teardown \/ Delete \/ UNCHANGED allVars
  <2>1. Same(files, files') /\ UNCHANGED vars
    BY <1>8, QuietSame
  <2>2. UNCHANGED <<served, missed, rpc>>
    BY <1>8 DEF ReadDirEmpty, Teardown, Delete, allVars, reader
  <2> QED BY <2>1, <2>2, ServedKept
<1> QED BY <1>1, <1>2, <1>3, <1>4, <1>5, <1>6, <1>7, <1>8 DEF SourceNext, UpdateNext

\* The contents of the known files.
Contents(fs, d) == [i \in DOMAIN fs |-> d[fs[i].id]]

\* s is where the first m of them start.
StartsWith(fs, d, m, s) ==
  \E F : /\ Heads(Contents(fs, d), Len(fs), F)
         /\ \E u \in Seq(Record) : F[m] = s \o u

\* What was served is a beginning of the files up to a readable one.
ServedWithin ==
  throws = 0 /\ ~ missed =>
    \E m \in 0 .. Len(files) : /\ m # 0 => ~ files[m].isRotating
                              /\ StartsWith(files, disk, m, served)

\* What the contents are made of.
LEMMA ContentsProperties ==
  ASSUME NEW fs \in Seq(File), NEW d \in Disks, InOrder(fs, d)
  PROVE  /\ Contents(fs, d) \in Seq(Seq(Record)) /\ Len(Contents(fs, d)) = Len(fs)
         /\ Len(fs) \in Nat /\ DOMAIN fs = 1 .. Len(fs)
         /\ \A i \in 1 .. Len(fs) : /\ Contents(fs, d)[i] = d[fs[i].id]
                                    /\ Contents(fs, d)[i] \in Seq(Record)
<1> DEFINE c == Contents(fs, d)
           n == Len(fs)
<1>1. n \in Nat /\ DOMAIN fs = 1 .. n
  BY FileFields
<1>2. \A i \in 1 .. n : c[i] = d[fs[i].id] /\ d[fs[i].id] \in Seq(Record)
  BY <1>1, ShownProperties DEF Contents
<1>3. c = [i \in 1 .. n |-> c[i]]
  BY <1>1 DEF Contents
<1> HIDE DEF c
<1>4. c \in [1 .. n -> Seq(Record)]
  BY <1>2, <1>3
<1>5. c \in Seq(Seq(Record)) /\ Len(c) = n
  <2> HIDE DEF n
  <2> QED BY <1>1, <1>4, SequencesFromFunction
<1> QED BY <1>1, <1>2, <1>5 DEF c

\* They have ends.
LEMMA ContentsLaidOut ==
  ASSUME NEW fs \in Seq(File), NEW d \in Disks, InOrder(fs, d)
  PROVE  \E F : /\ Heads(Contents(fs, d), Len(fs), F)
                /\ \A i \in 0 .. Len(fs) : F[i] \in Seq(Record)
<1>1. Contents(fs, d) \in Seq(Seq(Record)) /\ Len(Contents(fs, d)) = Len(fs) /\ Len(fs) \in Nat
      /\ \A i \in 1 .. Len(fs) : Contents(fs, d)[i] \in Seq(Record)
  BY ContentsProperties
<1>2. PICK F : Heads(Contents(fs, d), Len(fs), F)
  BY <1>1, EndsExist
<1>3. \A i \in 0 .. Len(fs) : F[i] \in Seq(Record)
  BY <1>1, <1>2, EndsAreSeqs
<1> QED BY <1>2, <1>3


\* Concatenation is associative.
LEMMA RecordsRegroup ==
  \A s, u, v \in Seq(Record) : (s \o u) \o v = s \o (u \o v) /\ u \o v \in Seq(Record)
<1> TAKE s, u, v \in Seq(Record)
<1>1. (s \o u) \o v = s \o (u \o v)
  BY ConcatAssociative
<1>2. u \o v \in Seq(Record)
  BY ConcatProperties
<1> QED BY <1>1, <1>2

\* What follows the first files, or the last of them, has grown.
GrownAfter(fs, d, gs, e, m) ==
  /\ Len(fs) <= Len(gs)
  /\ \A i \in DOMAIN fs : /\ gs[i].id = fs[i].id
                          /\ i < m => e[fs[i].id] = d[fs[i].id]
  /\ m # 0 => \E v \in Seq(Record) : e[fs[m].id] = d[fs[m].id] \o v

\* It stays so while files are found, become readable and grow at their ends.
LEMMA WithinGrown ==
  ASSUME NEW fs \in Seq(File), NEW d \in Disks, InOrder(fs, d),
         NEW gs \in Seq(File), NEW e \in Disks, InOrder(gs, e),
         NEW s \in Seq(Record), NEW m \in 0 .. Len(fs),
         StartsWith(fs, d, m, s), GrownAfter(fs, d, gs, e, m)
  PROVE  StartsWith(gs, e, m, s)
<1>a. PICK F : Heads(Contents(fs, d), Len(fs), F) /\ \E u \in Seq(Record) : F[m] = s \o u
  BY DEF StartsWith
<1>b. PICK u \in Seq(Record) : F[m] = s \o u
  BY <1>a
<1>c. PICK v \in Seq(Record) : m # 0 => e[fs[m].id] = d[fs[m].id] \o v
  <2>1. <<>> \in Seq(Record)
    BY EmptySeq
  <2> QED BY <2>1 DEF GrownAfter
<1>e. (s \o u) \o v = s \o (u \o v) /\ u \o v \in Seq(Record)
  BY RecordsRegroup
<1>d. /\ Len(fs) <= Len(gs)
      /\ \A i \in DOMAIN fs : gs[i].id = fs[i].id /\ (i < m => e[fs[i].id] = d[fs[i].id])
  BY DEF GrownAfter
<1> DEFINE b == Contents(fs, d)
           c == Contents(gs, e)
           n == Len(fs)
           k == Len(gs)
<1>0. /\ n \in Nat /\ k \in Nat /\ n <= k /\ m \in 0 .. n /\ m \in Nat /\ DOMAIN fs = 1 .. n
      /\ \A i \in 1 .. n : b[i] = d[fs[i].id] /\ b[i] \in Seq(Record)
      /\ \A i \in 1 .. k : c[i] = e[gs[i].id]
  BY <1>d, ContentsProperties
<1>1. PICK G : Heads(c, k, G) /\ \A i \in 0 .. k : G[i] \in Seq(Record)
  BY ContentsLaidOut
<1>2. Heads(b, n, F) /\ \A i \in 0 .. n : F[i] \in Seq(Record)
  <2>1. Heads(b, n, F)
    BY <1>a
  <2> HIDE DEF b, n
  <2> QED BY <1>0, <2>1, EndsAreSeqs
<1> HIDE DEF b, c, n, k
<1>3. CASE m = 0
  <2>1. G[0] = F[0]
    BY <1>1, <1>2 DEF Heads
  <2> QED BY <1>1, <1>3, <1>b, <2>1 DEF c, k, StartsWith
<1>4. CASE m # 0
  <2>1. PICK p \in Nat : m = p + 1 /\ p \in 0 .. n /\ p <= k /\ m \in 1 .. n /\ m \in 1 .. k /\ m - 1 = p
    <3>1. m - 1 \in Nat /\ m = (m - 1) + 1 /\ m - 1 \in 0 .. n /\ m - 1 <= k /\ m \in 1 .. n /\ m \in 1 .. k
      BY <1>0, <1>4
    <3> QED BY <3>1
  <2>2. ASSUME NEW i \in 1 .. p PROVE b[i] = c[i]
    <3>1. i \in 1 .. n /\ i \in 1 .. k /\ i < m /\ i \in DOMAIN fs
      BY <1>0, <2>1
    <3>2. gs[i].id = fs[i].id /\ e[fs[i].id] = d[fs[i].id]
      BY <1>d, <3>1
    <3>3. b[i] = d[fs[i].id] /\ c[i] = e[gs[i].id]
      BY <1>0, <3>1
    <3> QED BY <3>2, <3>3
  <2>3. F[p] = G[p]
    <3>1. n \in Nat /\ k \in Nat /\ Heads(b, n, F) /\ Heads(c, k, G) /\ p <= n /\ p <= k
      BY <1>0, <1>1, <1>2, <2>1
    <3>2. Agree(b, c, p)
      BY <2>2 DEF Agree
    <3> QED BY <3>1, <3>2, EndsMeet
  <2>4. F[p] = G[p] /\ F[p] \in Seq(Record)
    BY <1>2, <2>1, <2>3
  <2>5. F[m] = F[p] \o b[m] /\ G[m] = G[p] \o c[m]
    BY <1>1, <1>2, <2>1 DEF Heads
  <2>6. c[m] = b[m] \o v /\ b[m] \in Seq(Record)
    BY <1>0, <1>4, <1>c, <1>d, <2>1
  <2>8. F[p] \o (b[m] \o v) = s \o (u \o v) /\ u \o v \in Seq(Record)
    <3>1. F[p] \in Seq(Record) /\ b[m] \in Seq(Record) /\ F[p] \o b[m] = s \o u
      BY <1>b, <2>4, <2>5, <2>6
    <3>2. ASSUME NEW left \in Seq(Record), NEW right \in Seq(Record), left \o right = s \o u
          PROVE  left \o (right \o v) = s \o (u \o v) /\ u \o v \in Seq(Record)
      <4>1. left \o (right \o v) = (left \o right) \o v
        BY RecordsRegroup, ZenonT(30)
      <4> QED BY <1>e, <3>2, <4>1
    <3> HIDE DEF b
    <3> QED BY <3>1, <3>2
  <2>9. G[m] = s \o (u \o v)
    BY <2>4, <2>5, <2>6, <2>8
  <2> QED BY <1>1, <2>8, <2>9 DEF c, k, StartsWith
<1> QED BY <1>3, <1>4

\* Right after an update, the files before the last readable one are served
\* whole, and that one as far as it went.
LEMMA ServedNowIsWithin ==
  ASSUME TypeOK, ReaderShape, Complete, ServedNow, rpc = "idle"
  PROVE  ServedWithin
<1> SUFFICES ASSUME throws = 0, ~ missed
             PROVE  \E m \in 0 .. Len(files) : /\ m # 0 => ~ files[m].isRotating
                                               /\ StartsWith(files, disk, m, served)
  BY DEF ServedWithin
<1> DEFINE c == Shown(files, disk)
           b == Contents(files, disk)
           n == Len(files)
           T == {i \in 0 .. n : i = 0 \/ ~ files[i].isRotating}
<1>0. /\ disk \in Disks /\ files \in Seq(File) /\ InOrder(files, disk) /\ served = All(files, disk)
      /\ n \in Nat /\ DOMAIN files = 1 .. n
  BY FileFields DEF TypeOK, Disks, ReaderShape, ReaderTypes, ServedNow
<1>1. PICK m \in T : \A i \in T : i <= m
  <2>1. T \subseteq 0 .. n /\ 0 \in T
    BY <1>0
  <2> HIDE DEF T, n
  <2>2. Max(T) \in T /\ \A i \in T : i <= Max(T)
    BY <1>0, <2>1, GreatestNumber
  <2> QED BY <2>2
<1>2. m \in 0 .. n /\ m \in Nat /\ (m # 0 => ~ files[m].isRotating)
  BY <1>0
<1>3. \A i \in DOMAIN files : i > m => files[i].isRotating
  <2>1. ASSUME NEW i \in DOMAIN files, i > m PROVE i \notin T
    <3>1. ~ (i <= m)
      BY <1>0, <1>2, <2>1
    <3> HIDE DEF T
    <3> QED BY <1>1, <3>1
  <2> QED BY <1>0, <2>1
<1> HIDE DEF T
<1>4. \A i \in DOMAIN files : i \in Readable(files) <=> i <= m
  <2>1. ASSUME NEW i \in DOMAIN files, i <= m, NEW j \in 1 .. i PROVE ~ files[j].isRotating
    <3>1. j \in DOMAIN files /\ (j < m \/ j = m) /\ m \in DOMAIN files /\ m # 0
      BY <1>0, <1>2, <2>1
    <3> QED BY <1>0, <1>2, <3>1 DEF InOrder
  <2>2. ASSUME NEW i \in DOMAIN files, ~ (i <= m) PROVE i \notin Readable(files)
    <3>1. i \in 1 .. i /\ files[i].isRotating
      BY <1>0, <1>2, <1>3, <2>2
    <3> QED BY <3>1 DEF Readable
  <2> QED BY <2>1, <2>2 DEF Readable
<1>5. PICK G : Heads(c, n, G) /\ served = G[n] /\ \A i \in 0 .. n : G[i] \in Seq(Record)
  BY <1>0, AllIsLast
<1>6. PICK F : Heads(b, n, F) /\ \A i \in 0 .. n : F[i] \in Seq(Record)
  BY <1>0, ContentsLaidOut
<1>7. \A i \in 1 .. n :
        /\ c[i] = IF i <= m THEN SubSeq(disk[files[i].id], 1, files[i].size) ELSE <<>>
        /\ c[i] \in Seq(Record)
        /\ b[i] = disk[files[i].id] /\ disk[files[i].id] \in Seq(Record)
        /\ files[i].size \in 0 .. Len(disk[files[i].id])
  <2>1. \A i \in DOMAIN files :
          /\ c[i] = IF i \in Readable(files) THEN SubSeq(disk[files[i].id], 1, files[i].size) ELSE <<>>
          /\ c[i] \in Seq(Record)
          /\ disk[files[i].id] \in Seq(Record) /\ files[i].size \in 0 .. Len(disk[files[i].id])
    BY <1>0, ShownProperties
  <2>2. \A i \in 1 .. n : b[i] = disk[files[i].id]
    BY <1>0, ContentsProperties
  <2> HIDE DEF b, c
  <2> QED BY <1>0, <1>4, <2>1, <2>2
<1>8. served = G[m]
  <2>1. \A i \in m + 1 .. n : i \in 1 .. n /\ ~ (i <= m)
    BY <1>0, <1>2
  <2>2. \A i \in m + 1 .. n : c[i] = <<>>
    BY <1>7, <2>1
  <2>3. \A i \in 1 .. n : c[i] \in Seq(Record)
    BY <1>7
  <2> HIDE DEF c, n
  <2>4. G[n] = G[m]
    <3>1. n \in Nat /\ m \in 0 .. n /\ Heads(c, n, G)
      BY <1>0, <1>2, <1>5
    <3> QED BY <2>2, <2>3, <3>1, EndsFlat
  <2> QED BY <1>5, <2>4
<1> HIDE DEF b, c, n
<1>9. \E u \in Seq(Record) : F[m] = served \o u
  <2>1. CASE m = 0
    <3>1. F[m] = served /\ served \in Seq(Record)
      BY <1>5, <1>6, <1>8, <1>2, <2>1 DEF Heads
    <3>2. served \o <<>> = served /\ <<>> \in Seq(Record)
      BY <3>1, ConcatEmptySeq, EmptySeq
    <3> QED BY <3>1, <3>2
  <2>2. CASE m # 0
    <3>1. PICK p \in Nat : m = p + 1 /\ p \in 0 .. n /\ p <= n /\ m \in 1 .. n /\ m - 1 = p
      <4>1. m - 1 \in Nat /\ m = (m - 1) + 1 /\ m - 1 \in 0 .. n /\ m - 1 <= n /\ m \in 1 .. n
        BY <1>0, <1>2, <2>2
      <4> QED BY <4>1
    <3>2. ASSUME NEW i \in 1 .. p PROVE c[i] = b[i]
      <4>1. i \in 1 .. n /\ i < m /\ i <= m
        BY <1>0, <3>1
      <4>2. files[i].size = Len(disk[files[i].id])
        <5>1. i \in DOMAIN files /\ m \in DOMAIN files /\ ~ files[m].isRotating
          BY <1>0, <1>2, <2>2, <3>1, <4>1
        <5> QED BY <4>1, <5>1 DEF Complete
      <4> DEFINE s == disk[files[i].id]
      <4>3. SubSeq(s, 1, Len(s)) = s
        <5>1. s \in Seq(Record)
          BY <1>7, <4>1
        <5> HIDE DEF s
        <5> QED BY <5>1, SubSeqFull
      <4> QED BY <1>7, <4>1, <4>2, <4>3
    <3>3. G[p] = F[p]
      <4>1. Agree(c, b, p)
        BY <3>2 DEF Agree
      <4>2. n \in Nat /\ p \in Nat /\ p <= n /\ Heads(c, n, G) /\ Heads(b, n, F)
        BY <1>0, <1>5, <1>6, <3>1
      <4> QED BY <4>1, <4>2, EndsMeet
    <3> DEFINE s == disk[files[m].id]
               k == files[m].size
               x == G[p]
               y == SubSeq(s, 1, k)
               w == SubSeq(s, k + 1, Len(s))
    <3>4. s \in Seq(Record) /\ k \in 0 .. Len(s) /\ x \in Seq(Record) /\ c[m] = y /\ b[m] = s
      <4>1. m \in 1 .. n /\ m <= m
        BY <1>2, <3>1
      <4>2. c[m] = y /\ b[m] = s /\ s \in Seq(Record) /\ k \in 0 .. Len(s)
        BY <1>7, <4>1
      <4>3. x \in Seq(Record)
        BY <1>5, <3>1
      <4> QED BY <4>2, <4>3
    <3>5. F[m] = x \o s /\ G[m] = x \o y
      <4>1. F[m] = F[p] \o b[m] /\ G[m] = G[p] \o c[m]
        BY <1>5, <1>6, <3>1 DEF Heads
      <4> QED BY <3>3, <3>4, <4>1
    <3> HIDE DEF s, k, x
    <3>6. s = y \o w /\ y \in Seq(Record) /\ w \in Seq(Record)
      <4>1. Len(s) \in Nat /\ \A i \in 1 .. Len(s) : s[i] \in Record
        BY <3>4, LenProperties, ElementOfSeq
      <4>2. y \o w = SubSeq(s, 1, Len(s))
        <5>1. 1 \in 1 .. Len(s) + 1 /\ k \in 1 - 1 .. Len(s) /\ Len(s) \in k .. Len(s)
          BY <3>4, <4>1
        <5> QED BY <3>4, <5>1, ConcatAdjacentSubSeq
      <4>3. SubSeq(s, 1, Len(s)) = s
        BY <3>4, SubSeqFull
      <4>4. y \in Seq(Record)
        <5>1. 0 \in Int
          OBVIOUS
        <5> QED BY <3>4, <5>1, CutOfPrefix
      <4>5. w \in Seq(Record)
        <5> DEFINE f == k + 1
                   t == Len(s)
        <5>1. f \in Int /\ t \in Int /\ \A i \in f .. t : s[i] \in Record
          BY <3>4, <4>1
        <5> HIDE DEF f, t
        <5>2. SubSeq(s, f, t) \in Seq(Record)
          BY <5>1, SubSeqProperties
        <5> QED BY <5>2 DEF f, t
      <4> QED BY <4>2, <4>3, <4>4, <4>5
    <3> HIDE DEF y, w
    <3>7. x \o (y \o w) = (x \o y) \o w
      BY <3>4, <3>6, RecordsRegroup
    <3> QED BY <1>8, <3>5, <3>6, <3>7
  <2> QED BY <2>1, <2>2
<1> QED BY <1>2, <1>6, <1>9 DEF b, n, StartsWith

\* As long as nothing new is served, growth is all that ServedWithin must stand.
LEMMA WithinKept ==
  ASSUME TypeOK, TypeOK', ReaderShape, ReaderShape', served \in Seq(Record), ServedWithin,
         served' = served,
         throws' = 0 /\ ~ missed' => throws = 0 /\ ~ missed,
         \A i \in DOMAIN files : ~ files[i].isRotating => ~ files'[i].isRotating,
         \A m \in 0 .. Len(files) : throws = 0 /\ (m # 0 => ~ files[m].isRotating) =>
           GrownAfter(files, disk, files', disk', m)
  PROVE  ServedWithin'
<1> SUFFICES ASSUME throws' = 0, ~ missed'
             PROVE  \E m \in 0 .. Len(files') : /\ m # 0 => ~ files'[m].isRotating
                                                /\ StartsWith(files', disk', m, served')
  <2>1. \A m : StartsWith(files, disk, m, served)' = StartsWith(files', disk', m, served')
    BY DEF StartsWith, Contents, Heads
  <2> QED BY <2>1 DEF ServedWithin, StartsWith, Contents, Heads
<1>0. /\ disk \in Disks /\ files \in Seq(File) /\ InOrder(files, disk)
      /\ disk' \in Disks /\ files' \in Seq(File) /\ InOrder(files', disk')
      /\ Len(files) \in Nat /\ Len(files') \in Nat /\ DOMAIN files = 1 .. Len(files)
  BY FileFields DEF TypeOK, Disks, ReaderShape, ReaderTypes
<1>1. PICK m \in 0 .. Len(files) : /\ m # 0 => ~ files[m].isRotating
                                  /\ StartsWith(files, disk, m, served)
  BY DEF ServedWithin
<1>2. GrownAfter(files, disk, files', disk', m)
  BY <1>1
<1>3. StartsWith(files', disk', m, served)
  BY <1>0, <1>1, <1>2, WithinGrown
<1>4. m # 0 => m \in DOMAIN files /\ ~ files'[m].isRotating
  BY <1>0, <1>1
<1>5. m \in 0 .. Len(files')
  BY <1>0, <1>2 DEF GrownAfter
<1> QED BY <1>3, <1>4, <1>5

\* That an update has thrown is never forgotten.
LEMMA MissedStays ==
  ASSUME ReaderShape, [ClusterNext \/ SourceNext \/ Delete]_allVars
  PROVE  ~ missed' => ~ missed
<1>1. CASE ClusterNext \/ Delete \/ Teardown \/ UNCHANGED allVars
  BY <1>1 DEF ClusterNext, Delete, Teardown, allVars, reader
<1>2. CASE ReadDir \/ ReadDirEmpty \/ CheckSettled \/ CheckRotating \/ CheckNone
  BY <1>2 DEF ReadDir, ReadDirEmpty, CheckSettled, CheckRotating, CheckNone, Updated
<1>3. ASSUME NEW i \in DOMAIN files, UpdateSize(i) \/ OpenHandle(i) \/ OpenFails(i)
      PROVE  ~ missed' => ~ missed
  <2>1. \A fs : \A w : Threw(fs, w) => (~ missed' => ~ missed)
    BY DEF Threw, ReaderShape, ReaderTypes
  <2>2. \A fs : Fulfilled(fs, i) => (~ missed' => ~ missed)
    BY <2>1 DEF Fulfilled, Updated
  <2> QED BY <1>3, <2>1, <2>2 DEF UpdateSize, OpenHandle, OpenFails
<1>4. ASSUME NEW from, NEW to, Read(from, to) PROVE ~ missed' => ~ missed
  BY <1>4 DEF Read
<1> QED BY <1>1, <1>2, <1>3, <1>4 DEF SourceNext, UpdateNext

\* Found files and new marks leave the contents of the known ones alone.
LEMMA SameContents ==
  ASSUME NEW fs \in Seq(File), NEW d \in Disks, InOrder(fs, d),
         NEW gs, Len(fs) <= Len(gs), \A i \in DOMAIN fs : gs[i].id = fs[i].id,
         NEW m \in 0 .. Len(fs)
  PROVE  GrownAfter(fs, d, gs, d, m)
<1>1. ASSUME m # 0
      PROVE  \E v \in Seq(Record) : d[fs[m].id] = d[fs[m].id] \o v
  <2>1. m \in DOMAIN fs
    BY <1>1, FileFields
  <2>2. d[fs[m].id] \in Seq(Record)
    BY <2>1, ShownProperties
  <2>3. d[fs[m].id] \o <<>> = d[fs[m].id] /\ <<>> \in Seq(Record)
    BY <2>2, ConcatEmptySeq, EmptySeq
  <2> QED BY <2>3
<1> QED BY <1>1 DEF GrownAfter

\* Nor do handles and sizes.
LEMMA SameGrownAfter ==
  ASSUME disk \in Disks, files \in Seq(File), InOrder(files, disk),
         Alike(files, files'), UNCHANGED vars
  PROVE  /\ \A m \in 0 .. Len(files) : GrownAfter(files, disk, files', disk', m)
         /\ \A i \in DOMAIN files : ~ files[i].isRotating => ~ files'[i].isRotating
<1>1. disk' = disk /\ Len(files) <= Len(files') /\ \A i \in DOMAIN files : files'[i].id = files[i].id
  BY FileFields DEF Alike, vars
<1>2. ASSUME NEW m \in 0 .. Len(files) PROVE GrownAfter(files, disk, files', disk, m)
  BY <1>1, SameContents
<1> QED BY <1>1, <1>2 DEF Alike

\* Every action that serves nothing keeps ServedWithin.
LEMMA WithinStep ==
  ASSUME IInv, IInv', ReaderShape, ReaderShape', Passed, served \in Seq(Record), ServedWithin,
         served' = served, [ClusterNext \/ SourceNext \/ Delete]_allVars
  PROVE  ServedWithin'
<1>0. /\ TypeOK /\ TypeOK' /\ Shape /\ disk \in Disks /\ files \in Seq(File) /\ InOrder(files, disk)
      /\ Len(files) \in Nat /\ DOMAIN files = 1 .. Len(files)
  BY FileFields DEF IInv, TypeOK, Disks, ReaderShape, ReaderTypes
<1>1. throws' = 0 /\ ~ missed' => throws = 0 /\ ~ missed
  <2>1. throws' = 0 => throws = 0
    BY <1>0, SourceStepOfCluster, ThrowsStay DEF vars
  <2> QED BY <2>1, MissedStays
<1>2. SUFFICES
        /\ \A i \in DOMAIN files : ~ files[i].isRotating => ~ files'[i].isRotating
        /\ \A m \in 0 .. Len(files) : throws = 0 /\ (m # 0 => ~ files[m].isRotating) =>
             GrownAfter(files, disk, files', disk', m)
  BY <1>0, <1>1, WithinKept
<1> DEFINE Kept == /\ \A i \in DOMAIN files : ~ files[i].isRotating => ~ files'[i].isRotating
                   /\ \A m \in 0 .. Len(files) : throws = 0 /\ (m # 0 => ~ files[m].isRotating) =>
                        GrownAfter(files, disk, files', disk', m)
<1>3. ASSUME Alike(files, files'), UNCHANGED vars PROVE Kept
  BY <1>0, <1>3, SameGrownAfter
<1>4. CASE ClusterNext
  <2>1. Next /\ files' = files
    BY <1>4 DEF ClusterNext, reader
  <2>2. ASSUME NEW m \in 0 .. Len(files), throws = 0, m # 0 => ~ files[m].isRotating
        PROVE  GrownAfter(files, disk, files, disk', m)
    <3>1. CASE m = 0
      <4>1. \A i \in DOMAIN files : ~ (i < m)
        BY <1>0, <3>1
      <4> QED BY <1>0, <3>1, <4>1 DEF GrownAfter
    <3>2. CASE m # 0
      <4>1. m \in DOMAIN files /\ ~ files[m].isRotating
        BY <1>0, <2>2, <3>2
      <4>2. NobodyBehind(files[m].id)
        BY <2>2, <4>1 DEF Passed
      <4>3. PICK k \in 0 .. Len(disk) : k = files[m].id
        <5>1. files[m].id \in DOMAIN disk
          BY <1>0, <4>1 DEF InOrder
        <5>2. files[m].id \in 0 .. Len(disk)
          <6>1. DOMAIN disk = 1 .. Len(disk) /\ Len(disk) \in Nat
            BY <1>0, LenProperties DEF Disks
          <6> QED BY <5>1, <6>1
        <5> QED BY <5>2
      <4>4. GrownFrom(disk, disk', k)
        BY <1>0, <2>1, <4>2, <4>3, NobodyFallsBehind
      <4>5. ASSUME NEW i \in DOMAIN files, i < m PROVE disk'[files[i].id] = disk[files[i].id]
        <5>1. files[i].id < k /\ files[i].id \in DOMAIN disk
          BY <1>0, <4>1, <4>3, <4>5 DEF InOrder
        <5> QED BY <4>4, <5>1 DEF GrownFrom
      <4>6. \E v \in Seq(Record) : disk'[files[m].id] = disk[files[m].id] \o v
        <5>1. files[m].id \in DOMAIN disk
          BY <1>0, <4>1 DEF InOrder
        <5> QED BY <4>4, <5>1 DEF GrownFrom
      <4>7. Len(files) <= Len(files) /\ \A i \in DOMAIN files : files[i].id = files[i].id
        BY <1>0
      <4> QED BY <4>5, <4>6, <4>7 DEF GrownAfter
    <3> QED BY <3>1, <3>2
  <2> QED BY <2>1, <2>2
<1>5. CASE ReadDir
  <2>1. files' = Found /\ UNCHANGED vars
    BY <1>5 DEF ReadDir
  <2>2. /\ DOMAIN files \subseteq DOMAIN Found /\ Found \in Seq(File)
        /\ \A i \in DOMAIN files : Found[i] = files[i]
    BY <1>0, SourceAssumption, FoundOnTop DEF ReaderShape, ReaderTypes
  <2>3. Len(files) <= Len(Found)
    <3>1. Len(Found) \in Nat /\ DOMAIN Found = 1 .. Len(Found)
      BY <2>2, FileFields
    <3> QED BY <1>0, <2>2, <3>1
  <2>4. disk' = disk
    BY <2>1 DEF vars
  <2>5. \A i \in DOMAIN files : Found[i].id = files[i].id
    BY <2>2
  <2> HIDE DEF Found
  <2>6. ASSUME NEW m \in 0 .. Len(files) PROVE GrownAfter(files, disk, Found, disk, m)
    BY <1>0, <2>3, <2>5, SameContents
  <2> QED BY <2>1, <2>2, <2>4, <2>6
<1>6. CASE CheckSettled
  <2>1. /\ DOMAIN files' = DOMAIN files
        /\ \A j \in DOMAIN files :
             /\ files'[j].id = files[j].id
             /\ ~ files[j].isRotating => ~ files'[j].isRotating
    BY <1>0, <1>6, CheckSettledShape
  <2>2. UNCHANGED vars
    BY <1>6 DEF CheckSettled
  <2>3. Len(files') = Len(files)
    <3>1. Len(files') \in Nat /\ DOMAIN files' = 1 .. Len(files')
      BY FileFields DEF ReaderShape, ReaderTypes
    <3> QED BY <1>0, <2>1, <3>1
  <2>4. Len(files) <= Len(files') /\ disk' = disk /\ \A i \in DOMAIN files : files'[i].id = files[i].id
    BY <1>0, <2>1, <2>2, <2>3 DEF vars
  <2>5. ASSUME NEW m \in 0 .. Len(files) PROVE GrownAfter(files, disk, files', disk, m)
    BY <1>0, <2>4, SameContents
  <2> QED BY <2>1, <2>4, <2>5
<1>7. ASSUME NEW i \in DOMAIN files, UpdateSize(i) PROVE Kept
  BY <1>0, <1>3, <1>7, UpdateSizeAlike DEF UpdateSize
<1>8. ASSUME NEW i \in DOMAIN files, OpenHandle(i) \/ OpenFails(i) PROVE Kept
  BY <1>3, <1>8, OpenSame DEF Same
<1>9. ASSUME NEW from, NEW to, Read(from, to) PROVE Kept
  BY <1>3, <1>9, ReadShape DEF Read
<1>10. CASE CheckRotating \/ CheckNone \/ ReadDirEmpty \/ Teardown \/ Delete \/ UNCHANGED allVars
  BY <1>3, <1>10, QuietSame DEF Same
<1> QED BY <1>4, <1>5, <1>6, <1>7, <1>8, <1>9, <1>10 DEF SourceNext, UpdateNext

\* What there is to say of served.
ServedIs == served \in Seq(Record) /\ ServedNow /\ ServedWithin

LEMMA ServedInit == SourceInit => ServedIs
<1> SUFFICES ASSUME SourceInit PROVE ServedIs
  OBVIOUS
<1>1. files = <<>> /\ served = <<>> /\ rpc = "idle"
  BY DEF SourceInit
<1>2. Len(files) = 0 /\ DOMAIN files = {} /\ <<>> \in Seq(Record)
  <2>1. Len(<<>>) = 0 /\ DOMAIN <<>> = {} /\ <<>> \in Seq(Record)
    BY EmptySeq
  <2> QED BY <1>1, <2>1, Zenon
<1>3. <<>> \in Seq(Seq(Record)) /\ Len(<<>>) = 0
  OBVIOUS
<1> DEFINE F == [i \in {0} |-> <<>>]
<1>4. F[0] = <<>>
  OBVIOUS
<1> HIDE DEF F
<1>5. \A d : Heads(d, 0, F)
  BY <1>4 DEF Heads
<1>6. FlattenSeq(<<>>) = <<>>
  <2>1. Heads(<<>>, Len(<<>>), F)
    BY <1>3, <1>5
  <2> QED BY <1>3, <1>4, <2>1, FlattenIsLast
<1>7. Shown(files, disk) = <<>>
  BY <1>2 DEF Shown
<1>8. ServedNow
  BY <1>1, <1>6, <1>7 DEF ServedNow, All
<1>9. ServedWithin
  <2>1. F[0] = served \o <<>>
    BY <1>1, <1>4, <1>2, ConcatEmptySeq
  <2>2. StartsWith(files, disk, 0, served)
    BY <1>2, <1>5, <2>1 DEF StartsWith
  <2> QED BY <1>2, <2>2 DEF ServedWithin
<1> QED BY <1>1, <1>2, <1>8, <1>9 DEF ServedIs

\* All of it is an invariant.
LEMMA ServedInvariant ==
  SourceSpec => [](IInv /\ ReaderShape /\ Passed /\ Complete /\ ServedIs)
<1>1. TypeOK /\ ReaderShape /\ Complete /\ ServedNow /\ rpc = "idle" => ServedWithin
  BY ServedNowIsWithin
<1>2. (TypeOK /\ ReaderShape /\ Complete /\ ServedNow /\ rpc = "idle" => ServedWithin)'
  BY <1>1, PTL
<1>3. IInv /\ IInv' /\ ReaderShape /\ ReaderShape' /\ Passed /\ Complete' /\ ServedIs
      /\ [ClusterNext \/ SourceNext \/ Delete]_allVars
      => ServedIs'
  <2> SUFFICES ASSUME IInv, IInv', ReaderShape, ReaderShape', Passed, Complete', ServedIs,
                      [ClusterNext \/ SourceNext \/ Delete]_allVars
               PROVE  ServedIs'
    OBVIOUS
  <2>1. served \in Seq(Record) /\ ServedNow /\ ServedWithin
    BY DEF ServedIs
  <2>2. ServedNow' /\ served' \in Seq(Record) /\ (rpc' # "idle" => served' = served)
    BY <2>1, ServedStep
  <2>3. CASE rpc' = "idle"
    BY <1>2, <2>2, <2>3 DEF ServedIs, IInv
  <2>4. CASE rpc' # "idle"
    <3>1. ServedWithin'
      BY <2>1, <2>2, <2>4, WithinStep
    <3> QED BY <2>2, <3>1 DEF ServedIs
  <2> QED BY <2>3, <2>4
<1> QED BY <1>3, ServedInit, PassedInvariant, PTL DEF SourceSpec

\* The reader's variables keep to their domains.
THEOREM SourceTypes == SourceSpec => []SourceTypeOK
<1>1. ReaderShape /\ ServedIs => SourceTypeOK
  BY DEF ReaderShape, ReaderTypes, ServedIs, SourceTypeOK
<1> QED BY <1>1, ServedInvariant, PTL

\* A start of the first of them is a start of all.
LEMMA StartOfAll ==
  ASSUME NEW d, NEW n \in Nat, NEW F, Heads(d, n, F), AreSeqs(d, n, Record),
         NEW m \in 0 .. n, NEW s \in Seq(Record), NEW u \in Seq(Record), F[m] = s \o u
  PROVE  IsPrefix(s, F[n])
<1>1. Continues(F[m], F[n], Record)
  BY EndsGrow
<1>2. PICK w \in Seq(Record) : F[n] = F[m] \o w
  BY <1>1 DEF Continues
<1>3. (s \o u) \o w = s \o (u \o w) /\ u \o w \in Seq(Record)
  BY RecordsRegroup
<1>4. F[n] = s \o (u \o w)
  BY <1>2, <1>3
<1> DEFINE v == u \o w
<1>5. v \in Seq(Record) /\ F[n] = s \o v
  BY <1>3, <1>4
<1> HIDE DEF v
<1> QED BY <1>5, BeginningIsPrefix

\* What was served is a prefix of the directory, as far as it is known.
LEMMA ServedStartsKnown ==
  ASSUME TypeOK, ReaderShape, ServedIs, throws = 0, ~ missed
  PROVE  IsPrefix(served, Known)
<1> DEFINE b == Contents(files, disk)
           n == Len(files)
<1>0. disk \in Disks /\ files \in Seq(File) /\ InOrder(files, disk) /\ served \in Seq(Record)
  BY DEF TypeOK, Disks, ReaderShape, ReaderTypes, ServedIs
<1>1. PICK m \in 0 .. Len(files) : StartsWith(files, disk, m, served)
  BY DEF ServedIs, ServedWithin
<1>2. PICK F : Heads(b, n, F) /\ \E u \in Seq(Record) : F[m] = served \o u
  BY <1>1 DEF StartsWith
<1>3. PICK u \in Seq(Record) : F[m] = served \o u
  BY <1>2
<1>4. b \in Seq(Seq(Record)) /\ Len(b) = n /\ n \in Nat /\ \A i \in 1 .. n : b[i] \in Seq(Record)
  BY <1>0, ContentsProperties
<1>5. Known = FlattenSeq(b)
  BY DEF Known, Contents
<1> HIDE DEF b
<1>6. Known = F[n]
  BY <1>2, <1>4, <1>5, FlattenIsLast
<1>7. m \in 0 .. n /\ n \in Nat /\ Heads(b, n, F) /\ AreSeqs(b, n, Record)
  BY <1>1, <1>2, <1>4 DEF AreSeqs
<1> HIDE DEF n
<1> QED BY <1>0, <1>3, <1>6, <1>7, StartOfAll

\* What callers have been given stays a prefix of the directory read end to end,
\* and every partial read at rest is the part of it that the offsets name: while
\* workers write to old files, files are found, deleted and measured in any order.
THEOREM ServedIsAPrefix == SourceSpec => []ServedIsPrefix
<1>1. TypeOK /\ ReaderShape /\ ServedIs => ServedIsPrefix
  <2> SUFFICES ASSUME TypeOK, ReaderShape, ServedIs, throws = 0, ~ missed
               PROVE  /\ IsPrefix(served, Known)
                      /\ rpc = "idle" =>
                           \A from \in 0 .. Len(served) : \A to \in from + 1 .. Len(served) :
                             Chunks(files, from, to) = SubSeq(served, from + 1, to)
    BY DEF ServedIsPrefix
  <2>1. IsPrefix(served, Known)
    BY ServedStartsKnown
  <2>2. ASSUME rpc = "idle", NEW from \in 0 .. Len(served), NEW to \in from + 1 .. Len(served)
        PROVE  Chunks(files, from, to) = SubSeq(served, from + 1, to)
    <3>1. served = All(files, disk) /\ served \in Seq(Record) /\ Len(served) \in Nat
      BY <2>2, LenProperties DEF ServedIs, ServedNow
    <3>2. from \in Nat /\ to \in Nat /\ 0 <= from /\ to <= Len(served)
      BY <3>1
    <3>3. Chunks(files, from, to) = Cut(served, from, to)
      BY <3>1, <3>2, ChunksAreCuts DEF TypeOK, Disks, ReaderShape, ReaderTypes
    <3>4. Cut(served, from, to) = SubSeq(served, from + 1, to)
      BY <3>1, <3>2, MaxOfTwo, MinOfTwo DEF Cut
    <3> QED BY <3>3, <3>4
  <2> QED BY <2>1, <2>2
<1> QED BY <1>1, ServedInvariant, PTL DEF IInv

=============================================================================
