------------------------------- MODULE Cluster -------------------------------
(***************************************************************************)
(* The writing side of a log directory: one master process with a          *)
(* MasterLogger, its worker processes with a WorkerLogger each, the log    *)
(* files they append to, and the rotation protocol of docs/writers.md: the *)
(* LogManager names a new file, the master rotates to it, then tells every *)
(* worker over IPC.  Workers follow in their own time, exit or are killed  *)
(* at any moment, and the master may be killed and started again.          *)
(*                                                                         *)
(* Each process buffers and writes as an Appender does (Logger implements  *)
(* that); the high water mark and the timer appear as a flush that may     *)
(* come at any time.  A file is the sequence of its records: a flush is    *)
(* one writevSync of a whole block, so a reader sees all of it or none.    *)
(*                                                                         *)
(* Records the readers tell apart keep their event name; every record a    *)
(* WorkerLogger or a RequestLogger writes is a "WORKER_LOG" and every      *)
(* other one of the master a "MASTER_LOG".                                 *)
(*                                                                         *)
(* From the application, as docs/writers.md asks: STARTING_UP comes first, *)
(* WORKER_SPAWNED right after fork and WORKER_EXITED once the exit is      *)
(* seen; a worker starts on the file that is current at its fork; IPC      *)
(* keeps order; no master starts while workers of the last one still run.  *)
(***************************************************************************)
EXTENDS Naturals, Sequences, FiniteSets, SequencesExt

CONSTANTS Workers,           \* worker ids; a restarted master uses them again
          NoWorker,          \* log.workerId == null
          MaxFiles,          \* bound: log files
          MaxRuns,           \* bound: times a master is started
          MaxMasterRecords,  \* bound: optional records of the master per run
          MaxWorkerRecords,  \* bound: optional records of a worker
          MaxTime,           \* bound: the clock
          MaxThrows,         \* bound: lifecycle writes of the master that throw
          MaxRefused         \* bound: logs per run whose data JSON cannot express

ASSUME ClusterAssumption ==
  /\ NoWorker \notin Workers
  /\ MaxFiles \in Nat \ {0}
  /\ MaxRuns \in Nat /\ MaxMasterRecords \in Nat /\ MaxWorkerRecords \in Nat
  /\ MaxTime \in Nat /\ MaxThrows \in Nat /\ MaxRefused \in Nat

Events == {"STARTING_UP", "WORKER_SPAWNED", "WORKER_EXITED", "MASTER_PING",
           "MASTER_LOG", "WORKER_LOG"}

\* A record as LogEntry decodes it, less the fields no reader decides by.
Record == [event : Events, timestamp : 0 .. MaxTime, nonce : Nat,
           workerId : Workers \cup {NoWorker}, workerIds : SUBSET Workers]

VARIABLES clock,       \* Date.now(), shared by the processes of one machine
          disk,        \* the records of each file, in the order of basenames
          mpc,         \* master: "down", "opened" (constructed), "up",
                       \* or "rotated" (inside rotate(), before its ping)
          mfile,       \* the file the master's descriptor is on (0: none)
          mbuf,        \* its unwritten records
          mnonce,      \* its _nextNonce
          workerIds,   \* its _workerIds
          wst,         \* worker: "none", "live", "exited", "reaped"
          wfile,       \* the file its descriptor is on (0: none)
          wbuf,        \* its unwritten records
          wnonce,      \* its _nextNonce
          inbox,       \* rotate messages on their way to it
          runs,        \* masters started so far
          throws,      \* lifecycle writes that threw so far
          refused      \* who took which nonce, since the last STARTING_UP, for
                       \* a log that json() then threw out

master == <<mpc, mfile, mbuf, mnonce, workerIds>>
workers == <<wst, wfile, wbuf, wnonce, inbox>>
vars == <<clock, disk, mpc, mfile, mbuf, mnonce, workerIds,
          wst, wfile, wbuf, wnonce, inbox, runs, throws, refused>>

Live == {w \in Workers : wst[w] = "live"}
MasterUp == mpc # "down"

Init == /\ clock = 0
        /\ disk = <<>>
        /\ mpc = "down"
        /\ mfile = 0
        /\ mbuf = <<>>
        /\ mnonce = 0
        /\ workerIds = {}
        /\ wst = [w \in Workers |-> "none"]
        /\ wfile = [w \in Workers |-> 0]
        /\ wbuf = [w \in Workers |-> <<>>]
        /\ wnonce = [w \in Workers |-> 0]
        /\ inbox = [w \in Workers |-> <<>>]
        /\ runs = 0
        /\ throws = 0
        /\ refused = {}

-----------------------------------------------------------------------------
(* Records, and the write that ends a flush().                              *)

\* Fault: the master among the ids it lists.
MasterRecordListingItself(event, id, ids) ==
  [event |-> event, timestamp |-> clock, nonce |-> mnonce,
   workerId |-> id, workerIds |-> ids \cup {NoWorker}]

MasterRecord(event, id, ids) ==
  [event |-> event, timestamp |-> clock, nonce |-> mnonce,
   workerId |-> id, workerIds |-> ids]

WorkerRecord(w) ==
  [event |-> "WORKER_LOG", timestamp |-> clock, nonce |-> wnonce[w],
   workerId |-> w, workerIds |-> {}]

WriteTo(d, f, batch) == [d EXCEPT ![f] = @ \o batch]

\* Fault: super.log(record) without the flush().
LogOnly(record) ==
  /\ mbuf' = Append(mbuf, record)
  /\ mnonce' = mnonce + 1
  /\ UNCHANGED disk

\* super.log(record).flush() on the master: one write of all it has buffered.
LogAndFlush(record) ==
  /\ disk' = WriteTo(disk, mfile, Append(mbuf, record))
  /\ mbuf' = <<>>
  /\ mnonce' = mnonce + 1

\* The same call when the write throws: the record stays in the buffer, and
\* the statements that follow the call do not run.
LogAndFlushThrows(record) ==
  /\ throws < MaxThrows
  /\ throws' = throws + 1
  /\ mbuf' = Append(mbuf, record)
  /\ mnonce' = mnonce + 1
  /\ UNCHANGED <<clock, disk, mpc, mfile, workerIds, runs, refused>>

-----------------------------------------------------------------------------
(* The master.                                                              *)

\* new LogManager, new MasterLogger(manager.filename): the latest file, or a
\* new one if there is none or it is due for rotation.
StartMaster ==
  /\ mpc = "down"
  /\ runs < MaxRuns
  /\ Live = {}
  /\ \/ /\ disk # <<>>
        /\ mfile' = Len(disk)
        /\ UNCHANGED disk
     \/ /\ Len(disk) < MaxFiles
        /\ disk' = Append(disk, <<>>)
        /\ mfile' = Len(disk) + 1
  /\ mpc' = "opened"
  /\ mbuf' = <<>>
  /\ mnonce' = 0
  /\ workerIds' = {}
  /\ wst' = [w \in Workers |-> "none"]
  /\ runs' = runs + 1
  /\ UNCHANGED <<clock, wfile, wbuf, wnonce, inbox, throws, refused>>

STARTING_UP ==
  /\ mpc = "opened"
  /\ LogAndFlush(MasterRecord("STARTING_UP", NoWorker, {}))
  /\ workerIds' = {}
  /\ mpc' = "up"
  /\ refused' = {}
  /\ UNCHANGED <<clock, mfile, wst, wfile, wbuf, wnonce, inbox, runs, throws>>

\* fork() and, in the same turn, WORKER_SPAWNED(w); whether or not the log
\* call throws, the worker is running.
Forked(w) ==
  /\ wst' = [wst EXCEPT ![w] = "live"]
  /\ wfile' = [wfile EXCEPT ![w] = mfile]
  /\ wbuf' = [wbuf EXCEPT ![w] = <<>>]
  /\ wnonce' = [wnonce EXCEPT ![w] = 0]
  /\ inbox' = [inbox EXCEPT ![w] = <<>>]

\* Fault: no _workerIds.add().
WorkerSpawnedNotAdded(w) ==
  /\ mpc = "up"
  /\ wst[w] = "none"
  /\ Forked(w)
  /\ LogAndFlush(MasterRecord("WORKER_SPAWNED", w, {}))
  /\ UNCHANGED <<clock, mpc, mfile, workerIds, runs, throws, refused>>

WORKER_SPAWNED(w) ==
  /\ mpc = "up"
  /\ wst[w] = "none"
  /\ Forked(w)
  /\ LogAndFlush(MasterRecord("WORKER_SPAWNED", w, {}))
  /\ workerIds' = workerIds \cup {w}
  /\ UNCHANGED <<clock, mpc, mfile, runs, throws, refused>>

WorkerSpawnedThrows(w) ==
  /\ mpc = "up"
  /\ wst[w] = "none"
  /\ Forked(w)
  /\ LogAndFlushThrows(MasterRecord("WORKER_SPAWNED", w, {}))

\* Fault: no _workerIds.delete().
WorkerExitedNotDeleted(w) ==
  /\ mpc = "up"
  /\ wst[w] = "exited"
  /\ wst' = [wst EXCEPT ![w] = "reaped"]
  /\ LogAndFlush(MasterRecord("WORKER_EXITED", w, {}))
  /\ UNCHANGED <<clock, mpc, mfile, workerIds, wfile, wbuf, wnonce, inbox, runs, throws, refused>>

WORKER_EXITED(w) ==
  /\ mpc = "up"
  /\ wst[w] = "exited"
  /\ wst' = [wst EXCEPT ![w] = "reaped"]
  /\ LogAndFlush(MasterRecord("WORKER_EXITED", w, {}))
  /\ workerIds' = workerIds \ {w}
  /\ UNCHANGED <<clock, mpc, mfile, wfile, wbuf, wnonce, inbox, runs, throws, refused>>

WorkerExitedThrows(w) ==
  /\ mpc = "up"
  /\ wst[w] = "exited"
  /\ wst' = [wst EXCEPT ![w] = "reaped"]
  /\ LogAndFlushThrows(MasterRecord("WORKER_EXITED", w, {}))
  /\ UNCHANGED <<wfile, wbuf, wnonce, inbox>>

\* Any other record, and the ping of the interval timer, which is buffered
\* like one.
MasterLog ==
  /\ mpc = "up"
  /\ mnonce < MaxMasterRecords
  /\ \E record \in {MasterRecord("MASTER_LOG", NoWorker, {}),
                    MasterRecord("MASTER_PING", NoWorker, workerIds)} :
       mbuf' = Append(mbuf, record)
  /\ mnonce' = mnonce + 1
  /\ UNCHANGED <<clock, disk, mpc, mfile, workerIds, workers, runs, throws, refused>>

\* A log whose data JSON.stringify cannot express: it throws in json(), after
\* _nonce() and before super.log(), so the nonce is gone and no record has it.
MasterLogThrows ==
  /\ mpc = "up"
  /\ mnonce < MaxMasterRecords
  /\ Cardinality(refused) < MaxRefused
  /\ refused' = refused \cup {<<NoWorker, mnonce>>}
  /\ mnonce' = mnonce + 1
  /\ UNCHANGED <<clock, disk, mpc, mfile, mbuf, workerIds, workers, runs, throws>>

MasterFlush ==
  /\ mpc = "up"
  /\ mbuf # <<>>
  /\ disk' = WriteTo(disk, mfile, mbuf)
  /\ mbuf' = <<>>
  /\ UNCHANGED <<clock, mpc, mfile, mnonce, workerIds, workers, runs, throws, refused>>

\* The manager's "rotate" event: super.rotate() flushes to the old file and
\* opens the new one.
Rotate ==
  /\ mpc = "up"
  /\ Len(disk) < MaxFiles
  /\ disk' = Append(WriteTo(disk, mfile, mbuf), <<>>)
  /\ mbuf' = <<>>
  /\ mfile' = Len(disk) + 1
  /\ mpc' = "rotated"
  /\ UNCHANGED <<clock, mnonce, workerIds, workers, runs, throws, refused>>

\* Fault: pinging before workerIds is known, as a constructor would.
RotatePingNobody ==
  /\ mpc = "rotated"
  /\ LogAndFlush(MasterRecord("MASTER_PING", NoWorker, {}))
  /\ inbox' = [w \in Workers |-> IF wst[w] = "live" THEN Append(inbox[w], mfile)
                                                    ELSE inbox[w]]
  /\ mpc' = "up"
  /\ UNCHANGED <<clock, mfile, workerIds, wst, wfile, wbuf, wnonce, runs, throws, refused>>

\* The rest of rotate(): _ping().flush(); then the application sends the new
\* name to every worker (one that has exited unseen will not receive it).
RotatePing ==
  /\ mpc = "rotated"
  /\ LogAndFlush(MasterRecord("MASTER_PING", NoWorker, workerIds))
  /\ inbox' = [w \in Workers |-> IF wst[w] = "live" THEN Append(inbox[w], mfile)
                                                    ELSE inbox[w]]
  /\ mpc' = "up"
  /\ UNCHANGED <<clock, mfile, workerIds, wst, wfile, wbuf, wnonce, runs, throws, refused>>

\* The master is killed, or closes its logger and leaves (the buffer reaches
\* the file); its workers notice later.
StopMaster ==
  /\ MasterUp
  /\ \/ UNCHANGED disk
     \/ mpc = "up" /\ mbuf # <<>> /\ disk' = WriteTo(disk, mfile, mbuf)
  /\ mpc' = "down"
  /\ mfile' = 0
  /\ mbuf' = <<>>
  /\ mnonce' = 0
  /\ workerIds' = {}
  /\ UNCHANGED <<clock, workers, runs, throws, refused>>

-----------------------------------------------------------------------------
(* The workers.                                                             *)

WorkerLog(w) ==
  /\ wst[w] = "live"
  /\ wnonce[w] < MaxWorkerRecords
  /\ wbuf' = [wbuf EXCEPT ![w] = Append(@, WorkerRecord(w))]
  /\ wnonce' = [wnonce EXCEPT ![w] = @ + 1]
  /\ UNCHANGED <<clock, disk, master, wst, wfile, inbox, runs, throws, refused>>

\* The same in a worker: its own logs and those of its RequestLoggers.
WorkerLogThrows(w) ==
  /\ wst[w] = "live"
  /\ wnonce[w] < MaxWorkerRecords
  /\ Cardinality(refused) < MaxRefused
  /\ refused' = refused \cup {<<w, wnonce[w]>>}
  /\ wnonce' = [wnonce EXCEPT ![w] = @ + 1]
  /\ UNCHANGED <<clock, disk, master, wst, wfile, wbuf, inbox, runs, throws>>

WorkerFlush(w) ==
  /\ wst[w] = "live"
  /\ wbuf[w] # <<>>
  /\ disk' = WriteTo(disk, wfile[w], wbuf[w])
  /\ wbuf' = [wbuf EXCEPT ![w] = <<>>]
  /\ UNCHANGED <<clock, master, wst, wfile, wnonce, inbox, runs, throws, refused>>

\* Faults: pinging before the flush; not pinging at all.
WorkerRotatePingFirst(w) ==
  /\ wst[w] = "live"
  /\ inbox[w] # <<>>
  /\ LET f == Head(inbox[w]) IN
       /\ disk' = WriteTo(disk, f, <<WorkerRecord(w)>> \o wbuf[w])
       /\ wfile' = [wfile EXCEPT ![w] = f]
  /\ wbuf' = [wbuf EXCEPT ![w] = <<>>]
  /\ wnonce' = [wnonce EXCEPT ![w] = @ + 1]
  /\ inbox' = [inbox EXCEPT ![w] = Tail(@)]
  /\ UNCHANGED <<clock, master, wst, runs, throws, refused>>

WorkerRotateSilently(w) ==
  /\ wst[w] = "live"
  /\ inbox[w] # <<>>
  /\ disk' = WriteTo(disk, wfile[w], wbuf[w])
  /\ wfile' = [wfile EXCEPT ![w] = Head(inbox[w])]
  /\ wbuf' = [wbuf EXCEPT ![w] = <<>>]
  /\ inbox' = [inbox EXCEPT ![w] = Tail(@)]
  /\ UNCHANGED <<clock, master, wst, wnonce, runs, throws, refused>>

\* WorkerLogger.rotate(filename): flush to the old file, open the new one,
\* _ping().flush().  Nothing of the worker can come between the two writes.
WorkerRotate(w) ==
  /\ wst[w] = "live"
  /\ inbox[w] # <<>>
  /\ LET f == Head(inbox[w]) IN
       /\ disk' = WriteTo(WriteTo(disk, wfile[w], wbuf[w]), f, <<WorkerRecord(w)>>)
       /\ wfile' = [wfile EXCEPT ![w] = f]
  /\ wbuf' = [wbuf EXCEPT ![w] = <<>>]
  /\ wnonce' = [wnonce EXCEPT ![w] = @ + 1]
  /\ inbox' = [inbox EXCEPT ![w] = Tail(@)]
  /\ UNCHANGED <<clock, master, wst, runs, throws, refused>>

\* The process ends: with close() or flush() on exit, or killed with its
\* buffer.
WorkerExit(w) ==
  /\ wst[w] = "live"
  /\ wst' = [wst EXCEPT ![w] = "exited"]
  /\ \/ UNCHANGED disk
     \/ wbuf[w] # <<>> /\ disk' = WriteTo(disk, wfile[w], wbuf[w])
  /\ wfile' = [wfile EXCEPT ![w] = 0]
  /\ wbuf' = [wbuf EXCEPT ![w] = <<>>]
  /\ wnonce' = [wnonce EXCEPT ![w] = 0]
  /\ inbox' = [inbox EXCEPT ![w] = <<>>]
  /\ UNCHANGED <<clock, master, runs, throws, refused>>

Tick == /\ clock < MaxTime
        /\ clock' = clock + 1
        /\ UNCHANGED <<disk, master, workers, runs, throws, refused>>

MasterNext == \/ StartMaster \/ STARTING_UP
              \/ MasterLog \/ MasterLogThrows \/ MasterFlush
              \/ Rotate \/ RotatePing \/ StopMaster

WorkerNext(w) == \/ WORKER_SPAWNED(w) \/ WorkerSpawnedThrows(w)
                 \/ WORKER_EXITED(w) \/ WorkerExitedThrows(w)
                 \/ WorkerLog(w) \/ WorkerLogThrows(w) \/ WorkerFlush(w)
                 \/ WorkerRotate(w) \/ WorkerExit(w)

Next == MasterNext \/ (\E w \in Workers : WorkerNext(w)) \/ Tick

Spec == Init /\ [][Next]_vars

\* Event loops run their callbacks, IPC delivers, and the operating system
\* reports exits.  A worker that has lost its master leaves, as cluster workers
\* do when the IPC channel closes, and a supervisor starts a stopped master.
Fairness ==
  /\ WF_vars(STARTING_UP)
  /\ WF_vars(RotatePing)
  /\ WF_vars(MasterFlush)
  /\ WF_vars(StartMaster)
  /\ \A w \in Workers : /\ WF_vars(WorkerRotate(w))
                        /\ WF_vars(WORKER_EXITED(w))
                        /\ WF_vars(mpc = "down" /\ WorkerExit(w))

-----------------------------------------------------------------------------
(* What the readers need of the files.                                      *)

\* A reader's view of the directory: the files end to end.
Stream == FlattenSeq(disk)

\* The workers a reader of the first p - 1 records believes to be running.
AliveAt(S, p) ==
  {w \in Workers :
     \E q \in 1 .. p - 1 :
       /\ S[q].event = "WORKER_SPAWNED" /\ S[q].workerId = w
       /\ \A r \in q + 1 .. p - 1 :
            /\ S[r].event # "STARTING_UP"
            /\ ~(S[r].event = "WORKER_EXITED" /\ S[r].workerId = w)}

IsFirstPing(contents, i) ==
  /\ contents[i].event = "MASTER_PING"
  /\ \A j \in 1 .. i - 1 : contents[j].event # "MASTER_PING"

\* Fault: not waiting for the workers a ping names.
SettledByPing(contents) ==
  \E i \in DOMAIN contents : contents[i].event \in {"STARTING_UP", "MASTER_PING"}

\* What isRotating() looks for to return false: a STARTING_UP, or a first ping
\* that names nobody, or a record about each worker it names after it.
Settled(contents) ==
  \/ \E i \in DOMAIN contents : contents[i].event = "STARTING_UP"
  \/ \E i \in DOMAIN contents :
       /\ IsFirstPing(contents, i)
       /\ \A w \in contents[i].workerIds :
            \E j \in i + 1 .. Len(contents) : contents[j].workerId = w

\* isRotating() as the code computes it: one pass over the records with the
\* set of pending workers, stopping at the first decision.
ScanSays(contents) ==
  LET Step(state, record) ==
        IF state.done THEN state
        ELSE IF record.event = "STARTING_UP" THEN [state EXCEPT !.done = TRUE]
        ELSE IF ~state.pinged
          THEN IF record.event = "MASTER_PING"
                 THEN [pinged |-> TRUE, pending |-> record.workerIds,
                       done |-> record.workerIds = {}]
                 ELSE state
        ELSE IF record.workerId # NoWorker
          THEN LET rest == state.pending \ {record.workerId}
               IN [state EXCEPT !.pending = rest, !.done = rest = {}]
        ELSE state
  IN FoldLeft(Step, [pinged |-> FALSE, pending |-> {}, done |-> FALSE], contents).done

-----------------------------------------------------------------------------
\* Every variable keeps to its domain.
TypeOK == /\ clock \in 0 .. MaxTime
          /\ disk \in Seq(Seq(Record))
          /\ mpc \in {"down", "opened", "up", "rotated"}
          /\ mfile \in Nat
          /\ mbuf \in Seq(Record)
          /\ mnonce \in Nat
          /\ workerIds \in SUBSET Workers
          /\ wst \in [Workers -> {"none", "live", "exited", "reaped"}]
          /\ wfile \in [Workers -> Nat]
          /\ wbuf \in [Workers -> Seq(Record)]
          /\ wnonce \in [Workers -> Nat]
          /\ inbox \in [Workers -> Seq(Nat)]
          /\ runs \in Nat
          /\ throws \in Nat
          /\ refused \in SUBSET ((Workers \cup {NoWorker}) \X Nat)

\* Once the contents of a file make isRotating() return false, no process is
\* left on an earlier file: whatever the interleaving of rotations, spawns,
\* exits, kills and restarts, earlier files are final
\* (log-directory-source.js:219-246, master-logger.js:165-171).
NoWriterBehind ==
  throws = 0 => \A f \in DOMAIN disk : Settled(disk[f]) =>
    /\ \A w \in Live : wfile[w] >= f
    /\ MasterUp => mfile >= f

\* That scan and Settled agree on everything a cluster writes
\* (log-directory-source.js:221-246).
ScanAgrees == \A f \in DOMAIN disk : ScanSays(disk[f]) <=> Settled(disk[f])

\* Read end to end, every ping names exactly the workers spawned and not yet
\* exited at that point of the stream: what BoundFinder and isRotating() take
\* a ping to mean (master-logger.js:11-15, 77-121, 198-206).
PingsListTheLiving ==
  throws = 0 =>
    LET S == Stream IN
    \A p \in DOMAIN S :
      S[p].event = "MASTER_PING" => S[p].workerIds = AliveAt(S, p)

\* Read end to end, the records of a worker come after its WORKER_SPAWNED and
\* before its WORKER_EXITED, although they are written by another process and
\* often to another file (master-logger.js:77-121, worker-logger.js:125-132).
WorkersAreBracketed ==
  throws = 0 =>
    LET S == Stream IN
    \A p \in DOMAIN S :
      S[p].event = "WORKER_LOG" => S[p].workerId \in AliveAt(S, p)

\* Read end to end, the records of one process between two STARTING_UPs carry
\* rising nonces, and since the last STARTING_UP, 0, 1, 2, ... but for those that
\* logs took whose data could not be expressed: rotations neither lose nor
\* reorder any, a kill can only cost the last ones (logger.js:81-105,
\* master-logger.js:188-212).  Each run is the last one while it is written.
EachProcessIsContiguous ==
  LET S == Stream
      Author(p) == IF S[p].event = "WORKER_LOG" THEN S[p].workerId ELSE NoWorker
      NoStart(a, b) == \A r \in a .. b : S[r].event # "STARTING_UP"
  IN \A p \in DOMAIN S :
       LET earlier == {q \in 1 .. p - 1 : NoStart(q + 1, p) /\ Author(q) = Author(p)}
       IN /\ \A q \in earlier : S[q].nonce < S[p].nonce
          /\ NoStart(p + 1, Len(S)) =>
               \A n \in 0 .. S[p].nonce - 1 :
                 \/ \E q \in earlier : S[q].nonce = n
                 \/ <<Author(p), n>> \in refused
=============================================================================
