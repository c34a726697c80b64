---------------------------- MODULE RequestLogger ----------------------------
(***************************************************************************)
(* The DEBUG logs of a worker process: the LimitQueue of its WorkerLogger  *)
(* (src/nodejs/worker-logger.js; MasterLogger has the same) and the lists  *)
(* of its RequestLoggers (src/nodejs/request-logger.js).  They stay in     *)
(* memory until an error of their owner is logged, and then travel inside  *)
(* its record.  Only the calls that touch them are here; that every call   *)
(* writes a record through the WorkerLogger is in Cluster.                 *)
(*                                                                         *)
(* debug() stores what it is given; JSON.stringify sees it, together with  *)
(* the error, when the record is built, and throws on some values.         *)
(***************************************************************************)
EXTENDS LimitQueue, SequencesExt

CONSTANTS Requests,     \* RequestLogger objects
          TheWorker,    \* the WorkerLogger
          MaxDebug      \* bound: calls of debug() of each of them

Owners == Requests \cup {TheWorker}

ASSUME RequestAssumption ==
  /\ TheWorker \notin Requests /\ MaxDebug \in [Owners -> Nat]
  /\ [by : {TheWorker}, id : 1 .. MaxDebug[TheWorker], valid : BOOLEAN] \subseteq Values

\* A DEBUG log, and whether JSON.stringify accepts its data.
DebugLog == [by : Owners, id : Nat, valid : BOOLEAN]

VARIABLES debugLogs,  \* _debugLogs of each request (null is <<>>)
          closed,     \* parent._fd < 0
          count,      \* calls of debug() so far, by owner
          taken,      \* the worker's count when its queue was last drained
          written     \* the DEBUG logs in the records of each owner

queue == <<array, length, front, result>>
allVars == <<queue, debugLogs, closed, count, taken, written>>

LoggersInit == /\ Init
               /\ debugLogs = [r \in Requests |-> <<>>]
               /\ closed = FALSE
               /\ count = [o \in Owners |-> 0]
               /\ taken = 0
               /\ written = [o \in Owners |-> <<>>]

Logged(o, valid) == [by |-> o, id |-> count[o] + 1, valid |-> valid]

\* JSON.stringify, on an error with these DEBUG logs.
Serializes(error, logs) == error /\ \A i \in DOMAIN logs : logs[i].valid

\* workerLogger.debug(data)
debug(valid) ==
  /\ ~closed
  /\ count[TheWorker] < MaxDebug[TheWorker]
  /\ push(Logged(TheWorker, valid))
  /\ count' = [count EXCEPT ![TheWorker] = @ + 1]
  /\ UNCHANGED <<debugLogs, closed, taken, written>>

\* workerLogger.UNCAUGHT_EXCEPTION(err): drain() comes first, whether or not
\* the record can then be built.
UNCAUGHT_EXCEPTION(error) ==
  /\ ~closed
  /\ drain
  /\ taken' = count[TheWorker]
  /\ written' = IF Serializes(error, Contents)
                  THEN [written EXCEPT ![TheWorker] = @ \o Contents]
                  ELSE written
  /\ UNCHANGED <<debugLogs, closed, count>>

\* requestLogger.debug(data)
requestDebug(r, valid) ==
  /\ ~closed
  /\ count[r] < MaxDebug[r]
  /\ debugLogs' = [debugLogs EXCEPT ![r] = Append(@, Logged(r, valid))]
  /\ count' = [count EXCEPT ![r] = @ + 1]
  /\ UNCHANGED <<queue, closed, taken, written>>

\* Fault: the list is forgotten first.
ResponseForgettingFirst(r, error) ==
  /\ ~closed
  /\ written' = IF Serializes(error, debugLogs[r])
                  THEN [written EXCEPT ![r] = @ \o debugLogs[r]]
                  ELSE written
  /\ debugLogs' = [debugLogs EXCEPT ![r] = <<>>]
  /\ UNCHANGED <<queue, closed, count, taken>>

\* RESPONSE(status, err) and RESPONSE_FINISHED(err), with an error: the list is
\* forgotten once the record has been built; if json() throws it stays.
RESPONSE(r, error) ==
  /\ ~closed
  /\ Serializes(error, debugLogs[r])
  /\ written' = [written EXCEPT ![r] = @ \o debugLogs[r]]
  /\ debugLogs' = [debugLogs EXCEPT ![r] = <<>>]
  /\ UNCHANGED <<queue, closed, count, taken>>

\* close() of the WorkerLogger: from here on every call returns at once.
close == /\ ~closed
         /\ closed' = TRUE
         /\ UNCHANGED <<queue, debugLogs, count, taken, written>>

LoggersNext ==
  \/ \E ok \in BOOLEAN : \/ debug(ok)
                         \/ UNCAUGHT_EXCEPTION(ok)
                         \/ \E r \in Requests : requestDebug(r, ok) \/ RESPONSE(r, ok)
  \/ close

LoggersSpec == LoggersInit /\ [][LoggersNext]_allVars

-----------------------------------------------------------------------------
\* Every variable keeps to its domain; for the queue see TypeOK.
LoggersTypeOK == /\ TypeOK
                 /\ debugLogs \in [Requests -> Seq(DebugLog)]
                 /\ closed \in BOOLEAN
                 /\ count \in [Owners -> Nat]
                 /\ taken \in 0 .. count[TheWorker]
                 /\ written \in [Owners -> Seq(DebugLog)]

\* The ids from + 1 .. to of owner o, in order and nothing else.
IsRun(logs, o, from, to) ==
  /\ Len(logs) = to - from
  /\ \A i \in DOMAIN logs : logs[i].by = o /\ logs[i].id = from + i

\* No DEBUG log turns up twice, out of order or with another owner, whatever
\* fails to serialise: a request has written or still holds each one of its
\* own; the worker holds the last maxSize since its last exception, and those
\* it has written are a subsequence of what it was given
\* (request-logger.js:61-101, 139-146; worker-logger.js:81-94, 116-119).
DebugLogsHaveOneHome ==
  /\ \A r \in Requests : IsRun(written[r] \o debugLogs[r], r, 0, count[r])
  /\ LET held == Min({maxSize, count[TheWorker] - taken})
     IN IsRun(Contents, TheWorker, count[TheWorker] - held, count[TheWorker])
  /\ LET logs == written[TheWorker] IN
       /\ \A i \in DOMAIN logs : logs[i].by = TheWorker /\ logs[i].id <= taken
       /\ \A i, j \in DOMAIN logs : i < j => logs[i].id < logs[j].id
=============================================================================
