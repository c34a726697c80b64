--------------------------- MODULE MCRequestLogger ---------------------------
(***************************************************************************)
(* RequestLogger on a small instance: the queue holds the worker's logs.   *)
(***************************************************************************)
EXTENDS RequestLogger

Debugs == [o \in Owners |-> IF o = "worker" THEN 10 ELSE 2]

WorkerLogs == [by : {"worker"}, id : 1 .. 10, valid : BOOLEAN]
=============================================================================
