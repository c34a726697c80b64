------------------------------ MODULE LogManager ------------------------------
(***************************************************************************)
(* The LogManager of the master process (src/nodejs/log-manager.js): it    *)
(* names the file to write to, polls that file's size, rotates when it is  *)
(* too big or too old, and deletes what exceeds the limits of the          *)
(* directory.  Deleting is asynchronous: every await of deleteLogs() lets  *)
(* the timer, close(), the loggers and further calls of it run.            *)
(*                                                                         *)
(* A log file is its timestamp, which is its name and its place in the     *)
(* sorted listing; its content is its size.  The application opens the     *)
(* file it is told to (a 'rotate' listener may do so at once or later) and *)
(* its processes make any file grow, also one they should have left.       *)
(* The manager may be killed and started again on the same directory.      *)
(*                                                                         *)
(* The clock does not go backward.  The limits are in units of the model.  *)
(***************************************************************************)
EXTENDS Naturals, Sequences, FiniteSets, SequencesExt, FiniteSetsExt, Functions

CONSTANTS logSizeLimit, logAgeLimit, granularity, pollInterval,
          MaxTime,     \* bound: the clock
          MaxSize,     \* bound: the size of a file
          MaxStarts,   \* bound: managers started
          MaxErrors    \* bound: filesystem operations that fail

ASSUME LogManagerAssumption ==
  /\ logSizeLimit \in Nat \ {0} /\ logAgeLimit \in Nat \ {0}
  /\ granularity \in Nat \ {0, 1} /\ pollInterval \in Nat \ {0}
  /\ MaxTime \in Nat /\ MaxSize \in Nat /\ MaxStarts \in Nat /\ MaxErrors \in Nat

\* Math.ceil(limit / granularity)
PerFile(limit) == (limit + granularity - 1) \div granularity

None == MaxTime + pollInterval + 1   \* no file, no timer

VARIABLES clock,     \* Date.now()
          dir,       \* the log files: timestamp -> size
          created,   \* every file there ever was (history)
          running,   \* the process of the manager is up
          closed,    \* _closed
          current,   \* currentFile, and so filename
          opened,    \* the file the application writes to
          timer,     \* when _pollTimer fires
          polling,   \* fs.stat(currentFile.filename, poll) is under way
          jobs,      \* the calls of deleteLogs() under way
          starts,    \* managers started
          errors     \* 'error' events emitted

vars == <<clock, dir, created, running, closed, current, opened, timer,
          polling, jobs, starts, errors>>

Files == 0 .. MaxTime

\* A call of deleteLogs(now): about to list the directory, looking at the files
\* of "todo" from the newest on, or removing "shouldDelete" in its order.
Job == [now : Files, step : {"readdir", "stat", "rm"}, todo : Seq(Files),
        totalSize : Nat, shouldDelete : Seq(Files)]

Init == /\ clock = 0
        /\ dir = <<>>
        /\ created = {}
        /\ running = FALSE
        /\ closed = TRUE
        /\ current = None
        /\ opened = None
        /\ timer = None
        /\ polling = FALSE
        /\ jobs = {}
        /\ starts = 0
        /\ errors = 0

-----------------------------------------------------------------------------
(* Polling.                                                                 *)

deleteLogs(now) ==
  [now |-> now, step |-> "readdir", todo |-> <<>>, totalSize |-> 0,
   shouldDelete |-> <<>>]

\* Is the file due to be rotated out?
Due(file, size) == \/ size >= PerFile(logSizeLimit)
                   \/ file + PerFile(logAgeLimit) <= clock

\* The second half of poll(): the new file is named for this moment, and the
\* deletion started here goes on after the handler has returned.
RotateIfDue(file, size) ==
  IF Due(file, size)
    THEN /\ current' = clock
         /\ jobs' = jobs \cup {deleteLogs(clock)}
    ELSE /\ current' = file
         /\ UNCHANGED jobs

SizeOf(file) == IF file \in DOMAIN dir THEN dir[file] ELSE 0   \* ENOENT is 0

Latest == Max(DOMAIN dir)

\* new LogManager(dirname): poll the latest file at once, if there is one.
Start ==
  /\ ~running
  /\ starts < MaxStarts
  /\ IF DOMAIN dir = {} THEN current' = clock /\ UNCHANGED jobs
                        ELSE RotateIfDue(Latest, dir[Latest])
  /\ running' = TRUE
  /\ closed' = FALSE
  /\ timer' = clock + pollInterval
  /\ starts' = starts + 1
  /\ UNCHANGED <<clock, dir, created, opened, polling, errors>>

nextPoll ==
  /\ timer <= clock
  /\ timer' = None
  /\ polling' = TRUE
  /\ UNCHANGED <<clock, dir, created, running, closed, current, opened, jobs,
                 starts, errors>>

poll ==
  /\ polling
  /\ polling' = FALSE
  /\ IF closed
       THEN UNCHANGED <<timer, current, jobs>>
       ELSE /\ timer' = clock + pollInterval
            /\ RotateIfDue(current, SizeOf(current))
  /\ UNCHANGED <<clock, dir, created, running, closed, opened, starts, errors>>

\* Fault: the error is reported before the timer is set.
PollFailsForGood ==
  /\ polling
  /\ ~closed
  /\ errors < MaxErrors
  /\ polling' = FALSE
  /\ errors' = errors + 1
  /\ UNCHANGED <<clock, dir, created, running, closed, current, opened, timer,
                 jobs, starts>>

\* fs.stat() fails with something else than ENOENT.
PollFails ==
  /\ polling
  /\ ~closed
  /\ errors < MaxErrors
  /\ polling' = FALSE
  /\ timer' = clock + pollInterval
  /\ errors' = errors + 1
  /\ UNCHANGED <<clock, dir, created, running, closed, current, opened, jobs, starts>>

close ==
  /\ ~closed
  /\ closed' = TRUE
  /\ timer' = None
  /\ UNCHANGED <<clock, dir, created, running, current, opened, polling, jobs,
                 starts, errors>>

-----------------------------------------------------------------------------
(* deleteLogs(), one step per await.                                        *)

\* The job goes on as next, or is done.
Becomes(job, next) ==
  jobs' = (jobs \ {job}) \cup
          IF next.todo = <<>> /\ next.shouldDelete = <<>> THEN {} ELSE {next}

Increasing(s) == \A i, j \in DOMAIN s : i < j => s[i] < s[j]
Decreasing(s) == \A i, j \in DOMAIN s : i < j => s[i] > s[j]

\* The names are sorted and reversed: there is one such listing.
readdir(job) ==
  \E listing \in [1 .. Cardinality(DOMAIN dir) -> DOMAIN dir] :
    /\ job.step = "readdir"
    /\ Decreasing(listing) /\ Range(listing) = DOMAIN dir
    /\ Becomes(job, [job EXCEPT !.step = "stat", !.todo = listing])
    /\ UNCHANGED <<clock, dir, created, running, closed, current, opened, timer,
                   polling, starts, errors>>

\* Fault: the doomed files as they are listed, the newest one first.
DoomNewestFirst(job) ==
  [job EXCEPT !.step = "rm", !.todo = <<>>, !.shouldDelete = job.todo]

\* This file and all older ones, the oldest first.
Doom(job) ==
  [job EXCEPT !.step = "rm", !.todo = <<>>, !.shouldDelete = Reverse(job.todo)]

TooOld(job) == Head(job.todo) + logAgeLimit <= job.now

\* Fault: against the size of one file instead of all of them.
InspectPerFile(job) ==
  LET total == job.totalSize + SizeOf(Head(job.todo)) IN
  /\ job.step = "stat"
  /\ Becomes(job, IF TooOld(job) \/ total >= PerFile(logSizeLimit) THEN Doom(job)
                  ELSE [job EXCEPT !.todo = Tail(@), !.totalSize = total])
  /\ UNCHANGED <<clock, dir, created, running, closed, current, opened, timer,
                 polling, starts, errors>>

\* One turn of the first loop.
inspect(job) ==
  LET total == job.totalSize + SizeOf(Head(job.todo)) IN
  /\ job.step = "stat"
  /\ Becomes(job, IF TooOld(job) \/ total >= logSizeLimit THEN Doom(job)
                  ELSE [job EXCEPT !.todo = Tail(@), !.totalSize = total])
  /\ UNCHANGED <<clock, dir, created, running, closed, current, opened, timer,
                 polling, starts, errors>>

\* One turn of the second loop; a file that is gone already is no error.
rm(job) ==
  /\ job.step = "rm"
  /\ dir' = Restrict(dir, DOMAIN dir \ {Head(job.shouldDelete)})
  /\ Becomes(job, [job EXCEPT !.shouldDelete = Tail(@)])
  /\ UNCHANGED <<clock, created, running, closed, current, opened, timer,
                 polling, starts, errors>>

\* An operation fails: the rest of the call is given up, and onError() emits,
\* without a look at _closed.
DeleteFails(job) ==
  /\ errors < MaxErrors
  /\ jobs' = jobs \ {job}
  /\ errors' = errors + 1
  /\ UNCHANGED <<clock, dir, created, running, closed, current, opened, timer,
                 polling, starts>>

-----------------------------------------------------------------------------
(* The application around it.                                               *)

\* A logger opens manager.filename with flag "a".
Open ==
  /\ running
  /\ opened # current
  /\ opened' = current
  /\ dir' = [f \in DOMAIN dir \cup {current} |-> SizeOf(f)]
  /\ created' = created \cup {current}
  /\ UNCHANGED <<clock, running, closed, current, timer, polling, jobs, starts, errors>>

Write(f) ==
  /\ f \in DOMAIN dir
  /\ dir[f] < MaxSize
  /\ dir' = [dir EXCEPT ![f] = @ + 1]
  /\ UNCHANGED <<clock, created, running, closed, current, opened, timer,
                 polling, jobs, starts, errors>>

Kill ==
  /\ running
  /\ running' = FALSE
  /\ closed' = TRUE
  /\ current' = None
  /\ opened' = None
  /\ timer' = None
  /\ polling' = FALSE
  /\ jobs' = {}
  /\ UNCHANGED <<clock, dir, created, starts, errors>>

Tick ==
  /\ clock < MaxTime
  /\ clock' = clock + 1
  /\ UNCHANGED <<dir, created, running, closed, current, opened, timer, polling,
                 jobs, starts, errors>>

DeleteStep == \E job \in jobs :
                readdir(job) \/ inspect(job) \/ rm(job) \/ DeleteFails(job)

Next == \/ Start \/ nextPoll \/ poll \/ PollFails \/ close \/ DeleteStep
        \/ Open \/ (\E f \in Files : Write(f)) \/ Kill \/ Tick

Spec == Init /\ [][Next]_vars

-----------------------------------------------------------------------------
\* Every variable keeps to its domain, and a deletion looks at files from the
\* newest on and removes them from the oldest on.
TypeOK == /\ clock \in Files
          /\ DOMAIN dir \subseteq Files /\ \A f \in DOMAIN dir : dir[f] \in 0 .. MaxSize
          /\ created \subseteq Files
          /\ {running, closed, polling} \subseteq BOOLEAN
          /\ {current, opened} \subseteq Files \cup {None}
          /\ timer \in 0 .. None
          /\ jobs \subseteq Job
          /\ \A job \in jobs : Decreasing(job.todo) /\ Increasing(job.shouldDelete)
          /\ starts \in 0 .. MaxStarts
          /\ errors \in 0 .. MaxErrors

\* What is left of the directory is always its newest part: deletions that
\* overlap, fail half-way or die with the process never leave a hole in the
\* history (log-manager.js:138-174, "oldest-first order").
NoHoles ==
  \A f \in DOMAIN dir : \A g \in created : g > f => g \in DOMAIN dir

\* A file is deleted only if it is older than logAgeLimit or, with the newer
\* ones as they are now, makes up logSizeLimit, although each file was measured
\* at another time and by several calls at once (log-manager.js:145-166).
NothingDeletedEarly ==
  [][\A f \in DOMAIN dir \ DOMAIN dir' :
       \/ f + logAgeLimit <= clock
       \/ MapThenSumSet(LAMBDA g : dir[g], {g \in DOMAIN dir : g >= f}) >= logSizeLimit]_vars

\* An open manager is either waiting for its timer or for the stat it made,
\* never both, whatever failed before (log-manager.js:110-123); and a poll that
\* was under way when close() was called does not set the timer again (115).
PollsOnUntilClosed ==
  /\ running /\ ~closed => (timer # None) # polling
  /\ closed => timer = None
=============================================================================
