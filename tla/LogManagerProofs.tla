--------------------------- MODULE LogManagerProofs ---------------------------
(***************************************************************************)
(* For every limit, granularity and interval, every size of a file and any *)
(* number of restarts and errors: the LogManager's type invariant, that it *)
(* polls on until it is closed, that deletions leave no hole in the        *)
(* history, and that nothing is deleted which the limits would keep.       *)
(***************************************************************************)
EXTENDS LogManager, FoldLemmas, SequenceTheorems

DirIsFunction == dir \in [DOMAIN dir -> Nat]

\* A file is never named for a moment before another one's: the file in use is
\* the newest there has been.
NamesInOrder ==
  /\ DOMAIN dir \subseteq created
  /\ \A f \in created : f <= clock
  /\ running => /\ current \in Files /\ current <= clock
                /\ \A f \in created : f <= current

DeadIsEmpty ==
  ~running => closed /\ ~polling /\ timer = None /\ jobs = {} /\ opened = None

\* The clock has moved on since the file in use was named when poll() runs from
\* the timer: the next name is a new one.
PollIsLater ==
  /\ timer # None => timer > current
  /\ polling => current < clock

Pending(job) == Range(job.todo) \cup Range(job.shouldDelete)

\* What a call of deleteLogs() has still to look at, or to remove, are the
\* oldest files there are.
JobIsSound(job) ==
  /\ job \in Job
  /\ Decreasing(job.todo) /\ Increasing(job.shouldDelete)
  /\ job.now <= clock
  /\ job.step = "readdir" => job.totalSize = 0
  /\ Pending(job) \subseteq created
  /\ job.step # "stat" => job.todo = <<>>
  /\ job.step # "rm" => job.shouldDelete = <<>>
  /\ job.step # "readdir" => job.todo # <<>> \/ job.shouldDelete # <<>>
  /\ \A f \in DOMAIN dir, p \in Pending(job) : f <= p => f \in Pending(job)

\* A file that was there before is opened again only after a restart, when no
\* other call of deleteLogs() has it on its list.
Reopening ==
  running /\ opened # current /\ current \in created =>
    /\ \A job, other \in jobs : job = other
    /\ current \in DOMAIN dir \/ jobs = {}

Weight(S) == SumOver(dir, S)
Above(f) == {g \in DOMAIN dir : g > f}
From(f) == {g \in DOMAIN dir : g >= f}

\* What was measured some time ago is still there, or else the files it was
\* measured against are gone.
Measured(job) ==
  /\ job.step = "stat" =>
       \A f \in DOMAIN dir : f <= Head(job.todo) =>
         job.totalSize <= Weight(Above(Head(job.todo)))
  /\ job.step = "rm" =>
       \A f \in DOMAIN dir \cap Range(job.shouldDelete) :
         f + logAgeLimit <= clock \/ logSizeLimit <= Weight(From(f))

GoodJob(job) == JobIsSound(job) /\ Measured(job)

IInv == /\ TypeOK /\ DirIsFunction /\ NamesInOrder /\ DeadIsEmpty /\ PollIsLater
        /\ NoHoles /\ PollsOnUntilClosed /\ Reopening
        /\ \A job \in jobs : GoodJob(job)

-----------------------------------------------------------------------------
LEMMA NoneIsLater ==
  /\ None \in Nat /\ None \notin Files
  /\ \A t \in Files : t \in Nat /\ t < None /\ t + pollInterval < None
                      /\ t + pollInterval \in 0 .. None /\ t + pollInterval > t
BY LogManagerAssumption DEF None, Files

LEMMA FilesAreFinite == ASSUME IInv, NEW S \in SUBSET (DOMAIN dir)
                        PROVE  IsFiniteSet(S)
<1>1. IsFiniteSet(0 .. MaxTime)
  BY LogManagerAssumption, FS_Interval
<1>2. S \subseteq 0 .. MaxTime
  BY DEF IInv, TypeOK, Files
<1> QED BY <1>1, <1>2, FS_Subset

\* Old calls stay good while the files are left alone.
LEMMA OldJobs ==
  ASSUME IInv, dir' = dir, created' = created, clock' \in Files, clock' >= clock,
         NEW job \in jobs
  PROVE  GoodJob(job)'
<1>1. JobIsSound(job) /\ Measured(job) /\ clock \in Files
  BY DEF IInv, GoodJob, TypeOK
<1>2. job.now \in Nat /\ clock \in Nat /\ clock' \in Nat
  BY <1>1, LogManagerAssumption DEF JobIsSound, Job, Files
<1>3. JobIsSound(job)'
  BY <1>1, <1>2 DEF JobIsSound, Pending
<1>4. Measured(job)'
  <2>1. \A f : Weight(Above(f))' = Weight(Above(f)) /\ Weight(From(f))' = Weight(From(f))
    BY DEF Weight, Above, From
  <2>2. ASSUME NEW f \in DOMAIN dir, f + logAgeLimit <= clock
        PROVE  f + logAgeLimit <= clock'
    <3>1. f \in Nat /\ logAgeLimit \in Nat
      BY LogManagerAssumption DEF IInv, TypeOK, Files
    <3> QED BY <1>2, <2>2, <3>1
  <2> QED BY <1>1, <2>1, <2>2 DEF Measured
<1> QED BY <1>3, <1>4 DEF GoodJob

\* A call that has not listed the directory yet.
LEMMA NewJob ==
  ASSUME NEW now \in Files, now <= clock', NEW job, job = deleteLogs(now)
  PROVE  GoodJob(job)'
<1>1. job \in Job
  BY DEF deleteLogs, Job
<1>2. Range(<<>>) = {}
  BY DEF Range
<1>3. JobIsSound(job)'
  BY <1>1, <1>2 DEF JobIsSound, Pending, deleteLogs, Decreasing, Increasing
<1>4. Measured(job)'
  BY DEF Measured, deleteLogs
<1> QED BY <1>3, <1>4 DEF GoodJob

LEMMA SumIsMapSum ==
  ASSUME NEW S
  PROVE  Weight(S) = MapThenSumSet(LAMBDA g : dir[g], S)
BY DEF Weight, SumOver, MapThenSumSet, MapThenFoldSet

LEMMA InitIInv == Init => IInv
<1> SUFFICES ASSUME Init PROVE IInv
  OBVIOUS
<1> USE LogManagerAssumption, NoneIsLater DEF Init
<1>1. TypeOK
  <2>1. clock \in Files /\ created \subseteq Files
    BY DEF Files
  <2>4. {running, closed, polling} \subseteq BOOLEAN
    OBVIOUS
  <2>5. {current, opened} \subseteq Files \cup {None} /\ timer \in 0 .. None
    OBVIOUS
  <2>3. DOMAIN dir = {}
    OBVIOUS
  <2>2. jobs = {} /\ starts \in 0 .. MaxStarts /\ errors \in 0 .. MaxErrors
    OBVIOUS
  <2> QED BY <2>1, <2>2, <2>3, <2>4, <2>5 DEF TypeOK
<1>2. DirIsFunction /\ NamesInOrder /\ DeadIsEmpty /\ PollIsLater /\ NoHoles
      /\ PollsOnUntilClosed /\ Reopening
  BY DEF DirIsFunction, NamesInOrder, DeadIsEmpty, PollIsLater, NoHoles,
         PollsOnUntilClosed, Reopening
<1> QED BY <1>1, <1>2 DEF IInv

LEMMA StartKeeps == IInv /\ Start => IInv'
<1> SUFFICES ASSUME IInv, Start PROVE IInv'
  OBVIOUS
<1> USE LogManagerAssumption, NoneIsLater
<1>1. /\ clock' = clock /\ dir' = dir /\ created' = created /\ opened' = opened
      /\ polling' = polling /\ errors' = errors /\ running' = TRUE /\ closed' = FALSE
      /\ timer' = clock + pollInterval /\ starts' = starts + 1 /\ starts < MaxStarts
      /\ jobs = {} /\ ~polling /\ opened = None /\ ~running /\ clock \in Files
  BY DEF Start, IInv, DeadIsEmpty, TypeOK
<1>2. /\ current' \in Files /\ current' <= clock
      /\ \A f \in created : f <= current'
      /\ jobs' = {} \/ jobs' = {deleteLogs(clock)}
      /\ current' \in created => current' \in DOMAIN dir \/ jobs' = {}
  <2>1. CASE DOMAIN dir = {}
    BY <1>1, <2>1 DEF Start, IInv, NamesInOrder
  <2>2. CASE DOMAIN dir # {}
    <3>1. /\ Latest \in DOMAIN dir /\ Latest \in Files /\ Latest \in created
          /\ \A f \in DOMAIN dir : f <= Latest
      <4>1. DOMAIN dir \subseteq 0 .. MaxTime /\ DOMAIN dir \subseteq created
        BY DEF IInv, TypeOK, Files, NamesInOrder
      <4>2. Max(DOMAIN dir) \in DOMAIN dir /\ \A f \in DOMAIN dir : f <= Max(DOMAIN dir)
        BY <2>2, <4>1, GreatestNumber
      <4> QED BY <4>1, <4>2 DEF Latest, Files
    <3>2. ASSUME NEW f \in created PROVE f <= Latest
      <4>1. f \in Nat /\ Latest \in Nat /\ (f > Latest => f \in DOMAIN dir)
        BY <3>1 DEF IInv, TypeOK, Files, NoHoles
      <4> QED BY <3>1, <4>1
    <3>3. Latest <= clock
      BY <3>1 DEF IInv, NamesInOrder
    <3>4. \/ current' = clock /\ jobs' = {deleteLogs(clock)}
          \/ current' = Latest /\ jobs' = {}
      BY <1>1, <2>2 DEF Start, RotateIfDue
    <3>5. CASE current' = clock /\ jobs' = {deleteLogs(clock)}
      <4>1. \A f \in created : f <= clock
        BY DEF IInv, NamesInOrder
      <4>2. clock \in created => clock = Latest
        BY <1>1, <3>1, <3>2, <3>3 DEF Files
      <4> QED BY <1>1, <3>1, <3>5, <4>1, <4>2 DEF Files
    <3>6. CASE current' = Latest /\ jobs' = {}
      BY <3>1, <3>2, <3>3, <3>6
    <3> QED BY <3>4, <3>5, <3>6
  <2> QED BY <2>1, <2>2
<1>3. \A job \in jobs' : GoodJob(job)'
  <2>1. ASSUME NEW job, job = deleteLogs(clock) PROVE GoodJob(job)'
    BY <1>1, <2>1, NewJob DEF Files
  <2> QED BY <1>2, <2>1
<1>4. jobs' \subseteq Job /\ \A job \in jobs' : Decreasing(job.todo) /\ Increasing(job.shouldDelete)
  BY <1>3 DEF GoodJob, JobIsSound
<1>5. starts + 1 \in 0 .. MaxStarts
  BY <1>1 DEF IInv, TypeOK
<1>6. TypeOK'
  BY <1>1, <1>2, <1>4, <1>5 DEF IInv, TypeOK
<1>7. /\ DirIsFunction' /\ NamesInOrder' /\ DeadIsEmpty' /\ NoHoles'
  BY <1>1, <1>2 DEF IInv, DirIsFunction, NamesInOrder, DeadIsEmpty, NoHoles
<1>8. PollIsLater'
  <2>1. clock + pollInterval > current'
    BY <1>1, <1>2 DEF Files
  <2> QED BY <1>1, <2>1 DEF PollIsLater
<1>9. PollsOnUntilClosed'
  <2>1. timer' # None /\ polling' = FALSE
    BY <1>1 DEF IInv, TypeOK
  <2> QED BY <1>1, <2>1, Zenon DEF PollsOnUntilClosed
<1>10. Reopening'
  BY <1>1, <1>2 DEF Reopening
<1> QED BY <1>3, <1>6, <1>7, <1>8, <1>9, <1>10 DEF IInv

\* Steps that leave the files, the clock and the calls under way alone.
LEMMA JobsStay ==
  ASSUME IInv, UNCHANGED <<clock, dir, created>>, jobs' \subseteq jobs
  PROVE  /\ \A job \in jobs' : GoodJob(job)'
         /\ jobs' \subseteq Job
         /\ \A job \in jobs' : Decreasing(job.todo) /\ Increasing(job.shouldDelete)
<1>1. clock' \in Files /\ clock' >= clock
  BY LogManagerAssumption DEF IInv, TypeOK, Files
<1>2. \A job \in jobs' : GoodJob(job)'
  BY <1>1, OldJobs
<1> QED BY <1>2 DEF GoodJob, JobIsSound

LEMMA nextPollKeeps == IInv /\ nextPoll => IInv'
<1> SUFFICES ASSUME IInv, nextPoll PROVE IInv'
  OBVIOUS
<1> USE LogManagerAssumption, NoneIsLater
<1>1. /\ UNCHANGED <<clock, dir, created, running, closed, current, opened, jobs,
                      starts, errors>>
      /\ timer <= clock /\ timer' = None /\ polling' = TRUE /\ clock \in Files
      /\ timer # None
  <2>1. timer <= clock /\ clock \in Files
    BY DEF nextPoll, IInv, TypeOK
  <2> QED BY <2>1 DEF nextPoll
<1>2. running /\ ~closed /\ current < clock
  <2>1. running
    BY <1>1 DEF IInv, DeadIsEmpty
  <2>2. current \in Files /\ timer > current /\ timer \in 0 .. None
    BY <1>1, <2>1 DEF IInv, PollIsLater, NamesInOrder, TypeOK
  <2>3. current < clock
    BY <1>1, <2>2 DEF Files
  <2>4. ~closed
    BY <1>1 DEF IInv, PollsOnUntilClosed
  <2> QED BY <2>1, <2>3, <2>4
<1>3. \A job \in jobs' : GoodJob(job)'
  BY <1>1, JobsStay
<1>4. TypeOK'
  BY <1>1 DEF IInv, TypeOK
<1>5. DirIsFunction' /\ NamesInOrder' /\ NoHoles' /\ Reopening'
  BY <1>1 DEF IInv, DirIsFunction, NamesInOrder, NoHoles, Reopening
<1>6. DeadIsEmpty' /\ PollIsLater'
  BY <1>1, <1>2 DEF DeadIsEmpty, PollIsLater
<1>7. PollsOnUntilClosed'
  BY <1>1, <1>2, Zenon DEF PollsOnUntilClosed
<1> QED BY <1>3, <1>4, <1>5, <1>6, <1>7 DEF IInv

LEMMA pollKeeps == IInv /\ poll => IInv'
<1> SUFFICES ASSUME IInv, poll PROVE IInv'
  OBVIOUS
<1> USE LogManagerAssumption, NoneIsLater
<1>1. /\ UNCHANGED <<clock, dir, created, running, closed, opened, starts, errors>>
      /\ polling /\ polling' = FALSE /\ clock \in Files
      /\ running /\ current < clock /\ current \in Files
      /\ \A f \in created : f <= current
  BY DEF poll, IInv, TypeOK, DeadIsEmpty, PollIsLater, NamesInOrder
<1>2. CASE closed
  <2>1. UNCHANGED <<timer, current, jobs>>
    BY <1>2 DEF poll
  <2>2. \A job \in jobs' : GoodJob(job)'
    BY <1>1, <2>1, JobsStay
  <2>3. TypeOK'
    BY <1>1, <2>1 DEF IInv, TypeOK
  <2>4. timer' = None
    BY <1>2, <2>1 DEF IInv, PollsOnUntilClosed
  <2>5. DirIsFunction' /\ NamesInOrder' /\ NoHoles' /\ Reopening' /\ DeadIsEmpty'
        /\ PollIsLater' /\ PollsOnUntilClosed'
    BY <1>1, <1>2, <2>1, <2>4
       DEF IInv, DirIsFunction, NamesInOrder, NoHoles, Reopening, DeadIsEmpty,
           PollIsLater, PollsOnUntilClosed
  <2> QED BY <2>2, <2>3, <2>5 DEF IInv
<1>3. CASE ~closed
  <2>1. /\ timer' = clock + pollInterval
        /\ \/ current' = clock /\ jobs' = jobs \cup {deleteLogs(clock)}
           \/ current' = current /\ jobs' = jobs
    BY <1>3 DEF poll, RotateIfDue
  <2>2. /\ current' \in Files /\ current' <= clock /\ current <= current'
        /\ \A f \in created : f <= current'
    <3>1. \A f \in created : f \in Nat
      BY DEF IInv, TypeOK, Files
    <3> QED BY <1>1, <2>1, <3>1 DEF Files
  <2>3. \A job \in jobs' : GoodJob(job)'
    <3>1. clock' >= clock /\ clock <= clock'
      BY <1>1 DEF Files
    <3>2. \A job \in jobs : GoodJob(job)'
      BY <1>1, <3>1, OldJobs
    <3>3. ASSUME NEW job, job = deleteLogs(clock) PROVE GoodJob(job)'
      BY <1>1, <3>1, <3>3, NewJob
    <3> QED BY <2>1, <3>2, <3>3
  <2>4. jobs' \subseteq Job
        /\ \A job \in jobs' : Decreasing(job.todo) /\ Increasing(job.shouldDelete)
    BY <2>3 DEF GoodJob, JobIsSound
  <2>5. TypeOK'
    BY <1>1, <2>1, <2>2, <2>4 DEF IInv, TypeOK
  <2>6. DirIsFunction' /\ NamesInOrder' /\ NoHoles' /\ DeadIsEmpty'
    BY <1>1, <2>2 DEF IInv, DirIsFunction, NamesInOrder, NoHoles, DeadIsEmpty
  <2>7. PollIsLater'
    <3>1. clock + pollInterval > current'
      BY <1>1, <2>2 DEF Files
    <3> QED BY <1>1, <2>1, <3>1 DEF PollIsLater
  <2>8. Reopening'
    <3>1. CASE current' = clock
      <4>1. clock \notin created
        BY <1>1 DEF Files
      <4> QED BY <1>1, <3>1, <4>1 DEF Reopening
    <3>2. CASE current' = current /\ jobs' = jobs
      BY <1>1, <3>2 DEF IInv, Reopening
    <3> QED BY <2>1, <3>1, <3>2
  <2>9. PollsOnUntilClosed'
    <3>1. timer' # None
      BY <1>1, <2>1
    <3> QED BY <1>1, <1>3, <3>1, Zenon DEF PollsOnUntilClosed
  <2> QED BY <2>3, <2>5, <2>6, <2>7, <2>8, <2>9 DEF IInv
<1> QED BY <1>2, <1>3

LEMMA PollFailsKeeps == IInv /\ PollFails => IInv'
<1> SUFFICES ASSUME IInv, PollFails PROVE IInv'
  OBVIOUS
<1> USE LogManagerAssumption, NoneIsLater
<1>1. /\ UNCHANGED <<clock, dir, created, running, closed, current, opened, jobs, starts>>
      /\ polling /\ polling' = FALSE /\ timer' = clock + pollInterval /\ ~closed
      /\ errors < MaxErrors /\ errors' = errors + 1 /\ clock \in Files
      /\ running /\ current < clock /\ current \in Files
  BY DEF PollFails, IInv, TypeOK, DeadIsEmpty, PollIsLater, NamesInOrder
<1>2. \A job \in jobs' : GoodJob(job)'
  BY <1>1, JobsStay
<1>3. errors + 1 \in 0 .. MaxErrors
  BY <1>1 DEF IInv, TypeOK
<1>4. TypeOK'
  BY <1>1, <1>3 DEF IInv, TypeOK
<1>5. DirIsFunction' /\ NamesInOrder' /\ NoHoles' /\ Reopening' /\ DeadIsEmpty'
  BY <1>1 DEF IInv, DirIsFunction, NamesInOrder, NoHoles, Reopening, DeadIsEmpty
<1>6. PollIsLater'
  <2>1. clock + pollInterval > current
    BY <1>1 DEF Files
  <2> QED BY <1>1, <2>1 DEF PollIsLater
<1>7. PollsOnUntilClosed'
  <2>1. timer' # None
    BY <1>1
  <2> QED BY <1>1, <2>1, Zenon DEF PollsOnUntilClosed
<1> QED BY <1>2, <1>4, <1>5, <1>6, <1>7 DEF IInv

LEMMA CloseKillTickKeep == IInv /\ (close \/ Kill \/ Tick) => IInv'
<1> USE LogManagerAssumption, NoneIsLater
<1>1. ASSUME IInv, close PROVE IInv'
  <2>1. \A job \in jobs' : GoodJob(job)'
    BY <1>1, JobsStay DEF close
  <2>2. TypeOK'
    BY <1>1 DEF IInv, TypeOK, close
  <2>3. DirIsFunction' /\ NamesInOrder' /\ NoHoles' /\ Reopening' /\ DeadIsEmpty'
        /\ PollIsLater' /\ PollsOnUntilClosed'
    BY <1>1 DEF IInv, close, DirIsFunction, NamesInOrder, NoHoles, Reopening,
                DeadIsEmpty, PollIsLater, PollsOnUntilClosed
  <2> QED BY <2>1, <2>2, <2>3 DEF IInv
<1>2. ASSUME IInv, Kill PROVE IInv'
  <2>1. \A job \in jobs' : GoodJob(job)'
    BY <1>2 DEF Kill
  <2>2. TypeOK'
    <3>1. jobs' = {} /\ current' = None /\ opened' = None /\ timer' = None
          /\ running' = FALSE /\ closed' = TRUE /\ polling' = FALSE
          /\ UNCHANGED <<clock, dir, created, starts, errors>>
      BY <1>2 DEF Kill
    <3>2. {running', closed', polling'} \subseteq BOOLEAN
      BY <3>1
    <3>3. timer' \in 0 .. None /\ {current', opened'} \subseteq Files \cup {None}
      BY <3>1
    <3> QED BY <1>2, <3>1, <3>2, <3>3 DEF IInv, TypeOK
  <2>3. DirIsFunction' /\ NamesInOrder' /\ NoHoles' /\ Reopening' /\ DeadIsEmpty'
        /\ PollIsLater' /\ PollsOnUntilClosed'
    BY <1>2 DEF IInv, Kill, DirIsFunction, NamesInOrder, NoHoles, Reopening,
                DeadIsEmpty, PollIsLater, PollsOnUntilClosed
  <2> QED BY <2>1, <2>2, <2>3 DEF IInv
<1>3. ASSUME IInv, Tick PROVE IInv'
  <2>1. /\ UNCHANGED <<dir, created, running, closed, current, opened, timer, polling,
                        jobs, starts, errors>>
        /\ clock' \in Files /\ clock' >= clock /\ clock' = clock + 1
        /\ clock \in Nat /\ clock' \in Nat
    BY <1>3 DEF Tick, IInv, TypeOK, Files
  <2>2. \A job \in jobs' : GoodJob(job)'
    BY <1>3, <2>1, OldJobs
  <2>3. TypeOK'
    BY <1>3, <2>1 DEF IInv, TypeOK
  <2>4. NamesInOrder' /\ PollIsLater'
    <3>1. \A f \in Files : (f <= clock => f <= clock') /\ (f < clock => f < clock')
      BY <2>1 DEF Files
    <3>2. created \subseteq Files
      BY <1>3 DEF IInv, TypeOK
    <3>3. NamesInOrder'
      BY <1>3, <2>1, <3>1, <3>2 DEF IInv, NamesInOrder
    <3>4. polling => current \in Files
      BY <1>3 DEF IInv, NamesInOrder, DeadIsEmpty
    <3>5. PollIsLater'
      BY <1>3, <2>1, <3>1, <3>4 DEF IInv, PollIsLater
    <3> QED BY <3>3, <3>5
  <2>5. DirIsFunction' /\ NoHoles' /\ Reopening' /\ DeadIsEmpty' /\ PollsOnUntilClosed'
    BY <1>3, <2>1 DEF IInv, DirIsFunction, NoHoles, Reopening, DeadIsEmpty,
                      PollsOnUntilClosed
  <2> QED BY <2>2, <2>3, <2>4, <2>5 DEF IInv
<1> QED BY <1>1, <1>2, <1>3

-----------------------------------------------------------------------------
(* deleteLogs(): what was measured and listed before an await still holds.  *)

LEMMA WeightFacts ==
  ASSUME IInv, NEW h \in Files
  PROVE  /\ Weight(Above(h)) \in Nat /\ Weight(From(h)) \in Nat /\ SizeOf(h) \in Nat
         /\ Weight(From(h)) = SizeOf(h) + Weight(Above(h))
         /\ \A f \in Files : f <= h => Weight(From(h)) <= Weight(From(f))
         /\ \A f \in Files : f < h => Weight(From(h)) <= Weight(Above(f))
<1>0. /\ dir \in [DOMAIN dir -> Nat] /\ DOMAIN dir \subseteq Files /\ Files \subseteq Nat
      /\ \A f : /\ Above(f) \in SUBSET (DOMAIN dir) /\ IsFiniteSet(Above(f))
               /\ From(f) \in SUBSET (DOMAIN dir) /\ IsFiniteSet(From(f))
  <2>1. \A f : Above(f) \in SUBSET (DOMAIN dir) /\ From(f) \in SUBSET (DOMAIN dir)
    BY DEF Above, From
  <2> QED BY <2>1, FilesAreFinite DEF IInv, DirIsFunction, TypeOK, Files
<1>1. Weight(Above(h)) \in Nat /\ Weight(From(h)) \in Nat
  BY <1>0, SumRemove DEF Weight
<1>2. SizeOf(h) \in Nat
  BY <1>0 DEF SizeOf
<1>3. Weight(From(h)) = SizeOf(h) + Weight(Above(h))
  <2>1. CASE h \in DOMAIN dir
    <3>1. h \in From(h) /\ From(h) \ {h} = Above(h)
      BY <1>0, <2>1 DEF From, Above
    <3>2. Weight(From(h)) = dir[h] + Weight(From(h) \ {h})
      BY <1>0, <3>1, SumRemove DEF Weight
    <3> QED BY <2>1, <3>1, <3>2 DEF SizeOf
  <2>2. CASE h \notin DOMAIN dir
    <3>1. From(h) = Above(h)
      BY <1>0, <2>2 DEF From, Above
    <3> QED BY <1>1, <2>2, <3>1 DEF SizeOf
  <2> QED BY <2>1, <2>2
<1>4. \A g \in DOMAIN dir : dir[g] <= dir[g]
  BY <1>0
<1>5. ASSUME NEW f \in Files, f <= h PROVE Weight(From(h)) <= Weight(From(f))
  <2>1. From(h) \subseteq From(f)
    BY <1>0, <1>5 DEF From
  <2> QED BY <1>0, <1>4, <2>1, SumMonotone DEF Weight
<1>6. ASSUME NEW f \in Files, f < h PROVE Weight(From(h)) <= Weight(Above(f))
  <2>1. From(h) \subseteq Above(f)
    BY <1>0, <1>6 DEF From, Above
  <2> QED BY <1>0, <1>4, <2>1, SumMonotone DEF Weight
<1> QED BY <1>1, <1>2, <1>3, <1>5, <1>6

\* The listings of a call under way, as sequences of files.
LEMMA JobTypes ==
  ASSUME NEW job, JobIsSound(job)
  PROVE  /\ job.todo \in Seq(Files) /\ job.shouldDelete \in Seq(Files)
         /\ job.totalSize \in Nat /\ job.now \in Files
         /\ job = [now |-> job.now, step |-> job.step, todo |-> job.todo,
                  totalSize |-> job.totalSize, shouldDelete |-> job.shouldDelete]
         /\ job.todo # <<>> => /\ Head(job.todo) \in Range(job.todo)
                              /\ \A p \in Range(job.todo) : p <= Head(job.todo)
         /\ job.shouldDelete # <<>> =>
              /\ Head(job.shouldDelete) \in Range(job.shouldDelete)
              /\ \A p \in Range(job.shouldDelete) : Head(job.shouldDelete) <= p
<1>1. job \in Job /\ Decreasing(job.todo) /\ Increasing(job.shouldDelete)
  BY DEF JobIsSound
<1>2. /\ job.todo \in Seq(Files) /\ job.shouldDelete \in Seq(Files)
      /\ job.totalSize \in Nat /\ job.now \in Files
      /\ job = [now |-> job.now, step |-> job.step, todo |-> job.todo,
               totalSize |-> job.totalSize, shouldDelete |-> job.shouldDelete]
  BY <1>1 DEF Job
<1>3. ASSUME NEW s \in Seq(Files), s # <<>>
      PROVE  /\ Head(s) \in Range(s)
             /\ Decreasing(s) => \A p \in Range(s) : p <= Head(s)
             /\ Increasing(s) => \A p \in Range(s) : Head(s) <= p
  <2>1. 1 \in DOMAIN s /\ Head(s) = s[1] /\ DOMAIN s = 1 .. Len(s) /\ Len(s) \in Nat
    BY <1>3
  <2>2. \A i \in DOMAIN s : s[i] \in Nat /\ (i = 1 \/ 1 < i)
    BY <2>1, LogManagerAssumption DEF Files
  <2>3. ASSUME Decreasing(s), NEW i \in DOMAIN s PROVE s[i] <= s[1]
    BY <2>1, <2>2, <2>3 DEF Decreasing
  <2>4. ASSUME Increasing(s), NEW i \in DOMAIN s PROVE s[1] <= s[i]
    BY <2>1, <2>2, <2>4 DEF Increasing
  <2> QED BY <2>1, <2>3, <2>4 DEF Range
<1> QED BY <1>1, <1>2, <1>3

\* A turn of a loop that removes nothing: the call becomes next, or is done.
LEMMA BecomesKeeps ==
  ASSUME IInv, NEW job \in jobs, NEW next, Becomes(job, next),
         (next.todo = <<>> /\ next.shouldDelete = <<>>) \/ GoodJob(next),
         UNCHANGED <<clock, dir, created, running, closed, current, opened, timer,
                     polling, starts, errors>>
  PROVE  IInv'
<1>1. jobs' \subseteq (jobs \ {job}) \cup {next}
      /\ \A j \in jobs' : j \in jobs \/ GoodJob(j)
  BY DEF Becomes
<1>2. clock' \in Files /\ clock' >= clock
  BY LogManagerAssumption DEF IInv, TypeOK, Files
<1>3. \A j \in jobs' : GoodJob(j)
  BY <1>1 DEF IInv
<1>4. \A j : GoodJob(j)' <=> GoodJob(j)
  BY DEF GoodJob, JobIsSound, Measured, Pending, Weight, Above, From
<1>5. \A j \in jobs' : GoodJob(j)'
  BY <1>3, <1>4
<1>6. TypeOK'
  BY <1>3 DEF IInv, TypeOK, GoodJob, JobIsSound
<1>7. Reopening'
  BY <1>1 DEF IInv, Reopening
<1>8. /\ DirIsFunction' /\ NamesInOrder' /\ PollIsLater' /\ NoHoles' /\ PollsOnUntilClosed'
  BY DEF IInv, DirIsFunction, NamesInOrder, PollIsLater, NoHoles, PollsOnUntilClosed
<1>9. DeadIsEmpty'
  BY <1>1 DEF IInv, DeadIsEmpty
<1> QED BY <1>5, <1>6, <1>7, <1>8, <1>9 DEF IInv

LEMMA readdirKeeps == ASSUME IInv, NEW job \in jobs, readdir(job) PROVE IInv'
<1>1. PICK listing \in [1 .. Cardinality(DOMAIN dir) -> DOMAIN dir] :
        /\ job.step = "readdir"
        /\ Decreasing(listing) /\ Range(listing) = DOMAIN dir
        /\ Becomes(job, [job EXCEPT !.step = "stat", !.todo = listing])
        /\ UNCHANGED <<clock, dir, created, running, closed, current, opened, timer,
                       polling, starts, errors>>
  BY DEF readdir
<1> DEFINE next == [job EXCEPT !.step = "stat", !.todo = listing]
<1>2. JobIsSound(job)
  BY DEF IInv, GoodJob
<1>3. listing \in Seq(Files)
  <2>1. IsFiniteSet(DOMAIN dir)
    BY FilesAreFinite
  <2>2. Cardinality(DOMAIN dir) \in Nat /\ DOMAIN dir \subseteq Files
    BY <2>1, FS_CardinalityType DEF IInv, TypeOK
  <2> QED BY <2>2
<1>4. /\ next \in Job /\ next.step = "stat" /\ next.todo = listing /\ next.now = job.now
      /\ next.totalSize = 0 /\ next.shouldDelete = <<>>
  BY <1>1, <1>2, <1>3, JobTypes DEF JobIsSound, Job
<1>5. CASE listing = <<>>
  BY <1>1, <1>4, <1>5, BecomesKeeps
<1>6. CASE listing # <<>>
  <2>1. Pending(next) = DOMAIN dir
    <3>1. Range(<<>>) = {}
      BY DEF Range
    <3> HIDE DEF next
    <3> QED BY <1>1, <1>4, <3>1 DEF Pending
  <2>2. JobIsSound(next)
    BY <1>1, <1>2, <1>4, <1>6, <2>1
       DEF JobIsSound, IInv, NamesInOrder, Increasing
  <2>3. Measured(next)
    <3>1. Head(next.todo) \in Files
      <4>1. \A s \in Seq(Files) : s # <<>> => Head(s) \in Files
        OBVIOUS
      <4> HIDE DEF next
      <4> QED BY <1>3, <1>4, <1>6, <4>1
    <3>2. Weight(Above(Head(next.todo))) \in Nat
      BY <3>1, WeightFacts
    <3>3. next.totalSize <= Weight(Above(Head(next.todo)))
      BY <1>4, <3>2
    <3> QED BY <1>4, <3>3 DEF Measured
  <2>4. GoodJob(next)
    BY <2>2, <2>3 DEF GoodJob
  <2> QED BY <1>1, <2>4, BecomesKeeps
<1> QED BY <1>5, <1>6

LEMMA ReverseFacts ==
  ASSUME NEW s \in Seq(Files), Decreasing(s)
  PROVE  /\ Reverse(s) \in Seq(Files) /\ Increasing(Reverse(s))
         /\ Range(Reverse(s)) = Range(s)
         /\ s # <<>> => Reverse(s) # <<>>
<1>1. /\ Reverse(s) = [i \in 1 .. Len(s) |-> s[(Len(s) - i) + 1]]
      /\ DOMAIN s = 1 .. Len(s) /\ Len(s) \in Nat
  BY DEF Reverse
<1>2. \A i \in 1 .. Len(s) : (Len(s) - i) + 1 \in 1 .. Len(s)
                           /\ (Len(s) - ((Len(s) - i) + 1)) + 1 = i
  BY <1>1
<1>3. Reverse(s) \in Seq(Files)
  <2>1. \A i \in 1 .. Len(s) : s[(Len(s) - i) + 1] \in Files
    BY <1>1, <1>2
  <2> QED BY <1>1, <2>1
<1>4. Range(Reverse(s)) = Range(s)
  <2>1. \A i \in 1 .. Len(s) : Reverse(s)[i] = s[(Len(s) - i) + 1]
    BY <1>1
  <2>2. \A i \in 1 .. Len(s) : s[i] = Reverse(s)[(Len(s) - i) + 1]
    BY <1>2, <2>1
  <2>3. DOMAIN Reverse(s) = 1 .. Len(s) /\ DOMAIN s = 1 .. Len(s)
    BY <1>1
  <2> QED BY <1>2, <2>1, <2>2, <2>3 DEF Range
<1>5. ASSUME NEW i \in 1 .. Len(s), NEW j \in 1 .. Len(s), i < j
      PROVE  Reverse(s)[i] < Reverse(s)[j]
  <2>1. (Len(s) - j) + 1 < (Len(s) - i) + 1
    BY <1>1, <1>5
  <2>2. s[(Len(s) - j) + 1] > s[(Len(s) - i) + 1]
    BY <1>1, <1>2, <2>1 DEF Decreasing
  <2>3. s[(Len(s) - j) + 1] \in Nat /\ s[(Len(s) - i) + 1] \in Nat
    BY <1>1, <1>2, LogManagerAssumption DEF Files
  <2> QED BY <1>1, <2>2, <2>3
<1>6. Increasing(Reverse(s))
  BY <1>1, <1>5 DEF Increasing
<1>7. s # <<>> => Reverse(s) # <<>>
  BY <1>1
<1> QED BY <1>3, <1>4, <1>6, <1>7

LEMMA TailFacts ==
  ASSUME NEW s \in Seq(Files), s # <<>>
  PROVE  /\ Tail(s) \in Seq(Files)
         /\ Range(s) = {Head(s)} \cup Range(Tail(s))
         /\ Increasing(s) => Increasing(Tail(s)) /\ \A p \in Range(Tail(s)) : Head(s) < p
         /\ Decreasing(s) => Decreasing(Tail(s)) /\ \A p \in Range(Tail(s)) : p < Head(s)
<1>1. /\ Tail(s) \in Seq(Files) /\ Len(s) \in Nat \ {0} /\ Head(s) = s[1]
      /\ Len(Tail(s)) = Len(s) - 1
      /\ DOMAIN s = 1 .. Len(s) /\ DOMAIN Tail(s) = 1 .. Len(s) - 1
      /\ \A i \in 1 .. Len(s) - 1 : Tail(s)[i] = s[i + 1]
  OBVIOUS
<1>2. \A i \in 1 .. Len(s) : s[i] \in Nat
  BY <1>1, LogManagerAssumption DEF Files
<1>3. Range(s) = {Head(s)} \cup Range(Tail(s))
  <2>1. ASSUME NEW i \in 1 .. Len(s), i # 1 PROVE s[i] \in Range(Tail(s))
    <3>1. i - 1 \in 1 .. Len(s) - 1 /\ (i - 1) + 1 = i
      BY <1>1, <2>1
    <3>2. Tail(s)[i - 1] = s[i]
      BY <1>1, <3>1
    <3> QED BY <1>1, <3>1, <3>2 DEF Range
  <2>2. \A i \in 1 .. Len(s) - 1 : i + 1 \in 1 .. Len(s)
    BY <1>1
  <2>3. 1 \in 1 .. Len(s)
    BY <1>1
  <2> QED BY <1>1, <2>1, <2>2, <2>3 DEF Range
<1>4. \A i \in 1 .. Len(s) - 1 : i + 1 \in 1 .. Len(s) /\ 1 < i + 1
  BY <1>1
<1>5. \A i, j \in 1 .. Len(s) - 1 : i < j => i + 1 < j + 1
  BY <1>1
<1>6. ASSUME Increasing(s) PROVE Increasing(Tail(s)) /\ \A p \in Range(Tail(s)) : Head(s) < p
  <2>1. Increasing(Tail(s))
    BY <1>1, <1>4, <1>5, <1>6 DEF Increasing
  <2>2. \A i \in 1 .. Len(s) - 1 : s[1] < s[i + 1]
    BY <1>1, <1>4, <1>6 DEF Increasing
  <2> QED BY <1>1, <2>1, <2>2 DEF Range
<1>7. ASSUME Decreasing(s) PROVE Decreasing(Tail(s)) /\ \A p \in Range(Tail(s)) : p < Head(s)
  <2>1. Decreasing(Tail(s))
    BY <1>1, <1>4, <1>5, <1>7 DEF Decreasing
  <2>2. \A i \in 1 .. Len(s) - 1 : s[i + 1] < s[1]
    <3>1. \A i \in 1 .. Len(s) - 1 : s[1] > s[i + 1]
      BY <1>1, <1>4, <1>7 DEF Decreasing
    <3> QED BY <1>1, <1>2, <1>4, <3>1
  <2> QED BY <1>1, <2>1, <2>2 DEF Range
<1> QED BY <1>1, <1>3, <1>6, <1>7

LEMMA inspectKeeps == ASSUME IInv, NEW job \in jobs, inspect(job) PROVE IInv'
<1> DEFINE h == Head(job.todo)
           total == job.totalSize + SizeOf(h)
           rest == [job EXCEPT !.todo = Tail(@), !.totalSize = total]
<1>1. JobIsSound(job) /\ Measured(job) /\ job.step = "stat"
  BY DEF IInv, GoodJob, inspect
<1>2. /\ job.todo # <<>> /\ job.shouldDelete = <<>> /\ job \in Job /\ job.now <= clock
      /\ job.now \in Nat /\ clock \in Nat /\ Decreasing(job.todo)
      /\ job.todo \in Seq(Files) /\ job.totalSize \in Nat
      /\ h \in Range(job.todo) /\ \A p \in Range(job.todo) : p <= h
      /\ Range(job.todo) \subseteq Files
  <2>1. job.todo \in Seq(Files) => Range(job.todo) \subseteq Files
    BY DEF Range
  <2>2. /\ job.todo # <<>> /\ job.shouldDelete = <<>> /\ job \in Job /\ job.now <= clock
        /\ Decreasing(job.todo)
    BY <1>1 DEF JobIsSound
  <2>3. clock \in Nat /\ job.now \in Files /\ job.now \in Nat
    BY <1>1, JobTypes, LogManagerAssumption DEF IInv, TypeOK, Files
  <2>4. /\ job.todo \in Seq(Files) /\ job.totalSize \in Nat
        /\ h \in Range(job.todo) /\ \A p \in Range(job.todo) : p <= h
    BY <1>1, <2>2, JobTypes
  <2> HIDE DEF h
  <2> QED BY <2>1, <2>2, <2>3, <2>4
<1>3. h \in Files /\ h \in Nat /\ \A f \in Files : f \in Nat
  BY <1>2, LogManagerAssumption DEF Files
<1>4. SizeOf(h) \in Nat /\ total \in Nat
  BY <1>2, <1>3, WeightFacts
<1>5. Pending(job) = Range(job.todo)
  BY <1>2 DEF Pending, Range
<1>6. DOMAIN dir \subseteq Files
  BY DEF IInv, TypeOK
<1>7. ASSUME NEW f \in DOMAIN dir, f <= h PROVE total <= Weight(From(h))
  <2>1. job.totalSize <= Weight(Above(h))
    BY <1>1, <1>7 DEF Measured
  <2>2. Weight(Above(h)) \in Nat /\ Weight(From(h)) = SizeOf(h) + Weight(Above(h))
    BY <1>3, WeightFacts
  <2> QED BY <1>2, <1>4, <2>1, <2>2
<1>8. CASE TooOld(job) \/ total >= logSizeLimit
  <2>1. Becomes(job, Doom(job)) /\ UNCHANGED <<clock, dir, created, running, closed, current,
                                               opened, timer, polling, starts, errors>>
    BY <1>8 DEF inspect
  <2>2. /\ Reverse(job.todo) \in Seq(Files) /\ Increasing(Reverse(job.todo))
        /\ Range(Reverse(job.todo)) = Range(job.todo) /\ Reverse(job.todo) # <<>>
    BY <1>2, ReverseFacts
  <2>3. /\ Doom(job) \in Job /\ Doom(job).step = "rm" /\ Doom(job).todo = <<>>
        /\ Doom(job).shouldDelete = Reverse(job.todo) /\ Doom(job).now = job.now
    BY <1>2, <2>2 DEF Doom, Job
  <2>4. Pending(Doom(job)) = Pending(job)
    <3>1. Range(<<>>) = {}
      BY DEF Range
    <3> QED BY <1>5, <2>2, <2>3, <3>1 DEF Pending
  <2>5. JobIsSound(Doom(job))
    BY <1>1, <1>2, <2>2, <2>3, <2>4 DEF JobIsSound, Decreasing
  <2>6. ASSUME NEW f \in DOMAIN dir \cap Range(job.todo)
        PROVE  f + logAgeLimit <= clock \/ logSizeLimit <= Weight(From(f))
    <3>1. f <= h /\ f \in Nat /\ f \in Files
      BY <1>2, <1>3, <1>6
    <3>2. CASE TooOld(job)
      BY <1>2, <1>3, <3>1, <3>2, LogManagerAssumption DEF TooOld
    <3>3. CASE total >= logSizeLimit
      <4>1. Weight(From(h)) <= Weight(From(f)) /\ Weight(From(h)) \in Nat /\ Weight(From(f)) \in Nat
        BY <1>3, <3>1, WeightFacts
      <4>2. total <= Weight(From(h))
        BY <1>7, <3>1
      <4> HIDE DEF total
      <4> QED BY <1>4, <3>3, <4>1, <4>2, LogManagerAssumption
    <3> QED BY <1>8, <3>2, <3>3
  <2>7. Measured(Doom(job))
    BY <2>2, <2>3, <2>6 DEF Measured
  <2> QED BY <2>1, <2>5, <2>7, BecomesKeeps DEF GoodJob
<1>9. CASE ~ (TooOld(job) \/ total >= logSizeLimit)
  <2>1. Becomes(job, rest) /\ UNCHANGED <<clock, dir, created, running, closed, current,
                                          opened, timer, polling, starts, errors>>
    BY <1>9 DEF inspect
  <2>2. /\ Tail(job.todo) \in Seq(Files) /\ Decreasing(Tail(job.todo))
        /\ Range(job.todo) = {h} \cup Range(Tail(job.todo))
        /\ \A p \in Range(Tail(job.todo)) : p < h
    BY <1>2, TailFacts
  <2>3. /\ rest \in Job /\ rest.step = "stat" /\ rest.todo = Tail(job.todo)
        /\ rest.totalSize = total /\ rest.shouldDelete = <<>> /\ rest.now = job.now
    BY <1>1, <1>2, <1>4, <2>2 DEF Job
  <2> HIDE DEF rest
  <2>4. CASE Tail(job.todo) = <<>>
    BY <2>1, <2>3, <2>4, BecomesKeeps
  <2>5. CASE Tail(job.todo) # <<>>
    <3>1. Pending(rest) = Range(Tail(job.todo))
      <4>1. Range(<<>>) = {}
        BY DEF Range
      <4> QED BY <2>3, <4>1 DEF Pending
    <3>2. ASSUME NEW f \in DOMAIN dir, NEW p \in Pending(rest), f <= p
          PROVE  f \in Pending(rest)
      <4>1. f \in Pending(job)
        BY <1>1, <1>5, <2>2, <3>1, <3>2 DEF JobIsSound
      <4>2. f # h
        <5>1. p < h /\ p \in Nat /\ f \in Nat
          BY <1>2, <1>3, <1>6, <2>2, <3>1
        <5> QED BY <1>3, <3>2, <5>1
      <4> QED BY <1>5, <2>2, <3>1, <4>1, <4>2
    <3>3. Pending(rest) \subseteq created
      BY <1>1, <1>5, <2>2, <3>1 DEF JobIsSound
    <3>4. JobIsSound(rest)
      BY <1>2, <2>2, <2>3, <2>5, <3>2, <3>3 DEF JobIsSound, Increasing
    <3>5. ASSUME NEW f \in DOMAIN dir, f <= Head(rest.todo)
          PROVE  rest.totalSize <= Weight(Above(Head(rest.todo)))
      <4> DEFINE k == Head(rest.todo)
      <4>1. k \in Range(Tail(job.todo)) /\ k \in Files
        <5>1. rest.todo \in Seq(Files) /\ rest.todo # <<>> /\ JobIsSound(rest)
          BY <2>2, <2>3, <2>5, <3>4
        <5>2. k \in Range(rest.todo) /\ k \in Files
          BY <5>1, JobTypes
        <5> QED BY <2>3, <5>2
      <4>2. k < h /\ k \in Nat /\ f \in Nat
        BY <1>3, <1>6, <2>2, <4>1
      <4>3. f <= h
        BY <1>3, <3>5, <4>2
      <4>4. total <= Weight(From(h))
        BY <1>7, <4>3
      <4>5. /\ Weight(From(h)) <= Weight(Above(k))
            /\ Weight(From(h)) \in Nat /\ Weight(Above(k)) \in Nat
        BY <1>3, <4>1, <4>2, WeightFacts
      <4> HIDE DEF total, k
      <4>6. total <= Weight(Above(k))
        BY <1>4, <4>4, <4>5
      <4> QED BY <2>3, <4>6 DEF k
    <3>6. Measured(rest)
      BY <2>3, <3>5 DEF Measured
    <3> QED BY <2>1, <3>4, <3>6, BecomesKeeps DEF GoodJob
  <2> QED BY <2>4, <2>5
<1> QED BY <1>8, <1>9

-----------------------------------------------------------------------------
(* Steps that change the directory.                                         *)

\* A call under way stays good if no file appears below its list, and what is
\* as new as a file that stays has not shrunk.
LEMMA DirMoves ==
  ASSUME IInv, clock' = clock, created \subseteq created',
         DOMAIN dir' \subseteq Files, dir' \in [DOMAIN dir' -> Nat],
         NEW job \in jobs,
         \A f \in DOMAIN dir', p \in Pending(job) : f <= p =>
            /\ f \in DOMAIN dir
            /\ \A g \in DOMAIN dir : g >= f => g \in DOMAIN dir' /\ dir[g] <= dir'[g]
  PROVE  GoodJob(job)'
<1>1. JobIsSound(job) /\ Measured(job) /\ job.now <= clock
  BY DEF IInv, GoodJob, JobIsSound
<1>2. JobIsSound(job)'
  BY <1>1 DEF JobIsSound, Pending
<1>3. dir \in [DOMAIN dir -> Nat] /\ DOMAIN dir \subseteq Files /\ Files \subseteq Nat
  BY LogManagerAssumption DEF IInv, DirIsFunction, TypeOK, Files
<1>4. \A S \in SUBSET (DOMAIN dir') : IsFiniteSet(S)
  <2>1. IsFiniteSet(0 .. MaxTime)
    <3>1. 0 \in Int /\ MaxTime \in Int
      BY LogManagerAssumption
    <3> QED BY <3>1, FS_Interval
  <2> QED BY <2>1, FS_Subset DEF Files
<1>5. ASSUME NEW f \in DOMAIN dir', NEW p \in Pending(job), f <= p
      PROVE  /\ f \in DOMAIN dir
             /\ Weight(From(f)) <= Weight(From(f))'
             /\ Weight(Above(p)) <= Weight(Above(p))'
             /\ Weight(From(f)) \in Nat /\ Weight(From(f))' \in Nat
             /\ Weight(Above(p)) \in Nat /\ Weight(Above(p))' \in Nat
  <2>1. f \in DOMAIN dir /\ \A g \in DOMAIN dir : g >= f => g \in DOMAIN dir' /\ dir[g] <= dir'[g]
    BY <1>5
  <2>2. p \in Files /\ f \in Files
    <3>1. Pending(job) \subseteq created /\ created \subseteq Files
      BY <1>1 DEF JobIsSound, IInv, TypeOK
    <3> QED BY <3>1
  <2>3. \A g \in DOMAIN dir : g > p => g >= f
    BY <1>3, <1>5, <2>2
  <2> DEFINE fromNew == {g \in DOMAIN dir' : g >= f}
             aboveNew == {g \in DOMAIN dir' : g > p}
  <2>4. /\ fromNew \in SUBSET (DOMAIN dir') /\ From(f) \subseteq fromNew
        /\ \A x \in From(f) : dir[x] <= dir'[x]
        /\ aboveNew \in SUBSET (DOMAIN dir') /\ Above(p) \subseteq aboveNew
        /\ \A x \in Above(p) : dir[x] <= dir'[x]
        /\ From(f) \in SUBSET (DOMAIN dir) /\ Above(p) \in SUBSET (DOMAIN dir)
    BY <2>1, <2>3 DEF From, Above
  <2>5. /\ Weight(From(f))' = SumOver(dir', fromNew) /\ Weight(From(f)) = SumOver(dir, From(f))
        /\ Weight(Above(p))' = SumOver(dir', aboveNew) /\ Weight(Above(p)) = SumOver(dir, Above(p))
    BY DEF Weight, From, Above
  <2> HIDE DEF fromNew, aboveNew
  <2>6. SumOver(dir, From(f)) <= SumOver(dir', fromNew)
    BY <1>3, <1>4, <2>4, SumMonotone
  <2>7. SumOver(dir, Above(p)) <= SumOver(dir', aboveNew)
    BY <1>3, <1>4, <2>4, SumMonotone
  <2>8. SumOver(dir', fromNew) \in Nat /\ SumOver(dir', aboveNew) \in Nat
    BY <1>4, <2>4, SumRemove
  <2>9. Weight(From(f)) \in Nat /\ Weight(Above(p)) \in Nat
    BY <2>2, WeightFacts
  <2> QED BY <2>1, <2>5, <2>6, <2>7, <2>8, <2>9
<1>6. Measured(job)'
  <2>1. ASSUME job.step = "stat", NEW f \in DOMAIN dir', f <= Head(job.todo)
        PROVE  job.totalSize <= Weight(Above(Head(job.todo)))'
    <3> DEFINE h == Head(job.todo)
    <3>1. h \in Pending(job) /\ job.totalSize \in Nat
      <4>1. job.todo # <<>>
        BY <1>1, <2>1 DEF JobIsSound
      <4> QED BY <1>1, <4>1, JobTypes DEF Pending
    <3>2. /\ f \in DOMAIN dir /\ Weight(Above(h)) <= Weight(Above(h))'
          /\ Weight(Above(h)) \in Nat /\ Weight(Above(h))' \in Nat
      BY <1>5, <2>1, <3>1
    <3>3. job.totalSize <= Weight(Above(h))
      BY <1>1, <2>1, <3>2 DEF Measured
    <3> HIDE DEF h
    <3>4. job.totalSize <= Weight(Above(h))'
      BY <3>1, <3>2, <3>3
    <3> QED BY <3>4 DEF h
  <2>2. ASSUME job.step = "rm", NEW f \in DOMAIN dir' \cap Range(job.shouldDelete)
        PROVE  f + logAgeLimit <= clock' \/ logSizeLimit <= Weight(From(f))'
    <3>1. f \in Pending(job) /\ f <= f
      BY <1>3, <2>2 DEF Pending, Files
    <3>2. /\ f \in DOMAIN dir /\ Weight(From(f)) <= Weight(From(f))'
          /\ Weight(From(f)) \in Nat /\ Weight(From(f))' \in Nat
      BY <1>5, <2>2, <3>1
    <3>3. f + logAgeLimit <= clock \/ logSizeLimit <= Weight(From(f))
      BY <1>1, <2>2, <3>2 DEF Measured
    <3> QED BY <3>2, <3>3, LogManagerAssumption
  <2> QED BY <2>1, <2>2 DEF Measured
<1> QED BY <1>2, <1>6 DEF GoodJob

LEMMA rmKeeps == ASSUME IInv, NEW job \in jobs, rm(job) PROVE IInv'
<1> DEFINE x == Head(job.shouldDelete)
           rest == [job EXCEPT !.shouldDelete = Tail(@)]
<1>1. /\ JobIsSound(job) /\ job.step = "rm" /\ Becomes(job, rest)
      /\ dir' = Restrict(dir, DOMAIN dir \ {x})
      /\ UNCHANGED <<clock, created, running, closed, current, opened, timer,
                     polling, starts, errors>>
  BY DEF IInv, GoodJob, rm
<1>2. /\ job.todo = <<>> /\ job.shouldDelete # <<>> /\ job \in Job
      /\ job.shouldDelete \in Seq(Files) /\ Increasing(job.shouldDelete)
      /\ x \in Range(job.shouldDelete) /\ \A p \in Range(job.shouldDelete) : x <= p
  <2>1. job.todo = <<>> /\ job.shouldDelete # <<>> /\ job \in Job /\ Increasing(job.shouldDelete)
    BY <1>1 DEF JobIsSound
  <2>2. job.shouldDelete \in Seq(Files)
        /\ x \in Range(job.shouldDelete) /\ \A p \in Range(job.shouldDelete) : x <= p
    BY <1>1, <2>1, JobTypes
  <2> QED BY <2>1, <2>2
<1>3. /\ Tail(job.shouldDelete) \in Seq(Files) /\ Increasing(Tail(job.shouldDelete))
      /\ Range(job.shouldDelete) = {x} \cup Range(Tail(job.shouldDelete))
      /\ \A p \in Range(Tail(job.shouldDelete)) : x < p
  BY <1>2, TailFacts
<1>4. Pending(job) = Range(job.shouldDelete) /\ Pending(job) \subseteq created
  <2>1. Range(<<>>) = {}
    BY DEF Range
  <2> QED BY <1>1, <1>2, <2>1 DEF Pending, JobIsSound
<1>5. /\ DOMAIN dir \subseteq Files /\ created \subseteq Files /\ Files \subseteq Nat
      /\ dir \in [DOMAIN dir -> Nat] /\ x \in Files
  <2>1. /\ DOMAIN dir \subseteq Files /\ created \subseteq Files
        /\ dir \in [DOMAIN dir -> Nat] /\ Files \subseteq Nat
    BY LogManagerAssumption DEF IInv, TypeOK, DirIsFunction, Files
  <2> HIDE DEF x
  <2> QED BY <1>2, <1>4, <2>1
<1>6. /\ DOMAIN dir' = DOMAIN dir \ {x} /\ dir' \in [DOMAIN dir' -> Nat]
      /\ \A g \in DOMAIN dir' : dir'[g] = dir[g]
  BY <1>1, <1>5 DEF Restrict
\* It is the oldest file, if it is still there.
<1>7. \A f \in DOMAIN dir : x <= f
  <2>1. ASSUME NEW f \in DOMAIN dir, f < x PROVE FALSE
    <3>1. f \in Pending(job)
      <4>1. f <= x /\ x \in Pending(job)
        BY <1>2, <1>4, <1>5, <2>1
      <4> QED BY <1>1, <4>1 DEF JobIsSound
    <3> QED BY <1>2, <1>4, <1>5, <2>1, <3>1
  <2> QED BY <1>5, <2>1
<1>8. ASSUME NEW j \in jobs PROVE GoodJob(j)'
  <2>1. ASSUME NEW f \in DOMAIN dir', NEW g \in DOMAIN dir, g >= f
        PROVE  g \in DOMAIN dir' /\ dir[g] <= dir'[g]
    <3>1. x < f
      BY <1>5, <1>6, <1>7
    <3>2. g # x
      BY <1>5, <1>6, <2>1, <3>1
    <3> QED BY <1>5, <1>6, <3>2
  <2> QED BY <1>1, <1>5, <1>6, <2>1, DirMoves
<1>9. /\ rest \in Job /\ rest.step = "rm" /\ rest.todo = <<>> /\ rest.now = job.now
      /\ rest.shouldDelete = Tail(job.shouldDelete)
  BY <1>1, <1>2, <1>3 DEF Job
<1> HIDE DEF rest
<1>10. ASSUME rest.shouldDelete # <<>>, NEW j, j = rest PROVE GoodJob(j)'
  <2>1. Pending(rest) = Range(Tail(job.shouldDelete))
    <3>1. Range(<<>>) = {}
      BY DEF Range
    <3> QED BY <1>9, <3>1 DEF Pending
  <2>2. JobIsSound(job)' /\ Measured(job)'
    BY <1>8 DEF GoodJob
  <2>3. ASSUME NEW f \in DOMAIN dir', NEW p \in Pending(rest), f <= p
        PROVE  f \in Pending(rest)
    <3>1. f \in Range(job.shouldDelete)
      BY <1>1, <1>3, <1>4, <1>6, <2>1, <2>3 DEF JobIsSound
    <3> QED BY <1>3, <1>6, <2>1, <3>1
  <2>4. Pending(rest) \subseteq created
    BY <1>3, <1>4, <2>1
  <2>5. JobIsSound(j)'
    <3>1. job.now <= clock
      BY <1>1 DEF JobIsSound
    <3> QED BY <1>1, <1>3, <1>9, <1>10, <2>3, <2>4, <3>1
            DEF JobIsSound, Decreasing, Pending
  <2>6. Measured(j)'
    <3>1. \A f \in DOMAIN dir' \cap Range(job.shouldDelete) :
            f + logAgeLimit <= clock' \/ logSizeLimit <= Weight(From(f))'
      BY <1>1, <2>2 DEF Measured
    <3> QED BY <1>3, <1>9, <1>10, <3>1 DEF Measured
  <2> QED BY <2>5, <2>6 DEF GoodJob
<1>11. jobs' \subseteq (jobs \ {job}) \cup {rest}
       /\ (rest.shouldDelete = <<>> => jobs' = jobs \ {job})
  BY <1>1, <1>9 DEF Becomes
<1>12. \A j \in jobs' : GoodJob(j)'
  <2>1. CASE rest.shouldDelete = <<>>
    BY <1>8, <1>11, <2>1
  <2>2. CASE rest.shouldDelete # <<>>
    BY <1>8, <1>10, <1>11, <2>2
  <2> QED BY <2>1, <2>2
<1>13. TypeOK'
  <2>1. \A f \in DOMAIN dir' : dir'[f] \in 0 .. MaxSize
    BY <1>6 DEF IInv, TypeOK
  <2>2. jobs' \subseteq Job /\ \A j \in jobs' : Decreasing(j.todo) /\ Increasing(j.shouldDelete)
    BY <1>12 DEF GoodJob, JobIsSound
  <2> QED BY <1>1, <1>6, <2>1, <2>2 DEF IInv, TypeOK
<1>14. DirIsFunction' /\ NamesInOrder' /\ PollIsLater' /\ PollsOnUntilClosed'
  BY <1>1, <1>6 DEF IInv, DirIsFunction, NamesInOrder, PollIsLater, PollsOnUntilClosed
<1>15. NoHoles'
  <2>1. ASSUME NEW f \in DOMAIN dir', NEW g \in created, g > f PROVE g \in DOMAIN dir'
    <3>1. g \in DOMAIN dir /\ x <= f
      BY <1>6, <1>7, <2>1 DEF IInv, NoHoles
    <3>2. g # x
      BY <1>5, <1>6, <2>1, <3>1
    <3> QED BY <1>6, <3>1, <3>2
  <2> QED BY <1>1, <2>1 DEF NoHoles
<1>16. DeadIsEmpty'
  BY <1>1 DEF IInv, DeadIsEmpty
<1>17. Reopening'
  <2>1. SUFFICES ASSUME running, opened # current, current \in created
                 PROVE  /\ \A j, other \in jobs' : j = other
                        /\ current \in DOMAIN dir' \/ jobs' = {}
    BY <1>1 DEF Reopening
  <2>2. jobs = {job} /\ current \in DOMAIN dir
    BY <2>1 DEF IInv, Reopening
  <2>3. CASE x # current
    BY <1>6, <1>11, <2>2, <2>3
  <2>4. CASE x = current
    <3>1. \A p \in Range(Tail(job.shouldDelete)) : p \in created /\ p <= current
      BY <1>3, <1>4, <2>1 DEF IInv, NamesInOrder
    <3>2. Range(Tail(job.shouldDelete)) = {}
      BY <1>3, <1>5, <2>4, <3>1
    <3>3. Tail(job.shouldDelete) = <<>>
      <4>1. \A s \in Seq(Files) : s # <<>> => s[1] \in Range(s)
        BY DEF Range
      <4> QED BY <1>3, <3>2, <4>1
    <3> QED BY <1>9, <1>11, <2>2, <3>3
  <2> QED BY <2>3, <2>4
<1> QED BY <1>12, <1>13, <1>14, <1>15, <1>16, <1>17 DEF IInv

LEMMA DeleteFailsKeeps == ASSUME IInv, NEW job \in jobs, DeleteFails(job) PROVE IInv'
<1>1. /\ jobs' = jobs \ {job} /\ errors < MaxErrors /\ errors' = errors + 1
      /\ UNCHANGED <<clock, dir, created, running, closed, current, opened, timer,
                     polling, starts>>
  BY DEF DeleteFails
<1>2. /\ \A j \in jobs' : GoodJob(j)'
      /\ jobs' \subseteq Job
      /\ \A j \in jobs' : Decreasing(j.todo) /\ Increasing(j.shouldDelete)
  BY <1>1, JobsStay
<1>3. errors + 1 \in 0 .. MaxErrors
  BY <1>1, LogManagerAssumption DEF IInv, TypeOK
<1>4. TypeOK'
  BY <1>1, <1>2, <1>3 DEF IInv, TypeOK
<1>5. /\ DirIsFunction' /\ NamesInOrder' /\ PollIsLater' /\ NoHoles' /\ PollsOnUntilClosed'
      /\ DeadIsEmpty' /\ Reopening'
  BY <1>1 DEF IInv, DirIsFunction, NamesInOrder, PollIsLater, NoHoles, PollsOnUntilClosed,
              DeadIsEmpty, Reopening
<1> QED BY <1>2, <1>4, <1>5 DEF IInv

LEMMA OpenKeeps == IInv /\ Open => IInv'
<1> SUFFICES ASSUME IInv, Open PROVE IInv'
  OBVIOUS
<1>1. /\ running /\ opened # current /\ opened' = current
      /\ dir' = [f \in DOMAIN dir \cup {current} |-> SizeOf(f)]
      /\ created' = created \cup {current}
      /\ UNCHANGED <<clock, running, closed, current, timer, polling, jobs, starts, errors>>
  BY DEF Open
<1>2. /\ DOMAIN dir \subseteq Files /\ created \subseteq Files /\ Files \subseteq Nat
      /\ dir \in [DOMAIN dir -> Nat] /\ current \in Files /\ current <= clock
      /\ \A f \in created : f <= current /\ f <= clock
      /\ DOMAIN dir \subseteq created
  BY <1>1, LogManagerAssumption DEF IInv, TypeOK, DirIsFunction, NamesInOrder, Files
<1>3. /\ DOMAIN dir' = DOMAIN dir \cup {current} /\ DOMAIN dir' \subseteq Files
      /\ dir' \in [DOMAIN dir' -> Nat]
      /\ \A f \in DOMAIN dir : dir'[f] = dir[f]
      /\ \A f \in DOMAIN dir' : dir'[f] \in 0 .. MaxSize
  BY <1>1, <1>2, LogManagerAssumption DEF SizeOf, IInv, TypeOK
<1>4. ASSUME NEW j \in jobs' PROVE GoodJob(j)'
  <2>1. JobIsSound(j) /\ j \in jobs
    BY <1>1 DEF IInv, GoodJob
  <2>2. ASSUME NEW f \in DOMAIN dir', NEW p \in Pending(j), f <= p PROVE f \in DOMAIN dir
    <3>1. p \in created
      BY <2>1 DEF JobIsSound
    <3>2. CASE f = current
      <4>1. current \in created
        BY <1>2, <2>2, <3>1, <3>2
      <4> QED BY <1>1, <2>1, <3>2, <4>1 DEF IInv, Reopening
    <3> QED BY <1>3, <3>2
  <2>3. \A g \in DOMAIN dir : g \in DOMAIN dir' /\ dir[g] <= dir'[g]
    BY <1>2, <1>3
  <2> QED BY <1>1, <1>3, <2>1, <2>2, <2>3, DirMoves
<1>5. jobs' \subseteq Job /\ \A j \in jobs' : Decreasing(j.todo) /\ Increasing(j.shouldDelete)
  BY <1>4 DEF GoodJob, JobIsSound
<1>6. TypeOK'
  BY <1>1, <1>2, <1>3, <1>5 DEF IInv, TypeOK
<1>7. NamesInOrder'
  BY <1>1, <1>2, <1>3 DEF NamesInOrder
<1>8. NoHoles'
  <2>1. ASSUME NEW f \in DOMAIN dir', NEW g \in created', g > f PROVE g \in DOMAIN dir'
    <3>1. CASE g = current
      BY <1>3, <3>1
    <3>2. CASE g # current
      <4>1. g \in created /\ g <= current
        BY <1>1, <1>2, <3>2
      <4>2. f # current
        BY <1>2, <2>1, <4>1
      <4> QED BY <1>3, <2>1, <4>1, <4>2 DEF IInv, NoHoles
    <3> QED BY <3>1, <3>2
  <2> QED BY <2>1 DEF NoHoles
<1>9. DirIsFunction' /\ DeadIsEmpty' /\ PollIsLater' /\ PollsOnUntilClosed' /\ Reopening'
  BY <1>1, <1>3 DEF IInv, DirIsFunction, DeadIsEmpty, PollIsLater, PollsOnUntilClosed, Reopening
<1> QED BY <1>4, <1>6, <1>7, <1>8, <1>9 DEF IInv

LEMMA WriteKeeps == ASSUME IInv, NEW f \in Files, Write(f) PROVE IInv'
<1>1. /\ f \in DOMAIN dir /\ dir[f] < MaxSize /\ dir' = [dir EXCEPT ![f] = @ + 1]
      /\ UNCHANGED <<clock, created, running, closed, current, opened, timer,
                     polling, jobs, starts, errors>>
  BY DEF Write
<1>2. /\ DOMAIN dir \subseteq Files /\ dir \in [DOMAIN dir -> Nat]
      /\ \A g \in DOMAIN dir : dir[g] \in 0 .. MaxSize
  BY DEF IInv, TypeOK, DirIsFunction
<1>3. /\ DOMAIN dir' = DOMAIN dir /\ dir' \in [DOMAIN dir' -> Nat]
      /\ \A g \in DOMAIN dir : dir[g] <= dir'[g] /\ dir'[g] \in 0 .. MaxSize
  BY <1>1, <1>2, LogManagerAssumption
<1>4. \A j \in jobs' : GoodJob(j)'
  BY <1>1, <1>2, <1>3, DirMoves
<1>5. TypeOK'
  BY <1>1, <1>3 DEF IInv, TypeOK
<1>6. /\ DirIsFunction' /\ NamesInOrder' /\ PollIsLater' /\ NoHoles' /\ PollsOnUntilClosed'
      /\ DeadIsEmpty' /\ Reopening'
  BY <1>1, <1>3 DEF IInv, DirIsFunction, NamesInOrder, PollIsLater, NoHoles,
                    PollsOnUntilClosed, DeadIsEmpty, Reopening
<1> QED BY <1>4, <1>5, <1>6 DEF IInv

LEMMA NextIInv == IInv /\ [Next]_vars => IInv'
<1> SUFFICES ASSUME IInv, [Next]_vars PROVE IInv'
  OBVIOUS
<1>1. CASE Start
  BY <1>1, StartKeeps
<1>2. CASE nextPoll
  BY <1>2, nextPollKeeps
<1>3. CASE poll
  BY <1>3, pollKeeps
<1>4. CASE PollFails
  BY <1>4, PollFailsKeeps
<1>5. CASE close \/ Kill \/ Tick
  BY <1>5, CloseKillTickKeep
<1>6. ASSUME NEW job \in jobs, readdir(job) PROVE IInv'
  BY <1>6, readdirKeeps
<1>7. ASSUME NEW job \in jobs, inspect(job) PROVE IInv'
  BY <1>7, inspectKeeps
<1>8. ASSUME NEW job \in jobs, rm(job) PROVE IInv'
  BY <1>8, rmKeeps
<1>9. ASSUME NEW job \in jobs, DeleteFails(job) PROVE IInv'
  BY <1>9, DeleteFailsKeeps
<1>10. CASE Open
  BY <1>10, OpenKeeps
<1>11. ASSUME NEW f \in Files, Write(f) PROVE IInv'
  BY <1>11, WriteKeeps
<1>12. CASE UNCHANGED vars
  <2>1. \A job \in jobs' : GoodJob(job)'
    <3>1. UNCHANGED <<clock, dir, created>> /\ jobs' \subseteq jobs
      BY <1>12 DEF vars
    <3> QED BY <3>1, JobsStay
  <2>2. TypeOK'
    BY <1>12 DEF vars, IInv, TypeOK
  <2>3. /\ DirIsFunction' /\ NamesInOrder' /\ PollIsLater' /\ NoHoles' /\ PollsOnUntilClosed'
        /\ DeadIsEmpty' /\ Reopening'
    BY <1>12 DEF vars, IInv, DirIsFunction, NamesInOrder, PollIsLater, NoHoles,
                 PollsOnUntilClosed, DeadIsEmpty, Reopening
  <2> QED BY <2>1, <2>2, <2>3 DEF IInv
<1> QED BY <1>1, <1>2, <1>3, <1>4, <1>5, <1>6, <1>7, <1>8, <1>9, <1>10, <1>11, <1>12
        DEF Next, DeleteStep

-----------------------------------------------------------------------------
\* The three invariants the run log_manager checks: every variable keeps to its
\* domain (log-manager.js:106-178), what is left of the directory is its newest
\* part (138-174), and an open manager waits for its timer or for one stat (110-123).
THEOREM LogManagerSafe == Spec => [](TypeOK /\ NoHoles /\ PollsOnUntilClosed)
<1>1. Init => IInv
  BY InitIInv
<1>2. IInv /\ [Next]_vars => IInv'
  BY NextIInv
<1>3. IInv => TypeOK /\ NoHoles /\ PollsOnUntilClosed
  BY DEF IInv
<1> QED BY <1>1, <1>2, <1>3, PTL DEF Spec

\* The variables of a manager, and of its deletions under way.
THEOREM LogManagerTypes == Spec => []TypeOK
BY LogManagerSafe, PTL

\* Overlapping deletions, failed removals and restarts leave no hole in the
\* directory (log-manager.js:138-174).
THEOREM LogManagerLeavesNoHoles == Spec => []NoHoles
BY LogManagerSafe, PTL

\* Whenever the stat of a poll comes back, an open manager polls on and a closed
\* one does not (log-manager.js:110-123).
THEOREM LogManagerPollsOn == Spec => []PollsOnUntilClosed
BY LogManagerSafe, PTL

\* A file leaves the directory only when it is older than logAgeLimit, or when
\* the newer ones make up logSizeLimit with it, as they are at that moment and
\* although they were measured before (log-manager.js:145-173).
THEOREM LogManagerDeletesNothingEarly == Spec => NothingDeletedEarly
<1> DEFINE Early == \A f \in DOMAIN dir \ DOMAIN dir' :
                      \/ f + logAgeLimit <= clock
                      \/ MapThenSumSet(LAMBDA g : dir[g], {g \in DOMAIN dir : g >= f})
                           >= logSizeLimit
<1>1. Init => IInv
  BY InitIInv
<1>2. IInv /\ [Next]_vars => IInv'
  BY NextIInv
<1>3. IInv /\ [Next]_vars => [Early]_vars
  <2> SUFFICES ASSUME IInv, [Next]_vars PROVE Early
    OBVIOUS
  <2>1. ASSUME NEW job \in jobs, rm(job) PROVE Early
    <3>1. JobIsSound(job) /\ Measured(job) /\ job.step = "rm"
          /\ dir' = Restrict(dir, DOMAIN dir \ {Head(job.shouldDelete)})
      BY <2>1 DEF IInv, GoodJob, rm
    <3>2. Head(job.shouldDelete) \in Range(job.shouldDelete)
      BY <3>1, JobTypes DEF JobIsSound
    <3>3. DOMAIN dir \ DOMAIN dir' \subseteq {Head(job.shouldDelete)}
      BY <3>1 DEF Restrict
    <3>4. ASSUME NEW f \in DOMAIN dir \ DOMAIN dir'
          PROVE  \/ f + logAgeLimit <= clock
                 \/ MapThenSumSet(LAMBDA g : dir[g], From(f)) >= logSizeLimit
      <4>1. f + logAgeLimit <= clock \/ logSizeLimit <= Weight(From(f))
        BY <3>1, <3>2, <3>3 DEF Measured
      <4>2. Weight(From(f)) \in Nat
        <5>1. f \in Files
          BY DEF IInv, TypeOK
        <5> QED BY <5>1, WeightFacts
      <4>3. logSizeLimit <= Weight(From(f)) => Weight(From(f)) >= logSizeLimit
        BY <4>2, LogManagerAssumption
      <4>4. Weight(From(f)) = MapThenSumSet(LAMBDA g : dir[g], From(f))
        BY SumIsMapSum
      <4> QED BY <4>1, <4>3, <4>4
    <3> QED BY <3>4 DEF From
  <2>2. ASSUME DOMAIN dir \subseteq DOMAIN dir' PROVE Early
    BY <2>2
  <2>3. \/ \E job \in jobs : rm(job)
        \/ DOMAIN dir \subseteq DOMAIN dir'
    <3>1. ASSUME NEW f \in Files, Write(f) PROVE DOMAIN dir \subseteq DOMAIN dir'
      BY <3>1 DEF Write
    <3>2. ASSUME Open PROVE DOMAIN dir \subseteq DOMAIN dir'
      BY <3>2 DEF Open
    <3>3. ASSUME NEW job \in jobs, readdir(job) \/ inspect(job) \/ DeleteFails(job)
          PROVE  dir' = dir
      BY <3>3 DEF readdir, inspect, DeleteFails
    <3>4. ASSUME Start \/ nextPoll \/ poll \/ PollFails \/ close \/ Kill \/ Tick \/ UNCHANGED vars
          PROVE  dir' = dir
      BY <3>4 DEF Start, nextPoll, poll, PollFails, close, Kill, Tick, vars
    <3> QED BY <3>1, <3>2, <3>3, <3>4 DEF Next, DeleteStep
  <2> HIDE DEF Early
  <2> QED BY <2>1, <2>2, <2>3
<1> QED BY <1>1, <1>2, <1>3, PTL DEF Spec, NothingDeletedEarly
=============================================================================
