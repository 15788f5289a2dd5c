----------------------------- MODULE ThreadPool -----------------------------
(***************************************************************************)
(* util::ThreadPool of etheos: the FIFO of queued work, the counting       *)
(* semaphore that announces it, the mutex that guards it, the worker       *)
(* threads that take work from it, and the three calls a client of the     *)
(* pool can make: Queue, SetNumThreads and Shutdown.                       *)
(*                                                                         *)
(* One thread ("main", the thread of the server loop) makes all three      *)
(* calls; a running job may call Queue as well, as the login operation     *)
(* does when it schedules the update of a password's hash.                 *)
(*                                                                         *)
(* A critical section that contains no blocking call is one action.  Only  *)
(* SetNumThreads keeps the queue mutex over several steps (it joins the    *)
(* workers while it holds it), so only there is the mutex visible.         *)
(***************************************************************************)
EXTENDS Naturals, Sequences, FiniteSets

CONSTANTS MAX_THREADS,      \* the largest pool the class accepts (32)
          DEFAULT_THREADS,  \* the size used instead of 0 or of a larger one (4)
          MaxJobs           \* bound on the number of jobs ever queued

ASSUME PoolAssumption == /\ MAX_THREADS \in Nat \ {0}
                         /\ DEFAULT_THREADS \in 1..MAX_THREADS
                         /\ MaxJobs \in Nat

VARIABLES
  terminating,  \* _terminating
  semaphore,    \* the count of _workReadySemaphore
  queueLock,    \* is _workQueueLock held by SetNumThreads?
  work,         \* _work, a FIFO of job numbers
  threads,      \* _threads.size(): the workers 1..threads exist
  pc,           \* where each worker is
  job,          \* the job a worker has taken from the queue, 0 for none
  main,         \* where the calling thread is
  target,       \* the argument of the SetNumThreads call in progress
  created,      \* how many jobs have been queued so far (their numbers)
  finished,     \* history: the jobs that ran to their end
  dropped       \* history: the jobs SetNumThreads removed from the queue

queueVars == <<work, created, dropped>>
vars == <<terminating, semaphore, queueLock, work, threads, pc, job, main,
          target, created, finished, dropped>>

Workers == 1..MAX_THREADS
Jobs    == 1..MaxJobs

WorkerPc == {"none",   \* no such thread
             "top",    \* at the test of the while loop
             "wait",   \* in Semaphore::Wait
             "check",  \* woken, about to test _terminating
             "lock",   \* about to take the queue mutex and the front item
             "run",    \* running its job
             "queue",  \* its job is in queueInternal, waiting for the mutex
             "dead"}   \* returned from _workerProc, joinable

MainPc == {"idle",
           "queue",    \* in queueInternal, past the test of _terminating
           "resize",   \* in setNumThreadsInternal, waiting for the mutex
           "drained",  \* shrinking: the queue is emptied
           "join",     \* shrinking: joining every worker
           "shutdown"} \* in shutdownInternal, joining every worker

TypeOK == /\ terminating \in BOOLEAN
          /\ semaphore \in Nat
          /\ queueLock \in BOOLEAN
          /\ work \in Seq(Jobs)
          /\ threads \in 1..MAX_THREADS
          /\ pc \in [Workers -> WorkerPc]
          /\ job \in [Workers -> 0..MaxJobs]
          /\ main \in MainPc
          /\ target \in 1..MAX_THREADS
          /\ created \in 0..MaxJobs
          /\ finished \subseteq Jobs
          /\ dropped \subseteq Jobs

-----------------------------------------------------------------------------
(* The size the class really uses for a requested number of threads.       *)
PoolSize(n) == IF n = 0 \/ n > MAX_THREADS THEN DEFAULT_THREADS ELSE n

(* The workers of a pool of n threads just started: thread i is at the top *)
(* of its loop.                                                            *)
Started(n) == [w \in Workers |-> IF w <= n THEN "top" ELSE "none"]

AllJoined == \A w \in 1..threads : pc[w] = "dead"

Elements(s) == {s[i] : i \in DOMAIN s}

Init == /\ terminating = FALSE
        /\ semaphore = 0
        /\ queueLock = FALSE
        /\ work = <<>>
        /\ threads = DEFAULT_THREADS
        /\ pc = Started(DEFAULT_THREADS)
        /\ job = [w \in Workers |-> 0]
        /\ main = "idle"
        /\ target = DEFAULT_THREADS
        /\ created = 0
        /\ finished = {}
        /\ dropped = {}

-----------------------------------------------------------------------------
(* queueInternal.  The test of _terminating is made before the mutex is    *)
(* taken; the push and the Release are made under it.                      *)

(* Mutant of Push: the Release is forgotten.                               *)
PushSilently == /\ ~queueLock
                /\ work' = Append(work, created + 1)
                /\ created' = created + 1
                /\ UNCHANGED <<semaphore, dropped, terminating, queueLock,
                               threads, target, finished>>

Push == /\ ~queueLock
        /\ work' = Append(work, created + 1)
        /\ created' = created + 1
        /\ semaphore' = semaphore + 1
        /\ UNCHANGED <<dropped, terminating, queueLock, threads, target, finished>>

(* Callers past the test hold a place under the bound MaxJobs.             *)
Callers == {w \in Workers : pc[w] = "queue"}
MayQueue == /\ ~terminating
            /\ created + Cardinality(Callers)
                 + (IF main = "queue" THEN 1 ELSE 0) < MaxJobs

QueueBegin == /\ main = "idle"
              /\ MayQueue
              /\ main' = "queue"
              /\ UNCHANGED <<queueVars, terminating, semaphore, queueLock,
                             threads, pc, job, target, finished>>

QueuePush == /\ main = "queue"
             /\ created < MaxJobs
             /\ Push
             /\ main' = "idle"
             /\ UNCHANGED <<pc, job>>

-----------------------------------------------------------------------------
(* setNumThreadsInternal.                                                  *)

ResizeBegin(n) == /\ main = "idle"
                  /\ PoolSize(n) # threads
                  /\ ~terminating
                  /\ main' = "resize"
                  /\ target' = PoolSize(n)
                  /\ UNCHANGED <<queueVars, terminating, semaphore, queueLock,
                                 threads, pc, job, finished>>

(* Growing: the semaphore is reset and threads are added, under the mutex; *)
(* the queue is left as it is.                                             *)
Grow == /\ main = "resize"
        /\ ~queueLock
        /\ target > threads
        /\ semaphore' = 0
        /\ pc' = [w \in Workers |-> IF w \in threads + 1 .. target
                                    THEN "top" ELSE pc[w]]
        /\ threads' = target
        /\ main' = "idle"
        /\ UNCHANGED <<queueVars, terminating, queueLock, job, target, finished>>

(* Shrinking: the mutex is taken and kept, and the queue is emptied.       *)
ShrinkDrain == /\ main = "resize"
               /\ ~queueLock
               /\ target < threads
               /\ queueLock' = TRUE
               /\ work' = <<>>
               /\ dropped' = dropped \cup Elements(work)
               /\ main' = "drained"
               /\ UNCHANGED <<terminating, semaphore, threads, pc, job, target,
                              created, finished>>

(* Mutant of Terminate: one token too few is released.                     *)
TerminateShort == /\ terminating' = TRUE
                  /\ semaphore' = semaphore + threads - 1

Terminate == /\ terminating' = TRUE
             /\ semaphore' = semaphore + threads

ShrinkTerminate == /\ main = "drained"
                   /\ Terminate
                   /\ main' = "join"
                   /\ UNCHANGED <<queueVars, queueLock, threads, pc, job,
                                  target, finished>>

(* Mutant of ShrinkRestart: the semaphore is not reset.                    *)
RestartKeepsTokens == /\ main = "join"
                      /\ AllJoined
                      /\ terminating' = FALSE
                      /\ pc' = Started(target)
                      /\ threads' = target
                      /\ queueLock' = FALSE
                      /\ main' = "idle"
                      /\ UNCHANGED <<queueVars, semaphore, job, target, finished>>

(* Every thread is joined: the vector is cleared, the semaphore reset, a   *)
(* new set of threads started and the mutex released.                      *)
ShrinkRestart == /\ main = "join"
                 /\ AllJoined
                 /\ terminating' = FALSE
                 /\ semaphore' = 0
                 /\ pc' = Started(target)
                 /\ threads' = target
                 /\ queueLock' = FALSE
                 /\ main' = "idle"
                 /\ UNCHANGED <<queueVars, job, target, finished>>

-----------------------------------------------------------------------------
(* shutdownInternal, also the destructor.                                  *)

ShutdownBegin == /\ main = "idle"
                 /\ ~terminating
                 /\ Terminate
                 /\ main' = "shutdown"
                 /\ UNCHANGED <<queueVars, queueLock, threads, pc, job, target,
                                finished>>

ShutdownEnd == /\ main = "shutdown"
               /\ AllJoined
               /\ main' = "idle"
               /\ UNCHANGED <<queueVars, terminating, semaphore, queueLock,
                              threads, pc, job, target, finished>>

-----------------------------------------------------------------------------
(* _workerProc.                                                            *)

Goto(w, from, to) == pc[w] = from /\ pc' = [pc EXCEPT ![w] = to]

(* while (!_terminating)                                                   *)
LoopTest(w) == /\ Goto(w, "top", IF terminating THEN "dead" ELSE "wait")
               /\ UNCHANGED <<queueVars, terminating, semaphore, queueLock,
                              threads, job, main, target, finished>>

(* Mutant of Wait: the count is taken down without waiting for it.         *)
WaitNotAtAll(w) == /\ Goto(w, "wait", "check")
                   /\ semaphore' = semaphore - 1
                   /\ UNCHANGED <<queueVars, terminating, queueLock, threads,
                                  job, main, target, finished>>

(* _workReadySemaphore.Wait()                                              *)
Wait(w) == /\ Goto(w, "wait", "check")
           /\ semaphore > 0
           /\ semaphore' = semaphore - 1
           /\ UNCHANGED <<queueVars, terminating, queueLock, threads, job, main,
                          target, finished>>

(* Mutant of Check: _terminating is not looked at again after the Wait.    *)
CheckNothing(w) == /\ Goto(w, "check", "lock")
                   /\ UNCHANGED <<queueVars, terminating, semaphore, queueLock,
                                  threads, job, main, target, finished>>

(* if (_terminating) break;                                                *)
Check(w) == /\ Goto(w, "check", IF terminating THEN "dead" ELSE "lock")
            /\ UNCHANGED <<queueVars, terminating, semaphore, queueLock,
                           threads, job, main, target, finished>>

(* A mutant of Take: the last item is taken instead of the first.          *)
TakeLast(w) == /\ Goto(w, "lock", "run")
               /\ ~queueLock
               /\ work # <<>>
               /\ job' = [job EXCEPT ![w] = work[Len(work)]]
               /\ work' = SubSeq(work, 1, Len(work) - 1)
               /\ UNCHANGED <<created, dropped, terminating, semaphore,
                              queueLock, threads, main, target, finished>>

(* The front item is moved out of the queue under the mutex.  With an      *)
(* empty queue front() and pop() have no defined behaviour: there is no    *)
(* such step here, and TakeFindsWork says that it is never needed.         *)
Take(w) == /\ Goto(w, "lock", "run")
           /\ ~queueLock
           /\ work # <<>>
           /\ job' = [job EXCEPT ![w] = Head(work)]
           /\ work' = Tail(work)
           /\ UNCHANGED <<created, dropped, terminating, semaphore, queueLock,
                          threads, main, target, finished>>

(* The job returns, or throws an exception that the loop catches.          *)
Finish(w) == /\ Goto(w, "run", "top")
             /\ finished' = finished \cup {job[w]}
             /\ job' = [job EXCEPT ![w] = 0]
             /\ UNCHANGED <<queueVars, terminating, semaphore, queueLock,
                            threads, main, target>>

(* The job calls ThreadPool::Queue itself.                                 *)
JobQueueBegin(w) == /\ Goto(w, "run", "queue")
                    /\ MayQueue
                    /\ UNCHANGED <<queueVars, terminating, semaphore, queueLock,
                                   threads, job, main, target, finished>>

JobQueuePush(w) == /\ Goto(w, "queue", "run")
                   /\ created < MaxJobs
                   /\ Push
                   /\ UNCHANGED <<job, main>>

-----------------------------------------------------------------------------
WorkerStep(w) == \/ LoopTest(w) \/ Wait(w) \/ Check(w) \/ Take(w)
                 \/ Finish(w) \/ JobQueueBegin(w) \/ JobQueuePush(w)

(* The steps of a call that the calling thread is already in.              *)
MainStep == \/ QueuePush \/ Grow \/ ShrinkDrain \/ ShrinkTerminate
            \/ ShrinkRestart \/ ShutdownEnd

Resize == \E n \in 0..MAX_THREADS + 1 : ResizeBegin(n)

Next == \/ QueueBegin
        \/ Resize
        \/ ShutdownBegin
        \/ MainStep
        \/ \E w \in Workers : WorkerStep(w)

Spec == Init /\ [][Next]_vars

(* A thread that can move does so: the operating system schedules every    *)
(* thread, and every job returns.  Calls into the pool need not be made,   *)
(* and a job need not queue another one.                                   *)
Fairness == /\ WF_vars(MainStep)
            /\ \A w \in Workers :
                 WF_vars(LoopTest(w) \/ Wait(w) \/ Check(w) \/ Take(w)
                         \/ Finish(w) \/ JobQueuePush(w))

FairSpec == Spec /\ Fairness

-----------------------------------------------------------------------------
(* The workers that hold a token of the semaphore they have not used yet.  *)
InHand   == {w \in Workers : pc[w] \in {"check", "lock"}}
AtTheQueue == {w \in Workers : pc[w] = "lock"}
Shrinking == main \in {"drained", "join"}

(* Whenever a worker is about to move the front item out of the queue and  *)
(* can take the mutex, there is an item: _work.front() (threadpool.cpp     *)
(* 147) is never evaluated on an empty queue, whatever resizes and         *)
(* shutdowns happened between the token and the mutex.                     *)
TakeFindsWork == \A w \in Workers : pc[w] = "lock" /\ ~queueLock => work # <<>>

(* The tokens announce queued work and never more than there is: what the  *)
(* semaphore counts plus what the woken workers hold is covered by the     *)
(* queue, unless the pool is terminating, where the extra tokens of        *)
(* Release(_threads.size()) only wake the workers up to leave.             *)
TokensBacked ==
  /\ ~terminating /\ ~Shrinking => semaphore + Cardinality(InHand) <= Len(work)
  /\ ~Shrinking => Cardinality(AtTheQueue) <= Len(work)

(* A pool that is asked to stop can: while it terminates there is a token  *)
(* for every worker that has still to pass Semaphore::Wait, so that no     *)
(* join waits for a worker that sleeps.                                    *)
Sleepers == {w \in Workers : pc[w] = "wait"}
WakeUpForAll == terminating => Cardinality(Sleepers) <= semaphore

(* The workers that hold a job. *)
Running == {w \in Workers : job[w] # 0}

(* threadpool.hpp 28 says of SetNumThreads: "In-progress work will be      *)
(* allowed to complete."                                                   *)
InProgressWorkCompletes ==
  \A w \in Workers : job[w] # 0 ~> job[w] = 0

(* The pool keeps the promise of WorkQueue: FIFO, at most once, a job that *)
(* has begun is never removed (threadpool.hpp 25-29).                      *)
Promise == INSTANCE WorkQueue WITH waiting <- work,
                                   running <- {job[w] : w \in Running},
                                   done    <- finished,
                                   removed <- dropped
KeepsPromise == Promise!QSpec
=============================================================================
