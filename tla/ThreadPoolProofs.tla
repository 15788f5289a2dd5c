-------------------------- MODULE ThreadPoolProofs --------------------------
(***************************************************************************)
(* Proofs about ThreadPool for every number of threads and of jobs: typing,*)
(* the accounting of the semaphore's tokens against the queue and, from    *)
(* it, that a worker never takes from an empty queue; and that a           *)
(* terminating pool has a token for every sleeping worker.                 *)
(***************************************************************************)
EXTENDS ThreadPool, FiniteSetTheorems, TLAPS

USE PoolAssumption

LEMMA WorkersFinite ==
  ASSUME NEW S \in SUBSET Workers
  PROVE  IsFiniteSet(S) /\ Cardinality(S) \in Nat
<1>1. IsFiniteSet(Workers)
  BY FS_Interval DEF Workers
<1>2. IsFiniteSet(S)
  BY <1>1, FS_Subset
<1> QED
  BY <1>2, FS_CardinalityType

LEMMA PoolSizeInRange ==
  ASSUME NEW n \in 0..MAX_THREADS + 1
  PROVE  PoolSize(n) \in 1..MAX_THREADS
BY DEF PoolSize

-----------------------------------------------------------------------------
(* Typing: every step of every thread leaves every variable in its type;   *)
(* in particular job numbers stay under MaxJobs and the semaphore's count  *)
(* never falls below zero.  It is not inductive: that the job a worker     *)
(* finishes is one takes the fact that a worker that runs has a job.       *)
RunsAJob == \A w \in Workers : pc[w] \in {"run", "queue"} => job[w] \in Jobs

TInv == TypeOK /\ RunsAJob

LEMMA StartedType ==
  ASSUME NEW n \in 1..MAX_THREADS
  PROVE  Started(n) \in [Workers -> WorkerPc]
BY DEF Started, WorkerPc

LEMMA TypeInit == Init => TInv
<1> SUFFICES ASSUME Init PROVE TInv
  OBVIOUS
<1>1. DEFAULT_THREADS \in 1..MAX_THREADS
  OBVIOUS
<1>2. pc \in [Workers -> WorkerPc]
  BY <1>1, StartedType DEF Init
<1>3. work \in Seq(Jobs)
  BY DEF Init
<1>4. job \in [Workers -> 0..MaxJobs] /\ created \in 0..MaxJobs
  BY DEF Init
<1>5. RunsAJob
  BY DEF Init, RunsAJob, Started
<1> QED
  BY <1>1, <1>2, <1>3, <1>4, <1>5 DEF Init, TypeOK, TInv, MainPc

LEMMA TypePush ==
  ASSUME TypeOK, Push, created < MaxJobs
  PROVE  /\ work' \in Seq(Jobs)
         /\ created' \in 0..MaxJobs
         /\ semaphore' \in Nat
         /\ UNCHANGED <<dropped, terminating, queueLock, threads, target,
                        finished>>
<1>1. created + 1 \in Jobs
  BY DEF TypeOK, Jobs
<1>2. work' \in Seq(Jobs)
  BY <1>1 DEF TypeOK, Push
<1> QED
  BY <1>1, <1>2 DEF TypeOK, Push, Jobs

LEMMA RunsAJobStep == TInv /\ [Next]_vars => RunsAJob'
<1> SUFFICES ASSUME TInv, [Next]_vars PROVE RunsAJob'
  OBVIOUS
<1> USE DEF TInv, TypeOK, RunsAJob
<1>1. CASE UNCHANGED <<pc, job>>
  BY <1>1
<1>2. CASE Grow
  BY <1>2 DEF Grow
<1>3. CASE ShrinkRestart
  BY <1>3 DEF ShrinkRestart, Started
<1>4. ASSUME NEW w \in Workers, WorkerStep(w)
      PROVE  RunsAJob'
  <2> USE DEF Goto, WorkerPc
  <2>1. CASE LoopTest(w) \/ Wait(w) \/ Check(w)
    BY <2>1 DEF LoopTest, Wait, Check
  <2>2. CASE Take(w)
    <3>1. Head(work) \in Jobs
      BY <2>2 DEF Take
    <3> QED
      BY <2>2, <3>1 DEF Take, Jobs
  <2>3. CASE Finish(w)
    BY <2>3 DEF Finish
  <2>4. CASE JobQueueBegin(w) \/ JobQueuePush(w)
    BY <2>4 DEF JobQueueBegin, JobQueuePush
  <2> QED
    BY <1>4, <2>1, <2>2, <2>3, <2>4 DEF WorkerStep
<1> QED
  BY <1>1, <1>2, <1>3, <1>4
     DEF Next, MainStep, vars, QueueBegin, QueuePush, Resize, ResizeBegin,
         ShrinkDrain, ShrinkTerminate, ShutdownBegin, ShutdownEnd

LEMMA TypeStep == TInv /\ [Next]_vars => TypeOK'
<1> SUFFICES ASSUME TInv, [Next]_vars PROVE TypeOK'
  OBVIOUS
<1> TypeOK /\ RunsAJob
  BY DEF TInv
<1> USE DEF queueVars
<1>1. CASE QueueBegin
  BY <1>1 DEF TypeOK, QueueBegin, MainPc
<1>2. CASE QueuePush
  <2>1. created < MaxJobs /\ Push /\ main' = "idle" /\ UNCHANGED <<pc, job>>
    BY <1>2 DEF QueuePush
  <2> QED
    BY <2>1, TypePush DEF TypeOK, MainPc
<1>3. CASE Resize
  <2>1. PICK n \in 0..MAX_THREADS + 1 : ResizeBegin(n)
    BY <1>3 DEF Resize
  <2>2. PoolSize(n) \in 1..MAX_THREADS
    BY PoolSizeInRange
  <2> QED
    BY <2>1, <2>2 DEF TypeOK, ResizeBegin, MainPc
<1>4. CASE Grow
  <2>1. pc' \in [Workers -> WorkerPc]
    BY <1>4 DEF TypeOK, Grow, WorkerPc
  <2> QED
    BY <1>4, <2>1 DEF TypeOK, Grow, MainPc
<1>5. CASE ShrinkDrain
  <2>1. Elements(work) \subseteq Jobs
    BY DEF TypeOK, Elements
  <2>2. work' \in Seq(Jobs)
    BY <1>5 DEF ShrinkDrain
  <2> QED
    BY <1>5, <2>1, <2>2 DEF TypeOK, ShrinkDrain, MainPc
<1>6. CASE ShrinkTerminate
  BY <1>6 DEF TypeOK, ShrinkTerminate, Terminate, MainPc
<1>7. CASE ShrinkRestart
  <2>1. pc' \in [Workers -> WorkerPc]
    BY <1>7, StartedType DEF TypeOK, ShrinkRestart
  <2> QED
    BY <1>7, <2>1 DEF TypeOK, ShrinkRestart, MainPc
<1>8. CASE ShutdownBegin
  BY <1>8 DEF TypeOK, ShutdownBegin, Terminate, MainPc
<1>9. CASE ShutdownEnd
  BY <1>9 DEF TypeOK, ShutdownEnd, MainPc
<1>10. ASSUME NEW w \in Workers, WorkerStep(w)
       PROVE  TypeOK'
  <2> USE DEF Goto, WorkerPc
  <2>1. CASE LoopTest(w)
    BY <2>1 DEF TypeOK, LoopTest
  <2>2. CASE Wait(w)
    BY <2>2 DEF TypeOK, Wait
  <2>3. CASE Check(w)
    BY <2>3 DEF TypeOK, Check
  <2>4. CASE Take(w)
    <3>1. Head(work) \in Jobs /\ Tail(work) \in Seq(Jobs)
      BY <2>4 DEF TypeOK, Take
    <3>2. job' \in [Workers -> 0..MaxJobs]
      BY <2>4, <3>1 DEF TypeOK, Take, Jobs
    <3> QED
      BY <2>4, <3>1, <3>2 DEF TypeOK, Take
  <2>5. CASE Finish(w)
    <3>1. job' \in [Workers -> 0..MaxJobs]
      BY <2>5 DEF TypeOK, Finish
    <3>2. job[w] \in Jobs
      BY <2>5 DEF Finish, RunsAJob
    <3> QED
      BY <2>5, <3>1, <3>2 DEF TypeOK, Finish
  <2>6. CASE JobQueueBegin(w)
    BY <2>6 DEF TypeOK, JobQueueBegin
  <2>7. CASE JobQueuePush(w)
    <3>1. created < MaxJobs /\ Push /\ UNCHANGED <<job, main>>
      BY <2>7 DEF JobQueuePush
    <3>2. pc' \in [Workers -> WorkerPc]
      BY <2>7 DEF TypeOK, JobQueuePush
    <3> QED
      BY <3>1, <3>2, TypePush DEF TypeOK
  <2> QED
    BY <1>10, <2>1, <2>2, <2>3, <2>4, <2>5, <2>6, <2>7 DEF WorkerStep
<1>11. CASE UNCHANGED vars
  BY <1>11 DEF TypeOK, vars
<1> QED
  BY <1>1, <1>2, <1>3, <1>4, <1>5, <1>6, <1>7, <1>8, <1>9, <1>10, <1>11
     DEF Next, MainStep

(* TypeOK holds in every state of the pool.                                *)
THEOREM TypeCorrect == Spec => []TypeOK
<1>1. TInv /\ [Next]_vars => TInv'
  BY TypeStep, RunsAJobStep DEF TInv
<1>2. TInv => TypeOK
  BY DEF TInv
<1> QED
  BY TypeInit, <1>1, <1>2, PTL DEF Spec

-----------------------------------------------------------------------------
(* The tokens of the semaphore against the queue.  The mutex is held       *)
(* exactly while SetNumThreads shrinks the pool.                           *)
LockHeld == queueLock <=> Shrinking

(* A step that leaves every worker where it is or moves it out of "check"  *)
(* and "lock" cannot raise the number of tokens in hand.                   *)
LEMMA FewerHands ==
  ASSUME InHand' \subseteq InHand, AtTheQueue' \subseteq AtTheQueue
  PROVE  /\ Cardinality(InHand') \in Nat /\ Cardinality(AtTheQueue') \in Nat
         /\ Cardinality(InHand) \in Nat /\ Cardinality(AtTheQueue) \in Nat
         /\ Cardinality(InHand') <= Cardinality(InHand)
         /\ Cardinality(AtTheQueue') <= Cardinality(AtTheQueue)
<1>1. InHand \subseteq Workers /\ AtTheQueue \subseteq Workers
  BY DEF InHand, AtTheQueue
<1>2. IsFiniteSet(InHand) /\ IsFiniteSet(AtTheQueue)
  BY <1>1, WorkersFinite
<1>3. InHand' \subseteq Workers /\ AtTheQueue' \subseteq Workers
  BY <1>1
<1> QED
  BY <1>1, <1>2, <1>3, FS_Subset, WorkersFinite

LEMMA TokensInit == Init => TokensBacked /\ LockHeld
<1> SUFFICES ASSUME Init PROVE TokensBacked /\ LockHeld
  OBVIOUS
<1>1. InHand = {} /\ AtTheQueue = {}
  BY DEF Init, Started, InHand, AtTheQueue
<1>2. Cardinality(InHand) = 0 /\ Cardinality(AtTheQueue) = 0
  BY <1>1, FS_EmptySet
<1>3. Len(work) = 0 /\ semaphore = 0
  BY DEF Init
<1> QED
  BY <1>2, <1>3 DEF Init, TokensBacked, LockHeld, Shrinking

(* A push adds one job and one token, whoever makes it.                    *)
LEMMA PushKeepsTokens ==
  ASSUME TInv, TokensBacked, LockHeld, Push, Shrinking' <=> Shrinking,
         InHand' = InHand, AtTheQueue' = AtTheQueue
  PROVE  TokensBacked'
<1>1. Len(work') = Len(work) + 1 /\ Len(work) \in Nat
  BY DEF TInv, TypeOK, Push
<1>2. Cardinality(InHand) \in Nat /\ Cardinality(AtTheQueue) \in Nat
  BY FewerHands
<1>3. semaphore \in Nat /\ semaphore' = semaphore + 1
      /\ terminating' = terminating
  BY DEF TInv, TypeOK, Push
<1> QED
  BY <1>1, <1>2, <1>3 DEF TokensBacked

LEMMA WorkerKeepsTokens ==
  ASSUME TInv, TokensBacked, LockHeld, NEW w \in Workers, WorkerStep(w)
  PROVE  TokensBacked' /\ LockHeld'
<1> USE DEF TInv, TypeOK, Goto, WorkerPc
<1>1. main' = main /\ queueLock' = queueLock /\ terminating' = terminating
  BY DEF WorkerStep, LoopTest, Wait, Check, Take, Finish, JobQueueBegin,
         JobQueuePush, Push
<1>2. LockHeld'
  BY <1>1 DEF LockHeld, Shrinking
<1>3. Shrinking' <=> Shrinking
  BY <1>1 DEF Shrinking
<1>4. IsFiniteSet(InHand) /\ IsFiniteSet(AtTheQueue)
      /\ Cardinality(InHand) \in Nat /\ Cardinality(AtTheQueue) \in Nat
  BY WorkersFinite DEF InHand, AtTheQueue
<1>5. Len(work) \in Nat
  OBVIOUS
<1>6. CASE LoopTest(w) \/ Finish(w) \/ JobQueueBegin(w)
  <2>1. InHand' = InHand /\ AtTheQueue' = AtTheQueue
    BY <1>6 DEF LoopTest, Finish, JobQueueBegin, InHand, AtTheQueue
  <2>2. work' = work /\ semaphore' = semaphore
    BY <1>6 DEF LoopTest, Finish, JobQueueBegin, queueVars
  <2> QED
    BY <1>1, <1>2, <1>3, <2>1, <2>2 DEF TokensBacked
<1>7. CASE Wait(w)
  <2>1. InHand' = InHand \cup {w} /\ w \notin InHand
        /\ AtTheQueue' = AtTheQueue
    BY <1>7 DEF Wait, InHand, AtTheQueue
  <2>2. Cardinality(InHand') = Cardinality(InHand) + 1
    BY <1>4, <2>1, FS_AddElement
  <2>3. work' = work /\ semaphore' = semaphore - 1 /\ semaphore > 0
    BY <1>7 DEF Wait, queueVars
  <2> QED
    BY <1>1, <1>2, <1>3, <1>4, <1>5, <2>1, <2>2, <2>3 DEF TokensBacked
<1>8. CASE Check(w)
  <2>1. work' = work /\ semaphore' = semaphore
    BY <1>8 DEF Check, queueVars
  <2>2. CASE terminating
    <3>1. InHand' \subseteq InHand /\ AtTheQueue' = AtTheQueue
      BY <1>8, <2>2 DEF Check, InHand, AtTheQueue
    <3> QED
      BY <1>1, <1>2, <1>3, <2>1, <2>2, <3>1 DEF TokensBacked
  <2>3. CASE ~terminating
    <3>1. InHand' = InHand /\ AtTheQueue' = AtTheQueue \cup {w}
          /\ w \notin AtTheQueue /\ AtTheQueue \cup {w} \subseteq InHand
      BY <1>8, <2>3 DEF Check, InHand, AtTheQueue
    <3>2. Cardinality(AtTheQueue') <= Cardinality(InHand)
          /\ Cardinality(AtTheQueue') \in Nat
      BY <1>4, <3>1, FS_Subset, FS_AddElement
    <3> QED
      BY <1>1, <1>2, <1>3, <1>4, <1>5, <2>1, <2>3, <3>1, <3>2
         DEF TokensBacked
  <2> QED
    BY <2>2, <2>3
<1>9. CASE Take(w)
  <2>1. InHand' = InHand \ {w} /\ w \in InHand
        /\ AtTheQueue' = AtTheQueue \ {w} /\ w \in AtTheQueue
    BY <1>9 DEF Take, InHand, AtTheQueue
  <2>2. Cardinality(InHand') = Cardinality(InHand) - 1
        /\ Cardinality(AtTheQueue') = Cardinality(AtTheQueue) - 1
    BY <1>4, <2>1, FS_RemoveElement
  <2>3. Len(work') = Len(work) - 1 /\ semaphore' = semaphore
    BY <1>9 DEF Take
  <2> QED
    BY <1>1, <1>2, <1>3, <1>4, <1>5, <2>2, <2>3 DEF TokensBacked
<1>10. CASE JobQueuePush(w)
  <2>1. InHand' = InHand /\ AtTheQueue' = AtTheQueue
    BY <1>10 DEF JobQueuePush, InHand, AtTheQueue
  <2>2. Push
    BY <1>10 DEF JobQueuePush
  <2> QED
    BY <1>2, <1>3, <2>1, <2>2, PushKeepsTokens
<1> QED
  BY <1>6, <1>7, <1>8, <1>9, <1>10 DEF WorkerStep

LEMMA MainKeepsTokens ==
  ASSUME TInv, TokensBacked, LockHeld,
         QueueBegin \/ Resize \/ ShutdownBegin \/ MainStep
  PROVE  TokensBacked' /\ LockHeld'
<1> USE DEF TInv, TypeOK, queueVars
<1>1. CASE QueueBegin \/ Resize \/ ShutdownEnd
  <2>1. UNCHANGED <<work, semaphore, terminating, queueLock, pc>>
        /\ (Shrinking' <=> Shrinking)
    BY <1>1 DEF QueueBegin, Resize, ResizeBegin, ShutdownEnd, Shrinking
  <2>2. InHand' = InHand /\ AtTheQueue' = AtTheQueue
    BY <2>1 DEF InHand, AtTheQueue
  <2> QED
    BY <2>1, <2>2 DEF TokensBacked, LockHeld
<1>2. CASE QueuePush
  <2>1. Push /\ pc' = pc /\ (Shrinking' <=> Shrinking)
    BY <1>2 DEF QueuePush, Shrinking
  <2>2. InHand' = InHand /\ AtTheQueue' = AtTheQueue
    BY <2>1 DEF InHand, AtTheQueue
  <2>3. LockHeld'
    BY <2>1 DEF LockHeld, Push
  <2> QED
    BY <2>1, <2>2, <2>3, PushKeepsTokens
<1>3. CASE Grow
  <2>1. InHand' \subseteq InHand /\ AtTheQueue' \subseteq AtTheQueue
    BY <1>3 DEF Grow, InHand, AtTheQueue
  <2>2. work' = work /\ semaphore' = 0 /\ terminating' = terminating
        /\ queueLock' = queueLock /\ ~Shrinking /\ ~Shrinking'
    BY <1>3 DEF Grow, Shrinking
  <2> QED
    BY <2>1, <2>2, FewerHands DEF TokensBacked, LockHeld
<1>4. CASE ShrinkDrain
  BY <1>4 DEF ShrinkDrain, TokensBacked, LockHeld, Shrinking
<1>5. CASE ShrinkTerminate
  BY <1>5 DEF ShrinkTerminate, TokensBacked, LockHeld, Shrinking
<1>6. CASE ShrinkRestart
  <2>1. InHand' = {} /\ AtTheQueue' = {}
    BY <1>6 DEF ShrinkRestart, Started, InHand, AtTheQueue
  <2>2. Cardinality(InHand') = 0 /\ Cardinality(AtTheQueue') = 0
    BY <2>1, FS_EmptySet
  <2>3. semaphore' = 0 /\ Len(work') \in Nat
    BY <1>6 DEF ShrinkRestart
  <2>4. LockHeld'
    BY <1>6 DEF ShrinkRestart, LockHeld, Shrinking
  <2> QED
    BY <2>2, <2>3, <2>4 DEF TokensBacked
<1>7. CASE ShutdownBegin
  <2>1. UNCHANGED <<work, queueLock, pc>> /\ terminating'
        /\ ~Shrinking /\ ~Shrinking'
    BY <1>7 DEF ShutdownBegin, Terminate, Shrinking
  <2>2. AtTheQueue' = AtTheQueue
    BY <2>1 DEF AtTheQueue
  <2> QED
    BY <2>1, <2>2 DEF TokensBacked, LockHeld
<1> QED
  BY <1>1, <1>2, <1>3, <1>4, <1>5, <1>6, <1>7 DEF MainStep

(* The inductive invariant behind both theorems.                           *)
PoolInv == TInv /\ TokensBacked /\ LockHeld

LEMMA PoolInvariant == Spec => []PoolInv
<1>1. Init => PoolInv
  BY TypeInit, TokensInit DEF PoolInv
<1>2. ASSUME PoolInv, [Next]_vars PROVE PoolInv'
  <2> USE DEF PoolInv
  <2>1. TInv'
    BY <1>2, TypeStep, RunsAJobStep DEF TInv
  <2>2. CASE UNCHANGED vars
    BY <1>2, <2>1, <2>2 DEF vars, TokensBacked, LockHeld, Shrinking, InHand,
                            AtTheQueue
  <2> QED
    BY <1>2, <2>1, <2>2, WorkerKeepsTokens, MainKeepsTokens DEF Next
<1> QED
  BY <1>1, <1>2, PTL DEF Spec

(* While the pool is in use, the tokens that exist are covered by queued   *)
(* jobs, through every resize and shutdown (threadpool.cpp 60-130).        *)
THEOREM TokensAreBacked == Spec => []TokensBacked
<1>1. PoolInv => TokensBacked
  BY DEF PoolInv
<1> QED
  BY <1>1, PoolInvariant, PTL

(* No worker ever evaluates front() or pop() on an empty queue             *)
(* (threadpool.cpp 145-149): a worker that may take the mutex is one of    *)
(* those that the length of the queue bounds.                              *)
THEOREM TakeIsSafe == Spec => []TakeFindsWork
<1>1. PoolInv => TakeFindsWork
  <2> SUFFICES ASSUME PoolInv,
                      NEW w \in Workers, pc[w] = "lock", ~queueLock
               PROVE  work # <<>>
    BY DEF TakeFindsWork
  <2>1. AtTheQueue # {} /\ AtTheQueue \in SUBSET Workers
    BY DEF AtTheQueue
  <2>2. Cardinality(AtTheQueue) \in Nat /\ Cardinality(AtTheQueue) # 0
    BY <2>1, WorkersFinite, FS_EmptySet
  <2>3. Cardinality(AtTheQueue) <= Len(work)
    BY DEF PoolInv, LockHeld, TokensBacked
  <2> QED
    BY <2>2, <2>3
<1> QED
  BY <1>1, PoolInvariant, PTL

-----------------------------------------------------------------------------
(* Termination.  A call that is still to change the pool made sure that it *)
(* is not terminating, and there are no threads beyond _threads.           *)
NotYet   == main \in {"resize", "drained"} => ~terminating
NoOthers == \A w \in Workers : w > threads => pc[w] = "none"
StopInv  == NotYet /\ NoOthers /\ WakeUpForAll

LEMMA SleepersFinite ==
  /\ IsFiniteSet(Sleepers) /\ Cardinality(Sleepers) \in Nat
  /\ \A S \in SUBSET Sleepers : /\ Cardinality(S) \in Nat
                                /\ Cardinality(S) <= Cardinality(Sleepers)
<1>1. Sleepers \in SUBSET Workers
  BY DEF Sleepers
<1>2. IsFiniteSet(Sleepers) /\ Cardinality(Sleepers) \in Nat
  BY <1>1, WorkersFinite
<1> QED
  BY <1>2, FS_Subset, FS_CardinalityType

(* Release(_threads.size()) covers every worker there is.                  *)
LEMMA TerminateWakesAll ==
  ASSUME TypeOK, NoOthers, Terminate, pc' = pc
  PROVE  WakeUpForAll'
<1>1. Sleepers \subseteq 1..threads
  BY DEF Sleepers, NoOthers, TypeOK, Workers
<1>2. IsFiniteSet(1..threads) /\ Cardinality(1..threads) = threads
  BY FS_Interval DEF TypeOK
<1>3. Cardinality(Sleepers) <= threads
  BY <1>1, <1>2, FS_Subset
<1>4. Sleepers' = Sleepers
  BY DEF Sleepers
<1> QED
  BY <1>3, <1>4, SleepersFinite DEF TypeOK, Terminate, WakeUpForAll

LEMMA WorkerKeepsStop ==
  ASSUME TInv, StopInv, NEW w \in Workers, WorkerStep(w)
  PROVE  StopInv'
<1> USE DEF TInv, TypeOK, StopInv, Goto, WorkerPc
<1>1. UNCHANGED <<main, terminating, threads>>
  BY DEF WorkerStep, LoopTest, Wait, Check, Take, Finish, JobQueueBegin,
         JobQueuePush, Push
<1>2. NotYet'
  BY <1>1 DEF NotYet
<1>3. NoOthers'
  BY <1>1 DEF NoOthers, WorkerStep, LoopTest, Wait, Check, Take, Finish,
              JobQueueBegin, JobQueuePush
<1>4. CASE Wait(w)
  <2>1. Sleepers' = Sleepers \ {w} /\ w \in Sleepers
    BY <1>4 DEF Wait, Sleepers
  <2>2. Cardinality(Sleepers') = Cardinality(Sleepers) - 1
    BY <2>1, SleepersFinite, FS_RemoveElement
  <2> QED
    BY <1>1, <1>2, <1>3, <1>4, <2>2, SleepersFinite DEF Wait, WakeUpForAll
<1>5. CASE ~Wait(w) /\ terminating
  <2>1. Sleepers' \subseteq Sleepers
    BY <1>5 DEF WorkerStep, LoopTest, Check, Take, Finish, JobQueueBegin,
                JobQueuePush, Sleepers
  <2>2. semaphore' = semaphore \/ semaphore' = semaphore + 1
    BY <1>5 DEF WorkerStep, LoopTest, Check, Take, Finish, JobQueueBegin,
                JobQueuePush, Push, queueVars
  <2>3. semaphore' >= semaphore /\ semaphore \in Nat /\ semaphore' \in Nat
    BY <2>2
  <2> QED
    BY <1>1, <1>2, <1>3, <1>5, <2>1, <2>2, <2>3, SleepersFinite
       DEF WakeUpForAll
<1>6. CASE ~terminating
  BY <1>1, <1>2, <1>3, <1>6 DEF WakeUpForAll
<1> QED
  BY <1>4, <1>5, <1>6

LEMMA MainKeepsStop ==
  ASSUME TInv, StopInv, QueueBegin \/ Resize \/ ShutdownBegin \/ MainStep
  PROVE  StopInv'
<1> USE DEF TInv, TypeOK, StopInv
<1>1. CASE QueueBegin \/ Resize \/ ShrinkDrain \/ ShutdownEnd
  <2>1. UNCHANGED <<semaphore, terminating, threads, pc>>
    BY <1>1 DEF QueueBegin, Resize, ResizeBegin, ShrinkDrain, ShutdownEnd
  <2>2. NotYet'
    BY <1>1 DEF QueueBegin, Resize, ResizeBegin, ShrinkDrain, ShutdownEnd,
                NotYet
  <2> QED
    BY <2>1, <2>2 DEF NoOthers, WakeUpForAll, Sleepers
<1>2. CASE QueuePush
  <2>1. semaphore' = semaphore + 1 /\ UNCHANGED <<terminating, threads, pc>>
    BY <1>2 DEF QueuePush, Push
  <2>2. Sleepers' = Sleepers
    BY <2>1 DEF Sleepers
  <2> QED
    BY <1>2, <2>1, <2>2, SleepersFinite
       DEF QueuePush, NotYet, NoOthers, WakeUpForAll
<1>3. CASE Grow
  <2>1. ~terminating' /\ main' = "idle"
    BY <1>3 DEF Grow, NotYet
  <2>2. NoOthers'
    BY <1>3 DEF Grow, NoOthers, Workers
  <2> QED
    BY <2>1, <2>2 DEF NotYet, WakeUpForAll
<1>4. CASE ShrinkTerminate \/ ShutdownBegin
  <2>1. Terminate /\ pc' = pc /\ threads' = threads
        /\ main' \in {"join", "shutdown"}
    BY <1>4 DEF ShrinkTerminate, ShutdownBegin
  <2>2. WakeUpForAll'
    BY <2>1, TerminateWakesAll
  <2> QED
    BY <2>1, <2>2 DEF NotYet, NoOthers
<1>5. CASE ShrinkRestart
  BY <1>5 DEF ShrinkRestart, Started, NotYet, NoOthers, WakeUpForAll
<1> QED
  BY <1>1, <1>2, <1>3, <1>4, <1>5 DEF MainStep

LEMMA StopInvariant == Spec => [](TInv /\ StopInv)
<1> DEFINE Inv == TInv /\ StopInv
<1>1. Init => Inv
  <2>1. Init => StopInv
    BY DEF Init, StopInv, NotYet, NoOthers, WakeUpForAll, Started
  <2> QED
    BY <2>1, TypeInit
<1>2. ASSUME Inv, [Next]_vars PROVE Inv'
  <2>1. TInv'
    BY <1>2, TypeStep, RunsAJobStep DEF TInv
  <2>2. CASE UNCHANGED vars
    BY <1>2, <2>1, <2>2 DEF vars, StopInv, NotYet, NoOthers, WakeUpForAll,
                            Sleepers
  <2> QED
    BY <1>2, <2>1, <2>2, WorkerKeepsStop, MainKeepsStop DEF Next
<1> QED
  BY <1>1, <1>2, PTL DEF Spec

(* A join never waits for a worker that nobody will wake: a terminating    *)
(* pool has a token for every worker still to pass Semaphore::Wait         *)
(* (threadpool.cpp 97-104 and 118-127).                                    *)
THEOREM EveryWorkerIsWoken == Spec => []WakeUpForAll
<1>1. TInv /\ StopInv => WakeUpForAll
  BY DEF StopInv
<1> QED
  BY <1>1, StopInvariant, PTL

-----------------------------------------------------------------------------
(* ThreadPool implements WorkQueue.  The numbers of the jobs tell them     *)
(* apart: those in the queue are all different, no two workers hold the    *)
(* same, none is in the queue and in the hands of a worker, and a worker   *)
(* about to take one has none.                                             *)
JobOfHolder == \A w \in Workers : job[w] # 0 <=> pc[w] \in {"run", "queue"}
KnownJobs ==
  /\ \A i \in 1..Len(work) : work[i] \in 1..created
  /\ \A w \in Workers : job[w] # 0 => job[w] \in 1..created
  /\ finished \cup dropped \subseteq 1..created
OneHolder ==
  /\ \A i, j \in 1..Len(work) : work[i] = work[j] => i = j
  /\ \A w \in Workers : job[w] # 0 => \A i \in 1..Len(work) : work[i] # job[w]
  /\ \A v, w \in Workers : job[v] # 0 /\ job[v] = job[w] => v = w
JobInv == JobOfHolder /\ KnownJobs /\ OneHolder

LEMMA JobInit == ASSUME Init PROVE JobInv
<1>1. Len(work) = 0
  BY DEF Init
<1> QED
  BY <1>1 DEF Init, Started, JobInv, JobOfHolder, KnownJobs, OneHolder

LEMMA JobPush ==
  ASSUME TInv, KnownJobs, OneHolder, created < MaxJobs, Push, job' = job
  PROVE  KnownJobs' /\ OneHolder'
<1>0. TypeOK
  BY DEF TInv
<1>1. /\ Len(work') = Len(work) + 1
      /\ work'[Len(work) + 1] = created + 1
      /\ \A i \in 1..Len(work) : work'[i] = work[i]
  BY <1>0 DEF TypeOK, Push
<1>2. Len(work) \in Nat /\ created \in Nat /\ created' = created + 1
  BY <1>0 DEF TypeOK, Push
<1>3. /\ \A w \in Workers : job'[w] = job[w]
      /\ finished' = finished /\ dropped' = dropped
  BY DEF Push
<1>4. \A i \in 1..Len(work') : \/ i \in 1..Len(work)
                               \/ i = Len(work) + 1 /\ work'[i] = created + 1
  BY <1>1, <1>2
<1>5. KnownJobs'
  <2>1. \A i \in 1..Len(work') : work'[i] \in 1..created'
    BY <1>1, <1>2, <1>4 DEF KnownJobs
  <2>2. \A w \in Workers : job'[w] # 0 => job'[w] \in 1..created'
    BY <1>2, <1>3 DEF KnownJobs
  <2>3. finished' \cup dropped' \subseteq 1..created'
    BY <1>2, <1>3 DEF KnownJobs
  <2> QED
    BY <2>1, <2>2, <2>3 DEF KnownJobs
<1>6. OneHolder'
  <2>1. \A i, j \in 1..Len(work') : work'[i] = work'[j] => i = j
    BY <1>1, <1>2, <1>4 DEF KnownJobs, OneHolder
  <2>2. \A w \in Workers : job'[w] # 0 =>
          \A i \in 1..Len(work') : work'[i] # job'[w]
    BY <1>1, <1>2, <1>3, <1>4 DEF KnownJobs, OneHolder
  <2>3. \A v, w \in Workers : job'[v] # 0 /\ job'[v] = job'[w] => v = w
    BY <1>3 DEF OneHolder
  <2> QED
    BY <2>1, <2>2, <2>3 DEF OneHolder
<1> QED
  BY <1>5, <1>6

LEMMA JobTake ==
  ASSUME TInv, JobInv, NEW w \in Workers, Take(w)
  PROVE  JobInv'
<1>0. TypeOK
  BY DEF TInv
<1>1. /\ pc[w] = "lock" /\ work # <<>>
      /\ pc' = [pc EXCEPT ![w] = "run"] /\ job' = [job EXCEPT ![w] = Head(work)]
      /\ work' = Tail(work)
      /\ UNCHANGED <<created, finished, dropped>>
  BY DEF Take, Goto
<1>2. /\ Len(work) \in Nat \ {0} /\ Len(work') = Len(work) - 1
      /\ \A i \in 1..Len(work') : i + 1 \in 1..Len(work) /\ work'[i] = work[i + 1]
      /\ Head(work) = work[1] /\ Head(work) \in Jobs
  BY <1>0, <1>1 DEF TypeOK
<1>3. /\ \A v \in Workers : pc'[v] = IF v = w THEN "run" ELSE pc[v]
      /\ \A v \in Workers : job'[v] = IF v = w THEN work[1] ELSE job[v]
      /\ work[1] # 0
  BY <1>0, <1>1, <1>2 DEF TypeOK, Jobs
<1>4. JobOfHolder'
  BY <1>3 DEF JobInv, JobOfHolder
<1>5. KnownJobs'
  <2>1. \A i \in 1..Len(work') : work'[i] \in 1..created'
    BY <1>1, <1>2 DEF JobInv, KnownJobs
  <2>2. work[1] \in 1..created
    BY <1>2 DEF JobInv, KnownJobs
  <2>3. \A v \in Workers : job'[v] # 0 => job'[v] \in 1..created'
    BY <1>1, <1>3, <2>2 DEF JobInv, KnownJobs
  <2> QED
    BY <1>1, <2>1, <2>3 DEF JobInv, KnownJobs
<1>6. OneHolder'
  <2>1. \A i, j \in 1..Len(work') : work'[i] = work'[j] => i = j
    <3> SUFFICES ASSUME NEW i \in 1..Len(work'), NEW j \in 1..Len(work'),
                        work'[i] = work'[j]
                 PROVE  i = j
      OBVIOUS
    <3>1. i + 1 = j + 1
      BY <1>2 DEF JobInv, OneHolder
    <3> QED
      BY <1>2, <3>1
  <2>2. \A i \in 1..Len(work') : work'[i] # work[1]
    <3> SUFFICES ASSUME NEW i \in 1..Len(work'), work'[i] = work[1]
                 PROVE  FALSE
      OBVIOUS
    <3>1. i + 1 = 1
      BY <1>2 DEF JobInv, OneHolder
    <3> QED
      BY <1>2, <3>1
  <2>3. \A v \in Workers : job'[v] # 0 =>
          \A i \in 1..Len(work') : work'[i] # job'[v]
    BY <1>2, <1>3, <2>2 DEF JobInv, OneHolder
  <2>4. \A v \in Workers : v # w /\ job[v] # 0 => job[v] # work[1]
    BY <1>2 DEF JobInv, OneHolder
  <2>5. \A u, v \in Workers : job'[u] # 0 /\ job'[u] = job'[v] => u = v
    BY <1>3, <2>4 DEF JobInv, OneHolder
  <2> QED
    BY <2>1, <2>3, <2>5 DEF OneHolder
<1> QED
  BY <1>4, <1>5, <1>6 DEF JobInv

LEMMA JobStep == ASSUME TInv, StopInv, JobInv, [Next]_vars PROVE JobInv'
<1>0. /\ TypeOK /\ Len(work) \in Nat
      /\ JobOfHolder /\ KnownJobs /\ OneHolder /\ NoOthers
  BY DEF TInv, TypeOK, JobInv, StopInv
<1>1. ASSUME UNCHANGED <<job, queueVars, finished>>,
             \A w \in Workers : pc'[w] \in {"run", "queue"}
                                  <=> pc[w] \in {"run", "queue"}
      PROVE  JobInv'
  <2>1. KnownJobs' /\ OneHolder'
    BY <1>0, <1>1 DEF KnownJobs, OneHolder, queueVars
  <2>2. JobOfHolder'
    BY <1>0, <1>1 DEF JobOfHolder
  <2> QED
    BY <2>1, <2>2 DEF JobInv
<1>2. CASE UNCHANGED <<pc, job, queueVars, finished>>
  BY <1>1, <1>2
<1>3. CASE QueuePush
  <2>1. KnownJobs' /\ OneHolder'
    BY <1>0, <1>3, JobPush DEF QueuePush
  <2>2. JobOfHolder'
    BY <1>0, <1>3 DEF QueuePush, JobOfHolder
  <2> QED
    BY <2>1, <2>2 DEF JobInv
<1>4. CASE Grow
  <2>1. \A w \in Workers : pc'[w] = pc[w] \/ (pc[w] = "none" /\ pc'[w] = "top")
    BY <1>0, <1>4 DEF Grow, NoOthers, TypeOK, Workers
  <2>2. UNCHANGED <<job, queueVars, finished>>
    BY <1>4 DEF Grow
  <2> QED
    BY <1>1, <2>1, <2>2
<1>5. CASE ShrinkDrain
  <2>1. /\ work' = <<>> /\ dropped' = dropped \cup Elements(work)
        /\ UNCHANGED <<pc, job, created, finished>>
    BY <1>5 DEF ShrinkDrain
  <2>2. Elements(work) \subseteq 1..created /\ Len(work') = 0
    BY <1>0, <2>1 DEF Elements, KnownJobs, TypeOK
  <2>3. KnownJobs' /\ OneHolder'
    BY <1>0, <2>1, <2>2 DEF KnownJobs, OneHolder
  <2>4. JobOfHolder'
    BY <1>0, <2>1 DEF JobOfHolder
  <2> QED
    BY <2>3, <2>4 DEF JobInv
<1>6. CASE ShrinkRestart
  <2>1. /\ \A w \in Workers : pc[w] \in {"dead", "none"}
        /\ \A w \in Workers : pc'[w] \in {"top", "none"}
        /\ UNCHANGED <<job, queueVars, finished>>
    BY <1>0, <1>6 DEF ShrinkRestart, AllJoined, NoOthers, Started, TypeOK,
                      Workers
  <2> QED
    BY <1>1, <2>1
<1>7. ASSUME NEW w \in Workers, WorkerStep(w) PROVE JobInv'
  <2>1. CASE LoopTest(w) \/ Wait(w) \/ Check(w) \/ JobQueueBegin(w)
    <3>1. \A v \in Workers : pc'[v] \in {"run", "queue"}
                               <=> pc[v] \in {"run", "queue"}
      BY <1>0, <2>1 DEF LoopTest, Wait, Check, JobQueueBegin, Goto, TypeOK
    <3> QED
      BY <1>1, <2>1, <3>1 DEF LoopTest, Wait, Check, JobQueueBegin
  <2>2. CASE Take(w)
    BY <2>2, JobTake
  <2>3. CASE Finish(w)
    <3>1. /\ pc[w] = "run" /\ finished' = finished \cup {job[w]}
          /\ \A v \in Workers : job'[v] = IF v = w THEN 0 ELSE job[v]
          /\ \A v \in Workers : pc'[v] = IF v = w THEN "top" ELSE pc[v]
          /\ UNCHANGED <<work, created, dropped>>
      BY <1>0, <2>3 DEF Finish, Goto, TypeOK, queueVars
    <3>2. job[w] \in 1..created
      BY <1>0, <3>1 DEF JobOfHolder, KnownJobs
    <3>3. KnownJobs' /\ OneHolder'
      BY <1>0, <3>1, <3>2 DEF KnownJobs, OneHolder
    <3>4. JobOfHolder'
      BY <1>0, <3>1 DEF JobOfHolder
    <3> QED
      BY <3>3, <3>4 DEF JobInv
  <2>4. CASE JobQueuePush(w)
    <3>1. KnownJobs' /\ OneHolder'
      BY <1>0, <2>4, JobPush DEF JobQueuePush
    <3>2. JobOfHolder'
      BY <1>0, <2>4 DEF JobQueuePush, Goto, JobOfHolder, TypeOK
    <3> QED
      BY <3>1, <3>2 DEF JobInv
  <2> QED
    BY <1>7, <2>1, <2>2, <2>3, <2>4 DEF WorkerStep
<1>8. CASE QueueBegin \/ Resize \/ ShrinkTerminate \/ ShutdownBegin \/ ShutdownEnd
  BY <1>2, <1>8 DEF QueueBegin, Resize, ResizeBegin, ShrinkTerminate,
                    ShutdownBegin, ShutdownEnd
<1>9. CASE UNCHANGED vars
  BY <1>2, <1>9 DEF vars, queueVars
<1> QED
  BY <1>3, <1>4, <1>5, <1>6, <1>7, <1>8, <1>9 DEF Next, MainStep

(* The steps of the pool as steps of WorkQueue.                            *)
InHands == {job[w] : w \in Running}

LEMMA SameHands ==
  ASSUME job' = job PROVE InHands' = InHands
BY DEF InHands, Running

LEMMA PushSubmits ==
  ASSUME TInv, JobInv, created < MaxJobs, Push, job' = job
  PROVE  \E j \in Jobs : Promise!Submit(j)
<1>1. created + 1 \in Jobs /\ created \in Nat /\ DOMAIN work = 1..Len(work)
  BY DEF TInv, TypeOK, Jobs
<1>2. created + 1 \notin {work[i] : i \in DOMAIN work}
                           \cup InHands \cup finished \cup dropped
  BY <1>1 DEF JobInv, KnownJobs, InHands, Running
<1>3. InHands' = InHands
  BY SameHands
<1>4. work' = Append(work, created + 1) /\ UNCHANGED <<finished, dropped>>
  BY DEF Push
<1>5. Promise!Submit(created + 1)
  BY <1>2, <1>3, <1>4 DEF Promise!Submit, InHands
<1> QED
  BY <1>1, <1>5

LEMMA TakeBegins ==
  ASSUME TInv, JobInv, NEW w \in Workers, Take(w)
  PROVE  Promise!Begin
<1>1. /\ work # <<>> /\ work' = Tail(work) /\ UNCHANGED <<finished, dropped>>
      /\ Head(work) \in Jobs
      /\ \A v \in Workers : job'[v] = IF v = w THEN Head(work) ELSE job[v]
  BY DEF Take, TInv, TypeOK
<1>2. job[w] = 0 /\ Head(work) # 0
  BY <1>1 DEF Take, Goto, JobInv, JobOfHolder, Jobs
<1>3. InHands' = InHands \cup {Head(work)}
  <2>1. Running' = Running \cup {w}
    BY <1>1, <1>2 DEF Running
  <2>2. \A v \in Running : job'[v] = job[v]
    BY <1>1, <1>2 DEF Running
  <2>3. job'[w] = Head(work)
    BY <1>1
  <2>4. InHands' = {job'[v] : v \in Running \cup {w}}
    BY <2>1 DEF InHands
  <2> QED
    BY <2>2, <2>3, <2>4 DEF InHands
<1> QED
  BY <1>1, <1>3 DEF Promise!Begin, InHands

LEMMA FinishEnds ==
  ASSUME TInv, JobInv, NEW w \in Workers, Finish(w)
  PROVE  \E j \in Jobs : Promise!End(j)
<1>1. /\ finished' = finished \cup {job[w]} /\ UNCHANGED <<work, dropped>>
      /\ \A v \in Workers : job'[v] = IF v = w THEN 0 ELSE job[v]
  BY DEF Finish, queueVars, TInv, TypeOK
<1>2. job[w] \in Jobs /\ job[w] # 0
  BY DEF Finish, Goto, TInv, RunsAJob, Jobs
<1>3. Running' = Running \ {w} /\ w \in Running
  BY <1>1, <1>2 DEF Running
<1>4. \A v \in Running \ {w} : job'[v] = job[v] /\ job[v] # job[w]
  BY <1>1, <1>2 DEF JobInv, OneHolder, Running
<1>5. InHands' = InHands \ {job[w]}
  <2>1. InHands' = {job'[v] : v \in Running \ {w}}
    BY <1>3 DEF InHands
  <2> QED
    BY <2>1, <1>3, <1>4 DEF InHands
<1>6. job[w] \in InHands
  BY <1>3 DEF InHands
<1> QED
  BY <1>1, <1>2, <1>5, <1>6 DEF Promise!End, InHands

LEMMA QueueStep ==
  ASSUME TInv, JobInv, [Next]_vars PROVE [Promise!QNext]_Promise!qvars
<1>1. CASE UNCHANGED <<job, queueVars, finished>>
  BY <1>1, SameHands DEF Promise!qvars, InHands, queueVars
<1>2. CASE QueuePush
  BY <1>2, PushSubmits DEF QueuePush, Promise!QNext
<1>3. CASE ShrinkDrain
  <2>1. InHands' = InHands
    BY <1>3, SameHands DEF ShrinkDrain
  <2>2. Promise!RemoveAll
    BY <1>3, <2>1 DEF ShrinkDrain, Elements, InHands, Promise!RemoveAll
  <2> QED
    BY <2>2 DEF Promise!QNext
<1>4. ASSUME NEW w \in Workers, WorkerStep(w)
      PROVE  [Promise!QNext]_Promise!qvars
  <2>1. CASE LoopTest(w) \/ Wait(w) \/ Check(w) \/ JobQueueBegin(w)
    BY <2>1, <1>1 DEF LoopTest, Wait, Check, JobQueueBegin
  <2>2. CASE Take(w)
    BY <2>2, TakeBegins DEF Promise!QNext
  <2>3. CASE Finish(w)
    BY <2>3, FinishEnds DEF Promise!QNext
  <2>4. CASE JobQueuePush(w)
    BY <2>4, PushSubmits DEF JobQueuePush, Promise!QNext
  <2> QED
    BY <1>4, <2>1, <2>2, <2>3, <2>4 DEF WorkerStep
<1>5. CASE UNCHANGED vars
  BY <1>5, <1>1 DEF vars, queueVars
<1> QED
  BY <1>1, <1>2, <1>3, <1>4, <1>5
     DEF Next, MainStep, QueueBegin, Resize, ResizeBegin, Grow,
         ShrinkTerminate, ShrinkRestart, ShutdownBegin, ShutdownEnd

(* The pool implements the queue it promises, for any number of workers    *)
(* and jobs and through every resize and shutdown: a job is begun in its   *)
(* turn and at most once, a job that has begun is never taken back, and    *)
(* one that a shrinking pool drops is never begun (threadpool.hpp 25-29).  *)
THEOREM PoolImplementsQueue == Spec => KeepsPromise
<1>1. Init => JobInv
  BY JobInit
<1>2. TInv /\ StopInv /\ JobInv /\ [Next]_vars => JobInv'
  BY JobStep
<1>3. Init => Promise!QInit
  BY DEF Init, Promise!QInit, Running
<1>4. TInv /\ JobInv /\ [Next]_vars => [Promise!QNext]_Promise!qvars
  BY QueueStep
<1> QED
  BY <1>1, <1>2, <1>3, <1>4, StopInvariant, PTL
     DEF Spec, KeepsPromise, Promise!QSpec
=============================================================================
