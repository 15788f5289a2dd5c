---------------------------- MODULE ServerThreads ----------------------------
(***************************************************************************)
(* The thread pool as the server uses it: main() sizes it once, from the   *)
(* option ThreadPoolThreads, before it creates the server; only then is    *)
(* work queued; the pool is shut down when the process exits.              *)
(***************************************************************************)
EXTENDS ThreadPool, Integers

CONSTANTS HardwareThreads,  \* std::thread::hardware_concurrency(), 0: unknown
          Options           \* the values ThreadPoolThreads may have

ASSUME OptionsAssumption == /\ HardwareThreads \in Nat
                            /\ Options \subseteq Int

VARIABLES booted,   \* has main() sized the pool?
          option    \* the configured value, once read

svars == <<vars, booted, option>>

(* main.cpp 349-369: what is passed to SetNumThreads.                      *)
Requested(o) == IF o <= 0
                THEN IF HardwareThreads = 0 THEN DEFAULT_THREADS
                                            ELSE HardwareThreads
                ELSE IF o > MAX_THREADS THEN MAX_THREADS ELSE o

SInit == Init /\ booted = FALSE /\ option = 0

Boot(o) == /\ ~booted
           /\ booted' = TRUE
           /\ option' = o
           /\ \/ ResizeBegin(Requested(o))
              \/ PoolSize(Requested(o)) = threads /\ UNCHANGED vars

Serve == /\ booted
         /\ UNCHANGED <<booted, option>>
         /\ QueueBegin \/ ShutdownBegin

Run == /\ UNCHANGED <<booted, option>>
       /\ MainStep \/ \E w \in Workers : WorkerStep(w)

SNext == Serve \/ Run \/ \E o \in Options : Boot(o)

SFairSpec == SInit /\ [][SNext]_svars /\ Fairness

-----------------------------------------------------------------------------
(* Every call into the pool returns: the resize at startup joins every     *)
(* thread it started with, and the shutdown at exit every worker, also     *)
(* one that is asleep or in the middle of a job.                           *)
CallsReturn == main # "idle" ~> main = "idle"

(* Work the server hands over is run, unless the process exits first: the  *)
(* resize at startup leaves no token behind and loses none.                *)
AcceptedWorkRuns ==
  \A j \in Jobs : j \in Elements(work) ~> j \in finished \/ terminating

(* Whenever a job can be queued the pool has as many threads as the option *)
(* asks for, the most the class accepts if it asks for more than that, and *)
(* never none (main.cpp 352-362, threadpool.cpp 77-80).                    *)
ServingSize ==
  booted /\ main = "idle" /\ ~terminating =>
    /\ threads \in 1..MAX_THREADS
    /\ option \in 1..MAX_THREADS => threads = option
    /\ option > MAX_THREADS => threads = MAX_THREADS

(* All that is handed over is run by a pool of the size asked for.         *)
ServesAtItsSize == []ServingSize /\ AcceptedWorkRuns

=============================================================================
