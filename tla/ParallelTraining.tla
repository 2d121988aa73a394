--------------------------- MODULE ParallelTraining ---------------------------
(* What the trainers of MITIE do with the thread pool of dlib. A training is a   *)
(* sequence of jobs, one after the other, each with a pool of its own:           *)
(*   - "svm" jobs solve a structural SVM (ner_trainer for its segmenter and its  *)
(*     classifier, text_categorizer_trainer): in every iteration of the solver,  *)
(*     get_risk() adds up what the separation oracle says of each sample, and    *)
(*     the samples are shared out among the workers in blocks;                   *)
(*   - "folds" jobs cross-validate (binary_relation_detector_trainer): each fold *)
(*     is a task, and its result a future.                                       *)
(* Vectors and losses are reduced to which samples they come from. The sums are  *)
(* read, added to and written in two steps, under accum_mutex.                   *)
EXTENDS ThreadPool, Sequences

CONSTANTS
    Plans,            \* what callers may set out to do: for each, a sequence of jobs
    MaxSamples,       \* samples of a job (bound)
    ChunksPerThread   \* how many blocks parallel_for_blocked() aims at, 8 in the code

Samples == 1..MaxSamples
PoolOf(u, k) == <<u, k>>
OwnerOf(p) == p[1]

ASSUME PlanAssumption ==
    /\ MaxSamples \in Nat /\ ChunksPerThread \in Nat \ {0}
    /\ Plans \subseteq [Callers -> Seq([kind : {"svm", "folds"}, threads : Nat, samples : Samples,
                                     cache : Nat, iterations : Nat])]
    /\ \A intended \in Plans : \A u \in Callers : \A k \in 1..Len(intended[u]) :
           PoolOf(u, k) \in Functions

VARIABLES
    plan,              \* the jobs of each caller
    pc,                \* where each caller is
    job,               \* which job of its plan
    next,              \* the next sample to give to a task, or fold to collect
    ids,               \* the tasks of its futures
    counter,           \* iterations of the solver
    buffered,          \* buffer_subgradients_locally
    total,             \* how often each sample is in the sums
    accum_mutex,       \* the thread that holds it
    cached,            \* entries in the cache of each sample
    skip_cache, count_below_eps,
    answer,            \* where each sample's part of the sums comes from (history)
    reason,            \* why the solver stopped
    local, seen,       \* of each thread: its own sum, and the shared one as read
    program            \* the end of the process

trainingVars == <<plan, pc, job, next, ids, counter, buffered, total, accum_mutex, cached, skip_cache,
                  count_below_eps, answer, reason, local, seen, program>>

vars == <<threaderVars, poolVars, trainingVars>>

NoSample == {}
Zero == [s \in Samples |-> 0]
NoAnswer == [s \in Samples |-> "none"]
NoThread == NoCaller

Pool(u) == PoolOf(u, job[u])
Job(u) == plan[u][job[u]]
SolverState == <<counter, buffered, cached, skip_cache, count_below_eps, reason>>
SumState == <<total, accum_mutex, answer, local, seen>>

Init ==
    /\ ThreadPoolInit
    /\ plan \in Plans
    /\ pc = [u \in Callers |-> IF plan[u] = <<>> THEN "done" ELSE "train"]
    /\ job = [u \in Callers |-> 1]
    /\ next = [u \in Callers |-> 1]
    /\ ids = [u \in Callers |-> <<>>]
    /\ counter = [u \in Callers |-> 0]
    /\ buffered = [u \in Callers |-> FALSE]
    /\ total = [u \in Callers |-> Zero]
    /\ accum_mutex = [u \in Callers |-> NoThread]
    /\ cached = [u \in Callers |-> Zero]
    /\ skip_cache = [u \in Callers |-> TRUE]
    /\ count_below_eps = [u \in Callers |-> 0]
    /\ answer = [u \in Callers |-> NoAnswer]
    /\ reason = [u \in Callers |-> "none"]
    /\ local = [t \in Threads |-> NoSample]
    /\ seen = [t \in Threads |-> Zero]
    /\ program = "running"

GoTo(u, step) == pc' = [pc EXCEPT ![u] = step]

-------------------------------------------------------------------------------
(* A job begins: the problem with its pool is constructed, and its threads are   *)
(* started.                                                                      *)
StartJob(u) ==
    /\ pc[u] = "train" /\ job[u] <= Len(plan[u])
    /\ Construct(Pool(u), Job(u).threads)
    /\ GoTo(u, "start")
    /\ next' = [next EXCEPT ![u] = 1]
    /\ ids' = [ids EXCEPT ![u] = <<>>]
    /\ counter' = [counter EXCEPT ![u] = 0]
    /\ total' = [total EXCEPT ![u] = Zero]
    /\ cached' = [cached EXCEPT ![u] = Zero]
    /\ skip_cache' = [skip_cache EXCEPT ![u] = TRUE]
    /\ count_below_eps' = [count_below_eps EXCEPT ![u] = 0]
    /\ answer' = [answer EXCEPT ![u] = NoAnswer]
    /\ reason' = [reason EXCEPT ![u] = "none"]
    /\ UNCHANGED <<plan, job, buffered, accum_mutex, local, seen, program>>

StartThreads(u) ==
    /\ pc[u] = "start" /\ u \notin data_empty
    /\ \/ StartThread(Pool(u)) \/ StartWaits(u, Pool(u))
    /\ UNCHANGED trainingVars

TrainingThrows(u) ==
    /\ pc[u] = "start" /\ u \notin data_empty
    /\ StartThrows(Pool(u))
    /\ GoTo(u, "failed")
    /\ UNCHANGED <<plan, job, next, ids, program>> /\ UNCHANGED <<SolverState, SumState>>

PoolIsReady(u) ==
    /\ pc[u] = "start" /\ object[Pool(u)] = "alive"
    /\ GoTo(u, IF Job(u).kind = "svm" THEN "risk" ELSE "folds")
    /\ UNCHANGED <<plan, job, next, ids, program>> /\ UNCHANGED <<SolverState, SumState>>
    /\ UNCHANGED <<threaderVars, poolVars>>

-------------------------------------------------------------------------------
(* get_risk() and call_separation_oracle_on_all_samples(): the sums start at the *)
(* true vectors, and timing decides whether the workers buffer theirs.           *)
GetRisk(u) ==
    /\ pc[u] = "risk"
    /\ total' = [total EXCEPT ![u] = Zero]
    /\ answer' = [answer EXCEPT ![u] = NoAnswer]
    /\ \E b \in BOOLEAN : buffered' = [buffered EXCEPT ![u] = b]
    /\ next' = [next EXCEPT ![u] = 1]
    /\ GoTo(u, "blocks")
    /\ UNCHANGED <<plan, job, ids, counter, accum_mutex, cached, skip_cache, count_below_eps, reason,
                   local, seen, program>>
    /\ UNCHANGED <<threaderVars, poolVars>>

Least(a, b) == IF a < b THEN a ELSE b

BlockSize(u) ==
    LET wanted == Job(u).samples \div (size[Pool(u)] * ChunksPerThread)
    IN  IF wanted < 1 THEN 1 ELSE wanted

(* parallel_for_blocked(): one block becomes a task (its samples are             *)
(* first..last), once there is a slot for it.                                    *)
AddBlock(u) ==
    LET last == Least(next[u] + BlockSize(u) - 1, Job(u).samples) IN
    /\ pc[u] = "blocks" /\ size[Pool(u)] # 0
    /\ u \notin task_done[Pool(u)]
    /\ next[u] <= Job(u).samples
    /\ IF NoSlotIsEmpty(Pool(u))
       THEN WaitForTaskDone(u, Pool(u)) /\ UNCHANGED next
       ELSE /\ AddTask(u, Pool(u), [first |-> next[u], last |-> last, at |-> next[u]])
            /\ next' = [next EXCEPT ![u] = last + 1]
    /\ UNCHANGED <<plan, pc, job, ids, program>> /\ UNCHANGED <<SolverState, SumState>>

(* wait_for_all_tasks(), and the evaluation is complete.                         *)
AwaitBlocks(u) ==
    /\ pc[u] = "blocks" /\ size[Pool(u)] # 0
    /\ u \notin task_done[Pool(u)]
    /\ next[u] > Job(u).samples
    /\ IF TasksOfCallerUnfinished(u, Pool(u))
       THEN WaitForTaskDone(u, Pool(u)) /\ UNCHANGED pc
       ELSE GoTo(u, "status") /\ UNCHANGED <<threaderVars, poolVars>>
    /\ UNCHANGED <<plan, job, next, ids, program>> /\ UNCHANGED <<SolverState, SumState>>

(* separation_oracle_cached() for sample s of caller u: from the cache if that   *)
(* may be used and is good enough; otherwise the oracle is asked. If its answer  *)
(* is worse than the best one in the cache ("beaten"), that one is used, even    *)
(* with skip_cache; if not, it is used, and mostly kept, at the place of an      *)
(* older one when the cache is full.                                             *)
CacheMayServe(u, s) == ~skip_cache[u] /\ cached[u][s] > 0
Kept(u, s) == {cached[u][s], Least(cached[u][s] + 1, Job(u).cache)}

AskOracle(u, s) ==
    \/ /\ CacheMayServe(u, s)
       /\ answer' = [answer EXCEPT ![u][s] = "cache"]
       /\ UNCHANGED cached
    \/ /\ cached[u][s] > 0
       /\ answer' = [answer EXCEPT ![u][s] = "beaten"]
       /\ UNCHANGED cached
    \/ /\ answer' = [answer EXCEPT ![u][s] = "oracle"]
       /\ \E n \in Kept(u, s) : cached' = [cached EXCEPT ![u][s] = n]

(* A pool without threads: the caller goes through the samples itself.           *)
RunDirectly(u) ==
    /\ pc[u] = "blocks" /\ size[Pool(u)] = 0
    /\ IF next[u] <= Job(u).samples
       THEN /\ AskOracle(u, next[u])
            /\ total' = [total EXCEPT ![u][next[u]] = @ + 1]
            /\ next' = [next EXCEPT ![u] = @ + 1]
            /\ UNCHANGED pc
       ELSE GoTo(u, "status") /\ UNCHANGED <<cached, answer, total, next>>
    /\ UNCHANGED <<plan, job, ids, counter, buffered, accum_mutex, skip_cache, count_below_eps, reason,
                   local, seen, program>>
    /\ UNCHANGED <<threaderVars, poolVars>>

-------------------------------------------------------------------------------
(* oca's loop and optimization_status(). The first evaluation is not looked at.  *)
(* cache_based_eps stays infinite, so that the solver stops when it converges.   *)
Continue(u) == GoTo(u, "risk") /\ counter' = [counter EXCEPT ![u] = @ + 1] /\ UNCHANGED reason
Stop(u, why) == GoTo(u, "shutdown") /\ reason' = [reason EXCEPT ![u] = why] /\ UNCHANGED counter

GapIsSmallAnywhere(u) ==
    /\ Stop(u, "gap")
    /\ skip_cache' = [skip_cache EXCEPT ![u] = FALSE]
    /\ UNCHANGED count_below_eps

GapIsSmall(u) ==
    IF skip_cache[u] \/ Job(u).cache = 0
    THEN /\ Stop(u, "gap")
         /\ skip_cache' = [skip_cache EXCEPT ![u] = FALSE]
         /\ UNCHANGED count_below_eps
    ELSE /\ Continue(u)
         /\ IF count_below_eps[u] + 1 > 1
            THEN /\ skip_cache' = [skip_cache EXCEPT ![u] = TRUE]
                 /\ count_below_eps' = [count_below_eps EXCEPT ![u] = 0]
            ELSE /\ count_below_eps' = [count_below_eps EXCEPT ![u] = @ + 1]
                 /\ UNCHANGED skip_cache

GapIsLarge(u) ==
    /\ Continue(u)
    /\ count_below_eps' = [count_below_eps EXCEPT ![u] = 0]
    /\ skip_cache' = [skip_cache EXCEPT ![u] = FALSE]

OptimizationStatus(u) ==
    /\ pc[u] = "status"
    /\ CASE counter[u] = 0 -> Continue(u) /\ UNCHANGED <<skip_cache, count_below_eps>>
         [] counter[u] # 0 /\ counter[u] >= Job(u).iterations ->
                Stop(u, "max_iterations") /\ UNCHANGED <<skip_cache, count_below_eps>>
         [] OTHER -> GapIsSmall(u) \/ GapIsLarge(u)
    /\ UNCHANGED <<plan, job, next, ids, buffered, cached, program>> /\ UNCHANGED SumState
    /\ UNCHANGED <<threaderVars, poolVars>>

-------------------------------------------------------------------------------
(* cross_validate_trainer_threaded(): a task for each fold, whose id goes into a *)
(* future; without threads it is done at once, and 1 is an id that is over.      *)
AddFold(u) ==
    LET k == Len(ids[u]) + 1
        p == Pool(u)
        i == First(EmptySlots(p))
    IN
    /\ pc[u] = "folds" /\ u \notin task_done[p]
    /\ k <= Job(u).samples
    /\ CASE size[p] = 0 ->
                /\ ids' = [ids EXCEPT ![u] = Append(@, 1)]
                /\ total' = [total EXCEPT ![u][k] = @ + 1]
                /\ UNCHANGED <<threaderVars, poolVars>>
         [] size[p] # 0 /\ NoSlotIsEmpty(p) ->
                WaitForTaskDone(u, p) /\ UNCHANGED <<ids, total>>
         [] OTHER ->
                /\ AddTask(u, p, [first |-> k, last |-> k, at |-> k])
                /\ ids' = [ids EXCEPT ![u] = Append(@, NextTaskId(p, i))]
                /\ UNCHANGED total
    /\ UNCHANGED <<plan, pc, job, next, accum_mutex, answer, local, seen, program>>
    /\ UNCHANGED SolverState

(* The futures are read in order; each waits for its task.                       *)
CollectFold(u) ==
    /\ pc[u] = "folds" /\ u \notin task_done[Pool(u)]
    /\ Len(ids[u]) = Job(u).samples
    /\ IF next[u] > Job(u).samples
       THEN GoTo(u, "shutdown") /\ UNCHANGED next /\ UNCHANGED <<threaderVars, poolVars>>
       ELSE IF TaskIsUnfinished(Pool(u), ids[u][next[u]])
       THEN WaitForTaskDone(u, Pool(u)) /\ UNCHANGED <<pc, next>>
       ELSE /\ next' = [next EXCEPT ![u] = @ + 1]
            /\ UNCHANGED pc /\ UNCHANGED <<threaderVars, poolVars>>
    /\ UNCHANGED <<plan, job, ids, program>> /\ UNCHANGED <<SolverState, SumState>>

-------------------------------------------------------------------------------
(* The problem and its pool go out of scope.                                     *)
ShutdownPool(u) ==
    /\ pc[u] = "shutdown" /\ u \notin task_done[Pool(u)]
    /\ IF SomeTaskUnfinished(Pool(u))
       THEN WaitForTaskDone(u, Pool(u)) /\ UNCHANGED pc
       ELSE TellThreadsToEnd(Pool(u)) /\ GoTo(u, "join")
    /\ UNCHANGED <<plan, job, next, ids, program>> /\ UNCHANGED <<SolverState, SumState>>

JoinPool(u) ==
    /\ pc[u] = "join" /\ u \notin all_gone[Pool(u)]
    /\ \/ WaitForThreads(u, Pool(u)) /\ UNCHANGED <<pc, job>>
       \/ /\ Destroy(Pool(u))
          /\ job' = [job EXCEPT ![u] = @ + 1]
          /\ GoTo(u, IF job[u] = Len(plan[u]) THEN "done" ELSE "train")
    /\ UNCHANGED <<plan, next, ids, program>> /\ UNCHANGED <<SolverState, SumState>>

-------------------------------------------------------------------------------
(* The workers. call_oracle() goes through the samples of its block. A block of  *)
(* one sample is never buffered.                                                 *)
Owner(t) == OwnerOf(running[t])
Working(t) == worker[t] = "work" /\ IsAlive(t)
IsBlock(t) == plan[Owner(t)][running[t][2]].kind = "svm"
Buffers(t) == buffered[Owner(t)] /\ task[t].work.last > task[t].work.first

CallOracle(t) ==
    LET u == Owner(t)
        s == task[t].work.at
    IN
    /\ Working(t) /\ IsBlock(t)
    /\ accum_mutex[u] # t
    /\ s <= task[t].work.last
    /\ local[t] = NoSample \/ Buffers(t)
    /\ AskOracle(u, s)
    /\ local' = [local EXCEPT ![t] = @ \cup {s}]
    /\ task' = [task EXCEPT ![t].work.at = s + 1]
    /\ UNCHANGED <<object, size, tasks, threads_started, dead_threads, we_are_destructing,
                   task_ready, task_done, all_gone, worker, crashed>>
    /\ UNCHANGED <<plan, pc, job, next, ids, counter, buffered, total, accum_mutex, skip_cache,
                   count_below_eps, reason, seen, program>>
    /\ UNCHANGED threaderVars

LockAndRead(t) ==
    LET u == Owner(t) IN
    /\ Working(t) /\ IsBlock(t)
    /\ local[t] # NoSample
    /\ ~Buffers(t) \/ task[t].work.at > task[t].work.last
    /\ accum_mutex[u] = NoThread
    /\ accum_mutex' = [accum_mutex EXCEPT ![u] = t]
    /\ seen' = [seen EXCEPT ![t] = total[u]]
    /\ UNCHANGED <<plan, pc, job, next, ids, total, answer, local, program>> /\ UNCHANGED SolverState
    /\ UNCHANGED <<threaderVars, poolVars>>

AddAndUnlock(t) ==
    LET u == Owner(t) IN
    /\ Working(t) /\ accum_mutex[u] = t
    /\ total' = [total EXCEPT ![u] =
           [s \in Samples |-> IF s \in local[t] THEN seen[t][s] + 1 ELSE seen[t][s]]]
    /\ accum_mutex' = [accum_mutex EXCEPT ![u] = NoThread]
    /\ local' = [local EXCEPT ![t] = NoSample]
    /\ seen' = [seen EXCEPT ![t] = Zero]
    /\ worker' = [worker EXCEPT ![t] = IF task[t].work.at > task[t].work.last THEN "clear" ELSE @]
    /\ UNCHANGED <<object, size, tasks, threads_started, dead_threads, we_are_destructing,
                   task_ready, task_done, all_gone, task, crashed>>
    /\ UNCHANGED <<plan, pc, job, next, ids, answer, program>> /\ UNCHANGED SolverState
    /\ UNCHANGED threaderVars

RunFold(t) ==
    LET u == Owner(t) IN
    /\ Working(t) /\ ~IsBlock(t)
    /\ total' = [total EXCEPT ![u][task[t].work.first] = @ + 1]
    /\ worker' = [worker EXCEPT ![t] = "clear"]
    /\ UNCHANGED <<object, size, tasks, threads_started, dead_threads, we_are_destructing,
                   task_ready, task_done, all_gone, task, crashed>>
    /\ UNCHANGED <<plan, pc, job, next, ids, accum_mutex, answer, local, seen, program>>
    /\ UNCHANGED SolverState
    /\ UNCHANGED threaderVars

-------------------------------------------------------------------------------
CallersEnded == \A u \in Callers : pc[u] \in {"done", "failed"}

(* main() returns, and global objects are destroyed, the threader among them if  *)
(* destruct_if_ready() deletes it.                                               *)
MainReturns ==
    /\ program = "running" /\ CallersEnded
    /\ DestructIfReady
    /\ program' = IF destruct' THEN "closing" ELSE "ended"
    /\ UNCHANGED poolVars
    /\ UNCHANGED <<plan, pc, job, next, ids>> /\ UNCHANGED <<SolverState, SumState>>

DeleteThreader ==
    /\ program = "closing"
    /\ DestroyThreader
    /\ program' = IF total_count > 0 THEN "awaiting" ELSE "ended"
    /\ UNCHANGED poolVars
    /\ UNCHANGED <<plan, pc, job, next, ids>> /\ UNCHANGED <<SolverState, SumState>>

ThreaderIsGone ==
    /\ program = "awaiting" /\ destructed = {}
    /\ IF total_count > 0
       THEN AwaitThreads /\ UNCHANGED program
       ELSE program' = "ended" /\ UNCHANGED threaderVars
    /\ UNCHANGED poolVars
    /\ UNCHANGED <<plan, pc, job, next, ids>> /\ UNCHANGED <<SolverState, SumState>>

-------------------------------------------------------------------------------
GoesOn == ~crashed /\ program # "ended"

CallerStep(u) ==
    /\ GoesOn
    /\ \/ StartJob(u) \/ StartThreads(u) \/ TrainingThrows(u) \/ PoolIsReady(u)
       \/ GetRisk(u) \/ AddBlock(u) \/ AwaitBlocks(u) \/ RunDirectly(u) \/ OptimizationStatus(u)
       \/ AddFold(u) \/ CollectFold(u) \/ ShutdownPool(u) \/ JoinPool(u)

ThreadStep(t) ==
    /\ GoesOn
    /\ \/ /\ \/ ThreadTakesPool(t) \/ ThreadHelper(t) \/ FetchTask(t) \/ ThreadEnds(t)
             \/ ClearSlot(t) \/ LeavePool(t) \/ Crash(t)
             \/ (WaitForWork(t) \/ Leave(t)) /\ UNCHANGED poolVars
          /\ UNCHANGED trainingVars
       \/ CallOracle(t) \/ LockAndRead(t) \/ AddAndUnlock(t) \/ RunFold(t)

(* What happens only sometimes.                                                  *)
WaitEndsEarly ==
    /\ GoesOn
    /\ \/ (\E t \in Threads : WaitEnds(t)) /\ UNCHANGED poolVars
       \/ WaitForDestructedEnds /\ UNCHANGED poolVars
       \/ (\E u \in Callers : WaitForEmptyEnds(u)) /\ UNCHANGED poolVars
       \/ SpuriousWakeup
    /\ UNCHANGED trainingVars

Exit == GoesOn /\ (MainReturns \/ DeleteThreader \/ ThreaderIsGone)

Next ==
    \/ \E u \in Callers : CallerStep(u)
    \/ \E t \in Threads : ThreadStep(t)
    \/ WaitEndsEarly
    \/ Exit
    \/ ~GoesOn /\ UNCHANGED vars

(* The scheduler lets every thread that can run, run, and a mutex that is free   *)
(* again and again is obtained. Nothing is assumed of time outs and of waits     *)
(* that end early: no progress may depend on them.                               *)
Fairness ==
    /\ \A u \in Callers : WF_vars(CallerStep(u))
    /\ \A t \in Threads : WF_vars(ThreadStep(t))
    /\ WF_vars(Exit)

Spec == Init /\ [][Next]_vars /\ Fairness
-------------------------------------------------------------------------------
(* When an evaluation is over, each sample is in the sums exactly once, whoever  *)
(* worked on it, buffered or not; a future that was read holds its fold's        *)
(* result. (A sample lost or counted twice shows in no error: the model is       *)
(* trained on other data than it was given.)                                     *)
EverySampleCountsOnce ==
    \A u \in Callers :
        /\ pc[u] = "status" => \A s \in 1..Job(u).samples : total[u][s] = 1
        /\ pc[u] = "folds" /\ Len(ids[u]) = Job(u).samples =>
               \A s \in 1..(next[u] - 1) : total[u][s] = 1

(* A task works on objects of its caller's stack frame (the binder with the      *)
(* vectors, the jobs behind the futures): the frame is left only when no worker  *)
(* is in a task any more.                                                        *)
NoTaskOutlivesItsCall ==
    \A t \in Threads : worker[t] = "work" =>
        pc[Owner(t)] = IF IsBlock(t) THEN "blocks" ELSE "folds"

(* ~multithreaded_object() asserts that no thread of it is alive. This is so of  *)
(* every pool that was ever used, and not of one whose constructor threw:        *)
(* start() leaves the threads behind that it could start.                        *)
PoolOutlivesItsThreads ==
    /\ \A t \in Threads : worker[t] # "outside" => object[running[t]] # "destroyed"
    /\ crashed => \E u \in Callers : pc[u] = "failed"

(* optimization_status(): "Only stop when we see that the risk gap is small      *)
(* enough on a non-cached iteration." Whoever set skip_cache, and whatever the   *)
(* workers found in the caches, the gap the solver stops on is of an evaluation  *)
(* that asked the oracle about every sample. (Of a sample whose oracle was       *)
(* beaten, a cached vector is in the sums: one of a larger risk.)                *)
StopsOnTrueOracle ==
    \A u \in Callers :
        reason[u] = "gap" /\ pc[u] \in {"shutdown", "join"} =>
            \A s \in 1..Job(u).samples : answer[u][s] \in {"oracle", "beaten"}

(* Training ends, and so does the program. No signal is lost between add_task(), *)
(* the workers, and those who wait for tasks, for slots, for threads to end or    *)
(* for function_pointer; nor between the threads that leave and ~threader(),      *)
(* which sleeps until the last of them has.                                       *)
ProgramEnds == <>(program = "ended" \/ crashed)
===============================================================================
