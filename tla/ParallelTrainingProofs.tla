------------------------ MODULE ParallelTrainingProofs ------------------------
(* The threader by itself, whatever its clients do, and under ParallelTraining:  *)
(* for any number of callers, threads, samples and jobs the pools keep to its    *)
(* rules, and outlive their threads. Then what the threads do with their tasks,  *)
(* in three invariants, each on top of the one before it: where tasks are        *)
(* (TasksInv), what has been added up (SumsInv), and which answers were cached   *)
(* (CacheInv).                                                                   *)
EXTENDS ParallelTraining, FiniteSetTheorems, SequenceTheorems, WellFoundedInduction, TLAPS

-------------------------------------------------------------------------------
(* The counters of the threader, for any number of threads and functions: each   *)
(* step of thread_starter() moves one thread between the states, and the         *)
(* counters are moved by the same step. That is so because every stretch between *)
(* two waits runs under data_mutex: whether pool_count is raised and lowered     *)
(* again (a thread that finds a function as it comes in), or lowered on the way  *)
(* out, decides with os[t] alone.                                                *)
PoolStates == {"waiting", "awake", "timedout"}

Present == {t \in Threads : os[t] # "absent"}

ThreaderTypeOK ==
    /\ function_pointer \in Functions \cup {NoFunction}
    /\ pool_count \in Nat
    /\ total_count \in Nat
    /\ os \in [Threads -> OsStates]
    /\ running \in [Threads -> Functions \cup {NoFunction}]

(* Who runs has a function, and who has a function runs.                         *)
RunningIsRunning == \A t \in Threads : running[t] # NoFunction <=> os[t] = "running"

ThreaderInv == ThreaderTypeOK /\ RunningIsRunning /\ CountsAreRight

-------------------------------------------------------------------------------
(* A thread that changes its state changes both counts by one at most.           *)
LEMMA OneThreadMoves ==
    ASSUME ThreaderTypeOK, NEW t \in Threads, NEW new \in OsStates,
           os' = [os EXCEPT ![t] = new]
    PROVE  /\ Cardinality(InPool) \in Nat /\ Cardinality(Present) \in Nat
           /\ Cardinality(InPool)' \in Nat /\ Cardinality(Present)' \in Nat
           /\ os[t] \in PoolStates => Cardinality(InPool) >= 1
           /\ os[t] # "absent" => Cardinality(Present) >= 1
           /\ os[t] \in PoolStates /\ new \notin PoolStates =>
                  Cardinality(InPool)' = Cardinality(InPool) - 1
           /\ os[t] \notin PoolStates /\ new \in PoolStates =>
                  Cardinality(InPool)' = Cardinality(InPool) + 1
           /\ (os[t] \in PoolStates <=> new \in PoolStates) =>
                  Cardinality(InPool)' = Cardinality(InPool)
           /\ os[t] # "absent" /\ new = "absent" =>
                  Cardinality(Present)' = Cardinality(Present) - 1
           /\ os[t] = "absent" /\ new # "absent" =>
                  Cardinality(Present)' = Cardinality(Present) + 1
           /\ (os[t] = "absent" <=> new = "absent") =>
                  Cardinality(Present)' = Cardinality(Present)
<1>1. IsFiniteSet(InPool) /\ IsFiniteSet(Present)
    BY ThreaderAssumption, FS_Subset DEF InPool, Present
<1>2. os \in [Threads -> OsStates]
    BY DEF ThreaderTypeOK
<1>3. /\ t \in InPool <=> os[t] \in PoolStates
      /\ t \in Present <=> os[t] # "absent"
    BY DEF InPool, Present, PoolStates
<1>4. /\ InPool' = IF new \in PoolStates THEN InPool \cup {t} ELSE InPool \ {t}
      /\ Present' = IF new # "absent" THEN Present \cup {t} ELSE Present \ {t}
    BY <1>2 DEF InPool, Present, PoolStates
<1>5. /\ Cardinality(InPool) \in Nat /\ Cardinality(Present) \in Nat
    BY <1>1, FS_CardinalityType
<1>6. /\ Cardinality(InPool \cup {t}) = IF t \in InPool THEN Cardinality(InPool) ELSE Cardinality(InPool) + 1
      /\ Cardinality(Present \cup {t}) = IF t \in Present THEN Cardinality(Present) ELSE Cardinality(Present) + 1
    BY <1>1, FS_AddElement
<1>7. /\ Cardinality(InPool \ {t}) = IF t \in InPool THEN Cardinality(InPool) - 1 ELSE Cardinality(InPool)
      /\ Cardinality(Present \ {t}) = IF t \in Present THEN Cardinality(Present) - 1 ELSE Cardinality(Present)
    BY <1>1, FS_RemoveElement
<1>8. /\ t \in InPool => Cardinality(InPool) >= 1
      /\ t \in Present => Cardinality(Present) >= 1
    BY <1>1, <1>5, FS_EmptySet
<1>9. /\ Cardinality(InPool)' = Cardinality(InPool')
      /\ Cardinality(Present)' = Cardinality(Present')
    OBVIOUS
<1>10. IsFiniteSet(InPool') /\ IsFiniteSet(Present')
    BY <1>1, <1>4, FS_AddElement, FS_RemoveElement
<1>11. Cardinality(InPool)' \in Nat /\ Cardinality(Present)' \in Nat
    BY <1>9, <1>10, FS_CardinalityType
<1> QED
    BY <1>11, <1>3, <1>4, <1>5, <1>6, <1>7, <1>8, <1>9

LEMMA ThreaderInvInit == ThreaderInit => ThreaderInv
<1> SUFFICES ASSUME ThreaderInit PROVE ThreaderInv
    OBVIOUS
<1>1. ThreaderTypeOK /\ RunningIsRunning
    BY DEF ThreaderInit, ThreaderTypeOK, RunningIsRunning, OsStates
<1>2. InPool = {} /\ Present = {}
    BY DEF ThreaderInit, InPool, Present
<1>3. CountsAreRight
    BY <1>2, FS_EmptySet DEF ThreaderInit, CountsAreRight, Present
<1> QED
    BY <1>1, <1>3 DEF ThreaderInv

(* The three ways out of a stretch of thread_starter(), and the two ways into    *)
(* one.                                                                          *)
LEMMA ThreadKeeps ==
    ASSUME ThreaderInv, NEW t \in Threads, ThreadStarter(t) \/ Return(t) \/ WaitEnds(t)
    PROVE  ThreaderInv'
<1>1. /\ ThreaderTypeOK /\ RunningIsRunning
      /\ pool_count = Cardinality(InPool) /\ total_count = Cardinality(Present)
      /\ pool_count \in Nat /\ total_count \in Nat
    BY DEF ThreaderInv, ThreaderTypeOK, CountsAreRight, Present
<1>2. ASSUME NEW new \in OsStates, os' = [os EXCEPT ![t] = new],
             function_pointer' \in Functions \cup {NoFunction},
             running' \in [Threads -> Functions \cup {NoFunction}],
             pool_count' = Cardinality(InPool)', total_count' = Cardinality(Present)',
             \A u \in Threads \ {t} : running'[u] = running[u],
             running'[t] # NoFunction <=> new = "running"
      PROVE  ThreaderInv'
    <2>1. pool_count' \in Nat /\ total_count' \in Nat
        BY <1>1, <1>2, OneThreadMoves
    <2>2. ThreaderTypeOK'
        BY <1>1, <1>2, <2>1 DEF ThreaderTypeOK
    <2>3. RunningIsRunning'
        BY <1>1, <1>2 DEF ThreaderTypeOK, RunningIsRunning
    <2>4. CountsAreRight'
        BY <1>2 DEF CountsAreRight, Present
    <2> QED
        BY <2>2, <2>3, <2>4 DEF ThreaderInv
<1>3. CASE TakeFunction(t)
    <2>1. /\ os' = [os EXCEPT ![t] = "running"] /\ "running" \in OsStates
          /\ running' = [running EXCEPT ![t] = function_pointer]
          /\ function_pointer # NoFunction /\ function_pointer' = NoFunction
          /\ total_count' = total_count
          /\ pool_count' = CountWith(t) - 1
          /\ os[t] \in {"born", "awake", "timedout", "returned"}
        BY <1>3 DEF TakeFunction, OsStates, HoldsMutex
    <2>2. pool_count' = Cardinality(InPool)' /\ total_count' = Cardinality(Present)'
        <3>1. CountWith(t) = IF os[t] \in PoolStates THEN pool_count ELSE pool_count + 1
            BY <2>1 DEF CountWith, PoolStates
        <3>2. "running" \notin PoolStates
            BY DEF PoolStates
        <3>3. Cardinality(InPool)' = IF os[t] \in PoolStates THEN pool_count - 1 ELSE pool_count
            BY <1>1, <2>1, <3>2, OneThreadMoves
        <3>4. total_count' = Cardinality(Present)'
            BY <1>1, <2>1, OneThreadMoves
        <3> QED
            BY <1>1, <2>1, <3>1, <3>3, <3>4
    <2> QED
        BY <1>1, <1>2, <2>1, <2>2 DEF ThreaderTypeOK
<1>4. CASE WaitForWork(t)
    <2>1. /\ os' = [os EXCEPT ![t] = "waiting"] /\ "waiting" \in OsStates
          /\ running' = running /\ function_pointer' = function_pointer
          /\ total_count' = total_count
          /\ pool_count' = CountWith(t)
          /\ os[t] \in {"born", "awake", "timedout", "returned"}
        BY <1>4 DEF WaitForWork, OsStates, HoldsMutex
    <2>2. pool_count' = Cardinality(InPool)' /\ total_count' = Cardinality(Present)'
        BY <1>1, <2>1, OneThreadMoves DEF CountWith, PoolStates
    <2>3. running[t] = NoFunction
        BY <1>1, <2>1 DEF RunningIsRunning
    <2> QED
        BY <1>1, <1>2, <2>1, <2>2, <2>3 DEF ThreaderTypeOK
<1>5. CASE Leave(t)
    <2>1. /\ os' = [os EXCEPT ![t] = "absent"] /\ "absent" \in OsStates
          /\ running' = running /\ function_pointer' = function_pointer
          /\ total_count' = total_count - 1
          /\ pool_count' = CountWith(t) - 1
          /\ os[t] \in {"born", "awake", "timedout", "returned"}
        BY <1>5 DEF Leave, OsStates, HoldsMutex
    <2>2. pool_count' = Cardinality(InPool)' /\ total_count' = Cardinality(Present)'
        <3>1. CountWith(t) = IF os[t] \in PoolStates THEN pool_count ELSE pool_count + 1
            BY <2>1 DEF CountWith, PoolStates
        <3>2. "absent" \notin PoolStates
            BY DEF PoolStates
        <3>3. Cardinality(InPool)' = IF os[t] \in PoolStates THEN pool_count - 1 ELSE pool_count
            BY <1>1, <2>1, <3>2, OneThreadMoves
        <3>4. total_count' = Cardinality(Present)'
            BY <1>1, <2>1, OneThreadMoves
        <3> QED
            BY <1>1, <2>1, <3>1, <3>3, <3>4
    <2>3. running[t] = NoFunction
        BY <1>1, <2>1 DEF RunningIsRunning
    <2> QED
        BY <1>1, <1>2, <2>1, <2>2, <2>3 DEF ThreaderTypeOK
<1>6. CASE Return(t)
    <2>1. /\ os' = [os EXCEPT ![t] = "returned"] /\ "returned" \in OsStates
          /\ running' = [running EXCEPT ![t] = NoFunction]
          /\ UNCHANGED <<function_pointer, total_count, pool_count>>
          /\ os[t] = "running"
        BY <1>6 DEF Return, OsStates
    <2>2. pool_count' = Cardinality(InPool)' /\ total_count' = Cardinality(Present)'
        BY <1>1, <2>1, OneThreadMoves DEF PoolStates
    <2> QED
        BY <1>1, <1>2, <2>1, <2>2 DEF ThreaderTypeOK
<1>7. CASE WaitEnds(t)
    <2>1. PICK new \in {"timedout", "awake"} : os' = [os EXCEPT ![t] = new]
        BY <1>7 DEF WaitEnds
    <2>2. /\ new \in OsStates /\ new \in PoolStates /\ new # "running" /\ new # "absent"
          /\ UNCHANGED <<function_pointer, total_count, pool_count, running>>
          /\ os[t] = "waiting"
        BY <1>7 DEF WaitEnds, OsStates, PoolStates
    <2>3. pool_count' = Cardinality(InPool)' /\ total_count' = Cardinality(Present)'
        BY <1>1, <2>1, <2>2, OneThreadMoves DEF PoolStates
    <2>4. running[t] = NoFunction
        BY <1>1, <2>2 DEF RunningIsRunning
    <2> QED
        BY <1>1, <1>2, <2>1, <2>2, <2>3, <2>4 DEF ThreaderTypeOK
<1> QED
    BY <1>3, <1>4, <1>5, <1>6, <1>7 DEF ThreadStarter

(* create_new_thread() spawns a thread only if none is in the pool, and wakes    *)
(* one that stays in the pool otherwise.                                         *)
LEMMA HandOverKeeps ==
    ASSUME ThreaderInv, NEW f \in Functions, HandOver(f)
    PROVE  ThreaderInv'
<1>1. /\ ThreaderTypeOK /\ RunningIsRunning
      /\ pool_count = Cardinality(InPool) /\ total_count = Cardinality(Present)
      /\ pool_count \in Nat /\ total_count \in Nat
    BY DEF ThreaderInv, ThreaderTypeOK, CountsAreRight, Present
<1>2. function_pointer' = f /\ UNCHANGED <<pool_count, running>>
    BY DEF HandOver
<1>3. CASE UNCHANGED os /\ UNCHANGED total_count
    BY <1>1, <1>2, <1>3
    DEF ThreaderInv, ThreaderTypeOK, RunningIsRunning, CountsAreRight, InPool
<1>4. ASSUME NEW t \in Threads, NEW new \in OsStates, os' = [os EXCEPT ![t] = new],
             \/ os[t] = "absent" /\ new = "born" /\ total_count' = total_count + 1
             \/ os[t] = "waiting" /\ new = "awake" /\ total_count' = total_count
      PROVE  ThreaderInv'
    <2>1. pool_count' = Cardinality(InPool)' /\ total_count' = Cardinality(Present)'
        BY <1>1, <1>2, <1>4, OneThreadMoves DEF PoolStates
    <2>2. ThreaderTypeOK'
        BY <1>1, <1>2, <1>4 DEF ThreaderTypeOK
    <2>3. RunningIsRunning'
        BY <1>1, <1>2, <1>4 DEF ThreaderTypeOK, RunningIsRunning
    <2> QED
        BY <2>1, <2>2, <2>3 DEF ThreaderInv, CountsAreRight, Present
<1>5. ASSUME \E t \in Threads : os[t] = "absent",
             os' = [os EXCEPT ![CHOOSE x \in Threads : os[x] = "absent"] = "born"],
             total_count' = total_count + 1
      PROVE  ThreaderInv'
    <2> DEFINE t == CHOOSE x \in Threads : os[x] = "absent"
    <2>1. t \in Threads /\ os[t] = "absent"
        BY <1>5
    <2>2. os' = [os EXCEPT ![t] = "born"]
        BY <1>5
    <2> HIDE DEF t
    <2> QED
        BY <1>4, <1>5, <2>1, <2>2 DEF OsStates
<1>6. ASSUME NEW t \in Threads, os[t] = "waiting", os' = [os EXCEPT ![t] = "awake"],
             UNCHANGED total_count
      PROVE  ThreaderInv'
    BY <1>4, <1>6 DEF OsStates
<1> QED
    BY <1>3, <1>5, <1>6 DEF HandOver

(* Whoever destroys the threader wakes those who wait, and moves nobody else.    *)
LEMMA DestructKeeps == ThreaderInv /\ (DestructIfReady \/ DestroyThreader) => ThreaderInv'
<1> SUFFICES ASSUME ThreaderInv, DestructIfReady \/ DestroyThreader PROVE ThreaderInv'
    OBVIOUS
<1>1. /\ UNCHANGED <<function_pointer, pool_count, total_count, running>>
      /\ os' \in [Threads -> OsStates]
      /\ \A t \in Threads : os'[t] = os[t] \/ (os[t] = "waiting" /\ os'[t] = "awake")
    BY DEF DestructIfReady, DestroyThreader, AllAwake, ThreaderInv, ThreaderTypeOK, OsStates
<1>2. InPool' = InPool /\ {t \in Threads : os[t] # "absent"}' = {t \in Threads : os[t] # "absent"}
    BY <1>1 DEF InPool
<1> QED
    BY <1>1, <1>2 DEF ThreaderInv, ThreaderTypeOK, RunningIsRunning, CountsAreRight

LEMMA ThreaderStep == ThreaderInv /\ [ThreaderNext]_threaderVars => ThreaderInv'
<1> SUFFICES ASSUME ThreaderInv, [ThreaderNext]_threaderVars PROVE ThreaderInv'
    OBVIOUS
<1>1. CASE UNCHANGED <<function_pointer, pool_count, total_count, os, running>>
    BY <1>1 DEF ThreaderInv, ThreaderTypeOK, RunningIsRunning, CountsAreRight, InPool
<1>2. ASSUME NEW u \in Callers, WaitUntilEmpty(u) \/ WaitForEmptyEnds(u)
      PROVE  UNCHANGED <<function_pointer, pool_count, total_count, os, running>>
    BY <1>2 DEF WaitUntilEmpty, WaitForEmptyEnds
<1>3. SpawnFails \/ AwaitThreads \/ WaitForDestructedEnds \/ UNCHANGED threaderVars =>
          UNCHANGED <<function_pointer, pool_count, total_count, os, running>>
    BY DEF SpawnFails, AwaitThreads, WaitForDestructedEnds, threaderVars
<1> QED
    BY <1>1, <1>2, <1>3, ThreadKeeps, HandOverKeeps, DestructKeeps DEF ThreaderNext

(* For any number of threads, and whatever functions are handed over, time out,  *)
(* come back or are refused: pool_count and total_count count what they say.     *)
THEOREM CountsStayRight == ThreaderSpec => []CountsAreRight
<1>1. ThreaderInv => CountsAreRight
    BY DEF ThreaderInv
<1> QED
    BY <1>1, ThreaderInvInit, ThreaderStep, PTL DEF ThreaderSpec

LEMMA ThreaderInvariant == ThreaderSpec => []ThreaderInv
BY ThreaderInvInit, ThreaderStep, PTL DEF ThreaderSpec

-------------------------------------------------------------------------------
(* Somebody is on the way to the function that was put down.                     *)
SomebodyComes == function_pointer # NoFunction => \E t \in Threads : HoldsMutex(t)

(* While the threader is not being destroyed, somebody keeps coming: a signal    *)
(* that goes nowhere goes nowhere because whoever is in the pool is already      *)
(* awake, or timed out, and who timed out looks at function_pointer again.       *)
LEMMA SomebodyKeepsComing ==
    ASSUME ThreaderInv, SomebodyComes, function_pointer # NoFunction => ~destruct,
           [ThreaderNext]_threaderVars
    PROVE  SomebodyComes'
<1>1. /\ pool_count = Cardinality(InPool) /\ pool_count \in Nat
      /\ os \in [Threads -> OsStates]
    BY DEF ThreaderInv, ThreaderTypeOK, CountsAreRight
<1>2. CASE UNCHANGED <<function_pointer, os>>
    BY <1>2 DEF SomebodyComes, HoldsMutex
<1>3. ASSUME NEW f \in Functions, HandOver(f)
      PROVE  SomebodyComes'
    <2>1. CASE pool_count = 0
        <3>1. /\ \E t \in Threads : os[t] = "absent"
              /\ os' = [os EXCEPT ![CHOOSE x \in Threads : os[x] = "absent"] = "born"]
            BY <1>3, <2>1 DEF HandOver
        <3> DEFINE t == CHOOSE x \in Threads : os[x] = "absent"
        <3>2. t \in Threads
            BY <3>1
        <3>3. os' = [os EXCEPT ![t] = "born"]
            BY <3>1
        <3> HIDE DEF t
        <3>4. os'[t] = "born"
            BY <1>1, <3>2, <3>3
        <3> QED
            BY <3>2, <3>4 DEF SomebodyComes, HoldsMutex
    <2>2. CASE pool_count # 0
        <3>1. InPool # {}
            BY <1>1, <2>2, FS_EmptySet
        <3>2. PICK t \in Threads : os[t] \in {"waiting", "awake", "timedout"}
            BY <3>1 DEF InPool
        <3>3. CASE \E w \in Threads : os[w] = "waiting" /\ os' = [os EXCEPT ![w] = "awake"]
            <4>1. \E w \in Threads : os'[w] = "awake"
                BY <1>1, <3>3
            <4> QED
                BY <4>1 DEF SomebodyComes, HoldsMutex
        <3>4. CASE {w \in Threads : os[w] = "waiting"} = {} /\ UNCHANGED os
            <4>1. os'[t] \in {"awake", "timedout"}
                BY <3>2, <3>4
            <4> QED
                BY <4>1 DEF SomebodyComes, HoldsMutex
        <3> QED
            BY <1>3, <2>2, <3>3, <3>4 DEF HandOver
    <2> QED
        BY <2>1, <2>2
<1>4. ASSUME NEW t \in Threads, ThreadStarter(t)
      PROVE  SomebodyComes'
    <2>1. ThreadStarter(t) => function_pointer' = NoFunction
        BY <1>4 DEF ThreadStarter, TakeFunction, WaitForWork, Leave, Leaves
    <2> QED
        BY <1>4, <2>1 DEF SomebodyComes
<1>5. ASSUME NEW t \in Threads, NEW new \in {"returned", "timedout", "awake"},
             os' = [os EXCEPT ![t] = new], UNCHANGED function_pointer
      PROVE  SomebodyComes'
    <2>1. os'[t] = new
        BY <1>1, <1>5
    <2> QED
        BY <1>5, <2>1 DEF SomebodyComes, HoldsMutex
<1>6. ASSUME NEW t \in Threads, Return(t) \/ WaitEnds(t)
      PROVE  SomebodyComes'
    BY <1>5, <1>6 DEF Return, WaitEnds
<1>7. CASE DestructIfReady \/ DestroyThreader
    <2>1. /\ UNCHANGED function_pointer
          /\ \A t \in Threads : os'[t] = os[t] \/ os'[t] = "awake"
        BY <1>1, <1>7 DEF DestructIfReady, DestroyThreader, AllAwake
    <2> QED
        BY <2>1 DEF SomebodyComes, HoldsMutex
<1>8. ASSUME NEW u \in Callers, WaitUntilEmpty(u) \/ WaitForEmptyEnds(u)
      PROVE  UNCHANGED <<function_pointer, os>>
    BY <1>8 DEF WaitUntilEmpty, WaitForEmptyEnds
<1>9. SpawnFails \/ AwaitThreads \/ WaitForDestructedEnds \/ UNCHANGED threaderVars
          => UNCHANGED <<function_pointer, os>>
    BY DEF SpawnFails, AwaitThreads, WaitForDestructedEnds, threaderVars
<1> QED
    BY <1>2, <1>3, <1>4, <1>6, <1>7, <1>8, <1>9 DEF ThreaderNext

-------------------------------------------------------------------------------
(* ParallelTraining: where callers are, and what of that the threader relies on. *)
InJob == {"start", "risk", "blocks", "status", "folds", "shutdown", "join"}

PositionsOK ==
    /\ plan \in Plans
    /\ pc \in [Callers -> InJob \cup {"train", "done", "failed"}]
    /\ job \in [Callers -> Nat]
    /\ \A u \in Callers : pc[u] # "done" => job[u] \in 1..Len(plan[u])

-------------------------------------------------------------------------------
LEMMA PoolType ==
    ASSUME PositionsOK, NEW u \in Callers, pc[u] # "done"
    PROVE  Pool(u) \in Pools
BY PlanAssumption DEF PositionsOK, Pool, Pools

(* What the steps do to the place of a caller.                                   *)
LEMMA CallerMoves ==
    ASSUME NEW u \in Callers, CallerStep(u)
    PROVE  /\ UNCHANGED <<plan, program>>
           /\ \/ UNCHANGED <<pc, job>>
              \/ /\ UNCHANGED job
                 /\ \E step \in InJob \cup {"failed"} : pc' = [pc EXCEPT ![u] = step]
                 /\ pc[u] # "done"
              \/ /\ pc[u] = "join"
                 /\ job' = [job EXCEPT ![u] = @ + 1]
                 /\ pc' = [pc EXCEPT ![u] = IF job[u] = Len(plan[u]) THEN "done" ELSE "train"]
<1> USE DEF GoTo, InJob
<1>1. CASE StartJob(u)
    BY <1>1 DEF StartJob
<1>2. CASE StartThreads(u)
    BY <1>2 DEF StartThreads, trainingVars
<1>3. CASE TrainingThrows(u)
    BY <1>3 DEF TrainingThrows
<1>4. CASE PoolIsReady(u)
    BY <1>4 DEF PoolIsReady
<1>5. CASE GetRisk(u)
    BY <1>5 DEF GetRisk
<1>6. CASE AddBlock(u)
    BY <1>6 DEF AddBlock
<1>7. CASE AwaitBlocks(u)
    BY <1>7 DEF AwaitBlocks
<1>8. CASE RunDirectly(u)
    BY <1>8 DEF RunDirectly
<1>9. CASE OptimizationStatus(u)
    BY <1>9 DEF OptimizationStatus, Continue, Stop, GapIsSmall, GapIsLarge
<1>10. CASE AddFold(u)
    BY <1>10 DEF AddFold
<1>11. CASE CollectFold(u)
    BY <1>11 DEF CollectFold
<1>12. CASE ShutdownPool(u)
    BY <1>12 DEF ShutdownPool
<1>13. CASE JoinPool(u)
    BY <1>13 DEF JoinPool
<1> QED
    BY <1>1, <1>2, <1>3, <1>4, <1>5, <1>6, <1>7, <1>8, <1>9, <1>10, <1>11, <1>12, <1>13
    DEF CallerStep

LEMMA OthersStay ==
    ASSUME (\E t \in Threads : ThreadStep(t)) \/ WaitEndsEarly \/ Exit \/ UNCHANGED vars
    PROVE  UNCHANGED <<plan, pc, job>>
<1>1. ASSUME NEW t \in Threads, ThreadStep(t)
      PROVE  UNCHANGED <<plan, pc, job>>
    BY <1>1 DEF ThreadStep, CallOracle, LockAndRead, AddAndUnlock, RunFold, trainingVars
<1> QED
    BY <1>1 DEF WaitEndsEarly, Exit, MainReturns, DeleteThreader, ThreaderIsGone, vars, trainingVars

LEMMA PositionsStep == PositionsOK /\ [Next]_vars => PositionsOK'
<1> SUFFICES ASSUME PositionsOK, [Next]_vars PROVE PositionsOK'
    OBVIOUS
<1>1. CASE UNCHANGED <<plan, pc, job>>
    BY <1>1 DEF PositionsOK
<1>2. ASSUME NEW u \in Callers, CallerStep(u)
      PROVE  PositionsOK'
    <2>1. \A v \in Callers : Len(plan[v]) \in Nat
        BY PlanAssumption DEF PositionsOK
    <2> QED
        BY <1>2, <2>1, CallerMoves DEF PositionsOK, InJob
<1> QED
    BY <1>1, <1>2, OthersStay DEF Next

LEMMA PositionsInit == Init => PositionsOK
<1> SUFFICES ASSUME Init PROVE PositionsOK
    OBVIOUS
<1>1. \A u \in Callers : plan[u] \in Seq([kind : {"svm", "folds"}, threads : Nat, samples : Samples,
                                     cache : Nat, iterations : Nat])
    BY PlanAssumption DEF Init
<1>2. \A u \in Callers : plan[u] # <<>> => Len(plan[u]) \in Nat /\ Len(plan[u]) >= 1
    BY <1>1
<1> QED
    BY <1>2 DEF Init, PositionsOK

-------------------------------------------------------------------------------
(* Of the callers' steps, two change the threader: start() does, when it hands   *)
(* over a thread, waits, or throws.                                              *)
LEMMA CallersAndTheThreader ==
    ASSUME PositionsOK, NEW u \in Callers, CallerStep(u)
    PROVE  \/ UNCHANGED threaderVars
           \/ StartThreads(u) \/ TrainingThrows(u)
<1> USE DEF Construct, AddTask, WaitForTaskDone, TellThreadsToEnd, WaitForThreads, Destroy
<1>1. StartJob(u) \/ PoolIsReady(u) \/ GetRisk(u) \/ RunDirectly(u) \/ OptimizationStatus(u)
          => UNCHANGED threaderVars
    BY DEF StartJob, PoolIsReady, GetRisk, RunDirectly, OptimizationStatus
<1>2. AddBlock(u) \/ AwaitBlocks(u) \/ AddFold(u) \/ CollectFold(u) => UNCHANGED threaderVars
    BY DEF AddBlock, AwaitBlocks, AddFold, CollectFold
<1>3. ShutdownPool(u) \/ JoinPool(u) => UNCHANGED threaderVars
    BY DEF ShutdownPool, JoinPool
<1> QED
    BY <1>1, <1>2, <1>3 DEF CallerStep

LEMMA ThreadsAndTheThreader ==
    ASSUME NEW t \in Threads, ThreadStep(t)
    PROVE  UNCHANGED threaderVars \/ ThreadStarter(t) \/ Return(t)
<1>1. ThreadHelper(t) \/ FetchTask(t) \/ ThreadEnds(t) \/ ClearSlot(t) \/ Crash(t)
          => UNCHANGED threaderVars
    BY DEF ThreadHelper, FetchTask, ThreadEnds, ClearSlot, Crash
<1>2. CallOracle(t) \/ LockAndRead(t) \/ AddAndUnlock(t) \/ RunFold(t) => UNCHANGED threaderVars
    BY DEF CallOracle, LockAndRead, AddAndUnlock, RunFold
<1> QED
    BY <1>1, <1>2 DEF ThreadStep, ThreadTakesPool, LeavePool, ThreadStarter

LEMMA ThreaderIsUsedWell ==
    PositionsOK /\ [Next]_vars => [ThreaderNext]_threaderVars
<1> SUFFICES ASSUME PositionsOK, [Next]_vars PROVE [ThreaderNext]_threaderVars
    OBVIOUS
<1>1. ASSUME NEW u \in Callers, CallerStep(u)
      PROVE  [ThreaderNext]_threaderVars
    <2>1. CASE StartThreads(u)
        <3>1. Pool(u) \in Functions
            BY <2>1, PoolType DEF StartThreads, Pools
        <3> QED
            BY <2>1, <3>1 DEF StartThreads, StartThread, StartWaits, ThreaderNext
    <2>2. CASE TrainingThrows(u)
        BY <2>2 DEF TrainingThrows, StartThrows, ThreaderNext
    <2> QED
        BY <1>1, <2>1, <2>2, CallersAndTheThreader
<1>2. ASSUME NEW t \in Threads, ThreadStep(t)
      PROVE  [ThreaderNext]_threaderVars
    BY <1>2, ThreadsAndTheThreader DEF ThreaderNext
<1>3. WaitEndsEarly \/ Exit \/ UNCHANGED vars => [ThreaderNext]_threaderVars
    BY DEF WaitEndsEarly, Exit, MainReturns, DeleteThreader, ThreaderIsGone, SpuriousWakeup, ThreaderNext, vars
<1> QED
    BY <1>1, <1>2, <1>3 DEF Next

(* The pools and the trainers use the threader as it may be used.                *)
THEOREM ThreaderIsImplemented == Spec => ThreaderSpec
<1>1. Init => ThreaderInit
    BY DEF Init, ThreadPoolInit
<1> QED
    BY <1>1, PositionsInit, PositionsStep, ThreaderIsUsedWell, PTL DEF Spec, ThreaderSpec

(* So the counters are right in every program that trains with MITIE.            *)
THEOREM TrainingCountsThreads == Spec => []CountsAreRight
BY ThreaderIsImplemented, CountsStayRight, PTL

-------------------------------------------------------------------------------
(* What the pools believe of their threads, and where their owners are.          *)
Workers(p) == {t \in Threads : running[t] = p}

Pending(p) == IF function_pointer = p THEN 1 ELSE 0

PoolsOK ==
    /\ object \in [Pools -> Objects]
    /\ threads_started \in [Pools -> Nat]
    /\ worker \in [Threads -> WorkerSteps]
    /\ \A t \in Threads : worker[t] = "outside" <=> running[t] = NoFunction

(* threads_started is right: it counts the threads that work for the pool, and   *)
(* the one that will when it takes the function.                                 *)
StartedAreCounted ==
    \A p \in Pools : threads_started[p] = Cardinality(Workers(p)) + Pending(p)

(* Nobody works for a pool that is no more, but for one whose start() threw.     *)
PoolsAreThere ==
    /\ function_pointer # NoFunction => object[function_pointer] \in {"starting", "alive"}
    /\ \A t \in Threads :
           running[t] # NoFunction => object[running[t]] \in {"starting", "alive", "abandoned"}
    /\ crashed => \E u \in Callers : pc[u] = "failed"

OwnersAreThere ==
    /\ \A p \in Pools : object[p] \in {"starting", "alive"} =>
           \E u \in Callers : p = Pool(u) /\ pc[u] \in InJob
    /\ \A p \in Pools : object[p] = "abandoned" =>
           \E u \in Callers : p = Pool(u) /\ pc[u] = "failed"

Bookkeeping ==
    /\ PositionsOK /\ ThreaderInv
    /\ PoolsOK /\ StartedAreCounted /\ PoolsAreThere /\ OwnersAreThere

(* Most steps leave all of this alone.                                           *)
LEMMA QuietKeeps ==
    ASSUME PoolsOK, StartedAreCounted, PoolsAreThere, OwnersAreThere,
           UNCHANGED <<object, threads_started, running, function_pointer, crashed, job>>,
           worker' \in [Threads -> WorkerSteps],
           \A t \in Threads : worker'[t] = "outside" <=> worker[t] = "outside",
           \A u \in Callers : pc'[u] = pc[u] \/ (pc[u] \in InJob /\ pc'[u] \in InJob)
    PROVE  PoolsOK' /\ StartedAreCounted' /\ PoolsAreThere' /\ OwnersAreThere'
<1>1. PoolsOK'
    BY DEF PoolsOK
<1>2. StartedAreCounted'
    <2>1. \A p : Workers(p)' = Workers(p) /\ Pending(p)' = Pending(p)
        BY DEF Workers, Pending
    <2> QED
        BY <2>1 DEF StartedAreCounted
<1>3. PoolsAreThere'
    BY DEF PoolsAreThere, InJob
<1>4. OwnersAreThere'
    <2>1. \A u : Pool(u)' = Pool(u)
        BY DEF Pool
    <2> QED
        BY <2>1 DEF OwnersAreThere, InJob
<1> QED
    BY <1>1, <1>2, <1>3, <1>4

(* A step that changes one pool changes its owner only.                          *)
LEMMA OwnersKept ==
    ASSUME OwnersAreThere, NEW u \in Callers,
           \A q \in Pools \ {Pool(u)} : object'[q] = object[q],
           \A v \in Callers \ {u} : pc'[v] = pc[v] /\ Pool(v)' = Pool(v),
           object'[Pool(u)] \in {"starting", "alive"} =>
               Pool(u)' = Pool(u) /\ pc'[u] \in InJob,
           object'[Pool(u)] = "abandoned" => Pool(u)' = Pool(u) /\ pc'[u] = "failed"
    PROVE  OwnersAreThere'
<1>1. ASSUME NEW q \in Pools, object'[q] \in {"starting", "alive"}
      PROVE  \E v \in Callers : q = Pool(v)' /\ pc'[v] \in InJob
    <2>1. CASE q = Pool(u)
        BY <1>1, <2>1
    <2>2. CASE q # Pool(u)
        <3>1. PICK v \in Callers : q = Pool(v) /\ pc[v] \in InJob
            BY <1>1, <2>2 DEF OwnersAreThere
        <3> QED
            BY <2>2, <3>1
    <2> QED
        BY <2>1, <2>2
<1>2. ASSUME NEW q \in Pools, object'[q] = "abandoned"
      PROVE  \E v \in Callers : q = Pool(v)' /\ pc'[v] = "failed"
    <2>1. CASE q = Pool(u)
        BY <1>2, <2>1
    <2>2. CASE q # Pool(u)
        <3>1. PICK v \in Callers : q = Pool(v) /\ pc[v] = "failed"
            BY <1>2, <2>2 DEF OwnersAreThere
        <3> QED
            BY <2>2, <3>1
    <2> QED
        BY <2>1, <2>2
<1> QED
    BY <1>1, <1>2 DEF OwnersAreThere

LEMMA StartJobKeeps ==
    ASSUME Bookkeeping, NEW u \in Callers, StartJob(u)
    PROVE  PoolsOK' /\ StartedAreCounted' /\ PoolsAreThere' /\ OwnersAreThere'
<1> DEFINE p == Pool(u)
<1>1. /\ p \in Pools /\ object[p] = "none"
      /\ \E o \in {"starting", "alive"} : object' = [object EXCEPT ![p] = o]
      /\ pc[u] = "train" /\ pc' = [pc EXCEPT ![u] = "start"] /\ UNCHANGED job
      /\ UNCHANGED <<threads_started, running, function_pointer, crashed, worker>>
    BY PoolType DEF Bookkeeping, StartJob, Construct, GoTo, threaderVars
<1>2. PICK o \in {"starting", "alive"} : object' = [object EXCEPT ![p] = o]
    BY <1>1
<1>3. /\ PoolsOK /\ StartedAreCounted /\ PoolsAreThere /\ OwnersAreThere
      /\ pc \in [Callers -> InJob \cup {"train", "done", "failed"}]
    BY DEF Bookkeeping, PositionsOK
<1> HIDE DEF p
<1>4. PoolsOK'
    BY <1>1, <1>2, <1>3 DEF PoolsOK, Objects
<1>5. StartedAreCounted'
    <2>1. \A q : Workers(q)' = Workers(q) /\ Pending(q)' = Pending(q)
        BY <1>1 DEF Workers, Pending
    <2> QED
        BY <1>1, <1>3, <2>1 DEF StartedAreCounted
<1>6. PoolsAreThere'
    <2>1. \A q \in Pools : object[q] # "none" => object'[q] = object[q]
        BY <1>1, <1>2, <1>3 DEF PoolsOK
    <2>2. /\ function_pointer # NoFunction => function_pointer \in Pools
          /\ \A t \in Threads : running[t] # NoFunction => running[t] \in Pools
        BY DEF Bookkeeping, ThreaderInv, ThreaderTypeOK, Pools
    <2>3. \A v \in Callers : pc[v] = "failed" => pc'[v] = "failed"
        BY <1>1, <1>3
    <2>4. /\ function_pointer # NoFunction => object'[function_pointer] = object[function_pointer]
          /\ \A t \in Threads : running[t] # NoFunction => object'[running[t]] = object[running[t]]
        BY <1>3, <2>1, <2>2 DEF PoolsAreThere
    <2> QED
        BY <1>1, <1>3, <2>3, <2>4 DEF PoolsAreThere
<1>7. OwnersAreThere'
    <2>1. \A v \in Callers : Pool(v)' = Pool(v)
        BY <1>1 DEF Pool
    <2>2. /\ pc'[u] = "start" /\ \A v \in Callers \ {u} : pc'[v] = pc[v]
          /\ \A q \in Pools \ {p} : object'[q] = object[q]
          /\ object'[p] \in {"starting", "alive"}
        BY <1>1, <1>2, <1>3 DEF PoolsOK
    <2> QED
        BY <1>3, <2>1, <2>2, OwnersKept DEF p, InJob
<1> QED
    BY <1>4, <1>5, <1>6, <1>7

(* start() hands the pool over once more.                                        *)
LEMMA StartThreadKeeps ==
    ASSUME Bookkeeping, NEW u \in Callers, StartThread(Pool(u)), pc[u] = "start",
           UNCHANGED trainingVars
    PROVE  PoolsOK' /\ StartedAreCounted' /\ PoolsAreThere' /\ OwnersAreThere'
<1> DEFINE p == Pool(u)
<1>1. /\ p \in Pools /\ object[p] = "starting"
      /\ object' = [object EXCEPT ![p] = IF threads_started'[p] = size[p] THEN "alive" ELSE @]
      /\ threads_started' = [threads_started EXCEPT ![p] = @ + 1]
      /\ function_pointer = NoFunction /\ function_pointer' = p
      /\ UNCHANGED <<running, crashed, worker, pc, job>>
    BY PoolType DEF Bookkeeping, StartThread, HandOver, trainingVars
<1>2. /\ PoolsOK /\ StartedAreCounted /\ PoolsAreThere /\ OwnersAreThere
    BY DEF Bookkeeping
<1> HIDE DEF p
<1>3. /\ object' \in [Pools -> Objects]
      /\ object'[p] \in {"starting", "alive"}
      /\ \A q \in Pools \ {p} : object'[q] = object[q]
    BY <1>1, <1>2 DEF PoolsOK, Objects
<1>4. PoolsOK'
    BY <1>1, <1>2, <1>3 DEF PoolsOK
<1>5. StartedAreCounted'
    <2>1. \A q \in Pools : /\ Workers(q)' = Workers(q)
                           /\ Pending(q) = 0 /\ Pending(q)' = IF q = p THEN 1 ELSE 0
        BY <1>1, ThreaderAssumption DEF Workers, Pending, Pools
    <2>2. \A q \in Pools : threads_started[q] = Cardinality(Workers(q)) + 0
        BY <1>2, <2>1 DEF StartedAreCounted
    <2>3. \A q \in Pools : threads_started[q] \in Nat
              /\ threads_started'[q] = IF q = p THEN threads_started[q] + 1 ELSE threads_started[q]
        BY <1>1, <1>2 DEF PoolsOK
    <2>4. \A q \in Pools : Cardinality(Workers(q)) \in Nat
        BY ThreaderAssumption, FS_Subset, FS_CardinalityType DEF Workers
    <2> QED
        BY <2>1, <2>2, <2>3, <2>4 DEF StartedAreCounted
<1>6. PoolsAreThere'
    <2>1. \A t \in Threads : running[t] # NoFunction => running[t] \in Pools
        BY DEF Bookkeeping, ThreaderInv, ThreaderTypeOK, Pools
    <2> QED
        BY <1>1, <1>2, <1>3, <2>1 DEF PoolsAreThere
<1>7. OwnersAreThere'
    <2>1. \A v \in Callers : Pool(v)' = Pool(v) /\ pc'[v] = pc[v]
        BY <1>1 DEF Pool
    <2> QED
        BY <1>2, <1>3, <2>1, OwnersKept DEF p, InJob
<1> QED
    BY <1>4, <1>5, <1>6, <1>7

LEMMA ThrowsKeeps ==
    ASSUME Bookkeeping, NEW u \in Callers, TrainingThrows(u)
    PROVE  PoolsOK' /\ StartedAreCounted' /\ PoolsAreThere' /\ OwnersAreThere'
<1> DEFINE p == Pool(u)
<1>1. /\ p \in Pools /\ object[p] = "starting"
      /\ object' = [object EXCEPT ![p] = "abandoned"]
      /\ function_pointer = NoFunction
      /\ pc' = [pc EXCEPT ![u] = "failed"]
      /\ UNCHANGED <<function_pointer, threads_started, running, crashed, worker, job>>
    BY PoolType DEF Bookkeeping, TrainingThrows, StartThrows, SpawnFails, GoTo
<1>2. /\ PoolsOK /\ StartedAreCounted /\ PoolsAreThere /\ OwnersAreThere
      /\ pc \in [Callers -> InJob \cup {"train", "done", "failed"}]
    BY DEF Bookkeeping, PositionsOK
<1> HIDE DEF p
<1>3. /\ object' \in [Pools -> Objects]
      /\ object'[p] = "abandoned"
      /\ \A q \in Pools \ {p} : object'[q] = object[q]
      /\ pc'[u] = "failed" /\ \A v \in Callers \ {u} : pc'[v] = pc[v]
    BY <1>1, <1>2 DEF PoolsOK, Objects
<1>4. PoolsOK'
    BY <1>1, <1>2, <1>3 DEF PoolsOK
<1>5. StartedAreCounted'
    <2>1. \A q : Workers(q)' = Workers(q) /\ Pending(q)' = Pending(q)
        BY <1>1 DEF Workers, Pending
    <2> QED
        BY <1>1, <1>2, <2>1 DEF StartedAreCounted
<1>6. PoolsAreThere'
    <2>1. \A t \in Threads : running[t] # NoFunction => running[t] \in Pools
        BY DEF Bookkeeping, ThreaderInv, ThreaderTypeOK, Pools
    <2> QED
        BY <1>1, <1>2, <1>3, <2>1 DEF PoolsAreThere
<1>7. OwnersAreThere'
    <2>1. \A v \in Callers : Pool(v)' = Pool(v)
        BY <1>1 DEF Pool
    <2> QED
        BY <1>2, <1>3, <2>1, OwnersKept DEF p
<1> QED
    BY <1>4, <1>5, <1>6, <1>7

(* A pool is destroyed when it counts no thread: then no thread works for it,    *)
(* and none will.                                                                *)
LEMMA DestroyKeeps ==
    ASSUME Bookkeeping, NEW u \in Callers, JoinPool(u), Destroy(Pool(u))
    PROVE  PoolsOK' /\ StartedAreCounted' /\ PoolsAreThere' /\ OwnersAreThere'
<1> DEFINE p == Pool(u)
<1>1. /\ p \in Pools /\ threads_started[p] = 0
      /\ object' = [object EXCEPT ![p] = "destroyed"]
      /\ pc[u] = "join"
      /\ UNCHANGED <<function_pointer, threads_started, running, crashed, worker>>
    BY PoolType DEF Bookkeeping, JoinPool, Destroy, threaderVars
<1>2. /\ PoolsOK /\ StartedAreCounted /\ PoolsAreThere /\ OwnersAreThere
      /\ pc \in [Callers -> InJob \cup {"train", "done", "failed"}]
      /\ job \in [Callers -> Nat]
    BY DEF Bookkeeping, PositionsOK
<1>3. \A v \in Callers \ {u} : pc'[v] = pc[v] /\ job'[v] = job[v]
    BY <1>2 DEF JoinPool, GoTo
<1> HIDE DEF p
<1>4. /\ object' \in [Pools -> Objects]
      /\ object'[p] = "destroyed"
      /\ \A q \in Pools \ {p} : object'[q] = object[q]
    BY <1>1, <1>2 DEF PoolsOK, Objects
<1>5. function_pointer # p /\ \A t \in Threads : running[t] # p
    <2>1. IsFiniteSet(Workers(p)) /\ Cardinality(Workers(p)) \in Nat
        BY ThreaderAssumption, FS_Subset, FS_CardinalityType DEF Workers
    <2>2. Cardinality(Workers(p)) = 0 /\ Pending(p) = 0
        BY <1>1, <1>2, <2>1 DEF StartedAreCounted, Pending
    <2>3. Workers(p) = {}
        BY <2>1, <2>2, FS_EmptySet
    <2> QED
        BY <2>2, <2>3 DEF Workers, Pending
<1>6. PoolsOK'
    BY <1>1, <1>2, <1>4 DEF PoolsOK
<1>7. StartedAreCounted'
    <2>1. \A q : Workers(q)' = Workers(q) /\ Pending(q)' = Pending(q)
        BY <1>1 DEF Workers, Pending
    <2> QED
        BY <1>1, <1>2, <2>1 DEF StartedAreCounted
<1>8. PoolsAreThere'
    <2>1. /\ function_pointer # NoFunction => function_pointer \in Pools
          /\ \A t \in Threads : running[t] # NoFunction => running[t] \in Pools
        BY DEF Bookkeeping, ThreaderInv, ThreaderTypeOK, Pools
    <2>2. \A v \in Callers : pc[v] = "failed" => pc'[v] = "failed"
        BY <1>1, <1>3
    <2>3. /\ function_pointer # NoFunction => object'[function_pointer] = object[function_pointer]
          /\ \A t \in Threads : running[t] # NoFunction => object'[running[t]] = object[running[t]]
        BY <1>4, <1>5, <2>1
    <2> QED
        BY <1>1, <1>2, <2>2, <2>3 DEF PoolsAreThere
<1>9. OwnersAreThere'
    <2>1. \A v \in Callers \ {u} : Pool(v)' = Pool(v)
        BY <1>3 DEF Pool
    <2> QED
        BY <1>2, <1>3, <1>4, <2>1, OwnersKept DEF p
<1> QED
    BY <1>6, <1>7, <1>8, <1>9

(* A thread takes the function: it was counted as pending, and now as working.   *)
LEMMA TakesKeeps ==
    ASSUME Bookkeeping, NEW t \in Threads, ThreadTakesPool(t), UNCHANGED trainingVars
    PROVE  PoolsOK' /\ StartedAreCounted' /\ PoolsAreThere' /\ OwnersAreThere'
<1> DEFINE p == function_pointer
<1>1. /\ p \in Pools /\ p # NoFunction /\ function_pointer' = NoFunction
      /\ running' = [running EXCEPT ![t] = p]
      /\ worker' = [worker EXCEPT ![t] = "helper"]
      /\ UNCHANGED <<object, threads_started, crashed, pc, job>>
    BY DEF Bookkeeping, ThreaderInv, ThreaderTypeOK, ThreadTakesPool, TakeFunction, Pools, trainingVars
<1>2. running[t] = NoFunction
    BY DEF Bookkeeping, ThreaderInv, RunningIsRunning, ThreadTakesPool, TakeFunction, HoldsMutex
<1>3. /\ PoolsOK /\ StartedAreCounted /\ PoolsAreThere /\ OwnersAreThere
      /\ running \in [Threads -> Functions \cup {NoFunction}]
    BY DEF Bookkeeping, ThreaderInv, ThreaderTypeOK
<1>4. PoolsOK'
    BY <1>1, <1>3 DEF PoolsOK, WorkerSteps
<1>5. StartedAreCounted'
    <2> SUFFICES ASSUME NEW q \in Pools
                 PROVE  threads_started[q] = Cardinality(Workers(q)') + Pending(q)'
        BY <1>1 DEF StartedAreCounted
    <2>1. threads_started[q] = Cardinality(Workers(q)) + Pending(q)
        BY <1>3 DEF StartedAreCounted
    <2>2. IsFiniteSet(Workers(q)) /\ Cardinality(Workers(q)) \in Nat
        BY ThreaderAssumption, FS_Subset, FS_CardinalityType DEF Workers
    <2>3. q # NoFunction /\ Pending(q)' = 0
        BY <1>1, ThreaderAssumption DEF Pending, Pools
    <2>4. CASE q = p
        <3>1. t \notin Workers(q) /\ Workers(q)' = Workers(q) \cup {t}
            BY <1>1, <1>2, <1>3, <2>3, <2>4 DEF Workers
        <3>2. Cardinality(Workers(q)') = Cardinality(Workers(q)) + 1
            BY <2>2, <3>1, FS_AddElement
        <3>3. Pending(q) = 1
            BY <2>4 DEF Pending
        <3> QED
            BY <2>1, <2>2, <2>3, <3>2, <3>3
    <2>5. CASE q # p
        <3>1. Workers(q)' = Workers(q)
            BY <1>1, <1>2, <1>3, <2>3, <2>5 DEF Workers
        <3>2. Pending(q) = 0
            BY <2>5 DEF Pending
        <3> QED
            BY <2>1, <2>3, <3>1, <3>2
    <2> QED
        BY <2>4, <2>5
<1>6. PoolsAreThere'
    BY <1>1, <1>3 DEF PoolsAreThere
<1>7. OwnersAreThere'
    BY <1>1, <1>3 DEF OwnersAreThere, Pool
<1> QED
    BY <1>4, <1>5, <1>6, <1>7

LEMMA LeaveKeeps ==
    ASSUME Bookkeeping, NEW t \in Threads, LeavePool(t), UNCHANGED trainingVars
    PROVE  PoolsOK' /\ StartedAreCounted' /\ PoolsAreThere' /\ OwnersAreThere'
<1> DEFINE p == running[t]
<1>1. /\ running' = [running EXCEPT ![t] = NoFunction]
      /\ worker[t] = "leave" /\ worker' = [worker EXCEPT ![t] = "outside"]
      /\ threads_started' = [threads_started EXCEPT ![p] = @ - 1]
      /\ UNCHANGED <<function_pointer, object, crashed, pc, job>>
    BY DEF LeavePool, Return, trainingVars
<1>2. /\ PoolsOK /\ StartedAreCounted /\ PoolsAreThere /\ OwnersAreThere
      /\ running \in [Threads -> Functions \cup {NoFunction}]
    BY DEF Bookkeeping, ThreaderInv, ThreaderTypeOK
<1>3. p \in Pools /\ p # NoFunction
    BY <1>1, <1>2 DEF PoolsOK, Pools
<1>4. \A q \in Pools : IsFiniteSet(Workers(q)) /\ Cardinality(Workers(q)) \in Nat
    BY ThreaderAssumption, FS_Subset, FS_CardinalityType DEF Workers
<1> HIDE DEF p
<1>5. \A q \in Pools : /\ Workers(q)' = IF q = p THEN Workers(q) \ {t} ELSE Workers(q)
                       /\ Pending(q)' = Pending(q) /\ Pending(q) \in {0, 1}
    BY <1>1, <1>2, ThreaderAssumption DEF Workers, Pending, Pools, p
<1>6. t \in Workers(p)
    BY DEF Workers, p
<1>7. Cardinality(Workers(p) \ {t}) = Cardinality(Workers(p)) - 1 /\ Cardinality(Workers(p)) >= 1
    <2>1. Cardinality(Workers(p)) # 0
        BY <1>3, <1>4, <1>6, FS_EmptySet
    <2>2. Cardinality(Workers(p)) \in Nat /\ IsFiniteSet(Workers(p))
        BY <1>3, <1>4
    <2>3. Cardinality(Workers(p) \ {t}) = Cardinality(Workers(p)) - 1
        BY <1>6, <2>2, FS_RemoveElement
    <2> QED
        BY <2>1, <2>2, <2>3
<1>8. \A q \in Pools : threads_started[q] = Cardinality(Workers(q)) + Pending(q)
    BY <1>2 DEF StartedAreCounted
<1>9. threads_started[p] \in Nat /\ threads_started[p] >= 1
    BY <1>2, <1>3, <1>4, <1>5, <1>7, <1>8 DEF PoolsOK
<1>10. PoolsOK'
    BY <1>1, <1>2, <1>3, <1>9 DEF PoolsOK, WorkerSteps
<1>11. StartedAreCounted'
    <2> SUFFICES ASSUME NEW q \in Pools
                 PROVE  threads_started'[q] = Cardinality(Workers(q)') + Pending(q)'
        BY DEF StartedAreCounted
    <2>1. threads_started'[q] = IF q = p THEN threads_started[q] - 1 ELSE threads_started[q]
        BY <1>1, <1>2 DEF PoolsOK
    <2>2. Cardinality(Workers(q)') =
              IF q = p THEN Cardinality(Workers(q)) - 1 ELSE Cardinality(Workers(q))
        BY <1>5, <1>7
    <2>3. /\ Cardinality(Workers(q)) \in Nat /\ Pending(q) \in Nat /\ Pending(q)' = Pending(q)
          /\ threads_started[q] = Cardinality(Workers(q)) + Pending(q)
        BY <1>4, <1>5, <1>8
    <2> QED
        BY <2>1, <2>2, <2>3
<1>12. PoolsAreThere'
    BY <1>1, <1>2 DEF PoolsAreThere
<1>13. OwnersAreThere'
    BY <1>1, <1>2 DEF OwnersAreThere, Pool
<1> QED
    BY <1>10, <1>11, <1>12, <1>13

(* Only a pool whose start() threw can be missed.                                *)
LEMMA CrashKeeps ==
    ASSUME Bookkeeping, NEW t \in Threads, Crash(t), UNCHANGED trainingVars
    PROVE  PoolsOK' /\ StartedAreCounted' /\ PoolsAreThere' /\ OwnersAreThere'
<1>1. /\ UNCHANGED <<function_pointer, running, threads_started, object, worker, pc, job>>
      /\ worker[t] # "outside" /\ object[running[t]] \in {"destroyed", "abandoned"}
    BY DEF Crash, UsesDestroyedPool, threaderVars, trainingVars
<1>2. /\ PoolsOK /\ StartedAreCounted /\ PoolsAreThere /\ OwnersAreThere
      /\ running \in [Threads -> Functions \cup {NoFunction}]
    BY DEF Bookkeeping, ThreaderInv, ThreaderTypeOK
<1>3. running[t] \in Pools /\ object[running[t]] = "abandoned"
    BY <1>1, <1>2 DEF PoolsOK, PoolsAreThere, Pools
<1>4. \E u \in Callers : pc[u] = "failed"
    BY <1>2, <1>3 DEF OwnersAreThere
<1> QED
    BY <1>1, <1>2, <1>4
    DEF PoolsOK, StartedAreCounted, PoolsAreThere, OwnersAreThere, Workers, Pending, Pool

LEMMA QuietThreads ==
    ASSUME PoolsOK, NEW t \in Threads, ThreadStep(t)
    PROVE  \/ /\ UNCHANGED <<object, threads_started, running, function_pointer, crashed, pc, job>>
              /\ worker' \in [Threads -> WorkerSteps]
              /\ \A r \in Threads : worker'[r] = "outside" <=> worker[r] = "outside"
           \/ (ThreadTakesPool(t) \/ LeavePool(t) \/ Crash(t)) /\ UNCHANGED trainingVars
<1> DEFINE Quiet == /\ UNCHANGED <<object, threads_started, running, function_pointer, crashed, pc, job>>
                    /\ worker' \in [Threads -> WorkerSteps]
                    /\ \A r \in Threads : worker'[r] = "outside" <=> worker[r] = "outside"
<1> USE DEF PoolsOK, WorkerSteps, threaderVars, trainingVars, poolVars
<1>1. (ThreadHelper(t) \/ ThreadEnds(t) \/ ClearSlot(t)) /\ UNCHANGED trainingVars => Quiet
    BY DEF ThreadHelper, ThreadEnds, ClearSlot
<1>2. FetchTask(t) /\ UNCHANGED trainingVars => Quiet
    BY DEF FetchTask
<1>3. (WaitForWork(t) \/ Leave(t)) /\ UNCHANGED poolVars /\ UNCHANGED trainingVars => Quiet
    BY DEF WaitForWork, Leave
<1>4. CallOracle(t) \/ LockAndRead(t) \/ RunFold(t) => Quiet
    BY DEF CallOracle, LockAndRead, RunFold, Working
<1>5. AddAndUnlock(t) => Quiet
    BY DEF AddAndUnlock, Working
<1> QED
    BY <1>1, <1>2, <1>3, <1>4, <1>5 DEF ThreadStep

LEMMA QuietCallers ==
    ASSUME PositionsOK, NEW u \in Callers, CallerStep(u)
    PROVE  \/ /\ UNCHANGED <<object, threads_started, running, function_pointer, crashed, worker, job>>
              /\ \A v \in Callers : pc'[v] = pc[v] \/ (pc[v] \in InJob /\ pc'[v] \in InJob)
           \/ StartJob(u) \/ TrainingThrows(u) \/ (JoinPool(u) /\ Destroy(Pool(u)))
           \/ StartThread(Pool(u)) /\ pc[u] = "start" /\ UNCHANGED trainingVars
<1> DEFINE Quiet ==
        /\ UNCHANGED <<object, threads_started, running, function_pointer, crashed, worker, job>>
        /\ \A v \in Callers : pc'[v] = pc[v] \/ (pc[v] \in InJob /\ pc'[v] \in InJob)
<1> USE DEF PositionsOK, InJob, GoTo, threaderVars, trainingVars, poolVars, AddTask, WaitForTaskDone,
            TellThreadsToEnd, WaitForThreads
<1>1. StartThreads(u) =>
          Quiet \/ (StartThread(Pool(u)) /\ pc[u] = "start" /\ UNCHANGED trainingVars)
    BY DEF StartThreads, StartWaits, WaitUntilEmpty
<1>2. PoolIsReady(u) \/ GetRisk(u) \/ RunDirectly(u) => Quiet
    BY DEF PoolIsReady, GetRisk, RunDirectly
<1>3. AddBlock(u) \/ AwaitBlocks(u) => Quiet
    BY DEF AddBlock, AwaitBlocks
<1>4. OptimizationStatus(u) => Quiet
    BY DEF OptimizationStatus, Continue, Stop, GapIsSmall, GapIsLarge
<1>5. AddFold(u) => Quiet
    BY DEF AddFold
<1>6. CollectFold(u) \/ ShutdownPool(u) => Quiet
    BY DEF CollectFold, ShutdownPool
<1>7. JoinPool(u) => Quiet \/ Destroy(Pool(u))
    BY DEF JoinPool
<1> QED
    BY <1>1, <1>2, <1>3, <1>4, <1>5, <1>6, <1>7 DEF CallerStep

LEMMA BookkeepingStep == Bookkeeping /\ [Next]_vars => Bookkeeping'
<1> SUFFICES ASSUME Bookkeeping, [Next]_vars PROVE Bookkeeping'
    OBVIOUS
<1>1. PositionsOK' /\ ThreaderInv'
    BY PositionsStep, ThreaderIsUsedWell, ThreaderStep DEF Bookkeeping
<1>2. PositionsOK /\ PoolsOK /\ StartedAreCounted /\ PoolsAreThere /\ OwnersAreThere
    BY DEF Bookkeeping
<1>3. ASSUME NEW u \in Callers, CallerStep(u)
      PROVE  PoolsOK' /\ StartedAreCounted' /\ PoolsAreThere' /\ OwnersAreThere'
    <2>1. ASSUME UNCHANGED <<object, threads_started, running, function_pointer, crashed, worker, job>>,
                 \A v \in Callers : pc'[v] = pc[v] \/ (pc[v] \in InJob /\ pc'[v] \in InJob)
          PROVE  PoolsOK' /\ StartedAreCounted' /\ PoolsAreThere' /\ OwnersAreThere'
        <3>1. worker' \in [Threads -> WorkerSteps]
            BY <1>2, <2>1 DEF PoolsOK
        <3> QED
            BY <1>2, <2>1, <3>1, QuietKeeps
    <2> QED
        BY <1>2, <1>3, <2>1, QuietCallers, StartJobKeeps, StartThreadKeeps, ThrowsKeeps, DestroyKeeps
<1>4. ASSUME NEW t \in Threads, ThreadStep(t)
      PROVE  PoolsOK' /\ StartedAreCounted' /\ PoolsAreThere' /\ OwnersAreThere'
    <2>1. ASSUME UNCHANGED <<object, threads_started, running, function_pointer, crashed, pc, job>>,
                 worker' \in [Threads -> WorkerSteps],
                 \A r \in Threads : worker'[r] = "outside" <=> worker[r] = "outside"
          PROVE  PoolsOK' /\ StartedAreCounted' /\ PoolsAreThere' /\ OwnersAreThere'
        BY <1>2, <2>1, QuietKeeps
    <2> QED
        BY <1>2, <1>4, <2>1, QuietThreads, TakesKeeps, LeaveKeeps, CrashKeeps
<1>5. ASSUME WaitEndsEarly \/ Exit \/ UNCHANGED vars
      PROVE  PoolsOK' /\ StartedAreCounted' /\ PoolsAreThere' /\ OwnersAreThere'
    <2>1. UNCHANGED <<object, threads_started, running, function_pointer, crashed, worker, pc, job>>
        BY <1>5 DEF WaitEndsEarly, WaitEnds, WaitForEmptyEnds, WaitForDestructedEnds, SpuriousWakeup, Exit,
                    MainReturns, DestructIfReady, DestroyThreader, AwaitThreads, DeleteThreader, ThreaderIsGone, vars,
                    threaderVars, poolVars, trainingVars
    <2>2. worker' \in [Threads -> WorkerSteps]
        BY <1>2, <2>1 DEF PoolsOK
    <2> QED
        BY <1>2, <2>1, <2>2, QuietKeeps
<1> QED
    BY <1>1, <1>3, <1>4, <1>5 DEF Next, Bookkeeping

LEMMA BookkeepingInit == Init => Bookkeeping
<1> SUFFICES ASSUME Init PROVE Bookkeeping
    OBVIOUS
<1>1. PositionsOK /\ ThreaderInv
    BY PositionsInit, ThreaderInvInit DEF Init, ThreadPoolInit
<1>2. PoolsOK /\ PoolsAreThere /\ OwnersAreThere
    BY DEF Init, ThreadPoolInit, ThreaderInit, PoolsOK, PoolsAreThere, OwnersAreThere, Objects, WorkerSteps
<1>3. StartedAreCounted
    <2>1. \A p \in Pools : Workers(p) = {} /\ Pending(p) = 0
        BY ThreaderAssumption DEF Init, ThreadPoolInit, ThreaderInit, Workers, Pending, Pools
    <2> QED
        <3>1. \A p \in Pools : threads_started[p] = 0
            BY DEF Init, ThreadPoolInit
        <3>2. \A p \in Pools : Cardinality(Workers(p)) = 0
            BY <2>1, FS_EmptySet
        <3> QED
            BY <2>1, <3>1, <3>2 DEF StartedAreCounted
<1> QED
    BY <1>1, <1>2, <1>3 DEF Bookkeeping

LEMMA BookkeepingHolds == Spec => []Bookkeeping
BY BookkeepingInit, BookkeepingStep, PTL DEF Spec

(* For any number of callers, threads and jobs: no worker ever runs in a pool    *)
(* that was destroyed after use, and the only pools that can be missed are those *)
(* whose start() threw.                                                          *)
THEOREM PoolsOutliveThreads == Spec => []PoolOutlivesItsThreads
<1>1. Bookkeeping => PoolOutlivesItsThreads
    BY DEF Bookkeeping, PoolsOK, PoolsAreThere, PoolOutlivesItsThreads
<1> QED
    BY <1>1, BookkeepingHolds, PTL

-------------------------------------------------------------------------------
(* The threader is destroyed when nobody trains any more, and then nobody can    *)
(* have put down a function: only who constructs a pool does, and a pool is      *)
(* alive as long as one of its threads is still to come.                         *)
TheEnd ==
    /\ destruct => program # "running"
    /\ program # "running" => CallersEnded

NotYetDestroyed == function_pointer # NoFunction => ~destruct

LEMMA FunctionsComeFromCallers ==
    ASSUME Bookkeeping, TheEnd
    PROVE  NotYetDestroyed
<1> SUFFICES ASSUME function_pointer # NoFunction PROVE ~destruct
    BY DEF NotYetDestroyed
<1>1. function_pointer \in Pools /\ object[function_pointer] \in {"starting", "alive"}
    BY DEF Bookkeeping, ThreaderInv, ThreaderTypeOK, Pools, PoolsAreThere
<1>2. \E u \in Callers : pc[u] \in InJob
    BY <1>1 DEF Bookkeeping, OwnersAreThere
<1>3. ~CallersEnded
    BY <1>2 DEF CallersEnded, InJob
<1> QED
    BY <1>3 DEF TheEnd

LEMMA TheEndStep == Bookkeeping /\ TheEnd /\ [Next]_vars => TheEnd'
<1> SUFFICES ASSUME Bookkeeping, TheEnd, [Next]_vars PROVE TheEnd'
    OBVIOUS
<1>1. PositionsOK
    BY DEF Bookkeeping
<1>2. ASSUME UNCHANGED <<destruct, program, pc>>
      PROVE  TheEnd'
    BY <1>2 DEF TheEnd, CallersEnded
<1>3. ASSUME NEW u \in Callers, CallerStep(u)
      PROVE  TheEnd'
    <2>1. UNCHANGED program
        BY <1>3, CallerMoves
    <2>2. pc[u] \notin {"done", "failed"}
        BY <1>3 DEF CallerStep, StartJob, StartThreads, TrainingThrows, PoolIsReady, GetRisk, AddBlock,
                    AwaitBlocks, RunDirectly, OptimizationStatus, AddFold, CollectFold, ShutdownPool,
                    JoinPool
    <2>3. ~CallersEnded
        BY <2>2 DEF CallersEnded
    <2>4. UNCHANGED destruct
        BY <1>1, <1>3, CallersAndTheThreader
        DEF StartThreads, StartThread, StartWaits, HandOver, WaitUntilEmpty, TrainingThrows, StartThrows,
            SpawnFails, threaderVars
    <2> QED
        BY <2>1, <2>3, <2>4 DEF TheEnd
<1>4. ASSUME NEW t \in Threads, ThreadStep(t)
      PROVE  TheEnd'
    <2>1. UNCHANGED <<program, pc>>
        BY <1>4 DEF ThreadStep, CallOracle, LockAndRead, AddAndUnlock, RunFold, trainingVars
    <2>2. UNCHANGED destruct
        BY <1>4, ThreadsAndTheThreader
        DEF ThreadStarter, TakeFunction, WaitForWork, Leave, Return, threaderVars
    <2> QED
        BY <1>2, <2>1, <2>2
<1>5. CASE WaitEndsEarly
    BY <1>2, <1>5 DEF WaitEndsEarly, WaitEnds, WaitForEmptyEnds, WaitForDestructedEnds, SpuriousWakeup,
                      threaderVars, trainingVars
<1>6. CASE Exit
    <2>1. program' # "running" /\ UNCHANGED pc
        BY <1>6 DEF Exit, MainReturns, DeleteThreader, ThreaderIsGone
    <2>2. CallersEnded
        BY <1>6 DEF Exit, MainReturns, DeleteThreader, ThreaderIsGone, TheEnd
    <2> QED
        BY <2>1, <2>2 DEF TheEnd, CallersEnded
<1>7. UNCHANGED vars => UNCHANGED <<destruct, program, pc>>
    BY DEF vars, threaderVars, trainingVars
<1> QED
    BY <1>2, <1>3, <1>4, <1>5, <1>6, <1>7 DEF Next

(* For any number of callers, threads and jobs: a thread that does not leave is  *)
(* on its way to every function that is put down.                                *)
THEOREM FunctionsAreTaken == Spec => []PendingFunctionHasATaker
<1>1. Init => TheEnd /\ SomebodyComes
    BY DEF Init, ThreadPoolInit, ThreaderInit, TheEnd, SomebodyComes
<1>2. Bookkeeping /\ TheEnd => NotYetDestroyed
    BY FunctionsComeFromCallers
<1>3. Bookkeeping /\ TheEnd /\ SomebodyComes /\ [Next]_vars => SomebodyComes'
    <2> SUFFICES ASSUME Bookkeeping, TheEnd, SomebodyComes, [Next]_vars PROVE SomebodyComes'
        OBVIOUS
    <2>1. ThreaderInv /\ [ThreaderNext]_threaderVars
        BY ThreaderIsUsedWell DEF Bookkeeping
    <2>2. function_pointer # NoFunction => ~destruct
        BY <1>2 DEF NotYetDestroyed
    <2> QED
        BY <2>1, <2>2, SomebodyKeepsComing
<1>4. NotYetDestroyed /\ SomebodyComes => PendingFunctionHasATaker
    BY DEF NotYetDestroyed, SomebodyComes, PendingFunctionHasATaker, Leaves
<1> QED
    BY <1>1, <1>2, <1>3, <1>4, TheEndStep, BookkeepingHolds, PTL DEF Spec

-------------------------------------------------------------------------------
(* The slots of a pool hold tasks of its owner's current call only. What no task *)
(* may do after the call follows from where tasks come from: a slot is filled in *)
(* one step and emptied in another, and between the two it is told, for every    *)
(* caller, which samples its task is about.                                      *)
Work == [first : Nat, last : Nat, at : Nat]
Slot == [task_id : Nat, next_task_id : Nat, thread_id : Callers \cup {NoCaller},
         is_being_processed : BOOLEAN, work : Work \cup {NoTask}]

SlotTypes ==
    /\ size \in [Pools -> Nat]
    /\ tasks \in [Pools -> Seq(Slot)]
    /\ task \in [Threads -> [slot : Nat, work : Work \cup {NoTask}]]
    /\ next \in [Callers -> Nat]
    /\ ids \in [Callers -> Seq(Nat)]

(* A thread of u's pool that has a task, or had it a moment ago.                 *)
AtTask == {"work", "clear"}
Holds(t, u) == running[t] = Pool(u) /\ worker[t] \in AtTask

(* The samples, or folds, that were made into tasks.                             *)
Given(u) == IF pc[u] = "folds" THEN 1..Len(ids[u]) ELSE 1..(next[u] - 1)

(* How far the caller is: the next sample to give away, or the next fold.        *)
CourseOK(u) ==
    /\ pc[u] \in {"risk", "blocks", "status"} => Job(u).kind = "svm"
    /\ pc[u] = "start" => next[u] = 1 /\ ids[u] = <<>>
    /\ pc[u] = "blocks" => next[u] \in 1..(Job(u).samples + 1)
    /\ pc[u] = "status" => next[u] = Job(u).samples + 1
    /\ pc[u] = "folds" => /\ Job(u).kind = "folds"
                          /\ next[u] \in 1..(Job(u).samples + 1)
                          /\ Len(ids[u]) <= Job(u).samples
                          /\ next[u] = 1 \/ Len(ids[u]) = Job(u).samples

(* A task names the slot it is in, and is about samples that were given away.    *)
(* The tasks of a validation are about one fold each, and wait in the order of   *)
(* their futures.                                                                *)
TaskOK(u, i, slot) ==
    /\ slot.task_id % size[Pool(u)] = i - 1
    /\ slot.thread_id = u
    /\ slot.work \in Work
    /\ slot.work.at = slot.work.first /\ slot.work.first <= slot.work.last
    /\ slot.work.first \in Given(u) /\ slot.work.last \in Given(u)
    /\ \/ pc[u] = "blocks"
       \/ /\ pc[u] = "folds"
          /\ slot.work.last = slot.work.first /\ slot.work.first >= next[u]
          /\ slot.task_id = ids[u][slot.work.first]

SlotOK(u, i, slot) ==
    /\ slot.next_task_id > 1
    /\ IsEmpty(slot) => ~slot.is_being_processed
    /\ ~IsEmpty(slot) => TaskOK(u, i, slot)

(* No two tasks are about the same sample.                                       *)
Before(a, b) == a.work.last < b.work.first
Apart(a, b) == IsEmpty(a) \/ IsEmpty(b) \/ Before(a, b) \/ Before(b, a)

SlotsOK(u) ==
    /\ Len(tasks[Pool(u)]) = size[Pool(u)]
    /\ \A i \in Slots(Pool(u)) : SlotOK(u, i, tasks[Pool(u)][i])
    /\ \A i, j \in Slots(Pool(u)) : i # j => Apart(tasks[Pool(u)][i], tasks[Pool(u)][j])

(* The copy a thread took of a task agrees with the slot, but for its progress.  *)
HandOK(u, hand) ==
    /\ hand.slot \in Slots(Pool(u))
    /\ tasks[Pool(u)][hand.slot].is_being_processed
    /\ hand.work \in Work
    /\ hand.work.first = tasks[Pool(u)][hand.slot].work.first
    /\ hand.work.last = tasks[Pool(u)][hand.slot].work.last
    /\ hand.work.at \in hand.work.first..(hand.work.last + 1)
    /\ pc[u] = "folds" => hand.work.at = hand.work.first

HandsOK(u) ==
    /\ \A t \in Threads : Holds(t, u) => HandOK(u, task[t])
    /\ \A t, r \in Threads : Holds(t, u) /\ Holds(r, u) /\ t # r => task[t].slot # task[r].slot

TasksOK(u) == pc[u] \in InJob => CourseOK(u) /\ SlotsOK(u) /\ HandsOK(u)

LEMMA HandStays ==
    ASSUME NEW u, NEW hand, HandOK(u, hand), Pool(u)' = Pool(u), pc'[u] = pc[u],
           Slots(Pool(u))' = Slots(Pool(u)),
           tasks'[Pool(u)][hand.slot] = tasks[Pool(u)][hand.slot]
    PROVE  HandOK(u, hand)'
<1>1. Slots(Pool(u)') = Slots(Pool(u)) /\ tasks'[Pool(u)'][hand.slot] = tasks[Pool(u)][hand.slot]
    OBVIOUS
<1> QED
    BY <1>1 DEF HandOK

(* Threads run the loop of pools that are alive.                                 *)
LoopsAreAlive ==
    \A t \in Threads : worker[t] \in AtTask \cup {"fetch", "leave"} => object[running[t]] = "alive"

TasksInv ==
    /\ Bookkeeping /\ SlotTypes /\ LoopsAreAlive
    /\ \A u \in Callers : TasksOK(u)

-------------------------------------------------------------------------------
(* The slot of a task id: NextTaskId(p, i) modulo the size of the pool is i - 1. *)
LEMMA Remainder ==
    ASSUME NEW n \in Nat, NEW m \in Nat \ {0}, NEW r \in 0..(m - 1)
    PROVE  (n * m + r) % m = r
<1> DEFINE q == (n * m + r) \div m
           s == (n * m + r) % m
<1>1. n * m \in Nat
    OBVIOUS
<1>2. q \in Int /\ s \in 0..(m - 1) /\ n * m + r = m * q + s
    BY <1>1
<1> HIDE DEF q, s
<1>3. m * (n - q) = s - r
    BY <1>2
<1>4. CASE n - q >= 1
    <2>1. m * (n - q) >= m
        BY <1>2, <1>4
    <2> QED
        BY <1>2, <1>3, <2>1
<1>5. CASE n - q <= -1
    <2>1. m * (n - q) <= -m
        BY <1>2, <1>5
    <2> QED
        BY <1>2, <1>3, <2>1
<1>6. CASE n = q
    BY <1>2, <1>3, <1>6 DEF s
<1> QED
    BY <1>2, <1>4, <1>5, <1>6

(* First(), of the slots that will do, is one of them.                           *)
LEMMA FirstIsOne ==
    ASSUME NEW T \in SUBSET Nat, T # {}
    PROVE  First(T) \in T
<1>1. IsWellFoundedOn(OpToRel(<, Nat), Nat)
    BY NatLessThanWellFounded
<1>2. PICK x \in T : \A y \in T : ~(<<y, x>> \in OpToRel(<, Nat))
    BY <1>1, WFMin, Zenon
<1>3. \A u, v \in Nat : v < u => <<v, u>> \in OpToRel(<, Nat)
    BY DEF OpToRel
<1>4. \A y \in T : ~(y < x)
    BY <1>2, <1>3, Zenon
<1>5. \A y \in T : x <= y
    BY <1>4
<1> QED
    BY <1>5 DEF First

(* One slot changes.                                                             *)
Replaced(p, i, slot) == [tasks EXCEPT ![p][i] = slot]

LEMMA OneSlot ==
    ASSUME SlotTypes, NEW p \in Pools, NEW i \in Slots(p), NEW slot \in Slot,
           tasks' = Replaced(p, i, slot)
    PROVE  /\ tasks' \in [Pools -> Seq(Slot)]
           /\ Slots(p)' = Slots(p) /\ Len(tasks'[p]) = Len(tasks[p])
           /\ tasks'[p][i] = slot
           /\ \A j \in Slots(p) \ {i} : tasks'[p][j] = tasks[p][j]
           /\ \A q \in Pools \ {p} : tasks'[q] = tasks[q]
<1>1. tasks[p] \in Seq(Slot) /\ i \in DOMAIN tasks[p]
    BY DEF SlotTypes, Slots
<1>2. /\ [tasks[p] EXCEPT ![i] = slot] \in Seq(Slot)
      /\ Len([tasks[p] EXCEPT ![i] = slot]) = Len(tasks[p])
      /\ DOMAIN [tasks[p] EXCEPT ![i] = slot] = DOMAIN tasks[p]
    BY <1>1
<1>3. tasks'[p] = [tasks[p] EXCEPT ![i] = slot]
    BY DEF SlotTypes, Replaced
<1> QED
    BY <1>1, <1>2, <1>3 DEF SlotTypes, Slots, Replaced

(* What a step does not touch.                                                   *)
LEMMA Untouched ==
    ASSUME NEW v \in Callers, TasksOK(v), pc[v] \in InJob,
           UNCHANGED <<plan, pc[v], job[v], next[v], ids[v], size[Pool(v)], tasks[Pool(v)]>>,
           \A t \in Threads : Holds(t, v)' => Holds(t, v) /\ task'[t] = task[t]
    PROVE  TasksOK(v)'
<1>1. CourseOK(v) /\ SlotsOK(v) /\ HandsOK(v) /\ Pool(v)' = Pool(v) /\ Job(v)' = Job(v)
    BY DEF TasksOK, Pool, Job
<1>2. CourseOK(v)'
    BY <1>1 DEF CourseOK
<1>3. Given(v)' = Given(v)
    BY DEF Given
<1>4. \A i, slot : SlotOK(v, i, slot) => SlotOK(v, i, slot)'
    BY <1>1, <1>3 DEF SlotOK, TaskOK
<1>5. SlotsOK(v)'
    BY <1>1, <1>4 DEF SlotsOK, Slots
<1>6. \A hand : HandOK(v, hand)' <=> HandOK(v, hand)
    BY <1>1 DEF HandOK, Slots
<1>7. HandsOK(v)'
    BY <1>1, <1>6 DEF HandsOK
<1> QED
    BY <1>2, <1>5, <1>7 DEF TasksOK

LEMMA PoolsDiffer ==
    \A u, v \in Callers : u # v => Pool(u) # Pool(v) /\ Pool(u)' # Pool(v)'
BY DEF Pool, PoolOf

(* Who is in the loop of thread() works for a caller that is in its job.         *)
LEMMA LoopersHaveOwners ==
    ASSUME Bookkeeping, LoopsAreAlive, NEW t \in Threads, worker[t] \in AtTask \cup {"fetch", "leave"}
    PROVE  /\ Owner(t) \in Callers /\ pc[Owner(t)] \in InJob /\ running[t] = Pool(Owner(t))
           /\ Pool(Owner(t)) \in Pools
           /\ IsBlock(t) <=> Job(Owner(t)).kind = "svm"
<1>1. running[t] \in Pools /\ object[running[t]] = "alive"
    BY DEF LoopsAreAlive, AtTask, Bookkeeping, PoolsOK, ThreaderInv, ThreaderTypeOK, Pools
<1>2. PICK u \in Callers : running[t] = Pool(u) /\ pc[u] \in InJob
    BY <1>1 DEF Bookkeeping, OwnersAreThere
<1>3. Owner(t) = u /\ running[t][2] = job[u]
    BY <1>2 DEF Owner, OwnerOf, Pool, PoolOf
<1> QED
    BY <1>1, <1>2, <1>3 DEF IsBlock, Job

(* Outside of an evaluation or a validation all slots are empty.                 *)
AllEmpty(u) == \A i \in Slots(Pool(u)) : IsEmpty(tasks[Pool(u)][i])

LEMMA IdleIsEmpty ==
    ASSUME NEW u \in Callers, TasksOK(u), pc[u] \in InJob, pc[u] \notin {"blocks", "folds"}
    PROVE  AllEmpty(u)
BY DEF TasksOK, SlotsOK, SlotOK, TaskOK, AllEmpty

LEMMA EmptyIsFree ==
    ASSUME NEW u \in Callers, TasksOK(u), pc[u] \in InJob, AllEmpty(u)
    PROVE  \A t \in Threads : ~Holds(t, u)
BY DEF TasksOK, SlotsOK, SlotOK, HandsOK, HandOK, AllEmpty

(* A step of a caller with nothing in its pool.                                  *)
LEMMA OwnStep ==
    ASSUME NEW u \in Callers, TasksOK(u), pc[u] \in InJob, AllEmpty(u),
           UNCHANGED <<job, size, tasks, running, worker>>,
           pc'[u] \in InJob => CourseOK(u)'
    PROVE  TasksOK(u)'
<1> SUFFICES ASSUME pc'[u] \in InJob PROVE CourseOK(u)' /\ SlotsOK(u)' /\ HandsOK(u)'
    BY DEF TasksOK
<1>1. Pool(u)' = Pool(u) /\ SlotsOK(u)
    BY DEF Pool, TasksOK
<1>2. \A t \in Threads : ~Holds(t, u)'
    BY <1>1, EmptyIsFree DEF Holds
<1>3. \A i \in Slots(Pool(u)) : SlotOK(u, i, tasks[Pool(u)][i])'
    BY <1>1 DEF SlotsOK, SlotOK, AllEmpty, IsEmpty
<1>4. SlotsOK(u)'
    BY <1>1, <1>3 DEF SlotsOK, AllEmpty, Apart, Slots, IsEmpty
<1> QED
    BY <1>2, <1>4 DEF HandsOK

(* A caller's step leaves the tasks of the others alone.                         *)
LEMMA OthersKeepTasks ==
    ASSUME TasksInv, NEW u \in Callers,
           UNCHANGED <<plan, running, worker, task>>,
           \A v \in Callers \ {u} : UNCHANGED <<pc[v], job[v], next[v], ids[v]>>,
           \A p \in Pools \ {Pool(u)} : UNCHANGED <<size[p], tasks[p]>>
    PROVE  \A v \in Callers \ {u} : TasksOK(v)'
<1> SUFFICES ASSUME NEW v \in Callers \ {u}, pc'[v] \in InJob PROVE TasksOK(v)'
    BY DEF TasksOK
<1>1. pc[v] \in InJob /\ TasksOK(v)
    BY DEF TasksInv
<1>2. Pool(v) \in Pools /\ Pool(v) # Pool(u) /\ Pool(v)' = Pool(v)
    BY <1>1, PoolType, PoolsDiffer DEF TasksInv, Bookkeeping, Pool, InJob
<1>3. \A t \in Threads : Holds(t, v)' => Holds(t, v) /\ task'[t] = task[t]
    BY <1>2 DEF Holds
<1> QED
    BY <1>1, <1>2, <1>3, Untouched

(* So does the step of a thread.                                                 *)
LEMMA OtherPoolsKeepTasks ==
    ASSUME TasksInv, NEW t \in Threads, NEW u \in Callers,
           UNCHANGED <<plan, pc, job, next, ids, size>>,
           \A r \in Threads \ {t} : UNCHANGED <<running[r], worker[r], task[r]>>,
           worker'[t] \in AtTask => running'[t] = Pool(u),
           \A p \in Pools \ {Pool(u)} : UNCHANGED tasks[p]
    PROVE  \A v \in Callers \ {u} : TasksOK(v)'
<1> SUFFICES ASSUME NEW v \in Callers \ {u}, pc'[v] \in InJob PROVE TasksOK(v)'
    BY DEF TasksOK
<1>1. pc[v] \in InJob /\ TasksOK(v)
    BY DEF TasksInv
<1>2. Pool(v) \in Pools /\ Pool(v) # Pool(u) /\ Pool(v)' = Pool(v)
    BY <1>1, PoolType, PoolsDiffer DEF TasksInv, Bookkeeping, Pool, InJob
<1>3. \A r \in Threads : Holds(r, v)' => Holds(r, v) /\ task'[r] = task[r]
    BY <1>2 DEF Holds
<1> QED
    BY <1>1, <1>2, <1>3, Untouched

-------------------------------------------------------------------------------
(* The loop of thread() is entered in a pool that is alive, and such a pool only *)
(* ends when no thread is in it.                                                 *)
LEMMA AliveStays ==
    ASSUME TasksInv, [Next]_vars, NEW p \in Pools, object[p] = "alive"
    PROVE  object'[p] \in {"alive", "destroyed"}
<1>1. PositionsOK /\ PoolsOK
    BY DEF TasksInv, Bookkeeping
<1>2. ASSUME NEW u \in Callers, CallerStep(u)
      PROVE  object'[p] \in {"alive", "destroyed"}
    <2>1. StartJob(u) => UNCHANGED object[p]
        BY <1>1 DEF StartJob, Construct, PoolsOK
    <2>2. TrainingThrows(u) \/ StartThread(Pool(u)) => UNCHANGED object[p]
        BY <1>1 DEF TrainingThrows, StartThrows, StartThread, PoolsOK
    <2>3. Destroy(Pool(u)) => object'[p] \in {"alive", "destroyed"}
        BY <1>1 DEF Destroy, PoolsOK
    <2> QED
        BY <1>1, <1>2, <2>1, <2>2, <2>3, QuietCallers
<1>3. ASSUME NEW t \in Threads, ThreadStep(t)
      PROVE  UNCHANGED object
    BY <1>1, <1>3, QuietThreads DEF ThreadTakesPool, LeavePool, Crash
<1>4. WaitEndsEarly \/ Exit \/ UNCHANGED vars => UNCHANGED object
    BY DEF WaitEndsEarly, SpuriousWakeup, Exit, MainReturns, DeleteThreader, ThreaderIsGone, vars, poolVars
<1> QED
    BY <1>2, <1>3, <1>4 DEF Next

LEMMA CallersKeepThreads ==
    ASSUME NEW u \in Callers, CallerStep(u)
    PROVE  UNCHANGED <<running, worker, task>>
<1> USE DEF Construct, AddTask, WaitForTaskDone, TellThreadsToEnd, WaitForThreads, Destroy,
            threaderVars, poolVars
<1>1. StartJob(u) \/ PoolIsReady(u) \/ GetRisk(u) \/ RunDirectly(u) \/ OptimizationStatus(u)
          => UNCHANGED <<running, worker, task>>
    BY DEF StartJob, PoolIsReady, GetRisk, RunDirectly, OptimizationStatus
<1>2. AddBlock(u) \/ AwaitBlocks(u) \/ AddFold(u) \/ CollectFold(u) => UNCHANGED <<running, worker, task>>
    BY DEF AddBlock, AwaitBlocks, AddFold, CollectFold
<1>3. ShutdownPool(u) \/ JoinPool(u) => UNCHANGED <<running, worker, task>>
    BY DEF ShutdownPool, JoinPool
<1>4. StartThreads(u) \/ TrainingThrows(u) => UNCHANGED <<running, worker, task>>
    BY DEF StartThreads, StartThread, StartWaits, TrainingThrows, StartThrows, HandOver, WaitUntilEmpty,
           SpawnFails
<1> QED
    BY <1>1, <1>2, <1>3, <1>4 DEF CallerStep

(* Where a thread goes in a step of its own.                                     *)
LEMMA ThreadMoves ==
    ASSUME PoolsOK, NEW t \in Threads, ThreadStep(t)
    PROVE  /\ \A r \in Threads \ {t} : UNCHANGED <<running[r], worker[r]>>
           /\ \/ UNCHANGED <<running, worker>>
              \/ worker[t] = "helper" /\ UNCHANGED running /\ worker'[t] \in {"fetch", "leave"}
                 /\ IsAlive(t)
              \/ worker[t] \in AtTask \cup {"fetch"} /\ UNCHANGED running
              \/ worker'[t] \in {"outside", "helper"}
<1> USE DEF PoolsOK, threaderVars, poolVars, AtTask
<1>1. CASE ThreadTakesPool(t)
    BY <1>1 DEF ThreadTakesPool, TakeFunction
<1>2. CASE ThreadHelper(t)
    BY <1>2 DEF ThreadHelper
<1>3. CASE FetchTask(t)
    BY <1>3 DEF FetchTask
<1>4. CASE ThreadEnds(t) \/ ClearSlot(t) \/ Crash(t)
    BY <1>4 DEF ThreadEnds, ClearSlot, Crash
<1>5. CASE LeavePool(t)
    BY <1>5 DEF LeavePool, Return
<1>6. CASE (WaitForWork(t) \/ Leave(t)) /\ UNCHANGED poolVars
    BY <1>6 DEF WaitForWork, Leave
<1>7. CASE CallOracle(t) \/ LockAndRead(t)
    BY <1>7 DEF CallOracle, LockAndRead
<1>8. CASE AddAndUnlock(t) \/ RunFold(t)
    BY <1>8 DEF AddAndUnlock, RunFold, Working
<1> QED
    BY <1>1, <1>2, <1>3, <1>4, <1>5, <1>6, <1>7, <1>8 DEF ThreadStep

LEMMA LoopsStep == TasksInv /\ [Next]_vars => LoopsAreAlive'
<1> SUFFICES ASSUME TasksInv, [Next]_vars,
                    NEW t \in Threads, worker'[t] \in AtTask \cup {"fetch", "leave"}
             PROVE  object'[running'[t]] = "alive"
    BY DEF LoopsAreAlive
<1>1. PoolsOK /\ LoopsAreAlive /\ running \in [Threads -> Pools \cup {NoFunction}]
    BY DEF TasksInv, Bookkeeping, ThreaderInv, ThreaderTypeOK, Pools
<1>2. PoolsOK' /\ PoolsAreThere' /\ running' \in [Threads -> Pools \cup {NoFunction}]
    BY BookkeepingStep DEF TasksInv, Bookkeeping, ThreaderInv, ThreaderTypeOK, Pools
<1>3. running'[t] = running[t] /\ object[running[t]] = "alive"
    <2>1. ASSUME UNCHANGED <<running, worker>>
          PROVE  running'[t] = running[t] /\ object[running[t]] = "alive"
        BY <1>1, <2>1 DEF LoopsAreAlive
    <2>2. ASSUME NEW r \in Threads, ThreadStep(r)
          PROVE  running'[t] = running[t] /\ object[running[t]] = "alive"
        BY <1>1, <2>2, ThreadMoves DEF LoopsAreAlive, IsAlive, AtTask
    <2>3. WaitEndsEarly \/ Exit \/ UNCHANGED vars => UNCHANGED <<running, worker>>
        BY DEF WaitEndsEarly, WaitEnds, WaitForEmptyEnds, WaitForDestructedEnds, SpuriousWakeup, Exit,
               MainReturns, DestructIfReady, DestroyThreader, AwaitThreads, DeleteThreader, ThreaderIsGone, vars,
               threaderVars, poolVars
    <2> QED
        BY <2>1, <2>2, <2>3, CallersKeepThreads DEF Next
<1>4. running[t] # NoFunction
    BY <1>2, <1>3 DEF PoolsOK, AtTask
<1>5. object'[running[t]] \in {"alive", "destroyed"}
    BY <1>1, <1>3, <1>4, AliveStays
<1> QED
    BY <1>2, <1>3, <1>4, <1>5 DEF PoolsAreThere

-------------------------------------------------------------------------------
(* The steps of callers.                                                         *)
LEMMA JobType ==
    ASSUME PositionsOK, NEW u \in Callers, pc[u] # "done"
    PROVE  /\ Job(u).kind \in {"svm", "folds"}
           /\ Job(u).threads \in Nat /\ Job(u).cache \in Nat
           /\ Job(u).samples \in Nat /\ Job(u).samples >= 1 /\ Job(u).samples \in Samples
<1> DEFINE Jobs == [kind : {"svm", "folds"}, threads : Nat, samples : Samples,
                    cache : Nat, iterations : Nat]
<1>1. plan[u] \in Seq(Jobs) /\ job[u] \in 1..Len(plan[u])
    BY PlanAssumption DEF PositionsOK
<1>2. Job(u) \in Jobs
    <2> HIDE DEF Jobs
    <2> QED
        BY <1>1 DEF Job
<1> QED
    BY <1>2, PlanAssumption DEF Samples

LEMMA TasksUntouched ==
    ASSUME TasksInv,
           UNCHANGED <<plan, pc, job, next, ids, size, tasks, task, running, worker>>
    PROVE  SlotTypes' /\ \A v \in Callers : TasksOK(v)'
<1>1. SlotTypes'
    BY DEF TasksInv, SlotTypes
<1>2. ASSUME NEW v \in Callers, pc[v] \in InJob
      PROVE  TasksOK(v)'
    <2>1. Pool(v)' = Pool(v) /\ TasksOK(v) /\ \A t \in Threads : Holds(t, v)' <=> Holds(t, v)
        BY DEF TasksInv, Pool, Holds
    <2> QED
        BY <1>2, <2>1, Untouched
<1> QED
    BY <1>1, <1>2 DEF TasksOK

(* A step of a caller whose slots are empty.                                     *)
LEMMA IdleStep ==
    ASSUME TasksInv, NEW u \in Callers, pc[u] \in InJob, AllEmpty(u),
           UNCHANGED <<plan, job, size, tasks, task, running, worker>>,
           next' \in [Callers -> Nat], ids' \in [Callers -> Seq(Nat)],
           \A v \in Callers \ {u} : UNCHANGED <<pc[v], next[v], ids[v]>>,
           pc'[u] \in InJob => CourseOK(u)'
    PROVE  SlotTypes' /\ \A v \in Callers : TasksOK(v)'
<1>1. TasksOK(u) /\ SlotTypes'
    BY DEF TasksInv, SlotTypes
<1>2. TasksOK(u)'
    BY <1>1, OwnStep
<1>3. \A v \in Callers \ {u} : TasksOK(v)'
    BY OthersKeepTasks
<1> QED
    BY <1>1, <1>2, <1>3

LEMMA IdleStepsKeepTasks ==
    ASSUME TasksInv, NEW u \in Callers,
           PoolIsReady(u) \/ GetRisk(u) \/ OptimizationStatus(u)
    PROVE  SlotTypes' /\ \A v \in Callers : TasksOK(v)'
<1>1. PositionsOK /\ SlotTypes /\ TasksOK(u)
    BY DEF TasksInv, Bookkeeping
<1>2. pc[u] \in {"start", "risk", "status"} /\ pc[u] \in InJob
    BY DEF PoolIsReady, GetRisk, OptimizationStatus, InJob
<1>3. AllEmpty(u) /\ CourseOK(u)
    BY <1>1, <1>2, IdleIsEmpty DEF TasksOK
<1>4. Job(u).samples \in Nat /\ Job(u).samples >= 1 /\ Job(u).kind \in {"svm", "folds"}
    BY <1>1, <1>2, JobType
<1>5. UNCHANGED <<plan, job, size, tasks, task, running, worker, ids>>
    BY DEF PoolIsReady, GetRisk, OptimizationStatus, threaderVars, poolVars
<1>6. /\ next' \in [Callers -> Nat] /\ ids' \in [Callers -> Seq(Nat)]
      /\ \A v \in Callers \ {u} : UNCHANGED <<pc[v], next[v], ids[v]>>
    <2>1. pc \in [Callers -> InJob \cup {"train", "done", "failed"}]
        BY <1>1 DEF PositionsOK
    <2> QED
        BY <1>1, <1>5, <2>1 DEF PoolIsReady, GetRisk, OptimizationStatus, SlotTypes, GoTo, Continue, Stop,
                           GapIsSmall, GapIsLarge
<1>7. CourseOK(u)'
    <2>1. Job(u)' = Job(u)
        BY <1>5 DEF Job
    <2>2. pc \in [Callers -> InJob \cup {"train", "done", "failed"}]
        BY <1>1 DEF PositionsOK
    <2>3. CASE PoolIsReady(u)
        BY <1>1, <1>3, <1>4, <2>1, <2>2, <2>3 DEF PoolIsReady, GoTo, CourseOK, SlotTypes
    <2>4. CASE GetRisk(u)
        BY <1>1, <1>3, <1>4, <2>1, <2>2, <2>4 DEF GetRisk, GoTo, CourseOK, SlotTypes
    <2>5. CASE OptimizationStatus(u)
        BY <1>1, <1>3, <1>4, <2>1, <2>2, <2>5 DEF OptimizationStatus, GoTo, CourseOK, SlotTypes, Continue, Stop,
                           GapIsSmall, GapIsLarge
    <2> QED
        BY <2>3, <2>4, <2>5
<1> QED
    BY <1>2, <1>3, <1>5, <1>6, <1>7, IdleStep

LEMMA StartingKeepsTasks ==
    ASSUME TasksInv, NEW u \in Callers, StartThreads(u) \/ TrainingThrows(u)
    PROVE  SlotTypes' /\ \A v \in Callers : TasksOK(v)'
<1>1. pc[u] = "start" /\ pc[u] \in InJob /\ TasksOK(u) /\ SlotTypes /\ PositionsOK
    BY DEF StartThreads, TrainingThrows, InJob, TasksInv, Bookkeeping
<1>2. /\ UNCHANGED <<plan, job, size, tasks, task, running, worker, ids, next>>
      /\ \/ UNCHANGED pc
         \/ pc' = [pc EXCEPT ![u] = "failed"]
    BY DEF StartThreads, StartThread, StartWaits, TrainingThrows, StartThrows, HandOver, WaitUntilEmpty,
           SpawnFails, GoTo, trainingVars, poolVars
<1>3. AllEmpty(u)
    BY <1>1, IdleIsEmpty
<1>4. CASE UNCHANGED pc
    BY <1>2, <1>4, TasksUntouched
<1>5. CASE pc' = [pc EXCEPT ![u] = "failed"]
    <2>1. pc'[u] \notin InJob /\ \A v \in Callers \ {u} : pc'[v] = pc[v]
        BY <1>1, <1>5 DEF PositionsOK, InJob
    <2> QED
        BY <1>1, <1>2, <1>3, <2>1, IdleStep DEF SlotTypes
<1> QED
    BY <1>2, <1>4, <1>5

LEMMA EndingKeepsTasks ==
    ASSUME TasksInv, NEW u \in Callers, ShutdownPool(u) \/ JoinPool(u)
    PROVE  SlotTypes' /\ \A v \in Callers : TasksOK(v)'
<1>1. /\ pc[u] \in {"shutdown", "join"} /\ pc[u] \in InJob /\ TasksOK(u) /\ SlotTypes /\ PositionsOK
      /\ Pool(u) \in Pools
    BY PoolType DEF ShutdownPool, JoinPool, InJob, TasksInv, Bookkeeping
<1>2. AllEmpty(u)
    BY <1>1, IdleIsEmpty
<1>3. CASE Destroy(Pool(u)) /\ JoinPool(u)
    <2>1. /\ tasks' = [tasks EXCEPT ![Pool(u)] = <<>>]
          /\ pc'[u] \notin InJob
          /\ \A v \in Callers \ {u} : UNCHANGED <<pc[v], job[v]>>
          /\ UNCHANGED <<plan, next, ids, size, task, running, worker>>
        BY <1>1, <1>3 DEF Destroy, JoinPool, WaitForThreads, GoTo, PositionsOK, InJob, threaderVars
    <2>2. SlotTypes'
        BY <1>1, <2>1 DEF SlotTypes
    <2>3. \A p \in Pools \ {Pool(u)} : UNCHANGED <<size[p], tasks[p]>>
        BY <1>1, <2>1 DEF SlotTypes
    <2>4. \A v \in Callers \ {u} : TasksOK(v)'
        BY <2>1, <2>3, OthersKeepTasks
    <2> QED
        BY <2>1, <2>2, <2>4 DEF TasksOK
<1>4. CASE ~(Destroy(Pool(u)) /\ JoinPool(u))
    <2>1. /\ UNCHANGED <<plan, job, size, tasks, task, running, worker, ids, next>>
          /\ \/ UNCHANGED pc
             \/ pc' = [pc EXCEPT ![u] = "join"]
        BY <1>4 DEF ShutdownPool, JoinPool, WaitForTaskDone, TellThreadsToEnd, WaitForThreads, GoTo,
                    threaderVars
    <2>2. CASE UNCHANGED pc
        BY <2>1, <2>2, TasksUntouched
    <2>3. CASE pc' = [pc EXCEPT ![u] = "join"]
        <3>1. pc'[u] = "join" /\ \A v \in Callers \ {u} : pc'[v] = pc[v]
            BY <1>1, <2>3 DEF PositionsOK
        <3>2. CourseOK(u)'
            BY <3>1 DEF CourseOK
        <3> QED
            BY <1>1, <1>2, <2>1, <3>1, <3>2, IdleStep DEF SlotTypes
    <2> QED
        BY <2>1, <2>2, <2>3
<1> QED
    BY <1>3, <1>4

(* The slots of a new pool are empty, and nobody works for it yet.               *)
LEMMA StartJobKeepsTasks ==
    ASSUME TasksInv, NEW u \in Callers, StartJob(u)
    PROVE  SlotTypes' /\ \A v \in Callers : TasksOK(v)'
<1> DEFINE p == Pool(u)
           n == Job(u).threads
           slots == [i \in 1..n |-> EmptySlot(2)]
<1>1. /\ SlotTypes /\ PositionsOK /\ pc[u] = "train" /\ p \in Pools /\ n \in Nat
    BY PoolType, JobType DEF StartJob, TasksInv, Bookkeeping
<1>2. /\ object[p] = "none"
      /\ size' = [size EXCEPT ![p] = n] /\ tasks' = [tasks EXCEPT ![p] = slots]
      /\ pc' = [pc EXCEPT ![u] = "start"]
      /\ next' = [next EXCEPT ![u] = 1] /\ ids' = [ids EXCEPT ![u] = <<>>]
      /\ UNCHANGED <<plan, job, task, running, worker>>
    BY DEF StartJob, Construct, GoTo, threaderVars
<1>3. EmptySlot(2) \in Slot
    BY DEF EmptySlot, Slot
<1>4. slots \in Seq(Slot) /\ Len(slots) = n /\ DOMAIN slots = 1..n
    BY <1>1, <1>3
<1> HIDE DEF p, n
<1>5. SlotTypes' /\ tasks'[p] = slots /\ size'[p] = n
    BY <1>1, <1>2, <1>4 DEF SlotTypes
<1>6. pc'[u] = "start" /\ next'[u] = 1 /\ ids'[u] = <<>>
    BY <1>1, <1>2 DEF SlotTypes, PositionsOK
<1>7. \A v \in Callers \ {u} : TasksOK(v)'
    <2>1. /\ \A v \in Callers \ {u} : UNCHANGED <<pc[v], job[v], next[v], ids[v]>>
          /\ \A q \in Pools \ {p} : UNCHANGED <<size[q], tasks[q]>>
        BY <1>1, <1>2 DEF SlotTypes, PositionsOK
    <2> QED
        BY <1>2, <2>1, OthersKeepTasks DEF p
<1>8. TasksOK(u)'
    <2>1. CourseOK(u)'
        BY <1>6 DEF CourseOK
    <2>2. Pool(u)' = p
        BY <1>2 DEF Pool, p
    <2>3. SlotsOK(u)'
        <3>1. \A i \in 1..n : slots[i] = EmptySlot(2)
            OBVIOUS
        <3>2. \A i : SlotOK(u, i, EmptySlot(2))' /\ IsEmpty(EmptySlot(2))
            BY DEF SlotOK, EmptySlot, IsEmpty
        <3> HIDE DEF slots
        <3> QED
            BY <1>4, <1>5, <2>2, <3>1, <3>2 DEF SlotsOK, Slots, Apart
    <2>4. \A t \in Threads : ~Holds(t, u)'
        <3>1. PoolsOK /\ LoopsAreAlive
            BY DEF TasksInv, Bookkeeping
        <3> QED
            BY <1>2, <2>2, <3>1 DEF Holds, LoopsAreAlive
    <2> QED
        BY <2>1, <2>3, <2>4 DEF TasksOK, HandsOK
<1> QED
    BY <1>5, <1>7, <1>8

(* An empty slot is filled.                                                      *)
LEMMA FilledSlot ==
    ASSUME TasksInv, NEW u \in Callers, pc[u] \in InJob,
           UNCHANGED <<plan, pc, job, size, task, running, worker>>,
           next' \in [Callers -> Nat], ids' \in [Callers -> Seq(Nat)],
           \A v \in Callers \ {u} : UNCHANGED <<next[v], ids[v]>>,
           NEW i \in Slots(Pool(u)), NEW slot \in Slot, IsEmpty(tasks[Pool(u)][i]),
           tasks' = Replaced(Pool(u), i, slot),
           CourseOK(u)', SlotOK(u, i, slot)',
           \A j \in Slots(Pool(u)) : \A s \in Slot : SlotOK(u, j, s) => SlotOK(u, j, s)',
           \A j \in Slots(Pool(u)) :
               ~IsEmpty(tasks[Pool(u)][j]) => Before(tasks[Pool(u)][j], slot)
    PROVE  SlotTypes' /\ \A v \in Callers : TasksOK(v)'
<1> PICK p \in Pools : p = Pool(u)
    BY PoolType DEF TasksInv, Bookkeeping, InJob
<1>1. /\ SlotTypes /\ TasksOK(u) /\ PositionsOK
    BY DEF TasksInv, Bookkeeping
<1>2. /\ tasks' \in [Pools -> Seq(Slot)]
      /\ Slots(p)' = Slots(p) /\ Len(tasks'[p]) = Len(tasks[p])
      /\ tasks'[p][i] = slot
      /\ \A j \in Slots(p) \ {i} : tasks'[p][j] = tasks[p][j]
      /\ \A q \in Pools \ {p} : tasks'[q] = tasks[q]
    BY <1>1, OneSlot
<1>3. SlotTypes'
    BY <1>1, <1>2 DEF SlotTypes
<1>4. \A v \in Callers \ {u} : TasksOK(v)'
    BY <1>1, <1>2, OthersKeepTasks
<1>5. /\ CourseOK(u) /\ SlotsOK(u) /\ HandsOK(u) /\ Pool(u)' = p
      /\ \A t \in Threads : Holds(t, u)' <=> Holds(t, u)
    BY <1>1 DEF TasksOK, Pool, Holds
<1>6. \A j \in Slots(p) : tasks[p][j] \in Slot
    BY <1>1 DEF SlotTypes, Slots
<1>7. SlotsOK(u)'
    <2>1. \A j \in Slots(p) : \A s \in Slot : s = tasks'[p][j] => SlotOK(u, j, s)'
        BY <1>2, <1>5, <1>6 DEF SlotsOK
    <2>2. \A j, k \in Slots(p) : j # k => Apart(tasks'[p][j], tasks'[p][k])
        <3>1. ASSUME NEW j \in Slots(p) \ {i}
              PROVE  Apart(tasks'[p][j], slot) /\ Apart(slot, tasks'[p][j])
            BY <1>2, <3>1 DEF Apart
        <3>2. ASSUME NEW j \in Slots(p) \ {i}, NEW k \in Slots(p) \ {i}, j # k
              PROVE  Apart(tasks'[p][j], tasks'[p][k])
            BY <1>2, <1>5, <3>2 DEF SlotsOK
        <3> SUFFICES ASSUME NEW j \in Slots(p), NEW k \in Slots(p), j # k
                     PROVE  Apart(tasks'[p][j], tasks'[p][k])
            OBVIOUS
        <3>3. CASE j = i
            BY <1>2, <3>1, <3>3
        <3>4. CASE k = i
            BY <1>2, <3>1, <3>4
        <3>5. CASE j # i /\ k # i
            BY <3>2, <3>5
        <3> QED
            BY <3>3, <3>4, <3>5
    <2>3. Len(tasks[Pool(u)])' = size[Pool(u)]'
        BY <1>2, <1>5 DEF SlotsOK
    <2>4. \A j \in Slots(p) : tasks'[p][j] \in Slot
        BY <1>2, <1>6
    <2>5. \A j \in Slots(Pool(u))' : SlotOK(u, j, tasks[Pool(u)][j])'
        BY <1>2, <1>5, <2>1, <2>4
    <2>6. \A j, k \in Slots(Pool(u))' : j # k => Apart(tasks[Pool(u)][j], tasks[Pool(u)][k])'
        BY <1>2, <1>5, <2>2
    <2> QED
        BY <2>3, <2>5, <2>6 DEF SlotsOK
<1>8. HandsOK(u)'
    <2>1. ASSUME NEW t \in Threads, Holds(t, u)
          PROVE  HandOK(u, task[t])'
        <3>1. HandOK(u, task[t])
            BY <1>5, <2>1 DEF HandsOK
        <3>2. task[t].slot \in Slots(p) \ {i}
            BY <1>5, <3>1 DEF HandOK, SlotsOK, SlotOK
        <3> PICK hand : hand = task[t]
            OBVIOUS
        <3>3. tasks'[p][hand.slot] = tasks[p][hand.slot] /\ task'[t] = hand
            BY <1>1, <1>2, <3>2
        <3>4. Slots(p)' = Slots(p) /\ Pool(u)' = p /\ pc'[u] = pc[u]
            BY <1>1, <1>2, <1>5
        <3>5. HandOK(u, hand)'
            BY <3>1, <3>3, <3>4, HandStays
        <3> QED
            BY <3>3, <3>5
    <2> QED
        BY <1>5, <2>1 DEF HandsOK
<1> QED
    BY <1>3, <1>4, <1>5, <1>7, <1>8 DEF TasksOK

(* What add_task() puts into the slot.                                           *)
LEMMA AddedTask ==
    ASSUME SlotTypes, NEW u \in Callers, SlotsOK(u), Pool(u) \in Pools, NEW w \in Work,
           AddTask(u, Pool(u), w)
    PROVE  LET p == Pool(u)
               i == First(EmptySlots(p))
           IN  /\ i \in Slots(p) /\ IsEmpty(tasks[p][i])
               /\ NextTaskId(p, i) \in Nat \ {0} /\ NextTaskId(p, i) % size[p] = i - 1
               /\ \E slot \in Slot :
                      /\ tasks' = Replaced(p, i, slot)
                      /\ slot.task_id = NextTaskId(p, i)
                      /\ slot.next_task_id > 1 /\ ~slot.is_being_processed
                      /\ slot.thread_id = u /\ slot.work = w
<1> PICK p \in Pools : p = Pool(u)
    OBVIOUS
<1> DEFINE i == First(EmptySlots(p))
<1>1. tasks[p] \in Seq(Slot) /\ size[p] \in Nat /\ Len(tasks[p]) = size[p]
    BY DEF SlotTypes, SlotsOK
<1>2. EmptySlots(p) \in SUBSET Nat /\ EmptySlots(p) # {}
    BY <1>1 DEF EmptySlots, Slots, AddTask
<1>3. PICK k \in EmptySlots(p) : k = i
    BY <1>2, FirstIsOne
<1>4. k \in 1..size[p] /\ k \in Slots(p) /\ size[p] > 0
    BY <1>1, <1>3 DEF EmptySlots, Slots
<1>5. PICK old \in Slot : old = tasks[p][k] /\ IsEmpty(old)
    <2>1. IsEmpty(tasks[p][k])
        BY <1>3 DEF EmptySlots
    <2>2. tasks[p][k] \in Slot
        BY <1>1, <1>4
    <2> QED
        BY <2>1, <2>2
<1>6. old.next_task_id \in Nat /\ old.next_task_id > 1 /\ ~old.is_being_processed
    BY <1>4, <1>5 DEF Slot, SlotsOK, SlotOK
<1>7. PICK id : id = NextTaskId(p, k)
    OBVIOUS
<1>8. id \in Nat \ {0} /\ id % size[p] = k - 1
    <2> DEFINE n == old.next_task_id
               m == size[p]
    <2>1. n \in Nat /\ n > 1 /\ m \in Nat \ {0} /\ k - 1 \in 0..(m - 1)
        BY <1>1, <1>4, <1>6
    <2>2. id = n * m + (k - 1)
        BY <1>5, <1>7 DEF NextTaskId
    <2> HIDE DEF n, m
    <2>3. n * m \in Nat /\ n * m >= 1
        BY <2>1
    <2>4. id \in Nat \ {0}
        BY <2>1, <2>2, <2>3
    <2>5. id % m = k - 1
        BY <2>1, <2>2, Remainder
    <2> QED
        BY <2>4, <2>5 DEF m
<1>9. PICK n \in Nat : n = old.next_task_id + 1
    BY <1>6
<1>10. PICK slot \in Slot : slot = Filled(old, id, u, w)
    <2>1. [old EXCEPT !.task_id = id, !.next_task_id = n, !.thread_id = u, !.work = w] \in Slot
        BY <1>8 DEF Slot
    <2> QED
        BY <1>9, <2>1 DEF Filled
<1>11. tasks' = Replaced(p, k, slot)
    <2>1. tasks' = [tasks EXCEPT ![p][k] = Filled(tasks[p][k], id, u, w)]
        BY <1>3, <1>7 DEF AddTask
    <2> QED
        BY <1>5, <1>10, <2>1 DEF Replaced
<1>12. /\ slot.task_id = id
       /\ slot.next_task_id > 1 /\ ~slot.is_being_processed
       /\ slot.thread_id = u /\ slot.work = w
    BY <1>6, <1>9, <1>10 DEF Slot, Filled
<1> QED
    BY <1>3, <1>4, <1>5, <1>7, <1>8, <1>11, <1>12

LEMMA BlocksAreInRange ==
    ASSUME TasksInv, NEW u \in Callers, pc[u] = "blocks", size[Pool(u)] # 0, next[u] <= Job(u).samples
    PROVE  /\ next[u] \in Nat \ {0} /\ Job(u).samples \in Nat
           /\ Least(next[u] + BlockSize(u) - 1, Job(u).samples) \in next[u]..Job(u).samples
<1>1. PositionsOK /\ SlotTypes /\ CourseOK(u)
    BY DEF TasksInv, Bookkeeping, TasksOK, InJob
<1>2. Job(u).samples \in Nat /\ Pool(u) \in Pools /\ next[u] \in Nat \ {0}
    BY <1>1, JobType, PoolType DEF CourseOK
<1>3. size[Pool(u)] \in Nat \ {0} /\ ChunksPerThread \in Nat \ {0}
    BY <1>1, <1>2, PlanAssumption DEF SlotTypes
<1>4. size[Pool(u)] * ChunksPerThread \in Nat \ {0}
    <2>1. \A a, b \in Nat \ {0} : a * b \in Nat \ {0}
        OBVIOUS
    <2> QED
        BY <1>3, <2>1
<1>5. Job(u).samples \div (size[Pool(u)] * ChunksPerThread) \in Int
    BY <1>2, <1>4
<1>6. BlockSize(u) \in Nat \ {0}
    BY <1>5 DEF BlockSize
<1> QED
    BY <1>2, <1>6 DEF Least

LEMMA AddBlockKeepsTasks ==
    ASSUME TasksInv, NEW u \in Callers, AddBlock(u)
    PROVE  SlotTypes' /\ \A v \in Callers : TasksOK(v)'
<1>1. /\ pc[u] = "blocks" /\ pc[u] \in InJob /\ SlotTypes /\ PositionsOK
      /\ CourseOK(u) /\ SlotsOK(u) /\ UNCHANGED <<plan, pc, job, ids>>
    BY DEF AddBlock, InJob, TasksInv, Bookkeeping, TasksOK
<1> PICK p \in Pools : p = Pool(u)
    BY <1>1, PoolType
<1>2. CASE NoSlotIsEmpty(Pool(u))
    BY <1>1, <1>2, TasksUntouched DEF AddBlock, WaitForTaskDone, threaderVars
<1>3. CASE ~NoSlotIsEmpty(Pool(u))
    <2> PICK last : last = Least(next[u] + BlockSize(u) - 1, Job(u).samples)
        OBVIOUS
    <2>1. /\ next[u] \in Nat \ {0} /\ Job(u).samples \in Nat /\ size[p] # 0
          /\ last \in next[u]..Job(u).samples
        BY <1>1, BlocksAreInRange DEF AddBlock
    <2> PICK w \in Work : w = [first |-> next[u], last |-> last, at |-> next[u]]
        <3>1. next[u] \in Nat /\ last \in Nat
            BY <2>1
        <3>2. [first |-> next[u], last |-> last, at |-> next[u]] \in Work
            BY <3>1 DEF Work
        <3> QED
            BY <3>2
    <2>2. AddTask(u, Pool(u), w) /\ next' = [next EXCEPT ![u] = last + 1]
        BY <1>3 DEF AddBlock
    <2> PICK i \in Slots(p), slot \in Slot :
            /\ IsEmpty(tasks[p][i]) /\ tasks' = Replaced(p, i, slot)
            /\ slot.task_id \in Nat \ {0} /\ slot.task_id % size[p] = i - 1
            /\ slot.next_task_id > 1 /\ ~slot.is_being_processed
            /\ slot.thread_id = u /\ slot.work = w
        BY <1>1, <2>2, AddedTask
    <2>3. UNCHANGED <<size, task, running, worker>>
        BY <2>2 DEF AddTask, threaderVars
    <2>4. /\ next' \in [Callers -> Nat] /\ ids' \in [Callers -> Seq(Nat)] /\ next'[u] = last + 1
          /\ \A v \in Callers \ {u} : UNCHANGED <<next[v], ids[v]>>
        BY <1>1, <2>1, <2>2 DEF SlotTypes
    <2>5. CourseOK(u)'
        <3>1. pc'[u] = "blocks" /\ Job(u)' = Job(u)
            BY <1>1 DEF Job
        <3>2. Job(u).kind = "svm"
            BY <1>1 DEF CourseOK
        <3>3. next'[u] \in 1..(Job(u).samples + 1)
            BY <2>1, <2>4
        <3> QED
            BY <3>1, <3>2, <3>3 DEF CourseOK
    <2>6. Given(u) = 1..(next[u] - 1) /\ Given(u)' = 1..last /\ Pool(u)' = Pool(u)
        BY <1>1, <2>1, <2>4 DEF Given, Pool
    <2>7. SlotOK(u, i, slot)'
        <3>1. TaskOK(u, i, slot)'
            BY <1>1, <2>1, <2>3, <2>6 DEF TaskOK
        <3> QED
            BY <3>1 DEF SlotOK, IsEmpty
    <2>8. \A j \in Slots(p) : \A s \in Slot : SlotOK(u, j, s) => SlotOK(u, j, s)'
        <3>1. Given(u) \subseteq Given(u)'
            BY <2>1, <2>6
        <3> QED
            BY <1>1, <2>3, <2>6, <3>1 DEF SlotOK, TaskOK
    <2>9. \A j \in Slots(p) : ~IsEmpty(tasks[p][j]) => Before(tasks[p][j], slot)
        <3> SUFFICES ASSUME NEW j \in Slots(p), ~IsEmpty(tasks[p][j])
                     PROVE  Before(tasks[p][j], slot)
            OBVIOUS
        <3>1. tasks[p][j].work.last \in Given(u)
            BY <1>1 DEF SlotsOK, SlotOK, TaskOK
        <3> QED
            BY <2>1, <2>6, <3>1 DEF Before
    <2> QED
        BY <1>1, <2>3, <2>4, <2>5, <2>7, <2>8, <2>9, FilledSlot
<1> QED
    BY <1>2, <1>3

LEMMA AwaitBlocksKeepsTasks ==
    ASSUME TasksInv, NEW u \in Callers, AwaitBlocks(u)
    PROVE  SlotTypes' /\ \A v \in Callers : TasksOK(v)'
<1>1. /\ pc[u] = "blocks" /\ pc[u] \in InJob /\ SlotTypes /\ PositionsOK
      /\ CourseOK(u) /\ SlotsOK(u) /\ UNCHANGED <<plan, next, job, ids>>
    BY DEF AwaitBlocks, InJob, TasksInv, Bookkeeping, TasksOK
<1>2. CASE TasksOfCallerUnfinished(u, Pool(u))
    BY <1>1, <1>2, TasksUntouched DEF AwaitBlocks, WaitForTaskDone, threaderVars
<1>3. CASE ~TasksOfCallerUnfinished(u, Pool(u))
    <2>1. AllEmpty(u)
        BY <1>1, <1>3 DEF TasksOfCallerUnfinished, AllEmpty, SlotsOK, SlotOK, TaskOK
    <2>2. pc' = [pc EXCEPT ![u] = "status"] /\ UNCHANGED <<size, tasks, task, running, worker>>
        BY <1>3 DEF AwaitBlocks, GoTo, threaderVars, poolVars
    <2>3. pc'[u] = "status" /\ \A v \in Callers \ {u} : pc'[v] = pc[v]
        BY <1>1, <2>2 DEF PositionsOK
    <2>4. CourseOK(u)'
        <3>1. next[u] > Job(u).samples /\ Job(u).samples \in Nat
            BY <1>1, JobType DEF AwaitBlocks
        <3> QED
            BY <1>1, <2>3, <3>1 DEF CourseOK, Job
    <2> QED
        BY <1>1, <2>1, <2>2, <2>3, <2>4, IdleStep DEF SlotTypes
<1> QED
    BY <1>2, <1>3

LEMMA RunDirectlyKeepsTasks ==
    ASSUME TasksInv, NEW u \in Callers, RunDirectly(u)
    PROVE  SlotTypes' /\ \A v \in Callers : TasksOK(v)'
<1>1. /\ pc[u] = "blocks" /\ pc[u] \in InJob /\ SlotTypes /\ PositionsOK
      /\ CourseOK(u) /\ SlotsOK(u) /\ UNCHANGED <<plan, job, ids, size, tasks, task, running, worker>>
    BY DEF RunDirectly, InJob, TasksInv, Bookkeeping, TasksOK, threaderVars, poolVars
<1>2. AllEmpty(u)
    <2>1. Len(tasks[Pool(u)]) = 0 /\ Pool(u) \in Pools
        BY <1>1, PoolType DEF RunDirectly, SlotsOK
    <2>2. tasks[Pool(u)] \in Seq(Slot)
        BY <1>1, <2>1 DEF SlotTypes
    <2> QED
        BY <2>1, <2>2 DEF AllEmpty, Slots
<1>3. Job(u).samples \in Nat /\ Job(u)' = Job(u)
    BY <1>1, JobType DEF Job
<1>4. CASE next[u] <= Job(u).samples
    <2>1. next' = [next EXCEPT ![u] = @ + 1] /\ UNCHANGED pc
        BY <1>4 DEF RunDirectly
    <2>2. next' \in [Callers -> Nat] /\ next'[u] = next[u] + 1 /\ \A v \in Callers \ {u} : next'[v] = next[v]
        BY <1>1, <2>1 DEF SlotTypes
    <2>3. CourseOK(u)'
        BY <1>1, <1>3, <1>4, <2>1, <2>2 DEF CourseOK
    <2> QED
        BY <1>1, <1>2, <2>1, <2>2, <2>3, IdleStep DEF SlotTypes
<1>5. CASE ~(next[u] <= Job(u).samples)
    <2>1. pc' = [pc EXCEPT ![u] = "status"] /\ UNCHANGED next
        BY <1>5 DEF RunDirectly, GoTo
    <2>2. pc'[u] = "status" /\ \A v \in Callers \ {u} : pc'[v] = pc[v]
        BY <1>1, <2>1 DEF PositionsOK
    <2>3. CourseOK(u)'
        BY <1>1, <1>3, <1>5, <2>1, <2>2 DEF CourseOK
    <2> QED
        BY <1>1, <1>2, <2>1, <2>2, <2>3, IdleStep DEF SlotTypes
<1> QED
    BY <1>4, <1>5

LEMMA AddFoldKeepsTasks ==
    ASSUME TasksInv, NEW u \in Callers, AddFold(u)
    PROVE  SlotTypes' /\ \A v \in Callers : TasksOK(v)'
<1>1. /\ pc[u] = "folds" /\ pc[u] \in InJob /\ SlotTypes /\ PositionsOK
      /\ CourseOK(u) /\ SlotsOK(u) /\ UNCHANGED <<plan, pc, job, next>>
    BY DEF AddFold, InJob, TasksInv, Bookkeeping, TasksOK
<1> PICK p \in Pools : p = Pool(u)
    BY <1>1, PoolType
<1> PICK k \in Nat \ {0} : k = Len(ids[u]) + 1
    BY <1>1 DEF SlotTypes
<1>2. /\ ids[u] \in Seq(Nat) /\ Len(ids[u]) = k - 1 /\ k <= Job(u).samples /\ Job(u).samples \in Nat
      /\ next[u] = 1 /\ Given(u) = 1..(k - 1)
    BY <1>1, JobType DEF AddFold, SlotTypes, CourseOK, Given
<1>3. ASSUME NEW id \in Nat, ids' = [ids EXCEPT ![u] = Append(@, id)]
      PROVE  /\ ids' \in [Callers -> Seq(Nat)]
             /\ \A v \in Callers \ {u} : ids'[v] = ids[v]
             /\ Len(ids'[u]) = k /\ ids'[u][k] = id
             /\ \A j \in 1..(k - 1) : ids'[u][j] = ids[u][j]
             /\ CourseOK(u)' /\ Given(u)' = 1..k
    <2>1. /\ Append(ids[u], id) \in Seq(Nat) /\ Len(Append(ids[u], id)) = k
          /\ Append(ids[u], id)[k] = id
          /\ \A j \in 1..(k - 1) : Append(ids[u], id)[j] = ids[u][j]
        BY <1>2
    <2>2. /\ ids' \in [Callers -> Seq(Nat)] /\ ids'[u] = Append(ids[u], id)
          /\ \A v \in Callers \ {u} : ids'[v] = ids[v]
        BY <1>1, <1>3, <2>1 DEF SlotTypes
    <2> QED
        BY <1>1, <1>2, <2>1, <2>2 DEF CourseOK, Given, Job
<1>4. CASE size[p] = 0
    <2>1. AllEmpty(u)
        BY <1>1, <1>4 DEF SlotTypes, SlotsOK, AllEmpty, Slots
    <2>2. ids' = [ids EXCEPT ![u] = Append(@, 1)] /\ UNCHANGED <<size, tasks, task, running, worker>>
        BY <1>4 DEF AddFold, threaderVars, poolVars
    <2> QED
        BY <1>1, <1>3, <2>1, <2>2, IdleStep DEF SlotTypes
<1>5. CASE size[p] # 0 /\ NoSlotIsEmpty(p)
    <2>1. UNCHANGED <<ids, size, tasks, task, running, worker>>
        BY <1>5 DEF AddFold, WaitForTaskDone, threaderVars
    <2> QED
        BY <1>1, <2>1, TasksUntouched
<1>6. CASE size[p] # 0 /\ ~NoSlotIsEmpty(p)
    <2> PICK w \in Work : w = [first |-> k, last |-> k, at |-> k]
        BY DEF Work
    <2> PICK id : id = NextTaskId(p, First(EmptySlots(p)))
        OBVIOUS
    <2>1. AddTask(u, Pool(u), w) /\ ids' = [ids EXCEPT ![u] = Append(@, id)]
        BY <1>6 DEF AddFold
    <2> PICK i \in Slots(p), slot \in Slot :
            /\ IsEmpty(tasks[p][i]) /\ tasks' = Replaced(p, i, slot)
            /\ slot.task_id = id /\ id \in Nat \ {0} /\ id % size[p] = i - 1
            /\ slot.next_task_id > 1 /\ ~slot.is_being_processed
            /\ slot.thread_id = u /\ slot.work = w
        BY <1>1, <2>1, AddedTask
    <2>2. UNCHANGED <<size, task, running, worker>> /\ Pool(u)' = Pool(u)
        BY <1>1, <2>1 DEF AddTask, threaderVars, Pool
    <2>3. /\ ids' \in [Callers -> Seq(Nat)]
          /\ \A v \in Callers \ {u} : ids'[v] = ids[v]
          /\ ids'[u][k] = id /\ \A j \in 1..(k - 1) : ids'[u][j] = ids[u][j]
          /\ CourseOK(u)' /\ Given(u)' = 1..k
        BY <1>3, <2>1
    <2>4. SlotOK(u, i, slot)'
        <3>1. slot.work \in Work /\ slot.work.first = k /\ slot.work.last = k /\ slot.work.at = k
            OBVIOUS
        <3>2. TaskOK(u, i, slot)'
            BY <1>1, <1>2, <2>2, <2>3, <3>1 DEF TaskOK
        <3> QED
            BY <3>2 DEF SlotOK, IsEmpty
    <2>5. \A j \in Slots(p) : \A s \in Slot : SlotOK(u, j, s) => SlotOK(u, j, s)'
        <3>1. \A j : j \in Given(u) => j \in Given(u)' /\ ids'[u][j] = ids[u][j]
            BY <1>2, <2>3
        <3> QED
            BY <1>1, <2>2, <3>1 DEF SlotOK, TaskOK
    <2>6. \A j \in Slots(p) : ~IsEmpty(tasks[p][j]) => Before(tasks[p][j], slot)
        <3> SUFFICES ASSUME NEW j \in Slots(p), ~IsEmpty(tasks[p][j])
                     PROVE  Before(tasks[p][j], slot)
            OBVIOUS
        <3>1. tasks[p][j].work.last \in Given(u)
            BY <1>1 DEF SlotsOK, SlotOK, TaskOK
        <3>2. slot.work.first = k
            OBVIOUS
        <3> QED
            BY <1>2, <3>1, <3>2 DEF Before
    <2> QED
        BY <1>1, <2>2, <2>3, <2>4, <2>5, <2>6, FilledSlot DEF SlotTypes
<1> QED
    BY <1>4, <1>5, <1>6

LEMMA CollectFoldKeepsTasks ==
    ASSUME TasksInv, NEW u \in Callers, CollectFold(u)
    PROVE  SlotTypes' /\ \A v \in Callers : TasksOK(v)'
<1>1. /\ pc[u] = "folds" /\ pc[u] \in InJob /\ SlotTypes /\ PositionsOK
      /\ CourseOK(u) /\ SlotsOK(u) /\ HandsOK(u) /\ UNCHANGED <<plan, job, ids>>
      /\ UNCHANGED <<size, tasks, task, running, worker>>
    BY DEF CollectFold, InJob, TasksInv, Bookkeeping, TasksOK, WaitForTaskDone, threaderVars, poolVars
<1> PICK p \in Pools : p = Pool(u)
    BY <1>1, PoolType
<1>2. /\ Len(ids[u]) = Job(u).samples /\ Job(u).samples \in Nat
      /\ next[u] \in 1..(Job(u).samples + 1) /\ Given(u) = 1..Job(u).samples
      /\ Pool(u)' = Pool(u) /\ Job(u)' = Job(u)
    BY <1>1, JobType DEF CollectFold, CourseOK, Given, Pool, Job
<1>3. CASE next[u] > Job(u).samples
    <2>1. pc' = [pc EXCEPT ![u] = "shutdown"] /\ UNCHANGED next
        BY <1>3 DEF CollectFold, GoTo
    <2>2. pc'[u] = "shutdown" /\ \A v \in Callers \ {u} : pc'[v] = pc[v]
        BY <1>1, <2>1 DEF PositionsOK
    <2>3. AllEmpty(u)
        <3> SUFFICES ASSUME NEW i \in Slots(p), ~IsEmpty(tasks[p][i]) PROVE FALSE
            BY DEF AllEmpty
        <3>1. tasks[p][i].work.first \in Given(u) /\ tasks[p][i].work.first >= next[u]
            BY <1>1 DEF SlotsOK, SlotOK, TaskOK
        <3> QED
            BY <1>2, <1>3, <3>1
    <2>4. CourseOK(u)'
        BY <2>2 DEF CourseOK
    <2> QED
        BY <1>1, <2>1, <2>2, <2>3, <2>4, IdleStep DEF SlotTypes
<1>4. CASE next[u] <= Job(u).samples /\ TaskIsUnfinished(Pool(u), ids[u][next[u]])
    <2>1. UNCHANGED <<pc, next>>
        BY <1>2, <1>4 DEF CollectFold
    <2> QED
        BY <1>1, <2>1, TasksUntouched
<1>5. CASE next[u] <= Job(u).samples /\ ~TaskIsUnfinished(Pool(u), ids[u][next[u]])
    <2>1. /\ UNCHANGED pc /\ next' \in [Callers -> Nat] /\ next'[u] = next[u] + 1
          /\ \A v \in Callers \ {u} : next'[v] = next[v]
        <3>1. next' = [next EXCEPT ![u] = next[u] + 1] /\ UNCHANGED pc
            BY <1>2, <1>5 DEF CollectFold
        <3>2. next[u] + 1 \in Nat
            BY <1>2
        <3> QED
            BY <1>1, <3>1, <3>2 DEF SlotTypes
    <2>2. CourseOK(u)'
        BY <1>1, <1>2, <1>5, <2>1 DEF CourseOK
    <2>3. \A i \in Slots(p) : SlotOK(u, i, tasks[p][i])'
        <3> SUFFICES ASSUME NEW i \in Slots(p) PROVE SlotOK(u, i, tasks[p][i])'
            OBVIOUS
        <3>0. tasks[p][i] \in Slot
            BY <1>1 DEF SlotTypes, Slots
        <3> PICK s \in Slot : s = tasks[p][i]
            BY <3>0
        <3>1. SlotOK(u, i, s) /\ Given(u)' = Given(u)
            BY <1>1, <2>1 DEF SlotsOK, Given
        <3>2. ASSUME ~IsEmpty(s)
              PROVE  s.work.first >= next[u] + 1
            <4>1. /\ s.work.first \in Nat /\ s.work.first >= next[u] /\ s.task_id = ids[u][s.work.first]
                  /\ s.task_id % size[p] = i - 1
                BY <1>1, <1>2, <3>1, <3>2 DEF SlotOK, TaskOK
            <4>2. size[p] # 0 /\ i \in Nat
                BY <1>1 DEF SlotTypes, Slots, SlotsOK
            <4>3. s.work.first # next[u]
                BY <1>5, <4>1, <4>2 DEF TaskIsUnfinished
            <4> QED
                BY <1>2, <4>1, <4>3
        <3>3. ASSUME ~IsEmpty(s)
              PROVE  TaskOK(u, i, s)'
            <4>1. TaskOK(u, i, s)
                BY <3>1, <3>3 DEF SlotOK
            <4>2. s.work.first >= next'[u]
                BY <2>1, <3>2, <3>3
            <4>3. pc[u] = "folds" /\ pc'[u] = "folds"
                BY <1>1, <2>1
            <4> QED
                BY <1>1, <3>1, <4>1, <4>2, <4>3 DEF TaskOK, Pool
        <3>4. SlotOK(u, i, s)'
            BY <3>1, <3>3 DEF SlotOK, IsEmpty
        <3> QED
            BY <1>1, <3>4
    <2>4. SlotsOK(u)' /\ HandsOK(u)'
        <3>1. \A t \in Threads : Holds(t, u)' <=> Holds(t, u)
            BY <1>1, <1>2 DEF Holds
        <3>2. HandsOK(u)'
            BY <1>1, <1>2, <2>1, <3>1 DEF HandsOK, HandOK, Slots
        <3> QED
            BY <1>1, <1>2, <2>3, <3>2 DEF SlotsOK, Slots
    <2>5. \A v \in Callers \ {u} : TasksOK(v)'
        BY <1>1, <2>1, OthersKeepTasks
    <2> QED
        BY <1>1, <2>1, <2>2, <2>4, <2>5 DEF TasksOK, SlotTypes
<1> QED
    BY <1>2, <1>3, <1>4, <1>5

LEMMA CallersKeepTasks ==
    ASSUME TasksInv, NEW u \in Callers, CallerStep(u)
    PROVE  SlotTypes' /\ \A v \in Callers : TasksOK(v)'
BY StartJobKeepsTasks, StartingKeepsTasks, IdleStepsKeepTasks, AddBlockKeepsTasks, AwaitBlocksKeepsTasks,
   RunDirectlyKeepsTasks, AddFoldKeepsTasks, CollectFoldKeepsTasks, EndingKeepsTasks
DEF CallerStep

-------------------------------------------------------------------------------
(* The steps of threads. Most do not touch what is in a slot, or in a hand.      *)
LEMMA HandsOffTasks ==
    ASSUME TasksInv,
           UNCHANGED <<plan, pc, job, next, ids, size, tasks, task>>,
           \A t \in Threads : worker'[t] \in AtTask => worker[t] \in AtTask /\ running'[t] = running[t]
    PROVE  SlotTypes' /\ \A v \in Callers : TasksOK(v)'
<1>1. SlotTypes'
    BY DEF TasksInv, SlotTypes
<1>2. ASSUME NEW v \in Callers, pc[v] \in InJob
      PROVE  TasksOK(v)'
    <2>1. Pool(v)' = Pool(v) /\ TasksOK(v) /\ \A t \in Threads : Holds(t, v)' => Holds(t, v)
        BY DEF TasksInv, Pool, Holds
    <2> QED
        BY <1>2, <2>1, Untouched
<1> QED
    BY <1>1, <1>2 DEF TasksOK

LEMMA FetchTaskKeepsTasks ==
    ASSUME TasksInv, NEW t \in Threads, FetchTask(t), ReadySlots(running[t]) # {}, UNCHANGED trainingVars
    PROVE  SlotTypes' /\ \A v \in Callers : TasksOK(v)'
<1>1. worker[t] = "fetch" /\ SlotTypes /\ PoolsOK /\ Bookkeeping /\ LoopsAreAlive
    BY DEF FetchTask, TasksInv, Bookkeeping
<1> PICK u \in Callers : u = Owner(t) /\ pc[u] \in InJob /\ running[t] = Pool(u) /\ Pool(u) \in Pools
    BY <1>1, LoopersHaveOwners
<1> PICK p \in Pools : p = Pool(u)
    OBVIOUS
<1>2. CourseOK(u) /\ SlotsOK(u) /\ HandsOK(u)
    BY DEF TasksInv, TasksOK
<1> PICK i \in Slots(p) : i = First(ReadySlots(p)) /\ IsReady(tasks[p][i])
    <2>1. ReadySlots(p) \in SUBSET Nat
        BY <1>1 DEF ReadySlots, Slots, SlotTypes
    <2> QED
        BY <2>1, FirstIsOne DEF ReadySlots
<1> PICK old \in Slot : old = tasks[p][i]
    <2>1. tasks[p][i] \in Slot
        BY <1>1 DEF SlotTypes, Slots
    <2> QED
        BY <2>1
<1> PICK slot \in Slot : slot = Marked(old)
    BY DEF Slot, Marked
<1>3. /\ tasks' = Replaced(p, i, slot)
      /\ task' = [task EXCEPT ![t] = [slot |-> i, work |-> old.work]]
      /\ worker' = [worker EXCEPT ![t] = "work"]
      /\ UNCHANGED <<plan, pc, job, next, ids, size, running>>
    BY DEF FetchTask, Replaced, trainingVars, threaderVars
<1>4. /\ tasks' \in [Pools -> Seq(Slot)]
      /\ Slots(p)' = Slots(p) /\ Len(tasks'[p]) = Len(tasks[p])
      /\ tasks'[p][i] = slot
      /\ \A j \in Slots(p) \ {i} : tasks'[p][j] = tasks[p][j]
      /\ \A q \in Pools \ {p} : tasks'[q] = tasks[q]
    BY <1>1, <1>3, OneSlot
<1>5. /\ slot.task_id = old.task_id /\ slot.work = old.work /\ slot.next_task_id = old.next_task_id
      /\ slot.thread_id = old.thread_id /\ slot.is_being_processed
      /\ ~IsEmpty(old) /\ ~old.is_being_processed /\ ~IsEmpty(slot)
    BY DEF Marked, Slot, IsReady, IsEmpty
<1>6. /\ i \in Nat /\ old.work \in Work \cup {NoTask}
      /\ task' \in [Threads -> [slot : Nat, work : Work \cup {NoTask}]]
      /\ task'[t] = [slot |-> i, work |-> old.work]
      /\ \A r \in Threads \ {t} : task'[r] = task[r]
    <2>1. i \in Nat /\ old.work \in Work \cup {NoTask}
        <3>1. tasks[p] \in Seq(Slot)
            BY <1>1 DEF SlotTypes
        <3> QED
            BY <3>1 DEF Slots, Slot
    <2> PICK hand \in [slot : Nat, work : Work \cup {NoTask}] : hand = [slot |-> i, work |-> old.work]
        BY <2>1
    <2>2. task' = [task EXCEPT ![t] = hand]
        BY <1>3
    <2>3. task \in [Threads -> [slot : Nat, work : Work \cup {NoTask}]]
        BY <1>1 DEF SlotTypes
    <2> PICK Copies : Copies = [slot : Nat, work : Work \cup {NoTask}]
        OBVIOUS
    <2>4. task \in [Threads -> Copies] /\ hand \in Copies
        BY <2>3
    <2>5. /\ task' \in [Threads -> Copies] /\ task'[t] = hand
          /\ \A r \in Threads \ {t} : task'[r] = task[r]
        BY <2>2, <2>4
    <2> QED
        BY <2>1, <2>5
<1>7. SlotTypes'
    BY <1>1, <1>3, <1>4, <1>6 DEF SlotTypes
<1>8. \A v \in Callers \ {u} : TasksOK(v)'
    <2>1. \A r \in Threads \ {t} : UNCHANGED <<running[r], worker[r], task[r]>>
        BY <1>1, <1>3, <1>6 DEF PoolsOK
    <2> QED
        BY <1>3, <1>4, <2>1, OtherPoolsKeepTasks
<1>9. CourseOK(u)' /\ Pool(u)' = p /\ Given(u)' = Given(u)
    BY <1>2, <1>3 DEF CourseOK, Job, Pool, Given
<1>10. TaskOK(u, i, old) /\ SlotOK(u, i, slot)
    <2>1. SlotOK(u, i, old)
        BY <1>2 DEF SlotsOK
    <2>2. TaskOK(u, i, old) /\ old.next_task_id > 1
        BY <1>5, <2>1 DEF SlotOK
    <2>3. TaskOK(u, i, slot)
        BY <1>5, <2>2, SMTT(30) DEF TaskOK
    <2> QED
        BY <1>5, <2>2, <2>3 DEF SlotOK
<1>11. SlotsOK(u)'
    <2>1. \A j \in Slots(p) : \A s \in Slot : SlotOK(u, j, s) => SlotOK(u, j, s)'
        BY <1>3, <1>9 DEF SlotOK, TaskOK
    <2>2. \A j \in Slots(p) : tasks'[p][j] \in Slot /\ SlotOK(u, j, tasks'[p][j])
        <3> SUFFICES ASSUME NEW j \in Slots(p) PROVE tasks'[p][j] \in Slot /\ SlotOK(u, j, tasks'[p][j])
            OBVIOUS
        <3>1. CASE j = i
            BY <1>4, <1>10, <3>1
        <3>2. CASE j # i
            <4>1. tasks[p][j] \in Slot
                BY <1>1 DEF SlotTypes, Slots
            <4> QED
                BY <1>2, <1>4, <3>2, <4>1 DEF SlotsOK
        <3> QED
            BY <3>1, <3>2
    <2>3. \A j \in Slots(p) : /\ tasks'[p][j].work = tasks[p][j].work
                              /\ IsEmpty(tasks'[p][j]) <=> IsEmpty(tasks[p][j])
        BY <1>4, <1>5
    <2>4. \A j, k \in Slots(p) : j # k => Apart(tasks'[p][j], tasks'[p][k])
        BY <1>2, <2>3 DEF SlotsOK, Apart, Before
    <2>5. Len(tasks[Pool(u)])' = size[Pool(u)]'
        BY <1>2, <1>3, <1>4, <1>9 DEF SlotsOK
    <2>6. \A j \in Slots(Pool(u))' : SlotOK(u, j, tasks[Pool(u)][j])'
        BY <1>4, <1>9, <2>1, <2>2
    <2>7. \A j, k \in Slots(Pool(u))' : j # k => Apart(tasks[Pool(u)][j], tasks[Pool(u)][k])'
        BY <1>4, <1>9, <2>4
    <2> QED
        BY <2>5, <2>6, <2>7 DEF SlotsOK
<1>12. HandsOK(u)'
    <2>1. \A r \in Threads \ {t} : Holds(r, u)' => Holds(r, u) /\ task'[r] = task[r]
        BY <1>1, <1>3, <1>6, <1>9 DEF Holds, PoolsOK
    <2>2. \A r \in Threads : Holds(r, u) => HandOK(u, task[r]) /\ task[r].slot # i
        BY <1>2, <1>5 DEF HandsOK, HandOK
    <2>3. ASSUME NEW r \in Threads \ {t}, Holds(r, u)' PROVE HandOK(u, task[r])'
        <3>1. HandOK(u, task[r]) /\ task[r].slot # i /\ task'[r] = task[r]
            BY <2>1, <2>2, <2>3
        <3> PICK hand : hand = task[r]
            OBVIOUS
        <3>2. tasks'[p][hand.slot] = tasks[p][hand.slot] /\ task'[r] = hand
            BY <1>4, <3>1 DEF HandOK
        <3>3. Slots(p)' = Slots(p) /\ Pool(u)' = p /\ pc'[u] = pc[u]
            BY <1>3, <1>4, <1>9
        <3>4. HandOK(u, hand)'
            BY <3>1, <3>2, <3>3, HandStays
        <3> QED
            BY <3>2, <3>4
    <2>4. HandOK(u, task[t])'
        <3>1. task'[t].slot = i /\ task'[t].work = old.work
            BY <1>6
        <3>2. /\ old.work \in Work /\ old.work.at = old.work.first /\ old.work.first <= old.work.last
            BY <1>10 DEF TaskOK
        <3>3. old.work.at \in old.work.first..(old.work.last + 1)
            BY <3>2 DEF Work
        <3> QED
            BY <1>4, <1>5, <1>9, <3>1, <3>2, <3>3 DEF HandOK
    <2>5. \A r \in Threads \ {t} : Holds(r, u)' => task'[r].slot # task'[t].slot
        BY <1>6, <2>1, <2>2
    <2>6. \A q, r \in Threads \ {t} : Holds(q, u)' /\ Holds(r, u)' /\ q # r => task'[q].slot # task'[r].slot
        BY <1>2, <2>1 DEF HandsOK
    <2>7. \A r \in Threads : Holds(r, u)' => HandOK(u, task[r])'
        BY <2>3, <2>4
    <2>8. \A q, r \in Threads : Holds(q, u)' /\ Holds(r, u)' /\ q # r => task'[q].slot # task'[r].slot
        BY <2>5, <2>6
    <2> QED
        BY <2>7, <2>8 DEF HandsOK
<1> QED
    BY <1>7, <1>8, <1>9, <1>11, <1>12 DEF TasksOK

LEMMA ClearSlotKeepsTasks ==
    ASSUME TasksInv, NEW t \in Threads, ClearSlot(t), UNCHANGED trainingVars
    PROVE  SlotTypes' /\ \A v \in Callers : TasksOK(v)'
<1>1. worker[t] = "clear" /\ SlotTypes /\ PoolsOK /\ Bookkeeping /\ LoopsAreAlive
    BY DEF ClearSlot, TasksInv, Bookkeeping
<1> PICK u \in Callers : u = Owner(t) /\ pc[u] \in InJob /\ running[t] = Pool(u) /\ Pool(u) \in Pools
    BY <1>1, LoopersHaveOwners DEF AtTask
<1> PICK p \in Pools : p = Pool(u)
    OBVIOUS
<1>2. CourseOK(u) /\ SlotsOK(u) /\ HandsOK(u) /\ Holds(t, u)
    BY <1>1 DEF TasksInv, TasksOK, Holds, AtTask
<1>0. PICK i \in Slots(p) : i = task[t].slot
    BY <1>2 DEF HandsOK, HandOK
<1> PICK old \in Slot : old = tasks[p][i]
    <2>1. tasks[p][i] \in Slot
        BY <1>1 DEF SlotTypes, Slots
    <2> QED
        BY <2>1
<1> PICK slot \in Slot : slot = EmptySlot(old.next_task_id)
    BY DEF Slot, EmptySlot
<1>3. /\ tasks' = Replaced(p, i, slot)
      /\ task' = [task EXCEPT ![t] = NothingInHand]
      /\ worker' = [worker EXCEPT ![t] = "fetch"]
      /\ UNCHANGED <<plan, pc, job, next, ids, size, running>>
    BY <1>0 DEF ClearSlot, Replaced, trainingVars, threaderVars
<1>4. /\ tasks' \in [Pools -> Seq(Slot)]
      /\ Slots(p)' = Slots(p) /\ Len(tasks'[p]) = Len(tasks[p])
      /\ tasks'[p][i] = slot
      /\ \A j \in Slots(p) \ {i} : tasks'[p][j] = tasks[p][j]
      /\ \A q \in Pools \ {p} : tasks'[q] = tasks[q]
    BY <1>1, <1>3, OneSlot, SMTT(30)
<1>5. slot.next_task_id = old.next_task_id /\ ~slot.is_being_processed /\ IsEmpty(slot)
    BY DEF EmptySlot, IsEmpty
<1>6. /\ task' \in [Threads -> [slot : Nat, work : Work \cup {NoTask}]]
      /\ \A r \in Threads \ {t} : task'[r] = task[r]
    BY <1>1, <1>3 DEF SlotTypes, NothingInHand
<1>7. SlotTypes'
    BY <1>1, <1>3, <1>4, <1>6 DEF SlotTypes
<1>8. \A v \in Callers \ {u} : TasksOK(v)'
    <2>1. \A r \in Threads \ {t} : UNCHANGED <<running[r], worker[r], task[r]>>
        BY <1>1, <1>3, <1>6 DEF PoolsOK
    <2> QED
        BY <1>3, <1>4, <2>1, OtherPoolsKeepTasks
<1>9. CourseOK(u)' /\ Pool(u)' = p /\ Given(u)' = Given(u)
    BY <1>2, <1>3 DEF CourseOK, Job, Pool, Given
<1>10. SlotOK(u, i, slot)
    BY <1>2, <1>5 DEF SlotsOK, SlotOK
<1>11. SlotsOK(u)'
    <2>1. \A j \in Slots(p) : \A s \in Slot : SlotOK(u, j, s) => SlotOK(u, j, s)'
        BY <1>3, <1>9 DEF SlotOK, TaskOK
    <2>2. \A j \in Slots(p) : tasks'[p][j] \in Slot /\ SlotOK(u, j, tasks'[p][j])
        <3> SUFFICES ASSUME NEW j \in Slots(p) PROVE tasks'[p][j] \in Slot /\ SlotOK(u, j, tasks'[p][j])
            OBVIOUS
        <3>1. CASE j = i
            BY <1>4, <1>10, <3>1
        <3>2. CASE j # i
            <4>1. tasks[p][j] \in Slot
                BY <1>1 DEF SlotTypes, Slots
            <4> QED
                BY <1>2, <1>4, <3>2, <4>1 DEF SlotsOK
        <3> QED
            BY <3>1, <3>2
    <2>3. \A j \in Slots(p) : IsEmpty(tasks'[p][j]) \/ tasks'[p][j] = tasks[p][j]
        BY <1>4, <1>5
    <2>4. \A j, k \in Slots(p) : j # k => Apart(tasks'[p][j], tasks'[p][k])
        BY <1>2, <2>3 DEF SlotsOK, Apart
    <2>5. Len(tasks[Pool(u)])' = size[Pool(u)]'
        BY <1>2, <1>3, <1>4, <1>9 DEF SlotsOK
    <2>6. \A j \in Slots(Pool(u))' : SlotOK(u, j, tasks[Pool(u)][j])'
        BY <1>4, <1>9, <2>1, <2>2
    <2>7. \A j, k \in Slots(Pool(u))' : j # k => Apart(tasks[Pool(u)][j], tasks[Pool(u)][k])'
        BY <1>4, <1>9, <2>4
    <2> QED
        BY <2>5, <2>6, <2>7 DEF SlotsOK
<1>12. HandsOK(u)'
    <2>1. \A r \in Threads : Holds(r, u)' => r # t /\ Holds(r, u) /\ task'[r] = task[r]
        BY <1>1, <1>3, <1>6, <1>9 DEF Holds, PoolsOK, AtTask
    <2>2. \A r \in Threads \ {t} : Holds(r, u) => HandOK(u, task[r]) /\ task[r].slot # i
        BY <1>2, <1>0 DEF HandsOK
    <2>3. \A hand : HandOK(u, hand) /\ hand.slot # i => HandOK(u, hand)'
        <3>1. Slots(p)' = Slots(p) /\ Pool(u)' = p /\ pc'[u] = pc[u]
            BY <1>3, <1>4, <1>9
        <3> SUFFICES ASSUME NEW hand, HandOK(u, hand), hand.slot # i PROVE HandOK(u, hand)'
            OBVIOUS
        <3>2. tasks'[p][hand.slot] = tasks[p][hand.slot]
            BY <1>4 DEF HandOK
        <3> QED
            BY <3>1, <3>2, HandStays
    <2>4. \A r \in Threads : Holds(r, u)' => HandOK(u, task[r])'
        BY <2>1, <2>2, <2>3
    <2> QED
        BY <1>2, <2>1, <2>4 DEF HandsOK
<1> QED
    BY <1>7, <1>8, <1>9, <1>11, <1>12 DEF TasksOK

LEMMA CallOracleKeepsTasks ==
    ASSUME TasksInv, NEW t \in Threads, CallOracle(t)
    PROVE  SlotTypes' /\ \A v \in Callers : TasksOK(v)'
<1>1. worker[t] = "work" /\ SlotTypes /\ PoolsOK /\ Bookkeeping /\ LoopsAreAlive
    BY DEF CallOracle, Working, TasksInv, Bookkeeping
<1> PICK u \in Callers : u = Owner(t) /\ pc[u] \in InJob /\ running[t] = Pool(u) /\ Pool(u) \in Pools
    BY <1>1, LoopersHaveOwners DEF AtTask
<1>2. CourseOK(u) /\ SlotsOK(u) /\ HandsOK(u) /\ Holds(t, u) /\ pc[u] # "folds"
    <2>1. Job(u).kind = "svm"
        BY <1>1, LoopersHaveOwners DEF AtTask, CallOracle
    <2> QED
        BY <1>1, <2>1 DEF TasksInv, TasksOK, Holds, AtTask, CourseOK
<1> PICK hand \in [slot : Nat, work : Work] : hand = task[t]
    BY <1>1, <1>2 DEF SlotTypes, HandsOK, HandOK
<1>3. HandOK(u, hand) /\ hand.work.at <= hand.work.last /\ hand.work \in Work
    BY <1>2 DEF HandsOK, CallOracle
<1> PICK n \in Nat : n = hand.work.at + 1
    BY <1>3 DEF Work
<1> PICK w \in Work : w = [hand.work EXCEPT !.at = n]
    BY <1>3 DEF Work
<1> PICK after \in [slot : Nat, work : Work] : after = [hand EXCEPT !.work = w]
    OBVIOUS
<1>4. /\ task' = [task EXCEPT ![t] = after]
      /\ UNCHANGED <<plan, pc, job, next, ids, size, running, worker, tasks>>
    <2>1. task' = [task EXCEPT ![t].work.at = n]
        BY DEF CallOracle
    <2>2. task' = [task EXCEPT ![t] = [task[t] EXCEPT !.work = [task[t].work EXCEPT !.at = n]]]
        BY <2>1
    <2> QED
        BY <2>2 DEF CallOracle, threaderVars
<1>5. /\ task' \in [Threads -> [slot : Nat, work : Work \cup {NoTask}]]
      /\ task'[t] = after /\ \A r \in Threads \ {t} : task'[r] = task[r]
    <2>1. after \in [slot : Nat, work : Work \cup {NoTask}]
        OBVIOUS
    <2> QED
        BY <1>1, <1>4, <2>1 DEF SlotTypes
<1>6. /\ after.slot = hand.slot /\ after.work = w
      /\ w.first = hand.work.first /\ w.last = hand.work.last /\ w.at = n
    BY DEF Work
<1>7. SlotTypes'
    BY <1>1, <1>4, <1>5 DEF SlotTypes
<1>8. \A v \in Callers \ {u} : TasksOK(v)'
    <2>1. \A r \in Threads \ {t} : UNCHANGED <<running[r], worker[r], task[r]>>
        BY <1>4, <1>5
    <2>2. running'[t] = Pool(u) /\ \A q \in Pools \ {Pool(u)} : UNCHANGED tasks[q]
        BY <1>4
    <2> QED
        BY <1>4, <2>1, <2>2, OtherPoolsKeepTasks
<1>9. CourseOK(u)' /\ SlotsOK(u)' /\ Pool(u)' = Pool(u)
    <2>1. CourseOK(u)' /\ Pool(u)' = Pool(u) /\ Given(u)' = Given(u)
        BY <1>2, <1>4 DEF CourseOK, Job, Pool, Given
    <2>2. \A j, s : SlotOK(u, j, s)' <=> SlotOK(u, j, s)
        BY <1>4, <2>1 DEF SlotOK, TaskOK
    <2> QED
        BY <1>2, <1>4, <2>1, <2>2 DEF SlotsOK, Slots
<1>10. HandsOK(u)'
    <2>1. \A r \in Threads : Holds(r, u)' <=> Holds(r, u)
        BY <1>4, <1>9 DEF Holds
    <2>2. HandOK(u, after)
        <3>1. /\ hand.work.first \in Nat /\ hand.work.last \in Nat
              /\ hand.work.at \in hand.work.first..(hand.work.last + 1)
            BY <1>3 DEF HandOK, Work
        <3>2. n \in w.first..(w.last + 1)
            BY <1>3, <1>6, <3>1
        <3> QED
            BY <1>2, <1>3, <1>6, <3>2 DEF HandOK
    <2>3. \A r \in Threads : Holds(r, u)' => HandOK(u, task'[r]) /\ task'[r].slot = task[r].slot
        BY <1>2, <1>5, <1>6, <2>1, <2>2 DEF HandsOK
    <2>4. ASSUME NEW r \in Threads, Holds(r, u)' PROVE HandOK(u, task[r])'
        <3> PICK own : own = task'[r]
            OBVIOUS
        <3>1. HandOK(u, own)
            BY <2>3, <2>4
        <3>2. Slots(Pool(u))' = Slots(Pool(u)) /\ Pool(u)' = Pool(u) /\ pc'[u] = pc[u] /\ tasks' = tasks
            BY <1>4, <1>9 DEF Slots
        <3>3. HandOK(u, own)'
            BY <3>1, <3>2, HandStays
        <3> QED
            BY <3>3
    <2> QED
        BY <1>2, <2>1, <2>3, <2>4 DEF HandsOK
<1> QED
    BY <1>7, <1>8, <1>9, <1>10 DEF TasksOK

LEMMA ThreadsKeepTasks ==
    ASSUME TasksInv, NEW t \in Threads, ThreadStep(t)
    PROVE  SlotTypes' /\ \A v \in Callers : TasksOK(v)'
<1>1. PoolsOK
    BY DEF TasksInv, Bookkeeping
<1> DEFINE HandsOff ==
        /\ UNCHANGED <<plan, pc, job, next, ids, size, tasks, task>>
        /\ \A r \in Threads : worker'[r] \in AtTask => worker[r] \in AtTask /\ running'[r] = running[r]
<1>2. HandsOff => SlotTypes' /\ \A v \in Callers : TasksOK(v)'
    BY HandsOffTasks
<1>3. ThreadTakesPool(t) /\ UNCHANGED trainingVars => HandsOff
    BY <1>1 DEF ThreadTakesPool, TakeFunction, trainingVars, PoolsOK, AtTask
<1>4. (ThreadHelper(t) \/ ThreadEnds(t)) /\ UNCHANGED trainingVars => HandsOff
    BY <1>1 DEF ThreadHelper, ThreadEnds, trainingVars, threaderVars, PoolsOK, AtTask
<1>5. FetchTask(t) /\ ReadySlots(running[t]) = {} /\ UNCHANGED trainingVars => HandsOff
    BY <1>1 DEF FetchTask, trainingVars, threaderVars
<1>6. LeavePool(t) /\ UNCHANGED trainingVars => HandsOff
    BY <1>1 DEF LeavePool, Return, trainingVars, PoolsOK, AtTask
<1>7. Crash(t) /\ UNCHANGED trainingVars => HandsOff
    BY DEF Crash, trainingVars, threaderVars
<1>8. (WaitForWork(t) \/ Leave(t)) /\ UNCHANGED poolVars /\ UNCHANGED trainingVars => HandsOff
    BY DEF WaitForWork, Leave, trainingVars, poolVars
<1>9. LockAndRead(t) => HandsOff
    BY DEF LockAndRead, threaderVars, poolVars
<1>10. AddAndUnlock(t) \/ RunFold(t) => HandsOff
    BY <1>1 DEF AddAndUnlock, RunFold, Working, threaderVars, PoolsOK, AtTask
<1> QED
    BY <1>2, <1>3, <1>4, <1>5, <1>6, <1>7, <1>8, <1>9, <1>10, FetchTaskKeepsTasks, ClearSlotKeepsTasks,
       CallOracleKeepsTasks DEF ThreadStep

LEMMA TasksInvStep == TasksInv /\ [Next]_vars => TasksInv'
<1> SUFFICES ASSUME TasksInv, [Next]_vars PROVE TasksInv'
    OBVIOUS
<1>1. Bookkeeping' /\ LoopsAreAlive'
    BY BookkeepingStep, LoopsStep DEF TasksInv
<1>2. WaitEndsEarly \/ Exit \/ UNCHANGED vars
          => UNCHANGED <<plan, pc, job, next, ids, size, tasks, task, running, worker>>
    BY DEF WaitEndsEarly, WaitEnds, WaitForEmptyEnds, WaitForDestructedEnds, SpuriousWakeup, Exit,
           MainReturns, DestructIfReady, DestroyThreader, AwaitThreads, DeleteThreader, ThreaderIsGone, vars,
           threaderVars, poolVars, trainingVars
<1>3. SlotTypes' /\ \A v \in Callers : TasksOK(v)'
    BY <1>2, CallersKeepTasks, ThreadsKeepTasks, TasksUntouched DEF Next
<1> QED
    BY <1>1, <1>3 DEF TasksInv

LEMMA TasksInvInit == Init => TasksInv
<1> SUFFICES ASSUME Init PROVE TasksInv
    OBVIOUS
<1>1. Bookkeeping
    BY BookkeepingInit
<1>2. SlotTypes /\ LoopsAreAlive
    BY DEF Init, ThreadPoolInit, SlotTypes, LoopsAreAlive, NothingInHand, AtTask
<1>3. \A u \in Callers : TasksOK(u)
    BY DEF Init, TasksOK, InJob
<1> QED
    BY <1>1, <1>2, <1>3 DEF TasksInv

LEMMA TasksInvHolds == Spec => []TasksInv
BY TasksInvInit, TasksInvStep, PTL DEF Spec

LEMMA TasksInCall == TasksInv => NoTaskOutlivesItsCall
<1> SUFFICES ASSUME TasksInv, NEW t \in Threads, worker[t] = "work"
             PROVE  pc[Owner(t)] = IF IsBlock(t) THEN "blocks" ELSE "folds"
    BY DEF NoTaskOutlivesItsCall
<1> PICK u \in Callers : u = Owner(t) /\ pc[u] \in InJob /\ running[t] = Pool(u)
                         /\ (IsBlock(t) <=> Job(u).kind = "svm")
    BY LoopersHaveOwners DEF TasksInv, AtTask
<1>1. CourseOK(u) /\ SlotsOK(u) /\ HandsOK(u) /\ Holds(t, u)
    BY DEF TasksInv, TasksOK, Holds, AtTask
<1>2. pc[u] \in {"blocks", "folds"}
    BY <1>1 DEF HandsOK, HandOK, SlotsOK, SlotOK, TaskOK
<1> QED
    BY <1>1, <1>2 DEF CourseOK

(* For any number of callers, threads, samples and jobs: when a call is over, no *)
(* slot of its pool holds a task of it, and no thread works for it.              *)
THEOREM TasksStayInTheirCall == Spec => []NoTaskOutlivesItsCall
BY TasksInCall, TasksInvHolds, PTL

-------------------------------------------------------------------------------
(* Every sample counts once. A sample that was given away is in one place: a     *)
(* slot, the part of its task that a thread still has to do, the sum of its own  *)
(* that this thread keeps, or the sum of the caller. The invariant says which,   *)
(* and that the caller's sum has a sample exactly when no slot and no thread     *)
(* carries it.                                                                   *)
Evaluating == {"start", "blocks", "folds", "status"}

SlotHas(slot, s) == IsReady(slot) /\ s \in slot.work.first..slot.work.last
SlotsHave(u, s) == \E i \in Slots(Pool(u)) : SlotHas(tasks[Pool(u)][i], s)

InHand(t) == task[t].work.first..task[t].work.last
ToDo(t) == task[t].work.at..task[t].work.last
ThreadHas(t, u, s) ==
    running[t] = Pool(u) /\ worker[t] = "work" /\ (s \in ToDo(t) \/ s \in local[t])

Carried(u, s) == SlotsHave(u, s) \/ \E t \in Threads : ThreadHas(t, u, s)

Accounting(u) ==
    pc[u] \in Evaluating =>
        \A s \in Samples : total[u][s] = IF s \in Given(u) /\ ~Carried(u, s) THEN 1 ELSE 0

(* A thread's own sum is of samples of its task that it is done with.            *)
LocalOK(t) ==
    local[t] # NoSample =>
        /\ worker[t] = "work" /\ IsBlock(t)
        /\ local[t] \subseteq task[t].work.first..(task[t].work.at - 1)

(* Under the mutex the sum that was read is still the sum.                       *)
MutexOK(u) ==
    \A t \in Threads : accum_mutex[u] = t =>
        /\ running[t] = Pool(u) /\ worker[t] = "work"
        /\ local[t] # NoSample /\ seen[t] = total[u]

SumTypes ==
    /\ total \in [Callers -> [Samples -> Nat]]
    /\ accum_mutex \in [Callers -> Threads \cup {NoThread}]
    /\ local \in [Threads -> SUBSET Nat]
    /\ seen \in [Threads -> [Samples -> Nat]]

SumsOK ==
    /\ SumTypes
    /\ \A t \in Threads : LocalOK(t)
    /\ \A u \in Callers : MutexOK(u) /\ Accounting(u)

SumsInv == TasksInv /\ SumsOK

-------------------------------------------------------------------------------
(* What a thread has in its hand, nobody else has.                               *)
LEMMA InOneHand ==
    ASSUME SlotTypes, NEW u \in Callers, Pool(u) \in Pools, SlotsOK(u), HandsOK(u),
           NEW t \in Threads, Holds(t, u), NEW s \in InHand(t)
    PROVE  /\ \A r \in Threads \ {t} : Holds(r, u) => s \notin InHand(r)
           /\ ~SlotsHave(u, s)
           /\ s \in Given(u) /\ s \in Nat
<1> PICK p \in Pools : p = Pool(u)
    OBVIOUS
<1>0. PICK i \in Slots(p) : i = task[t].slot
    BY DEF HandsOK, HandOK
<1>1. /\ tasks[p][i].is_being_processed /\ ~IsEmpty(tasks[p][i])
      /\ s \in tasks[p][i].work.first..tasks[p][i].work.last
      /\ tasks[p][i].work \in Work
    <2>1. /\ tasks[p][i].is_being_processed
          /\ s \in tasks[p][i].work.first..tasks[p][i].work.last
        BY <1>0 DEF HandsOK, HandOK, InHand
    <2> QED
        BY <2>1 DEF SlotsOK, SlotOK, TaskOK
<1>2. ASSUME NEW j \in Slots(p) \ {i}, ~IsEmpty(tasks[p][j])
      PROVE  s \notin tasks[p][j].work.first..tasks[p][j].work.last
    <2>1. Apart(tasks[p][i], tasks[p][j]) /\ tasks[p][j].work \in Work
        BY <1>2 DEF SlotsOK, SlotOK, TaskOK
    <2> QED
        BY <1>1, <1>2, <2>1 DEF Apart, Before, Work
<1>3. ~SlotsHave(u, s)
    BY <1>1, <1>2 DEF SlotsHave, SlotHas, IsReady
<1>4. ASSUME NEW r \in Threads \ {t}, Holds(r, u)
      PROVE  s \notin InHand(r)
    <2>1. PICK j \in Slots(p) \ {i} : j = task[r].slot
        BY <1>0, <1>4 DEF HandsOK, HandOK
    <2>2. ~IsEmpty(tasks[p][j])
        BY <1>4, <2>1 DEF HandsOK, HandOK, SlotsOK, SlotOK
    <2>3. InHand(r) = tasks[p][j].work.first..tasks[p][j].work.last
        BY <1>4, <2>1 DEF HandsOK, HandOK, InHand
    <2> QED
        BY <1>2, <2>2, <2>3
<1>5. s \in Given(u) /\ s \in Nat
    <2>1. TaskOK(u, i, tasks[p][i])
        BY <1>1 DEF SlotsOK, SlotOK
    <2> PICK first \in Nat, last \in Nat : first = tasks[p][i].work.first /\ last = tasks[p][i].work.last
        BY <1>1 DEF Work
    <2>2. s \in first..last /\ first \in Given(u) /\ last \in Given(u)
        BY <1>1, <2>1 DEF TaskOK
    <2>3. PICK top \in Int : Given(u) = 1..top
        <3>1. next[u] \in Nat /\ Len(ids[u]) \in Nat
            BY DEF SlotTypes
        <3>2. Len(ids[u]) \in Int /\ next[u] - 1 \in Int
            BY <3>1
        <3> QED
            BY <3>2 DEF Given
    <2>4. s \in Nat /\ 1 <= s /\ s <= top
        BY <2>2, <2>3
    <2> QED
        BY <2>3, <2>4
<1> QED
    BY <1>3, <1>4, <1>5

LEMMA CarriedInHand ==
    ASSUME NEW u \in Callers, HandsOK(u), NEW t \in Threads, LocalOK(t), NEW s, ThreadHas(t, u, s)
    PROVE  Holds(t, u) /\ s \in InHand(t)
<1>1. Holds(t, u)
    BY DEF ThreadHas, Holds, AtTask
<1>2. HandOK(u, task[t])
    BY <1>1 DEF HandsOK
<1>3. /\ task[t].work.at \in task[t].work.first..(task[t].work.last + 1)
      /\ task[t].work.first \in Nat /\ task[t].work.last \in Nat
    BY <1>2 DEF HandOK, Work
<1>4. s \in ToDo(t) \/ s \in task[t].work.first..(task[t].work.at - 1)
    BY DEF ThreadHas, LocalOK, NoSample
<1> QED
    BY <1>1, <1>3, <1>4 DEF ToDo, InHand

-------------------------------------------------------------------------------
(* Steps that touch neither the sums nor who works on what.                      *)
LEMMA QuietKeepsSums ==
    ASSUME SumsInv,
           UNCHANGED <<plan, total, accum_mutex, local, seen>>,
           \A t \in Threads : worker'[t] = "work" <=> worker[t] = "work",
           \A t \in Threads : worker[t] = "work" => running'[t] = running[t] /\ task'[t] = task[t],
           \A v \in Callers : (\E t \in Threads : Holds(t, v)) => job'[v] = job[v],
           \A v \in Callers : pc'[v] \in Evaluating =>
               /\ pc[v] \in Evaluating /\ job'[v] = job[v] /\ Given(v)' = Given(v)
               /\ \A s \in Samples : SlotsHave(v, s)' <=> SlotsHave(v, s)
    PROVE  SumsOK'
<1>1. SumTypes'
    BY DEF SumsInv, SumsOK, SumTypes
<1>2. ASSUME NEW t \in Threads PROVE LocalOK(t)'
    BY DEF SumsInv, SumsOK, LocalOK, IsBlock, Owner
<1>3. ASSUME NEW v \in Callers PROVE MutexOK(v)'
    BY DEF SumsInv, SumsOK, MutexOK, Pool, Holds, AtTask
<1>4. ASSUME NEW v \in Callers PROVE Accounting(v)'
    <2> SUFFICES ASSUME pc'[v] \in Evaluating, NEW s \in Samples
                 PROVE  (total[v][s] = IF s \in Given(v) /\ ~Carried(v, s) THEN 1 ELSE 0)'
        BY DEF Accounting
    <2>1. Pool(v)' = Pool(v) /\ \A t \in Threads : ToDo(t) = task[t].work.at..task[t].work.last
        BY DEF Pool, ToDo
    <2>2. \A t \in Threads : ThreadHas(t, v, s)' <=> ThreadHas(t, v, s)
        BY <2>1 DEF ThreadHas, ToDo
    <2>3. Carried(v, s)' <=> Carried(v, s)
        BY <2>2 DEF Carried
    <2> QED
        BY <2>3 DEF SumsInv, SumsOK, Accounting
<1> QED
    BY <1>1, <1>2, <1>3, <1>4 DEF SumsOK

(* Steps of a caller that change its sums, or who works on what.                 *)
LEMMA CallerKeepsSums ==
    ASSUME SumsInv, NEW u \in Callers, pc[u] # "done",
           UNCHANGED <<plan, job, running, worker, task, accum_mutex, local, seen>>,
           total' \in [Callers -> [Samples -> Nat]],
           \A v \in Callers \ {u} : UNCHANGED <<pc[v], next[v], ids[v], total[v]>>,
           \A q \in Pools \ {Pool(u)} : tasks'[q] = tasks[q],
           total'[u] = total[u] \/ \A t \in Threads : ~Holds(t, u),
           Accounting(u)'
    PROVE  SumsOK'
<1>1. SumTypes'
    BY DEF SumsInv, SumsOK, SumTypes
<1>2. ASSUME NEW t \in Threads PROVE LocalOK(t)'
    BY DEF SumsInv, SumsOK, LocalOK, IsBlock, Owner
<1>3. ASSUME NEW v \in Callers PROVE MutexOK(v)'
    BY DEF SumsInv, SumsOK, MutexOK, Pool, Holds, AtTask
<1>4. ASSUME NEW v \in Callers \ {u} PROVE Accounting(v)'
    <2> SUFFICES ASSUME pc'[v] \in Evaluating, NEW s \in Samples
                 PROVE  (total[v][s] = IF s \in Given(v) /\ ~Carried(v, s) THEN 1 ELSE 0)'
        BY DEF Accounting
    <2>1. Pool(v) \in Pools /\ Pool(v) # Pool(u) /\ Pool(v)' = Pool(v) /\ Given(v)' = Given(v)
        BY PoolType, PoolsDiffer DEF SumsInv, TasksInv, Bookkeeping, Pool, Given, Evaluating
    <2>2. \A t \in Threads : ThreadHas(t, v, s)' <=> ThreadHas(t, v, s)
        BY <2>1 DEF ThreadHas, ToDo
    <2>3. Carried(v, s)' <=> Carried(v, s)
        BY <2>1, <2>2 DEF Carried, SlotsHave, Slots
    <2> QED
        BY <2>1, <2>3 DEF SumsInv, SumsOK, Accounting
<1> QED
    BY <1>1, <1>2, <1>3, <1>4 DEF SumsOK

(* What the step of a thread leaves to the other callers.                        *)
LEMMA OtherSums ==
    ASSUME SumsInv, NEW t \in Threads, NEW u \in Callers,
           UNCHANGED <<plan, pc, job, next, ids>>,
           running[t] = Pool(u), running'[t] = Pool(u),
           \A r \in Threads \ {t} : UNCHANGED <<running[r], worker[r], task[r], local[r]>>,
           \A v \in Callers \ {u} : UNCHANGED total[v],
           \A q \in Pools \ {Pool(u)} : tasks'[q] = tasks[q],
           NEW v \in Callers \ {u}
    PROVE  Accounting(v)'
<1> SUFFICES ASSUME pc'[v] \in Evaluating, NEW s \in Samples
             PROVE  (total[v][s] = IF s \in Given(v) /\ ~Carried(v, s) THEN 1 ELSE 0)'
    BY DEF Accounting
<1>1. Pool(v) \in Pools /\ Pool(v) # Pool(u) /\ Pool(v)' = Pool(v) /\ Given(v)' = Given(v)
    BY PoolType, PoolsDiffer DEF SumsInv, TasksInv, Bookkeeping, Pool, Given, Evaluating
<1>2. \A r \in Threads : ThreadHas(r, v, s)' <=> ThreadHas(r, v, s)
    BY <1>1 DEF ThreadHas, ToDo
<1>3. Carried(v, s)' <=> Carried(v, s)
    BY <1>1, <1>2 DEF Carried, SlotsHave, Slots
<1> QED
    BY <1>1, <1>3 DEF SumsInv, SumsOK, Accounting

-------------------------------------------------------------------------------
(* The steps of callers.                                                         *)
LEMMA CallerLeavesSums ==
    ASSUME SumsInv, NEW u \in Callers,
           UNCHANGED <<plan, job, tasks, running, worker, task, total, accum_mutex, local, seen>>,
           \A v \in Callers \ {u} : UNCHANGED <<pc[v], next[v], ids[v]>>,
           pc'[u] \in Evaluating => pc[u] \in Evaluating /\ Given(u)' = Given(u)
    PROVE  SumsOK'
<1>1. \A v, s : SlotsHave(v, s)' <=> SlotsHave(v, s)
    BY DEF SlotsHave, Pool, Slots
<1>2. \A v \in Callers \ {u} : Given(v)' = Given(v)
    BY DEF Given
<1>3. \A v \in Callers : pc'[v] \in Evaluating =>
          /\ pc[v] \in Evaluating /\ job'[v] = job[v] /\ Given(v)' = Given(v)
          /\ \A s \in Samples : SlotsHave(v, s)' <=> SlotsHave(v, s)
    BY <1>1, <1>2
<1> QED
    BY <1>3, QuietKeepsSums

LEMMA QuietCallersKeepSums ==
    ASSUME SumsInv, NEW u \in Callers,
           \/ StartThreads(u) \/ TrainingThrows(u) \/ PoolIsReady(u) \/ AwaitBlocks(u)
           \/ OptimizationStatus(u) \/ CollectFold(u) \/ ShutdownPool(u)
    PROVE  SumsOK'
<1> USE DEF SumState, trainingVars, poolVars
<1>1. UNCHANGED <<plan, job, tasks, running, worker, task, total, accum_mutex, local, seen>>
    <2>1. StartThreads(u) \/ TrainingThrows(u) =>
              UNCHANGED <<plan, job, tasks, running, worker, task, total, accum_mutex, local, seen>>
        BY DEF StartThreads, StartThread, StartWaits, TrainingThrows, StartThrows, HandOver, WaitUntilEmpty,
               SpawnFails
    <2>2. PoolIsReady(u) \/ AwaitBlocks(u) \/ OptimizationStatus(u) =>
              UNCHANGED <<plan, job, tasks, running, worker, task, total, accum_mutex, local, seen>>
        BY DEF PoolIsReady, AwaitBlocks, WaitForTaskDone, OptimizationStatus, threaderVars
    <2>3. CollectFold(u) \/ ShutdownPool(u) =>
              UNCHANGED <<plan, job, tasks, running, worker, task, total, accum_mutex, local, seen>>
        BY DEF CollectFold, WaitForTaskDone, ShutdownPool, TellThreadsToEnd, threaderVars
    <2> QED
        BY <2>1, <2>2, <2>3
<1>2. /\ \A v \in Callers \ {u} : UNCHANGED <<pc[v], next[v], ids[v]>>
      /\ pc'[u] \in Evaluating => pc[u] \in Evaluating /\ Given(u)' = Given(u)
    <2>1. PositionsOK /\ SlotTypes /\ TasksOK(u)
        BY DEF SumsInv, TasksInv, Bookkeeping
    <2> USE <2>1 DEF PositionsOK, InJob, Evaluating, GoTo
    <2>2. CASE StartThreads(u)
        BY <2>2 DEF StartThreads, Given
    <2>3. CASE TrainingThrows(u)
        BY <2>3 DEF TrainingThrows, Given
    <2>4. CASE PoolIsReady(u)
        BY <2>4 DEF PoolIsReady, Given, TasksOK, CourseOK
    <2>5. CASE AwaitBlocks(u)
        BY <2>5 DEF AwaitBlocks, Given
    <2>6. CASE OptimizationStatus(u)
        BY <2>6 DEF OptimizationStatus, Continue, Stop, GapIsSmall, GapIsLarge
    <2>7. CASE CollectFold(u)
        BY <2>7 DEF CollectFold, Given, SlotTypes
    <2>8. CASE ShutdownPool(u)
        BY <2>8 DEF ShutdownPool, Given
    <2> QED
        BY <2>2, <2>3, <2>4, <2>5, <2>6, <2>7, <2>8
<1> QED
    BY <1>1, <1>2, CallerLeavesSums

LEMMA JoinPoolKeepsSums ==
    ASSUME SumsInv, NEW u \in Callers, JoinPool(u)
    PROVE  SumsOK'
<1>1. /\ pc[u] = "join" /\ PositionsOK /\ SlotTypes /\ TasksOK(u)
      /\ UNCHANGED <<plan, next, ids, running, worker, task, total, accum_mutex, local, seen>>
    BY DEF JoinPool, SumState, SumsInv, TasksInv, Bookkeeping, WaitForThreads, Destroy, threaderVars
<1>2. \A t \in Threads : ~Holds(t, u)
    BY <1>1, IdleIsEmpty, EmptyIsFree DEF InJob
<1>3. /\ pc'[u] \notin Evaluating
      /\ \A v \in Callers \ {u} : UNCHANGED <<pc[v], job[v]>>
      /\ \A q \in Pools \ {Pool(u)} : tasks'[q] = tasks[q]
    BY <1>1 DEF JoinPool, WaitForThreads, Destroy, GoTo, PositionsOK, SlotTypes, Evaluating
<1>4. ASSUME NEW v \in Callers, pc'[v] \in Evaluating
      PROVE  /\ pc[v] \in Evaluating /\ job'[v] = job[v] /\ Given(v)' = Given(v)
             /\ \A s \in Samples : SlotsHave(v, s)' <=> SlotsHave(v, s)
    <2>1. v # u /\ pc[v] \in Evaluating /\ job'[v] = job[v]
        BY <1>3, <1>4
    <2>2. Pool(v) \in Pools /\ Pool(v) # Pool(u) /\ Pool(v)' = Pool(v) /\ Given(v)' = Given(v)
        BY <1>1, <2>1, <1>3, PoolType, PoolsDiffer DEF Pool, Given, Evaluating
    <2> QED
        BY <1>3, <2>1, <2>2 DEF SlotsHave, Slots
<1> QED
    BY <1>1, <1>2, <1>3, <1>4, QuietKeepsSums

(* New sums.                                                                     *)
LEMMA FreshSumsKeepSums ==
    ASSUME SumsInv, NEW u \in Callers, StartJob(u) \/ GetRisk(u)
    PROVE  SumsOK'
<1>1. /\ pc[u] \in {"train", "risk"} /\ PositionsOK /\ SlotTypes /\ SumTypes /\ TasksOK(u) /\ PoolsOK
      /\ LoopsAreAlive
    BY DEF StartJob, GetRisk, SumsInv, SumsOK, TasksInv, Bookkeeping
<1>2. /\ UNCHANGED <<plan, job, running, worker, task, accum_mutex, local, seen>>
      /\ total' = [total EXCEPT ![u] = Zero] /\ next' = [next EXCEPT ![u] = 1]
      /\ pc' = [pc EXCEPT ![u] = IF pc[u] = "train" THEN "start" ELSE "blocks"]
      /\ \A q \in Pools \ {Pool(u)} : tasks'[q] = tasks[q]
      /\ \A v \in Callers \ {u} : ids'[v] = ids[v]
    BY <1>1 DEF StartJob, GetRisk, Construct, GoTo, threaderVars, poolVars, SlotTypes
<1>3. /\ total' \in [Callers -> [Samples -> Nat]] /\ total'[u] = Zero /\ next'[u] = 1
      /\ pc'[u] \in {"start", "blocks"}
      /\ \A v \in Callers \ {u} : UNCHANGED <<pc[v], next[v], ids[v], total[v]>>
    BY <1>1, <1>2 DEF SumTypes, SlotTypes, PositionsOK, Zero
<1>4. \A t \in Threads : ~Holds(t, u)
    <2>1. CASE GetRisk(u)
        BY <1>1, <2>1, IdleIsEmpty, EmptyIsFree DEF InJob, GetRisk
    <2>2. CASE StartJob(u)
        BY <1>1, <2>2 DEF StartJob, Construct, Holds, LoopsAreAlive, AtTask
    <2> QED
        BY <2>1, <2>2
<1>5. Accounting(u)'
    <2>1. Given(u)' = {}
        BY <1>3 DEF Given
    <2> QED
        BY <1>3, <2>1 DEF Accounting, Zero
<1> QED
    BY <1>1, <1>2, <1>3, <1>4, <1>5, CallerKeepsSums

(* A caller without threads works by itself.                                     *)
LEMMA OneMoreSample ==
    ASSUME SumsInv, NEW u \in Callers, pc[u] \in {"blocks", "folds"}, size[Pool(u)] = 0,
           NEW k \in Samples, Given(u) = 1..(k - 1), Given(u)' = 1..k,
           total' = [total EXCEPT ![u][k] = @ + 1],
           UNCHANGED <<plan, pc, job, tasks, running, worker, task, accum_mutex, local, seen>>,
           \A v \in Callers \ {u} : UNCHANGED <<next[v], ids[v]>>
    PROVE  SumsOK'
<1>1. SlotTypes /\ SumTypes /\ TasksOK(u) /\ PositionsOK /\ Pool(u) \in Pools /\ Accounting(u) /\ k \in Nat
    BY PoolType DEF SumsInv, SumsOK, TasksInv, Bookkeeping, Samples
<1>2. AllEmpty(u)
    <2>1. Len(tasks[Pool(u)]) = 0 /\ tasks[Pool(u)] \in Seq(Slot)
        BY <1>1 DEF TasksOK, InJob, SlotsOK, SlotTypes
    <2> QED
        BY <2>1 DEF AllEmpty, Slots
<1>3. \A t \in Threads : ~Holds(t, u)
    BY <1>1, <1>2, EmptyIsFree DEF InJob
<1>4. \A s : ~Carried(u, s) /\ ~Carried(u, s)'
    <2>1. Pool(u)' = Pool(u)
        BY DEF Pool
    <2>2. \A t \in Threads : ~Holds(t, u)'
        BY <1>3, <2>1 DEF Holds
    <2> QED
        BY <1>2, <1>3, <2>1, <2>2 DEF Carried, SlotsHave, SlotHas, IsReady, AllEmpty, ThreadHas, Holds, AtTask, Slots
<1>5. /\ total' \in [Callers -> [Samples -> Nat]]
      /\ total'[u][k] = total[u][k] + 1
      /\ \A s \in Samples \ {k} : total'[u][s] = total[u][s]
      /\ \A v \in Callers \ {u} : total'[v] = total[v]
    <2>1. total[u] \in [Samples -> Nat] /\ total[u][k] + 1 \in Nat
        BY <1>1 DEF SumTypes
    <2>2. [total[u] EXCEPT ![k] = total[u][k] + 1] \in [Samples -> Nat]
        BY <2>1
    <2>3. total' = [total EXCEPT ![u] = [total[u] EXCEPT ![k] = total[u][k] + 1]]
        OBVIOUS
    <2>4. total'[u] = [total[u] EXCEPT ![k] = total[u][k] + 1]
        BY <1>1, <2>3 DEF SumTypes
    <2>5. /\ total' \in [Callers -> [Samples -> Nat]]
          /\ \A v \in Callers \ {u} : total'[v] = total[v]
        BY <1>1, <2>2, <2>3 DEF SumTypes
    <2> QED
        BY <2>1, <2>4, <2>5
<1>6. Accounting(u)'
    BY <1>1, <1>4, <1>5 DEF Accounting, Evaluating, Samples
<1> QED
    BY <1>3, <1>5, <1>6, CallerKeepsSums

LEMMA RunDirectlyKeepsSums ==
    ASSUME SumsInv, NEW u \in Callers, RunDirectly(u)
    PROVE  SumsOK'
<1>1. /\ pc[u] = "blocks" /\ size[Pool(u)] = 0 /\ SlotTypes /\ SumTypes /\ TasksOK(u) /\ PositionsOK
      /\ UNCHANGED <<plan, job, ids, tasks, running, worker, task, accum_mutex, local, seen>>
    BY DEF RunDirectly, SumsInv, SumsOK, TasksInv, Bookkeeping, threaderVars, poolVars
<1>2. CASE next[u] <= Job(u).samples
    <2>1. next[u] \in Nat /\ next[u] \in Samples
        <3>1. Job(u).samples \in Samples /\ next[u] \in 1..(Job(u).samples + 1)
            BY <1>1, JobType DEF TasksOK, InJob, CourseOK
        <3> QED
            BY <1>2, <3>1, PlanAssumption DEF Samples
    <2> PICK k \in Samples : k = next[u]
        BY <2>1
    <2>2. /\ total' = [total EXCEPT ![u][k] = @ + 1] /\ UNCHANGED pc
          /\ next'[u] = k + 1 /\ \A v \in Callers \ {u} : next'[v] = next[v]
        BY <1>1, <1>2 DEF RunDirectly, SlotTypes
    <2>3. Given(u) = 1..(k - 1) /\ Given(u)' = 1..k
        BY <1>1, <2>2 DEF Given, Samples
    <2> QED
        BY <1>1, <2>2, <2>3, OneMoreSample
<1>3. CASE ~(next[u] <= Job(u).samples)
    <2>1. pc' = [pc EXCEPT ![u] = "status"] /\ UNCHANGED <<next, total>>
        BY <1>3 DEF RunDirectly, GoTo
    <2>2. pc'[u] = "status" /\ \A v \in Callers \ {u} : pc'[v] = pc[v]
        BY <1>1, <2>1 DEF PositionsOK
    <2>3. Given(u)' = Given(u)
        BY <1>1, <2>1, <2>2 DEF Given
    <2> QED
        BY <1>1, <2>1, <2>2, <2>3, CallerLeavesSums DEF Evaluating
<1> QED
    BY <1>2, <1>3

(* A task for samples that nobody was given before.                              *)
LEMMA NewTask ==
    ASSUME SumsInv, NEW u \in Callers, pc[u] \in {"blocks", "folds"},
           UNCHANGED <<plan, pc, job, running, worker, task, total, accum_mutex, local, seen>>,
           \A v \in Callers \ {u} : UNCHANGED <<next[v], ids[v]>>,
           NEW i \in Slots(Pool(u)), NEW slot \in Slot, IsEmpty(tasks[Pool(u)][i]), IsReady(slot),
           tasks' = Replaced(Pool(u), i, slot),
           NEW added \in SUBSET Nat, slot.work.first..slot.work.last = added,
           added \cap Given(u) = {}, Given(u)' = Given(u) \cup added
    PROVE  SumsOK'
<1>1. SlotTypes /\ SumTypes /\ TasksOK(u) /\ HandsOK(u) /\ PositionsOK /\ Pool(u) \in Pools /\ Accounting(u)
    BY PoolType DEF SumsInv, SumsOK, TasksInv, Bookkeeping, TasksOK, InJob
<1> PICK p \in Pools : p = Pool(u)
    BY <1>1
<1>2. /\ Slots(p)' = Slots(p) /\ tasks'[p][i] = slot
      /\ \A j \in Slots(p) \ {i} : tasks'[p][j] = tasks[p][j]
      /\ \A q \in Pools \ {p} : tasks'[q] = tasks[q]
    BY <1>1, OneSlot
<1>3. Pool(u)' = p
    BY DEF Pool
<1>4. \A s : SlotsHave(u, s)' <=> SlotsHave(u, s) \/ s \in added
    <2>1. \A s : ~SlotHas(tasks[p][i], s) /\ (SlotHas(slot, s) <=> s \in added)
        BY DEF SlotHas, IsReady
    <2> QED
        BY <1>2, <1>3, <2>1 DEF SlotsHave
<1>5. \A s, t : ThreadHas(t, u, s)' <=> ThreadHas(t, u, s)
    BY <1>3 DEF ThreadHas, ToDo
<1>6. \A s : Carried(u, s)' <=> Carried(u, s) \/ s \in added
    BY <1>4, <1>5 DEF Carried
<1>7. Accounting(u)'
    BY <1>1, <1>6 DEF Accounting, Evaluating
<1> QED
    BY <1>1, <1>2, <1>7, CallerKeepsSums DEF SumTypes

LEMMA AddBlockKeepsSums ==
    ASSUME SumsInv, NEW u \in Callers, AddBlock(u)
    PROVE  SumsOK'
<1>1. /\ pc[u] = "blocks" /\ SlotTypes /\ PositionsOK /\ SlotsOK(u) /\ TasksInv
      /\ UNCHANGED <<plan, pc, job, ids, total, accum_mutex, local, seen>>
    BY DEF AddBlock, InJob, SumsInv, TasksInv, Bookkeeping, TasksOK, SumState
<1> PICK p \in Pools : p = Pool(u)
    BY <1>1, PoolType
<1>2. CASE NoSlotIsEmpty(Pool(u))
    <2>1. UNCHANGED <<next, tasks, running, worker, task>>
        BY <1>2 DEF AddBlock, WaitForTaskDone, threaderVars
    <2> QED
        BY <1>1, <2>1, CallerLeavesSums DEF Given
<1>3. CASE ~NoSlotIsEmpty(Pool(u))
    <2> PICK last : last = Least(next[u] + BlockSize(u) - 1, Job(u).samples)
        OBVIOUS
    <2>1. next[u] \in Nat \ {0} /\ Job(u).samples \in Nat /\ last \in next[u]..Job(u).samples
        BY <1>1, BlocksAreInRange DEF AddBlock
    <2> PICK w \in Work : w = [first |-> next[u], last |-> last, at |-> next[u]]
        <3>1. next[u] \in Nat /\ last \in Nat
            BY <2>1
        <3>2. [first |-> next[u], last |-> last, at |-> next[u]] \in Work
            BY <3>1 DEF Work
        <3> QED
            BY <3>2
    <2>2. AddTask(u, Pool(u), w) /\ next' = [next EXCEPT ![u] = last + 1]
        BY <1>3 DEF AddBlock
    <2> PICK i \in Slots(p), slot \in Slot :
            /\ IsEmpty(tasks[p][i]) /\ tasks' = Replaced(p, i, slot)
            /\ slot.task_id # 0 /\ ~slot.is_being_processed /\ slot.work = w
        BY <1>1, <2>2, AddedTask
    <2>3. UNCHANGED <<task, running, worker>>
        BY <2>2 DEF AddTask, threaderVars
    <2>4. next'[u] = last + 1 /\ \A v \in Callers \ {u} : next'[v] = next[v]
        BY <1>1, <2>2 DEF SlotTypes
    <2>5. Given(u) = 1..(next[u] - 1) /\ Given(u)' = 1..last
        BY <1>1, <2>1, <2>4 DEF Given
    <2> PICK added \in SUBSET Nat : added = next[u]..last
        BY <2>1
    <2>6. added \cap Given(u) = {} /\ Given(u)' = Given(u) \cup added
        BY <2>1, <2>5
    <2>7. IsReady(slot) /\ slot.work.first..slot.work.last = added
        BY DEF IsReady, IsEmpty
    <2> QED
        BY <1>1, <2>3, <2>4, <2>6, <2>7, NewTask
<1> QED
    BY <1>2, <1>3

LEMMA AddFoldKeepsSums ==
    ASSUME SumsInv, NEW u \in Callers, AddFold(u)
    PROVE  SumsOK'
<1>1. /\ pc[u] = "folds" /\ SlotTypes /\ PositionsOK /\ SlotsOK(u) /\ TasksInv
      /\ UNCHANGED <<plan, pc, job, next, accum_mutex, local, seen>>
    BY DEF AddFold, InJob, SumsInv, TasksInv, Bookkeeping, TasksOK
<1> PICK p \in Pools : p = Pool(u)
    BY <1>1, PoolType
<1>2. Len(ids[u]) \in Nat /\ ids[u] \in Seq(Nat)
    BY <1>1 DEF SlotTypes
<1> PICK k \in Samples : k = Len(ids[u]) + 1
    <2>1. Job(u).samples \in Samples /\ Len(ids[u]) + 1 <= Job(u).samples
        BY <1>1, JobType DEF AddFold
    <2>2. Len(ids[u]) + 1 \in Samples
        BY <1>2, <2>1, PlanAssumption DEF Samples
    <2> QED
        BY <2>2
<1>3. Given(u) = 1..(k - 1) /\ k \in Nat \ {0}
    BY <1>1, <1>2 DEF Given, Samples
<1>4. ASSUME NEW id \in Nat, ids' = [ids EXCEPT ![u] = Append(@, id)]
      PROVE  Given(u)' = 1..k /\ \A v \in Callers \ {u} : ids'[v] = ids[v]
    <2>1. Len(Append(ids[u], id)) = k
        BY <1>2
    <2>2. ids'[u] = Append(ids[u], id) /\ \A v \in Callers \ {u} : ids'[v] = ids[v]
        BY <1>1, <1>4 DEF SlotTypes
    <2> QED
        BY <1>1, <2>1, <2>2 DEF Given
<1>5. CASE size[p] = 0
    <2>1. /\ ids' = [ids EXCEPT ![u] = Append(@, 1)] /\ UNCHANGED <<size, tasks, task, running, worker>>
          /\ total' = [total EXCEPT ![u][k] = @ + 1]
        BY <1>5 DEF AddFold, threaderVars, poolVars
    <2> QED
        BY <1>1, <1>3, <1>4, <1>5, <2>1, OneMoreSample
<1>6. CASE size[p] # 0 /\ NoSlotIsEmpty(p)
    <2>1. UNCHANGED <<ids, total, tasks, task, running, worker>>
        BY <1>6 DEF AddFold, WaitForTaskDone, threaderVars
    <2> QED
        BY <1>1, <2>1, CallerLeavesSums DEF Given
<1>7. CASE size[p] # 0 /\ ~NoSlotIsEmpty(p)
    <2> PICK w \in Work : w = [first |-> k, last |-> k, at |-> k]
        BY <1>3 DEF Work
    <2> PICK id : id = NextTaskId(p, First(EmptySlots(p)))
        OBVIOUS
    <2>1. /\ AddTask(u, Pool(u), w) /\ ids' = [ids EXCEPT ![u] = Append(@, id)]
          /\ UNCHANGED total
        BY <1>7 DEF AddFold
    <2> PICK i \in Slots(p), slot \in Slot :
            /\ IsEmpty(tasks[p][i]) /\ tasks' = Replaced(p, i, slot)
            /\ id \in Nat
            /\ slot.task_id # 0 /\ ~slot.is_being_processed /\ slot.work = w
        BY <1>1, <2>1, AddedTask
    <2>2. UNCHANGED <<task, running, worker>>
        BY <2>1 DEF AddTask, threaderVars
    <2> PICK added \in SUBSET Nat : added = {k}
        BY <1>3
    <2>3. added \cap Given(u) = {} /\ Given(u)' = Given(u) \cup added
        <3>1. Given(u)' = 1..k
            BY <1>4, <2>1
        <3>2. 1..k = 1..(k - 1) \cup {k} /\ k \notin 1..(k - 1)
            BY <1>3
        <3> QED
            BY <1>3, <3>1, <3>2
    <2>4. IsReady(slot) /\ slot.work.first..slot.work.last = added
        BY <1>3 DEF IsReady, IsEmpty
    <2> QED
        BY <1>1, <1>4, <2>1, <2>2, <2>3, <2>4, NewTask
<1> QED
    BY <1>5, <1>6, <1>7

LEMMA CallersKeepSums ==
    ASSUME SumsInv, NEW u \in Callers, CallerStep(u)
    PROVE  SumsOK'
BY QuietCallersKeepSums, JoinPoolKeepsSums, FreshSumsKeepSums, RunDirectlyKeepsSums, AddBlockKeepsSums,
   AddFoldKeepsSums DEF CallerStep

-------------------------------------------------------------------------------
(* The steps of threads.                                                         *)
LEMMA FetchTaskKeepsSums ==
    ASSUME SumsInv, NEW t \in Threads, FetchTask(t), ReadySlots(running[t]) # {}, UNCHANGED trainingVars
    PROVE  SumsOK'
<1>1. /\ worker[t] = "fetch" /\ SlotTypes /\ SumTypes /\ PoolsOK /\ Bookkeeping /\ LoopsAreAlive /\ LocalOK(t)
      /\ running \in [Threads -> Functions \cup {NoFunction}]
    BY DEF FetchTask, SumsInv, SumsOK, TasksInv, Bookkeeping, ThreaderInv, ThreaderTypeOK
<1> PICK u \in Callers : u = Owner(t) /\ pc[u] \in InJob /\ running[t] = Pool(u) /\ Pool(u) \in Pools
    BY <1>1, LoopersHaveOwners
<1> PICK p \in Pools : p = Pool(u)
    OBVIOUS
<1>2. SlotsOK(u) /\ HandsOK(u) /\ Accounting(u)
    BY DEF SumsInv, SumsOK, TasksInv, TasksOK
<1> PICK i \in Slots(p) : i = First(ReadySlots(p)) /\ IsReady(tasks[p][i])
    <2>1. ReadySlots(p) \in SUBSET Nat
        BY <1>1 DEF ReadySlots, Slots, SlotTypes
    <2> QED
        BY <2>1, FirstIsOne DEF ReadySlots
<1> PICK old \in Slot : old = tasks[p][i]
    <2>1. tasks[p][i] \in Slot
        BY <1>1 DEF SlotTypes, Slots
    <2> QED
        BY <2>1
<1> PICK slot \in Slot : slot = Marked(old)
    BY DEF Slot, Marked
<1>3. /\ tasks' = Replaced(p, i, slot)
      /\ task' = [task EXCEPT ![t] = [slot |-> i, work |-> old.work]]
      /\ worker' = [worker EXCEPT ![t] = "work"]
      /\ UNCHANGED <<plan, pc, job, next, ids, running, total, accum_mutex, local, seen>>
    BY DEF FetchTask, Replaced, trainingVars, threaderVars
<1>4. /\ Slots(p)' = Slots(p) /\ tasks'[p][i] = slot
      /\ \A j \in Slots(p) \ {i} : tasks'[p][j] = tasks[p][j]
      /\ \A q \in Pools \ {p} : tasks'[q] = tasks[q]
    BY <1>1, <1>3, OneSlot
<1>5. /\ task'[t].work = old.work /\ worker'[t] = "work"
      /\ \A r \in Threads \ {t} : UNCHANGED <<running[r], worker[r], task[r], local[r]>>
    BY <1>1, <1>3 DEF SlotTypes, PoolsOK
<1>6. SumTypes'
    BY <1>1, <1>3 DEF SumTypes
<1>7. local[t] = NoSample
    BY <1>1 DEF LocalOK
<1>8. \A r \in Threads : LocalOK(r)'
    BY <1>3, <1>5, <1>7 DEF SumsInv, SumsOK, LocalOK, IsBlock, Owner
<1>9. \A v \in Callers : MutexOK(v)'
    BY <1>1, <1>3, <1>5 DEF SumsInv, SumsOK, MutexOK, Pool
<1>10. \A v \in Callers \ {u} : Accounting(v)'
    BY <1>3, <1>4, <1>5, OtherSums
<1>11. Accounting(u)'
    <2>1. Pool(u)' = p /\ Given(u)' = Given(u)
        BY <1>3 DEF Pool, Given
    <2>2. old.work \in Work /\ old.work.at = old.work.first
        BY <1>2 DEF SlotsOK, SlotOK, TaskOK, IsReady
    <2>3. ASSUME NEW s \in Samples PROVE Carried(u, s)' <=> Carried(u, s)
        <3>1. SlotHas(old, s) <=> s \in old.work.first..old.work.last
            BY DEF SlotHas
        <3>2. ~SlotHas(slot, s)
            BY DEF SlotHas, IsReady, Marked, Slot
        <3>3. SlotsHave(u, s) <=> SlotsHave(u, s)' \/ SlotHas(old, s)
            BY <1>4, <2>1, <3>2 DEF SlotsHave
        <3>4. ThreadHas(t, u, s)' <=> SlotHas(old, s)
            BY <1>3, <1>5, <1>7, <2>1, <2>2, <3>1 DEF ThreadHas, ToDo, NoSample
        <3>5. ~ThreadHas(t, u, s)
            BY <1>1 DEF ThreadHas
        <3>6. \A r \in Threads \ {t} : ThreadHas(r, u, s)' <=> ThreadHas(r, u, s)
            BY <1>3, <1>5, <2>1 DEF ThreadHas, ToDo
        <3> QED
            BY <3>3, <3>4, <3>5, <3>6 DEF Carried
    <2> QED
        BY <1>2, <1>3, <2>1, <2>3 DEF Accounting
<1> QED
    BY <1>6, <1>8, <1>9, <1>10, <1>11 DEF SumsOK

LEMMA CallOracleKeepsSums ==
    ASSUME SumsInv, NEW t \in Threads, CallOracle(t)
    PROVE  SumsOK'
<1>1. /\ worker[t] = "work" /\ IsBlock(t) /\ SlotTypes /\ SumTypes /\ PoolsOK /\ Bookkeeping /\ LoopsAreAlive
      /\ LocalOK(t)
    BY DEF CallOracle, Working, SumsInv, SumsOK, TasksInv, Bookkeeping
<1> PICK u \in Callers : u = Owner(t) /\ pc[u] \in InJob /\ running[t] = Pool(u) /\ Pool(u) \in Pools
    BY <1>1, LoopersHaveOwners DEF AtTask
<1>2. HandsOK(u) /\ Accounting(u) /\ MutexOK(u) /\ Holds(t, u)
    BY <1>1 DEF SumsInv, SumsOK, TasksInv, TasksOK, Holds, AtTask
<1>3. HandOK(u, task[t]) /\ task[t].work \in Work
    BY <1>2 DEF HandsOK, HandOK
<1> PICK s \in Nat, first \in Nat, last \in Nat :
        s = task[t].work.at /\ first = task[t].work.first /\ last = task[t].work.last
    BY <1>3 DEF Work
<1>4. s \in first..last
    <2>1. s \in first..(last + 1)
        BY <1>3 DEF HandOK
    <2>2. s <= last
        BY DEF CallOracle
    <2> QED
        BY <2>1, <2>2
<1>5. /\ local' = [local EXCEPT ![t] = @ \cup {s}]
      /\ task' = [task EXCEPT ![t] = [task[t] EXCEPT !.work = [task[t].work EXCEPT !.at = s + 1]]]
      /\ accum_mutex[u] # t
      /\ UNCHANGED <<plan, pc, job, next, ids, running, worker, tasks, total, accum_mutex, seen>>
    <2>1. task' = [task EXCEPT ![t].work.at = s + 1]
        BY DEF CallOracle
    <2> QED
        BY <2>1 DEF CallOracle, threaderVars
<1>6. /\ local'[t] = local[t] \cup {s} /\ SumTypes'
      /\ \A r \in Threads \ {t} : UNCHANGED <<running[r], worker[r], task[r], local[r]>>
    BY <1>1, <1>5 DEF SumTypes, SlotTypes
<1>7. task'[t].work.at = s + 1 /\ task'[t].work.first = first /\ task'[t].work.last = last
    <2>1. [task[t].work EXCEPT !.at = s + 1].at = s + 1
        BY <1>3 DEF Work
    <2>2. /\ [task[t].work EXCEPT !.at = s + 1].first = first
          /\ [task[t].work EXCEPT !.at = s + 1].last = last
        BY <1>3 DEF Work
    <2>3. task'[t].work = [task[t].work EXCEPT !.at = s + 1]
        BY <1>1, <1>5 DEF SlotTypes
    <2> QED
        BY <2>1, <2>2, <2>3
<1>8. \A r \in Threads : LocalOK(r)'
    <2>1. LocalOK(t)'
        <3>1. local[t] \subseteq first..(s - 1)
            BY <1>1 DEF LocalOK, NoSample
        <3>2. local'[t] \subseteq first..((s + 1) - 1)
            BY <1>4, <1>6, <3>1
        <3>3. IsBlock(t)' /\ worker'[t] = "work"
            BY <1>1, <1>5 DEF IsBlock, Owner
        <3> QED
            BY <1>7, <3>2, <3>3 DEF LocalOK
    <2>2. \A r \in Threads \ {t} : LocalOK(r)'
        BY <1>5, <1>6 DEF SumsInv, SumsOK, LocalOK, IsBlock, Owner
    <2> QED
        BY <2>1, <2>2
<1>9. \A v \in Callers : MutexOK(v)'
    <2>1. \A v \in Callers : accum_mutex[v] # t
        BY <1>2, <1>5, PoolsDiffer DEF SumsInv, SumsOK, MutexOK
    <2> QED
        BY <1>5, <1>6, <2>1 DEF SumsInv, SumsOK, MutexOK, Pool
<1>10. \A v \in Callers \ {u} : Accounting(v)'
    BY <1>5, <1>6, OtherSums
<1>11. Accounting(u)'
    <2>1. Pool(u)' = Pool(u) /\ Given(u)' = Given(u)
        BY <1>5 DEF Pool, Given
    <2>2. ASSUME NEW x \in Samples PROVE Carried(u, x)' <=> Carried(u, x)
        <3>1. ToDo(t) = s..last /\ ToDo(t)' = (s + 1)..last
            BY <1>7 DEF ToDo
        <3>2. x \in Nat /\ (x \in s..last <=> x = s \/ x \in (s + 1)..last)
            BY <1>4 DEF Samples
        <3>3. ThreadHas(t, u, x)' <=> ThreadHas(t, u, x)
            BY <1>1, <1>5, <1>6, <2>1, <3>1, <3>2 DEF ThreadHas
        <3>4. \A r \in Threads \ {t} : ThreadHas(r, u, x)' <=> ThreadHas(r, u, x)
            BY <1>5, <1>6, <2>1 DEF ThreadHas, ToDo
        <3>5. SlotsHave(u, x)' <=> SlotsHave(u, x)
            BY <1>5, <2>1 DEF SlotsHave, Slots
        <3> QED
            BY <3>3, <3>4, <3>5 DEF Carried
    <2> QED
        BY <1>2, <1>5, <2>1, <2>2 DEF Accounting
<1> QED
    BY <1>6, <1>8, <1>9, <1>10, <1>11 DEF SumsOK

LEMMA LockAndReadKeepsSums ==
    ASSUME SumsInv, NEW t \in Threads, LockAndRead(t)
    PROVE  SumsOK'
<1>1. worker[t] = "work" /\ local[t] # NoSample /\ SumTypes /\ Bookkeeping /\ LoopsAreAlive
    BY DEF LockAndRead, Working, SumsInv, SumsOK, TasksInv
<1> PICK u \in Callers : u = Owner(t) /\ pc[u] \in InJob /\ running[t] = Pool(u)
    BY <1>1, LoopersHaveOwners DEF AtTask
<1>2. /\ accum_mutex[u] = NoThread /\ accum_mutex' = [accum_mutex EXCEPT ![u] = t]
      /\ seen' = [seen EXCEPT ![t] = total[u]]
      /\ UNCHANGED <<plan, pc, job, next, ids, running, worker, task, tasks, total, local>>
    BY DEF LockAndRead, threaderVars, poolVars
<1>3. SumTypes' /\ seen'[t] = total[u] /\ \A r \in Threads \ {t} : seen'[r] = seen[r]
    BY <1>1, <1>2 DEF SumTypes
<1>4. \A r \in Threads : LocalOK(r)'
    BY <1>2 DEF SumsInv, SumsOK, LocalOK, IsBlock, Owner
<1>5. \A v \in Callers : MutexOK(v)'
    <2> SUFFICES ASSUME NEW v \in Callers, NEW r \in Threads, accum_mutex'[v] = r
                 PROVE  /\ running[r] = Pool(v) /\ worker[r] = "work"
                        /\ local[r] # NoSample /\ seen'[r] = total[v]
        BY <1>2 DEF MutexOK, Pool
    <2>1. CASE v = u
        BY <1>1, <1>2, <1>3, <2>1 DEF SumTypes
    <2>2. CASE v # u
        <3>1. accum_mutex[v] = r
            BY <1>1, <1>2, <2>2 DEF SumTypes
        <3>2. /\ running[r] = Pool(v) /\ worker[r] = "work"
              /\ local[r] # NoSample /\ seen[r] = total[v]
            BY <3>1 DEF SumsInv, SumsOK, MutexOK
        <3>3. r # t
            BY <2>2, <3>2, PoolsDiffer
        <3> QED
            BY <1>3, <3>2, <3>3
    <2> QED
        BY <2>1, <2>2
<1>6. \A v \in Callers : Accounting(v)'
    <2>1. \A v, s : Carried(v, s)' <=> Carried(v, s)
        BY <1>2 DEF Carried, SlotsHave, ThreadHas, ToDo, Slots, Pool
    <2> QED
        BY <1>2, <2>1 DEF SumsInv, SumsOK, Accounting, Given
<1> QED
    BY <1>3, <1>4, <1>5, <1>6 DEF SumsOK

(* The shared sum has not moved since it was read, and nobody else has any of    *)
(* the samples that are added to it.                                             *)
LEMMA AddAndUnlockKeepsSums ==
    ASSUME SumsInv, NEW t \in Threads, AddAndUnlock(t)
    PROVE  SumsOK'
<1>1. /\ worker[t] = "work" /\ SlotTypes /\ SumTypes /\ PoolsOK /\ Bookkeeping /\ LoopsAreAlive /\ LocalOK(t)
    BY DEF AddAndUnlock, Working, SumsInv, SumsOK, TasksInv, Bookkeeping
<1> PICK u \in Callers : u = Owner(t) /\ pc[u] \in InJob /\ running[t] = Pool(u) /\ Pool(u) \in Pools
    BY <1>1, LoopersHaveOwners DEF AtTask
<1>2. /\ SlotsOK(u) /\ HandsOK(u) /\ Accounting(u) /\ Holds(t, u)
      /\ local[t] # NoSample /\ seen[t] = total[u] /\ accum_mutex[u] = t
    BY <1>1 DEF SumsInv, SumsOK, TasksInv, TasksOK, Holds, AtTask, MutexOK, AddAndUnlock
<1>3. IsBlock(t) /\ pc[u] = "blocks"
    BY <1>1, <1>2, TasksInCall DEF LocalOK, SumsInv, NoTaskOutlivesItsCall
<1>4. /\ accum_mutex' = [accum_mutex EXCEPT ![u] = NoThread]
      /\ total' = [total EXCEPT ![u] =
             [s \in Samples |-> IF s \in local[t] THEN total[u][s] + 1 ELSE total[u][s]]]
      /\ local' = [local EXCEPT ![t] = NoSample] /\ seen' = [seen EXCEPT ![t] = Zero]
      /\ worker' = [worker EXCEPT ![t] = IF task[t].work.at > task[t].work.last THEN "clear" ELSE @]
      /\ UNCHANGED <<plan, pc, job, next, ids, running, task, tasks>>
    BY <1>2 DEF AddAndUnlock, threaderVars
<1>5. /\ SumTypes' /\ local'[t] = NoSample /\ accum_mutex'[u] = NoThread
      /\ \A s \in Samples : total'[u][s] = IF s \in local[t] THEN total[u][s] + 1 ELSE total[u][s]
      /\ \A v \in Callers \ {u} : total'[v] = total[v] /\ accum_mutex'[v] = accum_mutex[v]
      /\ \A r \in Threads \ {t} : UNCHANGED <<running[r], worker[r], task[r], local[r], seen[r]>>
    <2> DEFINE sums == [s \in Samples |-> IF s \in local[t] THEN total[u][s] + 1 ELSE total[u][s]]
    <2>1. sums \in [Samples -> Nat] /\ \A s \in Samples : sums[s] =
              IF s \in local[t] THEN total[u][s] + 1 ELSE total[u][s]
        BY <1>1 DEF SumTypes
    <2>2. Zero \in [Samples -> Nat]
        BY DEF Zero
    <2> HIDE DEF sums
    <2> QED
        BY <1>1, <1>4, <2>1, <2>2 DEF SumTypes, PoolsOK, NoSample
<1>6. \A r \in Threads : LocalOK(r)'
    BY <1>4, <1>5 DEF SumsInv, SumsOK, LocalOK, IsBlock, Owner
<1>7. \A v \in Callers : MutexOK(v)'
    <2> SUFFICES ASSUME NEW v \in Callers, NEW r \in Threads, accum_mutex'[v] = r
                 PROVE  /\ running'[r] = Pool(v)' /\ worker'[r] = "work"
                        /\ local'[r] # NoSample /\ seen'[r] = total'[v]
        BY DEF MutexOK
    <2>1. v # u
        BY <1>5, NullAssumption DEF NoThread
    <2>2. /\ running[r] = Pool(v) /\ worker[r] = "work"
          /\ local[r] # NoSample /\ seen[r] = total[v]
        BY <1>5, <2>1 DEF SumsInv, SumsOK, MutexOK
    <2>3. r # t
        BY <2>1, <2>2, PoolsDiffer
    <2> QED
        BY <1>4, <1>5, <2>1, <2>2, <2>3 DEF Pool
<1>8. \A v \in Callers \ {u} : Accounting(v)'
    BY <1>4, <1>5, OtherSums
<1>9. \A r \in Threads \ {t} : \A s : ThreadHas(r, u, s) <=> ThreadHas(r, u, s)'
    BY <1>4, <1>5 DEF ThreadHas, ToDo, Pool
<1>10. \A s : SlotsHave(u, s)' <=> SlotsHave(u, s)
    BY <1>4 DEF SlotsHave, Slots, Pool
<1>11. \A s : ThreadHas(t, u, s)' <=> s \in ToDo(t)
    <2>1. /\ task[t].work.at \in Nat /\ task[t].work.last \in Nat
        BY <1>2 DEF HandsOK, HandOK, Work
    <2>2. worker'[t] = IF task[t].work.at > task[t].work.last THEN "clear" ELSE "work"
        BY <1>1, <1>4 DEF PoolsOK
    <2>3. ToDo(t)' = ToDo(t) /\ (task[t].work.at > task[t].work.last => ToDo(t) = {})
        BY <1>4, <2>1 DEF ToDo
    <2>4. running'[t] = Pool(u)'
        BY <1>4 DEF Pool
    <2> QED
        BY <1>5, <2>1, <2>2, <2>3, <2>4 DEF ThreadHas, NoSample
<1>12. ASSUME NEW s \in Samples, s \in local[t]
       PROVE  s \in Given(u) /\ Carried(u, s) /\ ~Carried(u, s)'
    <2>1. ThreadHas(t, u, s) /\ s \notin ToDo(t)
        <3>1. s \in task[t].work.first..(task[t].work.at - 1) /\ task[t].work.at \in Nat /\ task[t].work.first \in Nat
            BY <1>1, <1>2, <1>12 DEF LocalOK, HandsOK, HandOK, Work
        <3>2. s \notin ToDo(t)
            BY <1>2, <3>1 DEF ToDo, HandsOK, HandOK, Work
        <3> QED
            BY <1>1, <1>12, <3>2 DEF ThreadHas
    <2>2. s \in InHand(t)
        BY <1>1, <1>2, <2>1, CarriedInHand
    <2>3. /\ \A r \in Threads \ {t} : Holds(r, u) => s \notin InHand(r)
          /\ ~SlotsHave(u, s) /\ s \in Given(u)
        BY <1>1, <1>2, <2>2, InOneHand
    <2>4. \A r \in Threads \ {t} : ~ThreadHas(r, u, s)
        BY <1>2, <2>3, CarriedInHand DEF SumsInv, SumsOK
    <2> QED
        BY <1>9, <1>10, <1>11, <2>1, <2>3, <2>4 DEF Carried
<1>13. ASSUME NEW s \in Samples, s \notin local[t]
       PROVE  Carried(u, s)' <=> Carried(u, s)
    <2>1. ThreadHas(t, u, s) <=> s \in ToDo(t)
        BY <1>1, <1>13 DEF ThreadHas
    <2> QED
        BY <1>9, <1>10, <1>11, <2>1 DEF Carried
<1>14. Accounting(u)'
    <2>1. Given(u)' = Given(u)
        BY <1>4 DEF Given
    <2>2. pc[u] \in Evaluating
        BY <1>3 DEF Evaluating
    <2> QED
        BY <1>2, <1>5, <1>12, <1>13, <2>1, <2>2 DEF Accounting
<1> QED
    BY <1>5, <1>6, <1>7, <1>8, <1>14 DEF SumsOK

LEMMA RunFoldKeepsSums ==
    ASSUME SumsInv, NEW t \in Threads, RunFold(t)
    PROVE  SumsOK'
<1>1. /\ worker[t] = "work" /\ ~IsBlock(t) /\ SlotTypes /\ SumTypes /\ PoolsOK /\ Bookkeeping /\ LoopsAreAlive
      /\ LocalOK(t)
    BY DEF RunFold, Working, SumsInv, SumsOK, TasksInv, Bookkeeping
<1> PICK u \in Callers : u = Owner(t) /\ pc[u] \in InJob /\ running[t] = Pool(u) /\ Pool(u) \in Pools
    BY <1>1, LoopersHaveOwners DEF AtTask
<1>2. /\ CourseOK(u) /\ SlotsOK(u) /\ HandsOK(u) /\ Accounting(u) /\ Holds(t, u) /\ pc[u] = "folds"
      /\ local[t] = NoSample
    BY <1>1, TasksInCall DEF SumsInv, SumsOK, TasksInv, TasksOK, Holds, AtTask, NoTaskOutlivesItsCall, LocalOK
<1>3. HandOK(u, task[t]) /\ task[t].work \in Work
    BY <1>2 DEF HandsOK, HandOK
<1> PICK k \in Nat : k = task[t].work.first
    BY <1>3 DEF Work
<1>4. InHand(t) = {k} /\ ToDo(t) = {k}
    <2>1. PICK i \in Slots(Pool(u)) : i = task[t].slot
        BY <1>3 DEF HandOK
    <2>2. SlotOK(u, i, tasks[Pool(u)][i]) /\ tasks[Pool(u)][i].is_being_processed
        BY <1>2, <1>3, <2>1 DEF SlotsOK, HandOK
    <2>3. tasks[Pool(u)][i].work.first = tasks[Pool(u)][i].work.last
        BY <1>2, <2>2 DEF SlotOK, TaskOK
    <2>4. task[t].work.last = k /\ task[t].work.at = k
        BY <1>2, <1>3, <2>1, <2>3 DEF HandOK
    <2> QED
        BY <2>4 DEF InHand, ToDo
<1>5. k \in Given(u) /\ k \in Samples
    <2>1. k \in Given(u)
        BY <1>1, <1>2, <1>4, InOneHand
    <2>2. Job(u).samples \in Nat /\ Job(u).samples \in Samples /\ Len(ids[u]) <= Job(u).samples
          /\ Len(ids[u]) \in Nat
        BY <1>1, <1>2, JobType DEF Bookkeeping, CourseOK, SlotTypes
    <2>3. Given(u) = 1..Len(ids[u])
        BY <1>2 DEF Given
    <2>4. k \in Nat \ {0} /\ k <= Job(u).samples
        BY <2>1, <2>2, <2>3
    <2>5. Job(u).samples \in Nat /\ MaxSamples \in Nat /\ Job(u).samples <= MaxSamples
        BY <2>2, PlanAssumption DEF Samples
    <2> QED
        BY <2>1, <2>4, <2>5 DEF Samples
<1>6. /\ total' = [total EXCEPT ![u] = [total[u] EXCEPT ![k] = total[u][k] + 1]]
      /\ worker' = [worker EXCEPT ![t] = "clear"]
      /\ UNCHANGED <<plan, pc, job, next, ids, running, task, tasks, accum_mutex, local, seen>>
    <2>1. total' = [total EXCEPT ![u][k] = @ + 1]
        BY DEF RunFold
    <2> QED
        BY <2>1 DEF RunFold, threaderVars
<1>7. /\ SumTypes' /\ total'[u][k] = total[u][k] + 1
      /\ \A s \in Samples \ {k} : total'[u][s] = total[u][s]
      /\ \A v \in Callers \ {u} : total'[v] = total[v]
      /\ worker'[t] = "clear"
      /\ \A r \in Threads \ {t} : UNCHANGED <<running[r], worker[r], task[r], local[r]>>
    <2>1. total[u] \in [Samples -> Nat] /\ total[u][k] + 1 \in Nat
        BY <1>1, <1>5 DEF SumTypes
    <2> PICK sums \in [Samples -> Nat] : sums = [total[u] EXCEPT ![k] = total[u][k] + 1]
        BY <2>1
    <2>2. sums[k] = total[u][k] + 1 /\ \A s \in Samples \ {k} : sums[s] = total[u][s]
        BY <1>5, <2>1
    <2>3. total' = [total EXCEPT ![u] = sums]
        BY <1>6
    <2>4. /\ total' \in [Callers -> [Samples -> Nat]] /\ total'[u] = sums
          /\ \A v \in Callers \ {u} : total'[v] = total[v]
        BY <1>1, <2>3 DEF SumTypes
    <2>5. SumTypes'
        BY <1>1, <1>6, <2>4 DEF SumTypes
    <2>6. /\ worker'[t] = "clear"
          /\ \A r \in Threads \ {t} : UNCHANGED <<running[r], worker[r], task[r], local[r]>>
        BY <1>1, <1>6 DEF PoolsOK
    <2> QED
        BY <2>2, <2>4, <2>5, <2>6
<1>8. \A r \in Threads : LocalOK(r)'
    <2>1. \A r \in Threads : LocalOK(r) /\ IsBlock(r)' = IsBlock(r)
        BY <1>6 DEF SumsInv, SumsOK, IsBlock, Owner
    <2>2. local[t] = NoSample
        BY <1>2, <2>1 DEF LocalOK
    <2>3. \A r \in Threads \ {t} : worker'[r] = worker[r]
        BY <1>7
    <2> QED
        BY <1>6, <2>1, <2>2, <2>3 DEF LocalOK
<1>9. \A v \in Callers : MutexOK(v)'
    <2>1. ASSUME NEW r \in Threads PROVE accum_mutex[u] # r
        <3>1. ASSUME accum_mutex[u] = r PROVE running[r] = running[t] /\ IsBlock(r)
            BY <3>1 DEF SumsInv, SumsOK, MutexOK, LocalOK
        <3> QED
            BY <1>1, <3>1 DEF IsBlock, Owner
    <2>2. ASSUME NEW v \in Callers \ {u}, NEW r \in Threads, accum_mutex[v] = r
          PROVE  running[r] = Pool(v) /\ r # t
        BY <2>2, PoolsDiffer DEF SumsInv, SumsOK, MutexOK
    <2> QED
        BY <1>6, <1>7, <2>1, <2>2 DEF SumsInv, SumsOK, MutexOK, Pool
<1>10. \A v \in Callers \ {u} : Accounting(v)'
    BY <1>6, <1>7, OtherSums
<1>11. \A r \in Threads \ {t} : \A s : ThreadHas(r, u, s) <=> ThreadHas(r, u, s)'
    BY <1>6, <1>7 DEF ThreadHas, ToDo, Pool
<1>12. /\ \A s : SlotsHave(u, s)' <=> SlotsHave(u, s)
       /\ \A s : ~ThreadHas(t, u, s)'
       /\ \A s : ThreadHas(t, u, s) <=> s = k
    BY <1>1, <1>2, <1>4, <1>6, <1>7 DEF SlotsHave, Slots, Pool, ThreadHas, NoSample
<1>13. Carried(u, k) /\ ~Carried(u, k)'
    <2>1. /\ \A r \in Threads \ {t} : Holds(r, u) => k \notin InHand(r)
          /\ ~SlotsHave(u, k)
        BY <1>1, <1>2, <1>4, InOneHand
    <2>2. \A r \in Threads \ {t} : ~ThreadHas(r, u, k)
        BY <1>2, <2>1, CarriedInHand DEF SumsInv, SumsOK
    <2> QED
        BY <1>11, <1>12, <2>1, <2>2 DEF Carried
<1>14. \A s \in Samples \ {k} : Carried(u, s)' <=> Carried(u, s)
    BY <1>11, <1>12 DEF Carried
<1>15. Accounting(u)'
    <2>1. Given(u)' = Given(u)
        BY <1>6 DEF Given
    <2>2. pc[u] \in Evaluating
        BY <1>2 DEF Evaluating
    <2> QED
        BY <1>2, <1>5, <1>6, <1>7, <1>13, <1>14, <2>1, <2>2 DEF Accounting
<1> QED
    BY <1>7, <1>8, <1>9, <1>10, <1>15 DEF SumsOK

LEMMA ClearSlotKeepsSums ==
    ASSUME SumsInv, NEW t \in Threads, ClearSlot(t), UNCHANGED trainingVars
    PROVE  SumsOK'
<1>1. worker[t] = "clear" /\ SlotTypes /\ SumTypes /\ PoolsOK /\ Bookkeeping /\ LoopsAreAlive
    BY DEF ClearSlot, SumsInv, SumsOK, TasksInv, Bookkeeping
<1> PICK u \in Callers : u = Owner(t) /\ pc[u] \in InJob /\ running[t] = Pool(u) /\ Pool(u) \in Pools
    BY <1>1, LoopersHaveOwners DEF AtTask
<1> PICK p \in Pools : p = Pool(u)
    OBVIOUS
<1>2. HandsOK(u) /\ Holds(t, u)
    BY <1>1 DEF SumsInv, TasksInv, TasksOK, Holds, AtTask
<1>0. PICK i \in Slots(p) : i = task[t].slot /\ tasks[p][i].is_being_processed
    BY <1>2 DEF HandsOK, HandOK
<1> PICK slot \in Slot : slot = EmptySlot(tasks[p][i].next_task_id)
    <2>1. tasks[p][i] \in Slot
        BY <1>1 DEF SlotTypes, Slots
    <2> QED
        BY <2>1 DEF Slot, EmptySlot
<1>3. /\ tasks' = Replaced(p, i, slot)
      /\ worker' = [worker EXCEPT ![t] = "fetch"] /\ task' = [task EXCEPT ![t] = NothingInHand]
      /\ UNCHANGED <<plan, pc, job, next, ids, running, total, accum_mutex, local, seen>>
    BY <1>0 DEF ClearSlot, Replaced, trainingVars, threaderVars
<1>4. /\ Slots(p)' = Slots(p) /\ tasks'[p][i] = slot
      /\ \A j \in Slots(p) \ {i} : tasks'[p][j] = tasks[p][j]
      /\ \A q \in Pools \ {p} : tasks'[q] = tasks[q]
    BY <1>1, <1>3, OneSlot, SMTT(30)
<1>5. ASSUME NEW v \in Callers, pc'[v] \in Evaluating
      PROVE  \A s \in Samples : SlotsHave(v, s)' <=> SlotsHave(v, s)
    <2>1. Pool(v) \in Pools /\ Pool(v)' = Pool(v)
        BY <1>1, <1>3, <1>5, PoolType DEF Bookkeeping, Evaluating, Pool
    <2>2. \A s : ~SlotHas(tasks[p][i], s) /\ ~SlotHas(slot, s)
        BY <1>0 DEF SlotHas, IsReady, IsEmpty, EmptySlot
    <2>3. CASE Pool(v) = p
        BY <1>4, <2>1, <2>2, <2>3 DEF SlotsHave
    <2>4. CASE Pool(v) # p
        BY <1>4, <2>1, <2>4 DEF SlotsHave, Slots
    <2> QED
        BY <2>3, <2>4
<1>6. \A v \in Callers : Given(v)' = Given(v)
    BY <1>3 DEF Given
<1>7. /\ \A r \in Threads : worker'[r] = "work" <=> worker[r] = "work"
      /\ \A r \in Threads : worker[r] = "work" => running'[r] = running[r] /\ task'[r] = task[r]
    BY <1>1, <1>3 DEF PoolsOK, SlotTypes
<1> QED
    BY <1>3, <1>5, <1>6, <1>7, QuietKeepsSums

(* No work is done, and none is taken or left.                                   *)
LEMMA IdleKeepsSums ==
    ASSUME SumsInv,
           UNCHANGED <<plan, pc, job, next, ids, tasks, task, total, accum_mutex, local, seen>>,
           \A t \in Threads : worker'[t] = "work" <=> worker[t] = "work",
           \A t \in Threads : worker[t] = "work" => running'[t] = running[t]
    PROVE  SumsOK'
<1>1. \A v, s : SlotsHave(v, s)' <=> SlotsHave(v, s)
    BY DEF SlotsHave, Pool, Slots
<1>2. \A v \in Callers : Given(v)' = Given(v)
    BY DEF Given
<1> QED
    BY <1>1, <1>2, QuietKeepsSums

LEMMA ThreadsKeepSums ==
    ASSUME SumsInv, NEW t \in Threads, ThreadStep(t)
    PROVE  SumsOK'
<1>1. PoolsOK
    BY DEF SumsInv, TasksInv, Bookkeeping
<1> DEFINE Idle ==
        /\ UNCHANGED <<plan, pc, job, next, ids, tasks, task, total, accum_mutex, local, seen>>
        /\ \A r \in Threads : worker'[r] = "work" <=> worker[r] = "work"
        /\ \A r \in Threads : worker[r] = "work" => running'[r] = running[r]
<1>2. Idle => SumsOK'
    BY IdleKeepsSums
<1> USE DEF trainingVars, threaderVars, poolVars
<1>3. ThreadTakesPool(t) /\ UNCHANGED trainingVars => Idle
    <2> SUFFICES ASSUME ThreadTakesPool(t), UNCHANGED trainingVars PROVE Idle
        OBVIOUS
    <2>1. HoldsMutex(t) /\ running' = [running EXCEPT ![t] = function_pointer]
          /\ worker' = [worker EXCEPT ![t] = "helper"]
        BY DEF ThreadTakesPool, TakeFunction
    <2>2. worker[t] = "outside"
        BY <1>1, <2>1
        DEF HoldsMutex, PoolsOK, SumsInv, TasksInv, Bookkeeping, ThreaderInv, ThreaderTypeOK,
            RunningIsRunning
    <2> QED
        BY <1>1, <2>1, <2>2 DEF ThreadTakesPool, TakeFunction, PoolsOK
<1>4. (ThreadHelper(t) \/ ThreadEnds(t)) /\ UNCHANGED trainingVars => Idle
    BY <1>1 DEF ThreadHelper, ThreadEnds, PoolsOK
<1>5. FetchTask(t) /\ ReadySlots(running[t]) = {} /\ UNCHANGED trainingVars => Idle
    BY <1>1 DEF FetchTask
<1>6. LeavePool(t) /\ UNCHANGED trainingVars => Idle
    BY <1>1 DEF LeavePool, Return, PoolsOK
<1>7. Crash(t) /\ UNCHANGED trainingVars => Idle
    BY DEF Crash
<1>8. (WaitForWork(t) \/ Leave(t)) /\ UNCHANGED poolVars /\ UNCHANGED trainingVars => Idle
    BY DEF WaitForWork, Leave
<1> QED
    BY <1>2, <1>3, <1>4, <1>5, <1>6, <1>7, <1>8, FetchTaskKeepsSums, ClearSlotKeepsSums, CallOracleKeepsSums,
       LockAndReadKeepsSums, AddAndUnlockKeepsSums, RunFoldKeepsSums DEF ThreadStep

LEMMA SumsInvStep == SumsInv /\ [Next]_vars => SumsInv'
<1> SUFFICES ASSUME SumsInv, [Next]_vars PROVE SumsOK'
    BY TasksInvStep DEF SumsInv
<1>1. WaitEndsEarly \/ Exit \/ UNCHANGED vars
          => UNCHANGED <<plan, pc, job, next, ids, tasks, task, running, worker, total, accum_mutex, local, seen>>
    BY DEF WaitEndsEarly, WaitEnds, WaitForEmptyEnds, WaitForDestructedEnds, SpuriousWakeup, Exit,
           MainReturns, DestructIfReady, DestroyThreader, AwaitThreads, DeleteThreader, ThreaderIsGone, vars,
           threaderVars, poolVars, trainingVars, SumState
<1> QED
    BY <1>1, CallersKeepSums, ThreadsKeepSums, IdleKeepsSums DEF Next

LEMMA SumsInvInit == Init => SumsInv
<1> SUFFICES ASSUME Init PROVE SumsOK
    BY TasksInvInit DEF SumsInv
<1>1. SumTypes
    BY DEF Init, SumTypes, Zero, NoSample
<1>2. \A t \in Threads : LocalOK(t)
    BY DEF Init, LocalOK
<1>3. \A u \in Callers : MutexOK(u) /\ Accounting(u)
    BY NullAssumption DEF Init, MutexOK, Accounting, NoThread, Evaluating
<1> QED
    BY <1>1, <1>2, <1>3 DEF SumsOK

LEMMA SumsInvHolds == Spec => []SumsInv
BY SumsInvInit, SumsInvStep, PTL DEF Spec

(* Nobody carries a sample any more when the sums are read.                      *)
LEMMA SumsAreComplete == SumsInv => EverySampleCountsOnce
<1>1. ASSUME SumsInv, NEW u \in Callers, pc[u] = "status"
      PROVE  \A s \in 1..Job(u).samples : total[u][s] = 1
    <2>1. TasksOK(u) /\ Accounting(u) /\ PositionsOK /\ AllEmpty(u)
        BY <1>1, IdleIsEmpty DEF SumsInv, SumsOK, TasksInv, Bookkeeping, InJob
    <2>2. Given(u) = 1..Job(u).samples /\ 1..Job(u).samples \subseteq Samples
        <3>1. next[u] = Job(u).samples + 1 /\ Job(u).samples \in Nat /\ Job(u).samples \in Samples
            BY <1>1, <2>1, JobType DEF TasksOK, CourseOK, InJob
        <3> QED
            BY <1>1, <3>1, PlanAssumption DEF Given, Samples
    <2>3. \A s : ~Carried(u, s)
        BY <1>1, <2>1, EmptyIsFree
        DEF Carried, SlotsHave, SlotHas, IsReady, AllEmpty, ThreadHas, Holds, AtTask, InJob
    <2> QED
        BY <1>1, <2>1, <2>2, <2>3 DEF Accounting, Evaluating
<1>2. ASSUME SumsInv, NEW u \in Callers, pc[u] = "folds", Len(ids[u]) = Job(u).samples
      PROVE  \A s \in 1..(next[u] - 1) : total[u][s] = 1
    <2> SUFFICES ASSUME NEW s \in 1..(next[u] - 1) PROVE total[u][s] = 1
        OBVIOUS
    <2>1. /\ TasksOK(u) /\ Accounting(u) /\ PositionsOK /\ SlotTypes /\ Pool(u) \in Pools
          /\ CourseOK(u) /\ SlotsOK(u) /\ HandsOK(u)
        BY <1>2, PoolType DEF SumsInv, SumsOK, TasksInv, Bookkeeping, InJob, TasksOK
    <2>2. s \in Given(u) /\ s \in Samples /\ s \in Nat /\ next[u] \in Nat
        <3>1. next[u] \in 1..(Job(u).samples + 1) /\ Job(u).samples \in Nat /\ Job(u).samples \in Samples
            BY <1>2, <2>1, JobType DEF CourseOK
        <3> QED
            BY <1>2, <3>1, PlanAssumption DEF Given, Samples
    <2>3. ASSUME NEW i \in Slots(Pool(u)), ~IsEmpty(tasks[Pool(u)][i])
          PROVE  s \notin tasks[Pool(u)][i].work.first..tasks[Pool(u)][i].work.last
        <3>1. TaskOK(u, i, tasks[Pool(u)][i])
            BY <2>1, <2>3 DEF SlotsOK, SlotOK
        <3> QED
            BY <1>2, <2>2, <3>1 DEF TaskOK, Work
    <2>4. ~SlotsHave(u, s)
        BY <2>3 DEF SlotsHave, SlotHas, IsReady
    <2>5. \A t \in Threads : ~ThreadHas(t, u, s)
        <3> SUFFICES ASSUME NEW t \in Threads, ThreadHas(t, u, s) PROVE FALSE
            OBVIOUS
        <3>1. Holds(t, u) /\ s \in InHand(t)
            BY <1>2, <2>1, CarriedInHand DEF SumsInv, SumsOK
        <3>2. HandOK(u, task[t])
            BY <2>1, <3>1 DEF HandsOK
        <3>3. PICK i \in Slots(Pool(u)) : i = task[t].slot
            BY <3>2 DEF HandOK
        <3>4. /\ ~IsEmpty(tasks[Pool(u)][i])
              /\ s \in tasks[Pool(u)][i].work.first..tasks[Pool(u)][i].work.last
            BY <2>1, <3>1, <3>2, <3>3 DEF HandOK, SlotsOK, SlotOK, InHand
        <3> QED
            BY <2>3, <3>4
    <2> QED
        BY <1>2, <2>1, <2>2, <2>4, <2>5 DEF Accounting, Carried, Evaluating
<1> QED
    BY <1>1, <1>2 DEF EverySampleCountsOnce

(* For any number of callers, threads, samples and jobs: when a solver reads the *)
(* risk, or a fold of a validation is collected, every sample has been added to  *)
(* the sum, and none twice.                                                      *)
THEOREM SamplesCountOnce == Spec => []EverySampleCountsOnce
BY SumsAreComplete, SumsInvHolds, PTL

-------------------------------------------------------------------------------
(* When the solver stops. An answer comes from the cache unasked only if there   *)
(* is one and it may be used, and the solver stops on the gap only when neither  *)
(* was so in the evaluation the gap was computed from. That every sample was     *)
(* asked about in that evaluation is what the sums say: a sample gets into a sum *)
(* of a thread, and from there into the caller's, after its answer only.         *)
Ended == {"shutdown", "join", "train", "done"}
InEvaluation == {"blocks", "status"}

Sources == {"none", "cache", "oracle", "beaten"}

CacheTypes ==
    /\ cached \in [Callers -> [Samples -> Nat]]
    /\ answer \in [Callers -> [Samples -> Sources]]
    /\ skip_cache \in [Callers -> BOOLEAN]
    /\ reason \in [Callers -> {"none", "gap", "max_iterations"}]

AllAsked(u) == \A s \in 1..Job(u).samples : answer[u][s] \in {"oracle", "beaten"}

CacheOK(u) ==
    /\ reason[u] = "gap" => pc[u] \in Ended
    /\ reason[u] = "gap" /\ pc[u] \in {"shutdown", "join"} => AllAsked(u)
    /\ pc[u] \in InEvaluation /\ (skip_cache[u] \/ Job(u).cache = 0) =>
           \A s \in Samples : answer[u][s] # "cache"
    /\ pc[u] \in InJob => \A s \in Samples : cached[u][s] <= Job(u).cache

CachesOK == CacheTypes /\ \A u \in Callers : CacheOK(u)

Answered(u, s) == answer[u][s] # "none"

AnswersOK ==
    /\ \A u \in Callers : pc[u] \in InEvaluation =>
           \A s \in Samples : total[u][s] # 0 => Answered(u, s)
    /\ \A t \in Threads : \A s \in local[t] \cap Samples : Answered(Owner(t), s)

CacheInv == SumsInv /\ CachesOK /\ AnswersOK

-------------------------------------------------------------------------------
(* A thread with a sum of its own works for a caller in its evaluation.          *)
LEMMA LocalsHaveOwners ==
    ASSUME SumsInv, NEW t \in Threads, local[t] # NoSample
    PROVE  Owner(t) \in Callers /\ pc[Owner(t)] = "blocks"
<1>1. worker[t] = "work" /\ IsBlock(t) /\ Bookkeeping /\ LoopsAreAlive
    BY DEF SumsInv, SumsOK, LocalOK, TasksInv
<1> QED
    BY <1>1, LoopersHaveOwners, TasksInCall DEF AtTask, SumsInv, NoTaskOutlivesItsCall

(* Answers are not forgotten, and what is new in a sum was answered.             *)
LEMMA AnswersKept ==
    ASSUME SumsInv, AnswersOK,
           \A u \in Callers : \A s \in Samples : Answered(u, s) => Answered(u, s)',
           \A u \in Callers : pc'[u] \in InEvaluation => pc[u] \in InEvaluation /\
               \A s \in Samples : total'[u][s] # 0 => total[u][s] # 0 \/ Answered(u, s)',
           \A t \in Threads : local'[t] # NoSample => UNCHANGED running[t],
           \A t \in Threads : \A s \in local'[t] \cap Samples :
               s \in local[t] \/ Answered(Owner(t), s)'
    PROVE  AnswersOK'
<1>1. ASSUME NEW u \in Callers, pc'[u] \in InEvaluation, NEW s \in Samples, total'[u][s] # 0
      PROVE  Answered(u, s)'
    BY <1>1 DEF AnswersOK
<1>2. ASSUME NEW t \in Threads, NEW s \in local'[t] \cap Samples
      PROVE  Answered(Owner(t), s)'
    <2>1. CASE s \in local[t]
        <3>1. Answered(Owner(t), s)
            BY <1>2, <2>1 DEF AnswersOK
        <3>2. Owner(t) \in Callers
            BY <2>1, LocalsHaveOwners DEF NoSample
        <3>3. Owner(t)' = Owner(t)
            BY <1>2 DEF Owner, NoSample
        <3> QED
            BY <1>2, <3>1, <3>2, <3>3 DEF Answered
    <2> QED
        BY <1>2, <2>1
<1> QED
    BY <1>1, <1>2 DEF AnswersOK

LEMMA QuietKeepsAnswers ==
    ASSUME SumsInv, AnswersOK, UNCHANGED <<answer, local>>,
           \A u \in Callers : pc'[u] \in InEvaluation =>
               pc[u] \in InEvaluation /\ UNCHANGED total[u],
           \A t \in Threads : local[t] # NoSample => UNCHANGED running[t]
    PROVE  AnswersOK'
BY AnswersKept DEF Answered

(* What an answer changes.                                                       *)
LEMMA AnswerComes ==
    ASSUME CacheTypes, NEW u \in Callers, NEW s \in Samples, AskOracle(u, s)
    PROVE  /\ answer' \in [Callers -> [Samples -> Sources]]
           /\ answer'[u][s] \in {"cache", "oracle", "beaten"}
           /\ answer'[u][s] = "cache" => CacheMayServe(u, s)
           /\ \A x \in Samples \ {s} : answer'[u][x] = answer[u][x]
           /\ \A v \in Callers \ {u} : answer'[v] = answer[v]
<1>1. PICK from \in {"cache", "oracle", "beaten"} :
          answer' = [answer EXCEPT ![u][s] = from] /\ (from = "cache" => CacheMayServe(u, s))
    BY DEF AskOracle
<1>2. [answer[u] EXCEPT ![s] = from] \in [Samples -> Sources]
    BY DEF CacheTypes, Sources
<1>3. answer' = [answer EXCEPT ![u] = [answer[u] EXCEPT ![s] = from]]
    BY <1>1
<1> QED
    BY <1>1, <1>2, <1>3 DEF CacheTypes

-------------------------------------------------------------------------------
(* The steps of callers.                                                         *)
LEMMA CallerLeavesCaches ==
    ASSUME CacheInv, NEW u \in Callers,
           UNCHANGED <<plan, cached, answer, skip_cache, reason>>,
           \A v \in Callers \ {u} : UNCHANGED <<pc[v], job[v]>>,
           pc'[u] \in InJob => pc[u] \in InJob /\ job'[u] = job[u],
           pc'[u] \in InEvaluation => pc[u] \in InEvaluation,
           pc[u] \in Ended => pc'[u] \in Ended
    PROVE  CachesOK'
<1>1. CacheTypes'
    BY DEF CacheInv, CachesOK, CacheTypes
<1>2. ASSUME NEW v \in Callers PROVE CacheOK(v)'
    <2>1. CASE v = u
        <3>1. CacheOK(u)
            BY DEF CacheInv, CachesOK
        <3>2. ASSUME reason'[u] = "gap" PROVE pc'[u] \in Ended
            BY <3>1, <3>2 DEF CacheOK
        <3>3. ASSUME reason'[u] = "gap", pc'[u] \in {"shutdown", "join"} PROVE AllAsked(u)'
            <4>1. pc[u] \in {"shutdown", "join"} /\ job'[u] = job[u]
                BY <3>1, <3>3 DEF CacheOK, Ended, InJob
            <4>2. AllAsked(u)
                BY <3>1, <3>3, <4>1 DEF CacheOK
            <4> QED
                BY <4>1, <4>2 DEF AllAsked, Job
        <3>4. ASSUME pc'[u] \in InEvaluation, skip_cache'[u] \/ Job(u)'.cache = 0
              PROVE  \A s \in Samples : answer'[u][s] # "cache"
            <4>1. pc[u] \in InEvaluation /\ Job(u)' = Job(u)
                BY <3>4 DEF InEvaluation, InJob, Job
            <4> QED
                BY <3>1, <3>4, <4>1 DEF CacheOK
        <3>5. ASSUME pc'[u] \in InJob PROVE \A s \in Samples : cached'[u][s] <= Job(u)'.cache
            <4>1. pc[u] \in InJob /\ Job(u)' = Job(u)
                BY <3>5 DEF Job
            <4> QED
                BY <3>1, <4>1 DEF CacheOK
        <3> QED
            BY <2>1, <3>2, <3>3, <3>4, <3>5 DEF CacheOK
    <2>2. CASE v # u
        BY <2>2 DEF CacheInv, CachesOK, CacheOK, AllAsked, Job
    <2> QED
        BY <2>1, <2>2
<1> QED
    BY <1>1, <1>2 DEF CachesOK

LEMMA QuietCallersKeepCaches ==
    ASSUME CacheInv, NEW u \in Callers, CallerStep(u),
           \/ StartThreads(u) \/ TrainingThrows(u) \/ PoolIsReady(u) \/ AddBlock(u) \/ AwaitBlocks(u)
           \/ AddFold(u) \/ CollectFold(u) \/ ShutdownPool(u) \/ JoinPool(u)
    PROVE  CachesOK' /\ AnswersOK'
<1>1. PositionsOK /\ SumTypes
    BY DEF CacheInv, SumsInv, SumsOK, TasksInv, Bookkeeping
<1>2. UNCHANGED <<plan, cached, answer, skip_cache, reason, local>>
    BY DEF StartThreads, TrainingThrows, PoolIsReady, AddBlock, AwaitBlocks, AddFold, CollectFold,
           ShutdownPool, JoinPool, SolverState, SumState, trainingVars
<1>3. /\ \A v \in Callers \ {u} : UNCHANGED <<pc[v], job[v]>>
      /\ pc'[u] \in InJob => pc[u] \in InJob /\ job'[u] = job[u]
      /\ pc'[u] \in InEvaluation => pc[u] \in InEvaluation
      /\ pc[u] \in Ended => pc'[u] \in Ended
    <2> USE <1>1 DEF PositionsOK, InJob, InEvaluation, Ended, GoTo
    <2>1. CASE StartThreads(u)
        BY <2>1 DEF StartThreads, trainingVars
    <2>2. CASE TrainingThrows(u) \/ PoolIsReady(u)
        BY <2>2 DEF TrainingThrows, PoolIsReady
    <2>3. CASE AddBlock(u) \/ AddFold(u)
        BY <2>3 DEF AddBlock, AddFold
    <2>4. CASE AwaitBlocks(u)
        BY <2>4 DEF AwaitBlocks
    <2>5. CASE CollectFold(u) \/ ShutdownPool(u)
        BY <2>5 DEF CollectFold, ShutdownPool
    <2>6. CASE JoinPool(u)
        BY <2>6 DEF JoinPool
    <2> QED
        BY <2>1, <2>2, <2>3, <2>4, <2>5, <2>6
<1>4. \A v \in Callers : pc'[v] \in InEvaluation => UNCHANGED total[v]
    <2>1. CASE AddFold(u)
        <3>1. pc[u] = "folds" /\ UNCHANGED pc
            BY <2>1 DEF AddFold
        <3>2. \A v \in Callers \ {u} : UNCHANGED total[v]
            BY <1>1, <2>1 DEF AddFold, SumTypes
        <3> QED
            BY <3>1, <3>2 DEF InEvaluation
    <2>2. CASE ~AddFold(u)
        <3>1. UNCHANGED total
            BY <2>2 DEF StartThreads, TrainingThrows, PoolIsReady, AddBlock, AwaitBlocks, CollectFold,
                        ShutdownPool, JoinPool, SumState, trainingVars
        <3> QED
            BY <3>1
    <2> QED
        BY <2>1, <2>2
<1>5. UNCHANGED running
    BY CallersKeepThreads
<1>6. CachesOK'
    BY <1>2, <1>3, CallerLeavesCaches
<1>7. AnswersOK'
    BY <1>2, <1>3, <1>4, <1>5, QuietKeepsAnswers DEF CacheInv
<1> QED
    BY <1>6, <1>7

(* A new job, or a new evaluation, begins with nothing asked.                    *)
LEMMA FreshCaches ==
    ASSUME CacheInv, NEW u \in Callers, CallerStep(u), StartJob(u) \/ GetRisk(u)
    PROVE  CachesOK' /\ AnswersOK'
<1>1. PositionsOK /\ SumTypes /\ CacheTypes /\ CacheOK(u) /\ pc[u] \in {"train", "risk"}
    BY DEF CacheInv, CachesOK, SumsInv, SumsOK, TasksInv, Bookkeeping, StartJob, GetRisk
<1>2. /\ UNCHANGED <<plan, job, local>>
      /\ answer' = [answer EXCEPT ![u] = NoAnswer]
      /\ total' = [total EXCEPT ![u] = Zero]
      /\ \/ /\ pc[u] = "train" /\ pc' = [pc EXCEPT ![u] = "start"]
            /\ cached' = [cached EXCEPT ![u] = Zero]
            /\ skip_cache' = [skip_cache EXCEPT ![u] = TRUE]
            /\ reason' = [reason EXCEPT ![u] = "none"]
         \/ /\ pc[u] = "risk" /\ pc' = [pc EXCEPT ![u] = "blocks"]
            /\ UNCHANGED <<cached, skip_cache, reason>>
    BY DEF StartJob, GetRisk, GoTo
<1>3. Zero \in [Samples -> Nat] /\ NoAnswer \in [Samples -> Sources]
    BY DEF Zero, NoAnswer, Sources
<1>4. CacheTypes'
    <2>1. answer' \in [Callers -> [Samples -> Sources]]
        BY <1>1, <1>2, <1>3 DEF CacheTypes
    <2>2. cached' \in [Callers -> [Samples -> Nat]]
        BY <1>1, <1>2, <1>3 DEF CacheTypes
    <2>3. skip_cache' \in [Callers -> BOOLEAN]
        BY <1>1, <1>2 DEF CacheTypes
    <2>4. reason' \in [Callers -> {"none", "gap", "max_iterations"}]
        BY <1>1, <1>2 DEF CacheTypes
    <2> QED
        BY <2>1, <2>2, <2>3, <2>4 DEF CacheTypes
<1>5. /\ answer'[u] = NoAnswer /\ total'[u] = Zero /\ pc'[u] \in InJob
      /\ \/ reason'[u] = "none" /\ cached'[u] = Zero
         \/ reason'[u] = reason[u] /\ cached'[u] = cached[u] /\ pc[u] = "risk"
      /\ \A v \in Callers \ {u} :
             UNCHANGED <<pc[v], answer[v], cached[v], skip_cache[v], reason[v], total[v]>>
    BY <1>1, <1>2 DEF CacheTypes, SumTypes, PositionsOK, InJob
<1>6. CacheOK(u)'
    <2>1. Job(u).cache \in Nat /\ Job(u)' = Job(u)
        BY <1>1, <1>2, JobType DEF Job
    <2>2. reason'[u] # "gap"
        BY <1>1, <1>5 DEF CacheOK, Ended
    <2>3. \A s \in Samples : cached'[u][s] <= Job(u).cache
        BY <1>1, <1>5, <2>1 DEF CacheOK, InJob, Zero
    <2>4. \A s \in Samples : answer'[u][s] # "cache"
        BY <1>5 DEF NoAnswer
    <2> QED
        BY <2>1, <2>2, <2>3, <2>4 DEF CacheOK
<1>7. \A v \in Callers \ {u} : CacheOK(v)'
    BY <1>2, <1>5 DEF CacheInv, CachesOK, CacheOK, AllAsked, Job
<1>8. AnswersOK'
    <2>1. ASSUME NEW v \in Callers, pc'[v] \in InEvaluation, NEW s \in Samples, total'[v][s] # 0
          PROVE  Answered(v, s)'
        <3>1. v # u
            BY <1>5, <2>1 DEF Zero
        <3> QED
            BY <1>5, <2>1, <3>1 DEF CacheInv, AnswersOK, Answered
    <2>2. ASSUME NEW t \in Threads, NEW s \in local'[t] \cap Samples
          PROVE  Answered(Owner(t), s)'
        <3>1. Owner(t) \in Callers /\ Owner(t) # u
            BY <1>1, <1>2, <2>2, LocalsHaveOwners DEF CacheInv, NoSample
        <3>2. Owner(t)' = Owner(t)
            BY CallersKeepThreads DEF Owner
        <3>3. Answered(Owner(t), s)
            BY <1>2, <2>2 DEF CacheInv, AnswersOK
        <3> QED
            BY <1>5, <3>1, <3>2, <3>3 DEF Answered
    <2> QED
        BY <2>1, <2>2 DEF AnswersOK
<1> QED
    BY <1>4, <1>6, <1>7, <1>8 DEF CachesOK

(* The gap counts only if no cache was, or could be, used unasked.               *)
LEMMA OptimizationStatusKeepsCaches ==
    ASSUME CacheInv, NEW u \in Callers, CallerStep(u), OptimizationStatus(u)
    PROVE  CachesOK' /\ AnswersOK'
<1>1. PositionsOK /\ CacheTypes /\ CacheOK(u) /\ pc[u] = "status"
    BY DEF CacheInv, CachesOK, SumsInv, TasksInv, Bookkeeping, OptimizationStatus
<1>2. /\ UNCHANGED <<plan, job, cached, answer, total, local>>
      /\ \/ pc' = [pc EXCEPT ![u] = "risk"] /\ UNCHANGED reason
         \/ /\ pc' = [pc EXCEPT ![u] = "shutdown"]
            /\ \/ reason' = [reason EXCEPT ![u] = "max_iterations"]
               \/ /\ reason' = [reason EXCEPT ![u] = "gap"]
                  /\ skip_cache[u] \/ Job(u).cache = 0
      /\ UNCHANGED skip_cache \/ \E b \in BOOLEAN : skip_cache' = [skip_cache EXCEPT ![u] = b]
    BY DEF OptimizationStatus, Continue, Stop, GapIsSmall, GapIsLarge, GoTo, SumState
<1>3. CacheTypes'
    BY <1>1, <1>2 DEF CacheTypes
<1>4. /\ \/ pc'[u] = "risk" /\ reason'[u] = reason[u]
         \/ /\ pc'[u] = "shutdown"
            /\ reason'[u] = "gap" => skip_cache[u] \/ Job(u).cache = 0
      /\ \A v \in Callers \ {u} : UNCHANGED <<pc[v], skip_cache[v], reason[v]>>
    BY <1>1, <1>2 DEF CacheTypes, PositionsOK
<1>5. ASSUME skip_cache[u] \/ Job(u).cache = 0
      PROVE  AllAsked(u)
    <2> SUFFICES ASSUME NEW s \in 1..Job(u).samples
                 PROVE  answer[u][s] \in {"oracle", "beaten"}
        BY DEF AllAsked
    <2>1. s \in Samples
        <3>1. Job(u).samples \in Nat /\ Job(u).samples \in Samples
            BY <1>1, JobType
        <3> QED
            BY <3>1, PlanAssumption DEF Samples
    <2>2. total[u][s] = 1
        BY <1>1, SumsAreComplete DEF CacheInv, EverySampleCountsOnce
    <2>3. answer[u][s] # "none"
        BY <1>1, <2>1, <2>2 DEF CacheInv, AnswersOK, Answered, InEvaluation
    <2>4. answer[u][s] # "cache"
        BY <1>1, <1>5, <2>1 DEF CacheOK, InEvaluation
    <2> QED
        BY <1>1, <2>1, <2>3, <2>4 DEF CacheTypes, Sources
<1>6. CacheOK(u)'
    BY <1>1, <1>2, <1>4, <1>5 DEF CacheOK, AllAsked, Job, InJob, InEvaluation, Ended
<1>7. \A v \in Callers \ {u} : CacheOK(v)'
    BY <1>2, <1>4 DEF CacheInv, CachesOK, CacheOK, AllAsked, Job
<1>8. AnswersOK'
    BY <1>2, <1>4, CallersKeepThreads, QuietKeepsAnswers DEF CacheInv, InEvaluation
<1> QED
    BY <1>3, <1>6, <1>7, <1>8 DEF CachesOK

LEMMA AskedOracle ==
    ASSUME CacheInv, NEW u \in Callers, NEW s \in Samples, pc[u] = "blocks", AskOracle(u, s),
           UNCHANGED <<plan, pc, job, skip_cache, reason>>
    PROVE  CachesOK'
<1>1. PositionsOK /\ CacheTypes /\ CacheOK(u) /\ Job(u).cache \in Nat /\ Job(u)' = Job(u)
    BY JobType DEF CacheInv, CachesOK, SumsInv, TasksInv, Bookkeeping, Job
<1>2. cached[u][s] \in Nat /\ cached[u][s] <= Job(u).cache
    BY <1>1 DEF CacheTypes, CacheOK, InJob
<1>3. /\ answer' \in [Callers -> [Samples -> Sources]]
      /\ answer'[u][s] = "cache" => CacheMayServe(u, s)
      /\ \A x \in Samples \ {s} : answer'[u][x] = answer[u][x]
      /\ \A v \in Callers \ {u} : answer'[v] = answer[v]
    BY <1>1, AnswerComes
<1>4. /\ cached' \in [Callers -> [Samples -> Nat]]
      /\ \A x \in Samples : cached'[u][x] <= Job(u).cache
      /\ \A v \in Callers \ {u} : cached'[v] = cached[v]
    <2>1. CASE UNCHANGED cached
        BY <1>1, <2>1 DEF CacheTypes, CacheOK, InJob
    <2>2. ASSUME NEW n \in Kept(u, s), cached' = [cached EXCEPT ![u][s] = n]
          PROVE  <1>4!1 /\ <1>4!2 /\ <1>4!3
        <3>1. n \in Nat /\ n <= Job(u).cache
            BY <1>1, <1>2 DEF Kept, Least
        <3>2. [cached[u] EXCEPT ![s] = n] \in [Samples -> Nat]
            BY <1>1, <3>1 DEF CacheTypes
        <3>3. /\ cached' \in [Callers -> [Samples -> Nat]] /\ cached'[u] = [cached[u] EXCEPT ![s] = n]
              /\ \A v \in Callers \ {u} : cached'[v] = cached[v]
            BY <1>1, <2>2, <3>2 DEF CacheTypes
        <3> QED
            BY <1>1, <3>1, <3>3 DEF CacheTypes, CacheOK, InJob
    <2> QED
        BY <2>1, <2>2 DEF AskOracle
<1>5. skip_cache[u] \/ Job(u).cache = 0 => ~CacheMayServe(u, s)
    BY <1>1, <1>2 DEF CacheMayServe
<1>6. CacheOK(u)'
    BY <1>1, <1>3, <1>4, <1>5 DEF CacheOK, Ended, InEvaluation
<1>7. \A v \in Callers \ {u} : CacheOK(v)'
    BY <1>3, <1>4 DEF CacheInv, CachesOK, CacheOK, AllAsked, Job
<1> QED
    BY <1>1, <1>3, <1>4, <1>6, <1>7 DEF CachesOK, CacheTypes

LEMMA CachesUntouched ==
    ASSUME CacheInv, UNCHANGED <<plan, pc, job, cached, answer, skip_cache, reason>>
    PROVE  CachesOK'
BY DEF CacheInv, CachesOK, CacheTypes, CacheOK, AllAsked, Job

LEMMA RunDirectlyKeepsCaches ==
    ASSUME CacheInv, NEW u \in Callers, CallerStep(u), RunDirectly(u)
    PROVE  CachesOK' /\ AnswersOK'
<1>1. /\ PositionsOK /\ TasksOK(u) /\ SlotTypes /\ SumTypes /\ CacheTypes /\ pc[u] = "blocks"
      /\ UNCHANGED <<plan, job, skip_cache, reason, local>>
    BY DEF CacheInv, CachesOK, SumsInv, SumsOK, TasksInv, Bookkeeping, RunDirectly
<1>2. UNCHANGED running
    BY CallersKeepThreads
<1>3. CASE next[u] <= Job(u).samples
    <2>1. next[u] \in Samples
        <3>1. Job(u).samples \in Samples /\ next[u] \in 1..(Job(u).samples + 1)
            BY <1>1, JobType DEF TasksOK, InJob, CourseOK
        <3> QED
            BY <1>3, <3>1, PlanAssumption DEF Samples
    <2> PICK k \in Samples : k = next[u]
        BY <2>1
    <2>2. AskOracle(u, k) /\ total' = [total EXCEPT ![u][k] = @ + 1] /\ UNCHANGED pc
        BY <1>3 DEF RunDirectly
    <2>3. CachesOK'
        BY <1>1, <2>2, AskedOracle
    <2>4. /\ Answered(u, k)'
          /\ \A v \in Callers : \A s \in Samples : Answered(v, s) => Answered(v, s)'
        <3>1. /\ answer'[u][k] \in {"cache", "oracle", "beaten"}
              /\ \A x \in Samples \ {k} : answer'[u][x] = answer[u][x]
              /\ \A v \in Callers \ {u} : answer'[v] = answer[v]
            BY <1>1, <2>2, AnswerComes
        <3>2. Answered(u, k)'
            BY <3>1 DEF Answered
        <3>3. ASSUME NEW v \in Callers, NEW s \in Samples, Answered(v, s)
              PROVE  Answered(v, s)'
            <4>1. CASE v = u /\ s = k
                BY <3>2, <4>1
            <4>2. CASE v = u /\ s # k
                BY <3>1, <3>3, <4>2 DEF Answered
            <4>3. CASE v # u
                BY <3>1, <3>3, <4>3 DEF Answered
            <4> QED
                BY <4>1, <4>2, <4>3
        <3> QED
            BY <3>2, <3>3
    <2>5. \A v \in Callers : \A s \in Samples : total'[v][s] = total[v][s] \/ (v = u /\ s = k)
        BY <1>1, <2>2 DEF SumTypes
    <2>6. AnswersOK'
        BY <1>1, <1>2, <2>2, <2>4, <2>5, AnswersKept DEF CacheInv
    <2> QED
        BY <2>3, <2>6
<1>4. CASE ~(next[u] <= Job(u).samples)
    <2>1. pc' = [pc EXCEPT ![u] = "status"] /\ UNCHANGED <<cached, answer, total>>
        BY <1>4 DEF RunDirectly, GoTo
    <2>2. pc'[u] = "status" /\ \A v \in Callers \ {u} : pc'[v] = pc[v]
        BY <1>1, <2>1 DEF PositionsOK
    <2>3. CachesOK'
        BY <1>1, <2>1, <2>2, CallerLeavesCaches DEF InJob, InEvaluation, Ended
    <2>4. AnswersOK'
        BY <1>1, <1>2, <2>1, <2>2, QuietKeepsAnswers DEF CacheInv, InEvaluation
    <2> QED
        BY <2>3, <2>4
<1> QED
    BY <1>3, <1>4

-------------------------------------------------------------------------------
(* The steps of workers.                                                         *)
LEMMA CallOracleKeepsCaches ==
    ASSUME CacheInv, NEW t \in Threads, CallOracle(t)
    PROVE  CachesOK' /\ AnswersOK'
<1>1. /\ worker[t] = "work" /\ IsBlock(t) /\ Bookkeeping /\ LoopsAreAlive /\ SlotTypes
      /\ SumTypes /\ CacheTypes
    BY DEF CallOracle, Working, CacheInv, CachesOK, SumsInv, SumsOK, TasksInv
<1> PICK u \in Callers : u = Owner(t) /\ pc[u] \in InJob /\ running[t] = Pool(u) /\ Pool(u) \in Pools
    BY <1>1, LoopersHaveOwners DEF AtTask
<1>2. pc[u] = "blocks"
    BY <1>1, TasksInCall DEF CacheInv, SumsInv, NoTaskOutlivesItsCall
<1>3. CourseOK(u) /\ SlotsOK(u) /\ HandsOK(u) /\ Holds(t, u) /\ PositionsOK
    BY <1>1 DEF CacheInv, SumsInv, TasksInv, TasksOK, Holds, AtTask, Bookkeeping
<1> PICK s \in Nat : s = task[t].work.at
    BY <1>3 DEF HandsOK, HandOK, Work
<1>4. s \in Samples
    <2>1. s \in InHand(t)
        BY <1>3 DEF HandsOK, HandOK, Work, CallOracle, InHand
    <2>2. s \in Given(u)
        BY <1>1, <1>3, <2>1, InOneHand
    <2>3. Job(u).samples \in Samples /\ next[u] \in 1..(Job(u).samples + 1)
        BY <1>2, <1>3, JobType DEF CourseOK
    <2> QED
        BY <1>2, <2>2, <2>3, PlanAssumption DEF Given, Samples
<1>5. AskOracle(u, s) /\ UNCHANGED <<plan, pc, job, skip_cache, reason>>
    BY DEF CallOracle
<1>6. CachesOK'
    BY <1>2, <1>4, <1>5, AskedOracle
<1>7. /\ Answered(u, s)'
      /\ \A v \in Callers : \A x \in Samples : Answered(v, x) => Answered(v, x)'
    BY <1>1, <1>4, <1>5, AnswerComes DEF Answered
<1>8. UNCHANGED <<pc, total, running>> /\ local' = [local EXCEPT ![t] = local[t] \cup {s}]
    BY DEF CallOracle, threaderVars
<1>9. \A r \in Threads : \A x \in local'[r] : x \in local[r] \/ (r = t /\ x = s)
    BY <1>1, <1>8 DEF SumTypes
<1>10. Owner(t)' = u
    BY <1>8 DEF Owner
<1>11. AnswersOK'
    <2>1. \A r \in Threads : \A x \in local'[r] \cap Samples : x \in local[r] \/ Answered(Owner(r), x)'
        BY <1>7, <1>9, <1>10 DEF Answered
    <2> QED
        BY <1>7, <1>8, <2>1, AnswersKept DEF CacheInv
<1> QED
    BY <1>6, <1>11

LEMMA AddAndUnlockKeepsCaches ==
    ASSUME CacheInv, NEW t \in Threads, AddAndUnlock(t)
    PROVE  CachesOK' /\ AnswersOK'
<1>1. worker[t] = "work" /\ Bookkeeping /\ LoopsAreAlive /\ SumTypes
    BY DEF AddAndUnlock, Working, CacheInv, SumsInv, SumsOK, TasksInv
<1> PICK u \in Callers : u = Owner(t)
    BY <1>1, LoopersHaveOwners DEF AtTask
<1>2. seen[t] = total[u]
    BY DEF AddAndUnlock, CacheInv, SumsInv, SumsOK, MutexOK
<1>3. /\ total' = [total EXCEPT ![u] =
             [s \in Samples |-> IF s \in local[t] THEN seen[t][s] + 1 ELSE seen[t][s]]]
      /\ local' = [local EXCEPT ![t] = NoSample]
      /\ UNCHANGED <<plan, pc, job, cached, answer, skip_cache, reason, running>>
    BY DEF AddAndUnlock, SolverState, threaderVars
<1>4. CachesOK'
    BY <1>3, CachesUntouched
<1>5. \A s \in Samples : total'[u][s] # 0 => total[u][s] # 0 \/ s \in local[t]
    BY <1>1, <1>2, <1>3 DEF SumTypes
<1>6. \A v \in Callers \ {u} : total'[v] = total[v]
    BY <1>1, <1>3 DEF SumTypes
<1>7. \A s \in Samples \cap local[t] : Answered(u, s)'
    BY <1>3 DEF CacheInv, AnswersOK, Answered
<1>8. \A r \in Threads : local'[r] \subseteq local[r]
    BY <1>1, <1>3 DEF SumTypes, NoSample
<1>9. AnswersOK'
    <2>1. \A v \in Callers : \A s \in Samples : Answered(v, s) => Answered(v, s)'
        BY <1>3 DEF Answered
    <2>2. \A v \in Callers : \A s \in Samples : total'[v][s] # 0 => total[v][s] # 0 \/ Answered(v, s)'
        BY <1>5, <1>6, <1>7
    <2> QED
        BY <1>3, <1>8, <2>1, <2>2, AnswersKept DEF CacheInv
<1> QED
    BY <1>4, <1>9

LEMMA RunFoldKeepsCaches ==
    ASSUME CacheInv, NEW t \in Threads, RunFold(t)
    PROVE  CachesOK' /\ AnswersOK'
<1>1. worker[t] = "work" /\ ~IsBlock(t) /\ Bookkeeping /\ LoopsAreAlive /\ SumTypes
    BY DEF RunFold, Working, CacheInv, SumsInv, SumsOK, TasksInv
<1> PICK u \in Callers : u = Owner(t)
    BY <1>1, LoopersHaveOwners DEF AtTask
<1>2. pc[u] = "folds"
    BY <1>1, TasksInCall DEF CacheInv, SumsInv, NoTaskOutlivesItsCall
<1>3. UNCHANGED <<plan, pc, job, cached, answer, skip_cache, reason, running, local>>
    BY DEF RunFold, SolverState, threaderVars
<1>4. \A v \in Callers \ {u} : total'[v] = total[v]
    BY <1>1 DEF RunFold, SumTypes
<1>5. AnswersOK'
    BY <1>2, <1>3, <1>4, QuietKeepsAnswers DEF CacheInv, InEvaluation
<1> QED
    BY <1>3, <1>5, CachesUntouched

(* A thread that goes into a pool or out of it has no sum of its own.            *)
LEMMA ThreadsKeepCaches ==
    ASSUME CacheInv, SumsInv', NEW t \in Threads, ThreadStep(t)
    PROVE  CachesOK' /\ AnswersOK'
<1>1. CASE UNCHANGED trainingVars
    <2>1. CachesOK' /\ UNCHANGED <<pc, answer, local, total>>
        BY <1>1, CachesUntouched DEF trainingVars
    <2>2. ASSUME NEW r \in Threads, local[r] # NoSample
          PROVE  UNCHANGED running[r]
        <3>1. worker'[r] = "work"
            BY <2>1, <2>2 DEF SumsInv, SumsOK, LocalOK
        <3>2. PoolsOK
            BY DEF CacheInv, SumsInv, TasksInv, Bookkeeping
        <3> QED
            BY <3>1, <3>2, ThreadMoves
    <2> QED
        BY <2>1, <2>2, QuietKeepsAnswers DEF CacheInv
<1>2. CASE LockAndRead(t)
    <2>1. UNCHANGED <<plan, pc, job, cached, answer, skip_cache, reason, running, local, total>>
        BY <1>2 DEF LockAndRead, SolverState, threaderVars
    <2> QED
        BY <2>1, CachesUntouched, QuietKeepsAnswers DEF CacheInv
<1> QED
    BY <1>1, <1>2, CallOracleKeepsCaches, AddAndUnlockKeepsCaches, RunFoldKeepsCaches DEF ThreadStep

LEMMA CacheInvStep == CacheInv /\ [Next]_vars => CacheInv'
<1> SUFFICES ASSUME CacheInv, [Next]_vars PROVE CachesOK' /\ AnswersOK'
    BY SumsInvStep DEF CacheInv
<1>1. SumsInv'
    BY SumsInvStep DEF CacheInv
<1>2. ASSUME NEW u \in Callers, CallerStep(u)
      PROVE  CachesOK' /\ AnswersOK'
    BY <1>2, QuietCallersKeepCaches, FreshCaches, OptimizationStatusKeepsCaches, RunDirectlyKeepsCaches
    DEF CallerStep
<1>3. ASSUME WaitEndsEarly \/ Exit \/ UNCHANGED vars
      PROVE  CachesOK' /\ AnswersOK'
    <2>1. UNCHANGED <<plan, pc, job, cached, answer, skip_cache, reason, local, total, running>>
        BY <1>3 DEF WaitEndsEarly, WaitEnds, WaitForEmptyEnds, WaitForDestructedEnds, SpuriousWakeup, Exit,
                    MainReturns, DestructIfReady, DestroyThreader, AwaitThreads, DeleteThreader,
                    ThreaderIsGone, vars, threaderVars, trainingVars, SolverState, SumState
    <2> QED
        BY <2>1, CachesUntouched, QuietKeepsAnswers DEF CacheInv
<1> QED
    BY <1>1, <1>2, <1>3, ThreadsKeepCaches DEF Next

LEMMA CacheInvInit == Init => CacheInv
<1> SUFFICES ASSUME Init PROVE CachesOK /\ AnswersOK
    BY SumsInvInit DEF CacheInv
<1>1. CacheTypes
    BY DEF Init, CacheTypes, Zero, NoAnswer, Sources
<1>2. \A u \in Callers : CacheOK(u)
    BY DEF Init, CacheOK, InJob, InEvaluation
<1>3. AnswersOK
    BY DEF Init, AnswersOK, InEvaluation, NoSample
<1> QED
    BY <1>1, <1>2, <1>3 DEF CachesOK

(* For any number of callers, threads, samples and sizes of the cache: a solver  *)
(* that stops because the gap is small has asked the true oracle about every     *)
(* sample in the evaluation that gap is of.                                      *)
THEOREM GapIsAskedOfTheOracle == Spec => []StopsOnTrueOracle
<1>1. CacheInv => StopsOnTrueOracle
    BY DEF CacheInv, CachesOK, CacheOK, AllAsked, StopsOnTrueOracle
<1> QED
    BY <1>1, CacheInvInit, CacheInvStep, PTL DEF Spec
===============================================================================
