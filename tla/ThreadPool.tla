------------------------------ MODULE ThreadPool ------------------------------
(* thread_pool: tasks[] has as many slots as the pool has threads; who adds a    *)
(* task waits for an empty slot, and worker threads look for one that is ready.  *)
(* The pool is a multithreaded_object, which starts the workers with dlib's      *)
(* threader, and waits for the last of them before it goes.                      *)
(*                                                                               *)
(* A thread function is the pool it works for (thread_helper(), called on it).   *)
(* Two mutexes protect a pool, m the slots and m_ the bookkeeping of threads;    *)
(* start() keeps m_ until all threads are handed over. A stretch under a mutex   *)
(* is one action. is_running_ and should_stop_ are left out: nothing in the pool *)
(* reads them.                                                                   *)
EXTENDS Threader

CONSTANTS
    NoTask, NoCaller   \* null values

ASSUME NullAssumption == NoCaller \notin Threads

Pools == Functions

VARIABLES
    object,              \* the life of each pool object
    size,                \* tasks.size(), the number of threads
    tasks,               \* the slots of each pool
    threads_started,     \* threads of the pool that have not ended
    dead_threads,        \* registered functions that no thread runs
    we_are_destructing,
    task_ready,          \* workers that wait for a task
    task_done,           \* for each pool, who waits for the end of a task
    all_gone,            \* for each pool, who waits for the end of its threads
    worker,              \* where each thread is in thread()
    task,                \* its copy of a slot, with the slot's index
    crashed              \* memory of a destroyed pool was used

poolVars == <<object, size, tasks, threads_started, dead_threads, we_are_destructing,
              task_ready, task_done, all_gone, worker, task, crashed>>

EmptySlot(next) ==
    [task_id |-> 0, next_task_id |-> next, thread_id |-> NoCaller,
     is_being_processed |-> FALSE, work |-> NoTask]

NothingInHand == [slot |-> 0, work |-> NoTask]

Objects == {"none", "starting", "alive", "destroyed", "abandoned"}
WorkerSteps == {"outside", "helper", "fetch", "work", "clear", "leave"}

ThreadPoolInit ==
    /\ ThreaderInit
    /\ object = [p \in Pools |-> "none"]
    /\ size = [p \in Pools |-> 0]
    /\ tasks = [p \in Pools |-> <<>>]
    /\ threads_started = [p \in Pools |-> 0]
    /\ dead_threads = [p \in Pools |-> 0]
    /\ we_are_destructing = [p \in Pools |-> FALSE]
    /\ task_ready = {}
    /\ task_done = [p \in Pools |-> {}]
    /\ all_gone = [p \in Pools |-> {}]
    /\ worker = [t \in Threads |-> "outside"]
    /\ task = [t \in Threads |-> NothingInHand]
    /\ crashed = FALSE

Slots(p) == DOMAIN tasks[p]
IsEmpty(slot) == slot.task_id = 0
IsReady(slot) == ~slot.is_being_processed /\ ~IsEmpty(slot)
EmptySlots(p) == {i \in Slots(p) : IsEmpty(tasks[p][i])}
ReadySlots(p) == {i \in Slots(p) : IsReady(tasks[p][i])}
First(S) == CHOOSE i \in S : \A j \in S : i <= j

-------------------------------------------------------------------------------
(* The constructor: as many threads are registered as there are slots (slot i    *)
(* of the code is i + 1 here).                                                   *)
Construct(p, n) ==
    /\ object[p] = "none"
    /\ object' = [object EXCEPT ![p] = IF n = 0 THEN "alive" ELSE "starting"]
    /\ size' = [size EXCEPT ![p] = n]
    /\ tasks' = [tasks EXCEPT ![p] = [i \in 1..n |-> EmptySlot(2)]]
    /\ dead_threads' = [dead_threads EXCEPT ![p] = n]
    /\ UNCHANGED <<threads_started, we_are_destructing, task_ready, task_done, all_gone,
                   worker, task, crashed>>
    /\ UNCHANGED threaderVars

(* start(): one more thread; with the last one m_ is unlocked.                   *)
StartThread(p) ==
    /\ object[p] = "starting"
    /\ HandOver(p)
    /\ threads_started' = [threads_started EXCEPT ![p] = @ + 1]
    /\ object' = [object EXCEPT ![p] = IF threads_started'[p] = size[p] THEN "alive" ELSE @]
    /\ UNCHANGED <<size, tasks, dead_threads, we_are_destructing, task_ready, task_done, all_gone,
                   worker, task, crashed>>

StartWaits(u, p) ==
    /\ object[p] = "starting"
    /\ WaitUntilEmpty(u)
    /\ UNCHANGED poolVars

(* start() throws, the constructor is left, and the memory of the pool with it,  *)
(* whether or not some of the threads have been started.                         *)
StartThrows(p) ==
    /\ object[p] = "starting"
    /\ SpawnFails
    /\ object' = [object EXCEPT ![p] = "abandoned"]
    /\ UNCHANGED <<size, tasks, threads_started, dead_threads, we_are_destructing, task_ready,
                   task_done, all_gone, worker, task, crashed>>

-------------------------------------------------------------------------------
(* add_task(), called by a thread u that is none of the workers.                 *)
NextTaskId(p, i) == tasks[p][i].next_task_id * size[p] + (i - 1)

SignalTaskReady(p) ==
    LET waiting == {t \in task_ready : running[t] = p}
    IN  IF waiting = {} THEN UNCHANGED task_ready
        ELSE \E t \in waiting : task_ready' = task_ready \ {t}

(* The task that a thread u puts into a slot.                                    *)
Filled(slot, id, u, w) ==
    [slot EXCEPT !.task_id = id, !.next_task_id = slot.next_task_id + 1, !.thread_id = u, !.work = w]

AddTask(u, p, w) ==
    /\ EmptySlots(p) # {}
    /\ LET i == First(EmptySlots(p))
       IN  tasks' = [tasks EXCEPT ![p][i] = Filled(@, NextTaskId(p, i), u, w)]
    /\ SignalTaskReady(p)
    /\ UNCHANGED <<object, size, threads_started, dead_threads, we_are_destructing, task_done,
                   all_gone, worker, task, crashed>>
    /\ UNCHANGED threaderVars

WaitForTaskDone(u, p) ==
    /\ task_done' = [task_done EXCEPT ![p] = @ \cup {u}]
    /\ UNCHANGED <<object, size, tasks, threads_started, dead_threads, we_are_destructing,
                   task_ready, all_gone, worker, task, crashed>>
    /\ UNCHANGED threaderVars

(* The conditions on which add_task(), wait_for_task(), wait_for_all_tasks() and *)
(* shutdown_pool() go on waiting.                                                *)
NoSlotIsEmpty(p) == EmptySlots(p) = {}
TaskIsUnfinished(p, id) ==
    size[p] # 0 /\ tasks[p][(id % size[p]) + 1].task_id = id
OnlyReadyTasksCount(u, p) ==
    \E i \in Slots(p) : IsReady(tasks[p][i]) /\ tasks[p][i].thread_id = u
TasksOfCallerUnfinished(u, p) ==
    \E i \in Slots(p) : ~IsEmpty(tasks[p][i]) /\ tasks[p][i].thread_id = u
SomeTaskUnfinished(p) == \E i \in Slots(p) : ~IsEmpty(tasks[p][i])

(* shutdown_pool() with no task left: the threads are told to end.               *)
TellThreadsToEnd(p) ==
    /\ ~SomeTaskUnfinished(p)
    /\ we_are_destructing' = [we_are_destructing EXCEPT ![p] = TRUE]
    /\ task_ready' = {t \in task_ready : running[t] # p}
    /\ UNCHANGED <<object, size, tasks, threads_started, dead_threads, task_done, all_gone,
                   worker, task, crashed>>
    /\ UNCHANGED threaderVars

(* multithreaded_object::wait(), and the end of the pool. (The destructor of the *)
(* implementation shuts down once more, with nothing left to wait for.)          *)
WaitForThreads(u, p) ==
    /\ threads_started[p] > 0
    /\ all_gone' = [all_gone EXCEPT ![p] = @ \cup {u}]
    /\ UNCHANGED <<object, size, tasks, threads_started, dead_threads, we_are_destructing,
                   task_ready, task_done, worker, task, crashed>>
    /\ UNCHANGED threaderVars

DestroyAtOnce(p) ==
    /\ object' = [object EXCEPT ![p] = "destroyed"]
    /\ tasks' = [tasks EXCEPT ![p] = <<>>]
    /\ UNCHANGED <<size, threads_started, dead_threads, we_are_destructing, task_ready,
                   task_done, all_gone, worker, task, crashed>>
    /\ UNCHANGED threaderVars

Destroy(p) ==
    /\ threads_started[p] = 0
    /\ object' = [object EXCEPT ![p] = "destroyed"]
    /\ tasks' = [tasks EXCEPT ![p] = <<>>]
    /\ UNCHANGED <<size, threads_started, dead_threads, we_are_destructing, task_ready,
                   task_done, all_gone, worker, task, crashed>>
    /\ UNCHANGED threaderVars

-------------------------------------------------------------------------------
(* Thread t has taken a function, and calls thread_helper() on its pool.         *)
ThreadTakesPool(t) ==
    /\ TakeFunction(t)
    /\ worker' = [worker EXCEPT ![t] = "helper"]
    /\ UNCHANGED <<object, size, tasks, threads_started, dead_threads, we_are_destructing,
                   task_ready, task_done, all_gone, task, crashed>>

IsAlive(t) == object[running[t]] = "alive"

(* thread_helper() takes a registered function, waiting for start() to unlock    *)
(* m_, and calls it: thread() enters its id and goes into its loop.              *)
ThreadHelper(t) ==
    LET p == running[t] IN
    /\ worker[t] = "helper" /\ IsAlive(t)
    /\ IF dead_threads[p] > 0
       THEN /\ dead_threads' = [dead_threads EXCEPT ![p] = @ - 1]
            /\ worker' = [worker EXCEPT ![t] = "fetch"]
       ELSE /\ worker' = [worker EXCEPT ![t] = "leave"]
            /\ UNCHANGED dead_threads
    /\ UNCHANGED <<object, size, tasks, threads_started, we_are_destructing, task_ready,
                   task_done, all_gone, task, crashed>>
    /\ UNCHANGED threaderVars

NotMarked(slot) == slot
Marked(slot) == [slot EXCEPT !.is_being_processed = TRUE]

(* The head of the loop of thread(). we_are_destructing is also read without the *)
(* mutex, which decides nothing that is not decided again with it.               *)
FetchTask(t) ==
    LET p == running[t] IN
    /\ worker[t] = "fetch" /\ t \notin task_ready /\ IsAlive(t)
    /\ ~we_are_destructing[p]
    /\ IF ReadySlots(p) = {}
       THEN /\ task_ready' = task_ready \cup {t}
            /\ UNCHANGED <<tasks, worker, task>>
       ELSE LET i == First(ReadySlots(p)) IN
            /\ tasks' = [tasks EXCEPT ![p][i] = Marked(@)]
            /\ task' = [task EXCEPT ![t] = [slot |-> i, work |-> tasks[p][i].work]]
            /\ worker' = [worker EXCEPT ![t] = "work"]
            /\ UNCHANGED task_ready
    /\ UNCHANGED <<object, size, threads_started, dead_threads, we_are_destructing, task_done,
                   all_gone, crashed>>
    /\ UNCHANGED threaderVars

ThreadEnds(t) ==
    /\ worker[t] = "fetch" /\ t \notin task_ready /\ IsAlive(t)
    /\ we_are_destructing[running[t]]
    /\ worker' = [worker EXCEPT ![t] = "leave"]
    /\ UNCHANGED <<object, size, tasks, threads_started, dead_threads, we_are_destructing,
                   task_ready, task_done, all_gone, task, crashed>>
    /\ UNCHANGED threaderVars

(* After the task: its slot is emptied, and everybody who waits looks again.     *)
ClearSlot(t) ==
    LET p == running[t] IN
    /\ worker[t] = "clear" /\ IsAlive(t)
    /\ tasks' = [tasks EXCEPT ![p][task[t].slot] = EmptySlot(@.next_task_id)]
    /\ task_done' = [task_done EXCEPT ![p] = {}]
    /\ task' = [task EXCEPT ![t] = NothingInHand]
    /\ worker' = [worker EXCEPT ![t] = "fetch"]
    /\ UNCHANGED <<object, size, threads_started, dead_threads, we_are_destructing, task_ready,
                   all_gone, crashed>>
    /\ UNCHANGED threaderVars

(* ~raii_thread_helper(): the function is registered again, and the last thread  *)
(* to end tells so. Then the thread goes back to the threader.                   *)
LeavePool(t) ==
    LET p == running[t] IN
    /\ worker[t] = "leave" /\ IsAlive(t)
    /\ dead_threads' = [dead_threads EXCEPT ![p] = @ + 1]
    /\ threads_started' = [threads_started EXCEPT ![p] = @ - 1]
    /\ all_gone' = [all_gone EXCEPT ![p] = IF threads_started[p] = 1 THEN {} ELSE @]
    /\ worker' = [worker EXCEPT ![t] = "outside"]
    /\ Return(t)
    /\ UNCHANGED <<object, size, tasks, we_are_destructing, task_ready, task_done, task, crashed>>

(* A thread goes on in the memory of a pool that is no more: anything can        *)
(* happen, and nothing is said of what comes after.                              *)
UsesDestroyedPool(t) ==
    /\ worker[t] # "outside"
    /\ object[running[t]] \in {"destroyed", "abandoned"}

Crash(t) ==
    /\ UsesDestroyedPool(t)
    /\ crashed' = TRUE
    /\ UNCHANGED <<object, size, tasks, threads_started, dead_threads, we_are_destructing,
                   task_ready, task_done, all_gone, worker, task>>
    /\ UNCHANGED threaderVars

(* Waits on condition variables that end without a signal.                       *)
SpuriousWakeup ==
    /\ \/ \E t \in task_ready : task_ready' = task_ready \ {t} /\ UNCHANGED <<task_done, all_gone>>
       \/ \E p \in Pools : \E u \in task_done[p] :
              /\ task_done' = [task_done EXCEPT ![p] = @ \ {u}]
              /\ UNCHANGED <<task_ready, all_gone>>
       \/ \E p \in Pools : \E u \in all_gone[p] :
              /\ all_gone' = [all_gone EXCEPT ![p] = @ \ {u}]
              /\ UNCHANGED <<task_ready, task_done>>
    /\ UNCHANGED <<object, size, tasks, threads_started, dead_threads, we_are_destructing,
                   worker, task, crashed>>
    /\ UNCHANGED threaderVars
===============================================================================
