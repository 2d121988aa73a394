------------------------------- MODULE Threader -------------------------------
(* The threads of dlib (threads_kernel_shared.cpp), which run the training of    *)
(* every model of MITIE. Threads of the operating system are expensive, so the   *)
(* one global threader keeps those whose function has returned and hands them    *)
(* the next function, until a time out of 30 seconds sends them away.            *)
(*                                                                               *)
(* Every stretch of code between data_mutex.lock() and unlock(), or a wait, is   *)
(* one action. A condition variable is the set of those who wait on it; signal() *)
(* removes one of them, broadcast() all, and who was removed still has to get    *)
(* the mutex before it goes on. Waits may end without any signal.                *)
EXTENDS Naturals, FiniteSets

CONSTANTS
    Threads,     \* the threads the operating system can provide (bound)
    Callers,     \* the threads of the program that train models
    Functions,   \* thread functions with their parameters
    NoFunction   \* the null function pointer

ASSUME ThreaderAssumption ==
    /\ IsFiniteSet(Threads)
    /\ NoFunction \notin Functions

VARIABLES
    function_pointer,   \* the function the next thread shall take
    pool_count,         \* how many threads wait for a function
    total_count,        \* how many threads there are
    destruct,           \* the threader is being destroyed
    os,                 \* where each thread is in thread_starter()
    running,            \* the function it has taken
    data_empty,         \* who waits until function_pointer is free
    destructed          \* who waits in ~threader() for the threads to end

threaderVars ==
    <<function_pointer, pool_count, total_count, destruct, os, running, data_empty, destructed>>

(* "absent": no such thread. "born": not yet in the pool. "waiting": on          *)
(* data_ready. "awake" and "timedout": wait_or_timeout() will return true, or    *)
(* false, with the mutex. "running": out of the pool. "returned": the function   *)
(* is over.                                                                      *)
OsStates == {"absent", "born", "waiting", "awake", "timedout", "running", "returned"}

InPool == {t \in Threads : os[t] \in {"waiting", "awake", "timedout"}}

ThreaderInit ==
    /\ function_pointer = NoFunction
    /\ pool_count = 0
    /\ total_count = 0
    /\ destruct = FALSE
    /\ os = [t \in Threads |-> "absent"]
    /\ running = [t \in Threads |-> NoFunction]
    /\ data_empty = {}
    /\ destructed = {}

(* signal() on a condition variable: one of those who wait, if any, goes on.     *)
Signal(waiters, after) ==
    IF waiters = {} THEN after = {} ELSE \E w \in waiters : after = waiters \ {w}

-------------------------------------------------------------------------------
(* create_new_thread(): the function is put down for the next thread, which is   *)
(* spawned only if none is in the pool.                                          *)
HandOver(f) ==
    /\ function_pointer = NoFunction
    /\ function_pointer' = f
    /\ \/ /\ pool_count = 0
          /\ \E t \in Threads : os[t] = "absent"
          /\ LET t == CHOOSE x \in Threads : os[x] = "absent"
             IN  os' = [os EXCEPT ![t] = "born"]
          /\ total_count' = total_count + 1
       \/ /\ pool_count > 0
          /\ LET waiting == {t \in Threads : os[t] = "waiting"}
             IN  \/ waiting = {} /\ UNCHANGED os
                 \/ \E t \in waiting : os' = [os EXCEPT ![t] = "awake"]
          /\ UNCHANGED total_count
    /\ UNCHANGED <<pool_count, destruct, running, data_empty, destructed>>

(* The operating system refuses a thread: the function is taken back, and        *)
(* create_new_thread() returns false.                                            *)
SpawnFails ==
    /\ function_pointer = NoFunction
    /\ pool_count = 0
    /\ Signal(data_empty, data_empty')
    /\ UNCHANGED <<function_pointer, pool_count, total_count, destruct, os, running, destructed>>

(* Another function has not been taken yet.                                      *)
WaitUntilEmpty(u) ==
    /\ function_pointer # NoFunction
    /\ data_empty' = data_empty \cup {u}
    /\ UNCHANGED <<function_pointer, pool_count, total_count, destruct, os, running, destructed>>

-------------------------------------------------------------------------------
(* thread_starter(), once thread t holds data_mutex.                             *)
HoldsMutex(t) == os[t] \in {"born", "awake", "timedout", "returned"}

(* The pool as the thread counts it: it enters when it is new or returns.        *)
CountWith(t) == IF os[t] \in {"born", "returned"} THEN pool_count + 1 ELSE pool_count

LeavesAfterAnyTimeOut(t) ==
    \/ destruct /\ (os[t] = "returned" => function_pointer = NoFunction)
    \/ os[t] = "timedout"

(* Only a thread that comes back from a function looks for the next one before   *)
(* it looks at destruct; after a time out it goes unless there is work.          *)
Leaves(t) ==
    \/ destruct /\ (os[t] = "returned" => function_pointer = NoFunction)
    \/ os[t] = "timedout" /\ function_pointer = NoFunction

TakeFunction(t) ==
    /\ HoldsMutex(t) /\ ~Leaves(t)
    /\ function_pointer # NoFunction
    /\ pool_count' = CountWith(t) - 1
    /\ running' = [running EXCEPT ![t] = function_pointer]
    /\ function_pointer' = NoFunction
    /\ os' = [os EXCEPT ![t] = "running"]
    /\ Signal(data_empty, data_empty')
    /\ UNCHANGED <<total_count, destruct, destructed>>

WaitForWork(t) ==
    /\ HoldsMutex(t) /\ ~Leaves(t)
    /\ function_pointer = NoFunction
    /\ pool_count' = CountWith(t)
    /\ os' = [os EXCEPT ![t] = "waiting"]
    /\ UNCHANGED <<function_pointer, total_count, destruct, running, data_empty, destructed>>

LeaveStillCounted(t) ==
    /\ HoldsMutex(t) /\ Leaves(t)
    /\ pool_count' = CountWith(t)
    /\ total_count' = total_count - 1
    /\ os' = [os EXCEPT ![t] = "absent"]
    /\ Signal(destructed, destructed')
    /\ UNCHANGED <<function_pointer, destruct, running, data_empty>>

LeaveSilently(t) ==
    /\ HoldsMutex(t) /\ Leaves(t)
    /\ pool_count' = CountWith(t) - 1
    /\ total_count' = total_count - 1
    /\ os' = [os EXCEPT ![t] = "absent"]
    /\ UNCHANGED <<function_pointer, destruct, running, data_empty, destructed>>

Leave(t) ==
    /\ HoldsMutex(t) /\ Leaves(t)
    /\ pool_count' = CountWith(t) - 1
    /\ total_count' = total_count - 1
    /\ os' = [os EXCEPT ![t] = "absent"]
    /\ Signal(destructed, destructed')
    /\ UNCHANGED <<function_pointer, destruct, running, data_empty>>

ThreadStarter(t) == TakeFunction(t) \/ WaitForWork(t) \/ Leave(t)

(* The function has returned (the end handlers are called, which nobody sets).   *)
Return(t) ==
    /\ os[t] = "running"
    /\ os' = [os EXCEPT ![t] = "returned"]
    /\ running' = [running EXCEPT ![t] = NoFunction]
    /\ UNCHANGED <<function_pointer, pool_count, total_count, destruct, data_empty, destructed>>

(* 30 seconds have passed, or the wait ends for no reason.                       *)
WaitEnds(t) ==
    /\ os[t] = "waiting"
    /\ \E how \in {"timedout", "awake"} : os' = [os EXCEPT ![t] = how]
    /\ UNCHANGED <<function_pointer, pool_count, total_count, destruct, running, data_empty, destructed>>

WaitForEmptyEnds(u) ==
    /\ u \in data_empty
    /\ data_empty' = data_empty \ {u}
    /\ UNCHANGED <<function_pointer, pool_count, total_count, destruct, os, running, destructed>>

-------------------------------------------------------------------------------
(* data_ready.broadcast()                                                        *)
AllAwake == [t \in Threads |-> IF os[t] = "waiting" THEN "awake" ELSE os[t]]

(* destruct_if_ready(), when the program's global objects are destroyed: with    *)
(* user functions under way the program just ends.                               *)
DestructIfReady ==
    /\ destruct' = (total_count = pool_count)
    /\ os' = IF total_count = pool_count THEN AllAwake ELSE os
    /\ UNCHANGED <<function_pointer, pool_count, total_count, running, data_empty, destructed>>

(* ~threader(), up to its first wait, or to its end if there are no threads.     *)
DestroyThreader ==
    /\ destruct
    /\ os' = AllAwake
    /\ destructed' = IF total_count > 0 THEN {"~threader"} ELSE {}
    /\ UNCHANGED <<function_pointer, pool_count, total_count, destruct, running, data_empty>>

(* ~threader() once it is woken, with threads that have not ended: it waits again. *)
AwaitThreads ==
    /\ destruct /\ total_count > 0
    /\ destructed' = {"~threader"}
    /\ UNCHANGED <<function_pointer, pool_count, total_count, destruct, os, running, data_empty>>

WaitForDestructedEnds ==
    /\ destructed # {}
    /\ destructed' = {}
    /\ UNCHANGED <<function_pointer, pool_count, total_count, destruct, os, running, data_empty>>

(* All that anybody does to the threader. What its clients are up to is their    *)
(* own business: module ThreadPool says how pools use it.                        *)
ThreaderNext ==
    \/ \E f \in Functions : HandOver(f)
    \/ SpawnFails
    \/ \E u \in Callers : WaitUntilEmpty(u) \/ WaitForEmptyEnds(u)
    \/ \E t \in Threads : ThreadStarter(t) \/ Return(t) \/ WaitEnds(t)
    \/ DestructIfReady \/ DestroyThreader \/ AwaitThreads \/ WaitForDestructedEnds

ThreaderSpec == ThreaderInit /\ [][ThreaderNext]_threaderVars
-------------------------------------------------------------------------------
(* The threader believes its counters: with pool_count too high, a function is   *)
(* put down for nobody, and with total_count too high the program never ends.    *)
(* They count the threads in the pool, and all threads, whatever came between a  *)
(* signal, a time out and the mutex.                                             *)
CountsAreRight ==
    /\ pool_count = Cardinality(InPool)
    /\ total_count = Cardinality({t \in Threads : os[t] # "absent"})

(* A function that was put down has a thread to take it: one that does not sleep *)
(* through it. (A pool of sleepers whose only signal went to a thread that timed *)
(* out would leave the function, and the training behind it, forever.)           *)
PendingFunctionHasATaker ==
    function_pointer # NoFunction => \E t \in Threads : HoldsMutex(t) /\ ~Leaves(t)
===============================================================================
