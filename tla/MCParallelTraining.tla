-------------------------- MODULE MCParallelTraining --------------------------
(* Jobs that meet each case: blocks of two samples whose workers buffer, the     *)
(* whole course of skip_cache, more blocks and more folds than slots, pools      *)
(* without threads, threads that are used again by the next job, and two callers *)
(* at one threader.                                                              *)
EXTENDS ParallelTraining, TLC

CONSTANTS ann, bob, t1, t2, t3

MCThreads == {t1, t2, t3}
MCCallers == {ann, bob}
MCFunctions == {<<ann, 1>>, <<ann, 2>>, <<bob, 1>>}

svm(threads, samples, cache, iterations) ==
    [kind |-> "svm", threads |-> threads, samples |-> samples, cache |-> cache,
     iterations |-> iterations]
folds(threads, k) ==
    [kind |-> "folds", threads |-> threads, samples |-> k, cache |-> 0, iterations |-> 0]

MCPlans == { ann :> jobs @@ bob :> <<>> :
                jobs \in { <<svm(2, 4, 0, 1)>>, <<svm(2, 3, 0, 1)>>, <<svm(2, 2, 1, 2)>>, <<svm(1, 2, 1, 5)>>,
                           <<folds(2, 4), svm(0, 2, 1, 3)>>, <<folds(1, 2), svm(2, 2, 0, 1)>>,
                           <<folds(0, 2)>> } }
           \cup { ann :> <<svm(1, 1, 0, 1)>> @@ bob :> <<folds(1, 2)>> }
===============================================================================
