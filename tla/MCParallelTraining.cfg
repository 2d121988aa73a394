CONSTANTS
    ann = ann
    bob = bob
    t1 = t1
    t2 = t2
    t3 = t3
    Threads <- MCThreads
    Callers <- MCCallers
    Functions <- MCFunctions
    Plans <- MCPlans
    NoFunction = NoFunction
    NoTask = NoTask
    NoCaller = NoCaller
    MaxSamples = 4
    ChunksPerThread = 1
SPECIFICATION Spec
INVARIANT CountsAreRight
INVARIANT PendingFunctionHasATaker
INVARIANT EverySampleCountsOnce
INVARIANT NoTaskOutlivesItsCall
INVARIANT PoolOutlivesItsThreads
INVARIANT StopsOnTrueOracle
PROPERTY ProgramEnds
