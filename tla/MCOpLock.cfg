\* Four calls, one of them a tryWithOp, over two keys, made the way the engine makes them: a
\* nested withOp only re-enters keys already owned.  (The theorems of LocksProofs cover
\* nested calls that wait as well.)
CONSTANTS
    c1 = c1
    c2 = c2
    c3 = c3
    t1 = t1
    ka = ka
    kb = kb
    Call = {c1, c2, c3, t1}
    Try = {t1}
    Key = {ka, kb}
    NoCall = NoCall
    NestedWaits = FALSE
SPECIFICATION FairSpec
INVARIANTS MutualExclusion AnswersAreTrue OwnedIsHeld
PROPERTIES ImplementsKeyLock 
