\* Three allocators, two crashes, the lock outlives its holder's critical section: every
\* wrap deletes the counter once, so numbers only drop after the wrap zone.
CONSTANTS
    a1 = a1
    a2 = a2
    a3 = a3
    Allocators <- MCAllocators
    Threshold = 3
    MaxCalls = 10
    MaxCrashes = 2
    ExpireWhileHeld = FALSE
SPECIFICATION Spec
INVARIANT ResetExclusive
PROPERTY SeqMonotonicUntilWrap
 
