\* The lock TTL may run out while its holder is between its GET and its
\* DELETE (the race the _reset_seq_counter docstring describes).
CONSTANTS
    a1 = a1
    a2 = a2
    a3 = a3
    Allocators <- MCAllocatorsTwo
    Threshold = 3
    MaxCalls = 8
    MaxCrashes = 0
    ExpireWhileHeld = TRUE
SPECIFICATION Spec
PROPERTY SeqMonotonicUntilWrap
