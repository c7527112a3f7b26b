---------------------------- MODULE SeqAllocator ----------------------------
(***************************************************************************)
(* The SMPP sequence-number allocator of EsmeTransceiver.get_next_seq and  *)
(* _reset_seq_counter (client.py).  Several allocators (sessions, and the  *)
(* coroutines inside one session) share one Redis store.  Every Redis      *)
(* command executes atomically at the server; a coroutine suspends at each *)
(* `yield`, so one action below is one Redis command together with the    *)
(* local code that runs until the next `yield`.                            *)
(*                                                                         *)
(* Redis keys:                                                             *)
(*   counter  smpp_last_sequence_number       (0 stands for "key absent":  *)
(*            INCR recreates an absent key at 1)                          *)
(*   lock     smpp_last_sequence_number_wrap  "absent", "noTTL" (exists    *)
(*            with no expiry) or "TTL" (exists, will expire)               *)
(***************************************************************************)
EXTENDS Naturals

CONSTANTS
    Allocators,      \* coroutines calling get_next_seq concurrently
    Threshold,       \* 0xFFFF0000: start trying to wrap at this value
    MaxCalls,        \* bound: number of get_next_seq calls explored
    MaxCrashes,      \* bound: number of allocator crashes explored
    ExpireWhileHeld  \* may the 10 s lock TTL run out while its holder is
                     \* still between its GET and its DELETE?

ASSUME Threshold \in Nat \ {0}
ASSUME MaxCalls \in Nat /\ MaxCrashes \in Nat /\ ExpireWhileHeld \in BOOLEAN

VARIABLES
    counter,     \* value of smpp_last_sequence_number (0 = absent)
    lock,        \* state of smpp_last_sequence_number_wrap
    pc,          \* where each allocator is suspended
    locked,      \* the SETNX result held by each allocator
    lastIssued,  \* ghost: the value the latest INCR handed out (0 = none)
    calls,       \* ghost: get_next_seq calls so far
    crashes      \* ghost: crashes so far

vars == <<counter, lock, pc, locked, lastIssued, calls, crashes>>


Init ==
    /\ counter \in 0..(Threshold - 1)   \* any value below the wrap zone
    /\ lock = "absent"
    /\ pc = [a \in Allocators |-> "idle"]
    /\ locked = [a \in Allocators |-> FALSE]
    /\ lastIssued = 0
    /\ calls = 0
    /\ crashes = 0

(* get_next_seq, line 74: `seq = yield redis.incr(...)`, then line 76:    *)
(* when seq >= 0xFFFF0000 go on to _reset_seq_counter, else return seq.   *)
Incr(a) ==
    /\ pc[a] = "idle"
    /\ calls < MaxCalls
    /\ counter' = counter + 1
    /\ lastIssued' = counter + 1
    /\ calls' = calls + 1
    /\ pc' = [pc EXCEPT ![a] = IF counter + 1 >= Threshold THEN "setnx" ELSE "idle"]
    /\ UNCHANGED <<lock, locked, crashes>>

(* _reset_seq_counter, line 99: `locked = yield redis.setnx(lock, 1)`.    *)
SetNX(a) ==
    /\ pc[a] = "setnx"
    /\ locked' = [locked EXCEPT ![a] = (lock = "absent")]
    /\ lock' = IF lock = "absent" THEN "noTTL" ELSE lock
    /\ pc' = [pc EXCEPT ![a] = "ttl"]
    /\ UNCHANGED <<counter, lastIssued, calls, crashes>>

(* Line 104: `if (yield redis.ttl(lock)) < 0` -- TTL is -1 for a key with *)
(* no expiry and -2 for an absent key; otherwise line 108: `if not        *)
(* locked: return`.                                                       *)
AfterLockCheckIgnoresLock(a) == "get"   \* mutant: `if not locked` dropped

AfterLockCheck(a) == IF locked[a] THEN "get" ELSE "idle"

TTL(a) ==
    /\ pc[a] = "ttl"
    /\ pc' = [pc EXCEPT ![a] = IF lock = "TTL" THEN AfterLockCheck(a) ELSE "expire"]
    /\ UNCHANGED <<counter, lock, locked, lastIssued, calls, crashes>>

(* Line 106: `yield redis.expire(lock, 10)` -- a no-op on an absent key,  *)
(* then the `if not locked` test of line 108.                             *)
Expire(a) ==
    /\ pc[a] = "expire"
    /\ lock' = IF lock = "absent" THEN "absent" ELSE "TTL"
    /\ pc' = [pc EXCEPT ![a] = AfterLockCheck(a)]
    /\ UNCHANGED <<counter, locked, lastIssued, calls, crashes>>

(* Mutant of Get: the resetter deletes without re-reading the counter.    *)
GetNoRecheck(a) ==
    /\ pc[a] = "get"
    /\ pc' = [pc EXCEPT ![a] = "delete"]
    /\ UNCHANGED <<counter, lock, locked, lastIssued, calls, crashes>>

(* Line 112: `if (yield redis.get(counter)) < 0xFFFF0000: return`.  An    *)
(* absent key reads as None, and None < int holds in Python 2.           *)
Get(a) ==
    /\ pc[a] = "get"
    /\ pc' = [pc EXCEPT ![a] = IF counter < Threshold THEN "idle" ELSE "delete"]
    /\ UNCHANGED <<counter, lock, locked, lastIssued, calls, crashes>>

(* Line 119: `yield redis.delete(counter)`; the lock is left to expire.   *)
Delete(a) ==
    /\ pc[a] = "delete"
    /\ counter' = 0
    /\ pc' = [pc EXCEPT ![a] = "idle"]
    /\ UNCHANGED <<lock, locked, lastIssued, calls, crashes>>

(* An allocator holds the wrap lock from its successful SETNX until it    *)
(* returns.                                                               *)
Holding(a) == locked[a] /\ pc[a] \in {"ttl", "expire", "get", "delete"}

(* The lock's 10 second TTL runs out (Redis, not the code).  Unless       *)
(* ExpireWhileHeld, time is assumed to be short enough for a holder to    *)
(* finish its GET and DELETE before its own lock expires.                 *)
LockExpires ==
    /\ lock = "TTL"
    /\ ExpireWhileHeld \/ \A a \in Allocators : ~Holding(a)
    /\ lock' = "absent"
    /\ UNCHANGED <<counter, pc, locked, lastIssued, calls, crashes>>

(* The process running an allocator dies while suspended at a Redis call  *)
(* (after the commands it has already sent); a new one starts idle.      *)
Crash(a) ==
    /\ pc[a] # "idle"
    /\ crashes < MaxCrashes
    /\ crashes' = crashes + 1
    /\ pc' = [pc EXCEPT ![a] = "idle"]
    /\ locked' = [locked EXCEPT ![a] = FALSE]
    /\ UNCHANGED <<counter, lock, lastIssued, calls>>

(* The explored calls are used up and every allocator has returned.       *)
Done ==
    /\ calls = MaxCalls
    /\ \A a \in Allocators : pc[a] = "idle"
    /\ UNCHANGED vars

Next ==
    \/ \E a \in Allocators :
          Incr(a) \/ SetNX(a) \/ TTL(a) \/ Expire(a) \/ Get(a) \/ Delete(a) \/ Crash(a)
    \/ LockExpires
    \/ Done

Spec == Init /\ [][Next]_vars

-----------------------------------------------------------------------------
(* The SETNX lock of _reset_seq_counter admits one resetter at a time:   *)
(* at most one allocator is between its GET and its DELETE.               *)
ResetExclusive ==
    \A a, b \in Allocators :
        (pc[a] \in {"get", "delete"} /\ pc[b] \in {"get", "delete"}) => a = b

(* Spec section 8: across all allocators, in the order Redis executes     *)
(* their INCRs, handed-out sequence numbers strictly increase, and may    *)
(* drop back only after a value in the wrap zone (>= 0xFFFF0000) was      *)
(* handed out.  A second DELETE in the same wrap would reissue numbers    *)
(* that were just handed out to requests still in flight.                 *)
SeqMonotonicUntilWrap ==
    [][lastIssued' > lastIssued \/ lastIssued >= Threshold]_lastIssued

=============================================================================
