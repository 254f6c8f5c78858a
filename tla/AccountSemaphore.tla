-------------------------- MODULE AccountSemaphore --------------------------
(* What the pool promises about concurrency, with no word about files,      *)
(* health or rotation: per account a counting semaphore, whose permits are  *)
(* given back by those who took them.                                       *)
EXTENDS Integers

CONSTANTS
    Ids,        \* the semaphores
    Leases,     \* those who take permits, one each
    Capacity,   \* permits of a semaphore, a positive number
    NoAccount   \* held by a lease that has no permit

VARIABLES
    free,       \* free[id]: permits of the account not taken
    holds       \* holds[l]: the account lease l has a permit of

semaphoreVars == <<free, holds>>

SemaphoreInit ==
    /\ free = [id \in Ids |-> Capacity]
    /\ holds = [l \in Leases |-> NoAccount]

Acquire(l, id) ==
    /\ holds[l] = NoAccount
    /\ free[id] > 0
    /\ free' = [free EXCEPT ![id] = @ - 1]
    /\ holds' = [holds EXCEPT ![l] = id]

Free(l) ==
    /\ holds[l] # NoAccount
    /\ free' = [free EXCEPT ![holds[l]] = @ + 1]
    /\ holds' = [holds EXCEPT ![l] = NoAccount]

\* A restart frees everything.
FreeAll ==
    /\ free' = [id \in Ids |-> Capacity]
    /\ holds' = [l \in Leases |-> NoAccount]

SemaphoreNext ==
    \/ \E l \in Leases : Free(l) \/ \E id \in Ids : Acquire(l, id)
    \/ FreeAll

SemaphoreSpec == SemaphoreInit /\ [][SemaphoreNext]_semaphoreVars

=============================================================================
