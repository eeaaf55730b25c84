------------------------------ MODULE Locking ------------------------------
(***************************************************************************)
(* pkg/locking: mutual exclusion over an action ID. FSLockGroup locks a    *)
(* file of the host, so it also excludes the other processes of the host;  *)
(* MemLock keeps a mutex per key, in an instance that has one process per  *)
(* host. -lock-type=noop, for tests, excludes nothing and is not modelled. *)
(***************************************************************************)
EXTENDS CacheBase

VARIABLE lock   \* lock[s]: the request that holds the lock of slot s, or None

LockInit == lock = [s \in Slots |-> None]

LockFree(s) == lock[s] = None

TakeLock(s, r) == lock' = [lock EXCEPT ![s] = r]

\* A release forgotten on the way out of DoWithLock.
ReleaseLock_Leaked(s) == lock' = lock

ReleaseLock(s) == lock' = [lock EXCEPT ![s] = None]

(* The kernel drops the flocks of a process that dies. *)
DropLocks(dead) ==
    lock' = [s \in Slots |-> IF lock[s] \in dead THEN None ELSE lock[s]]

=============================================================================
