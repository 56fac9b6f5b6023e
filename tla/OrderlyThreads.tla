---------------------------- MODULE OrderlyThreads -----------------------------
(***************************************************************************)
(* SyncKernel, watched: do the threads release only mutexes they hold?     *)
(* The kernel never asks (main.rs:815-851), but what mutex_owners tells    *)
(* deadlock detection depends on it.                                       *)
(***************************************************************************)
EXTENDS SyncKernel

VARIABLE orderly    \* history: no thread has released a mutex it did not hold

OrderlyInit == Init /\ orderly = TRUE
OrderlyNext == Next /\ orderly' = (orderly /\ ReleasedByHolder)
OrderlySpec == OrderlyInit /\ [][OrderlyNext]_<<vars, orderly>>

\* While threads have released only what they held, the table that detection
\* reads (mutex_owners, main.rs:796-836) errs at most towards a waiter, through
\* every order of locks, hand-offs, waits with a mutex, kills and ends.
OwnersTold == orderly => OwnerHoldsOrWaits
=============================================================================
