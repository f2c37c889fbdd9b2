-------------------------- MODULE MCLockStepMemory --------------------------
(* Two workers; enough tasks for two batches that fill the channel of elements of
   one task, or three batches that leave a worker idle. *)
EXTENDS LockStepMemory
=============================================================================
