----------------------------- MODULE MCLockStep -----------------------------
(* Two workers and elements of two tasks: batches that leave
   workers without a task, that give one worker two, and that fill the
   channel, several in a row. *)
EXTENDS LockStep
=============================================================================
