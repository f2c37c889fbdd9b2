--------------------------- MODULE BatchExecutor ---------------------------
(***************************************************************************)
(* What the broker of the circuit resolver relies on when it calls         *)
(* LockStepChannel::execute: a batch of consecutive order indices is       *)
(* released, its tasks run at most once each, in any order, and the batch  *)
(* closes when all of them ran or a worker panicked.  After a panic no     *)
(* batch is released any more.                                             *)
(***************************************************************************)
EXTENDS Naturals

CONSTANT MaxTasks

Tasks == 0 .. MaxTasks - 1

VARIABLES
    batch,      \* tasks of the released batch, {} between batches
    ran,        \* tasks that ran to completion
    failed,     \* a task panicked
    stopped     \* the pool was told to die

vars == <<batch, ran, failed, stopped>>

TypeOK ==
    /\ batch \subseteq Tasks
    /\ ran \subseteq Tasks
    /\ failed \in BOOLEAN
    /\ stopped \in BOOLEAN

Init == batch = {} /\ ran = {} /\ failed = FALSE /\ stopped = FALSE

(* ran is always an initial segment of the order while no batch is open. *)
Release(last) ==
    LET next == {t \in Tasks : t \notin ran /\ t <= last}
    IN  /\ batch = {} /\ ~failed /\ ~stopped
        /\ next # {}
        /\ batch' = next
        /\ UNCHANGED <<ran, failed, stopped>>

Run(t) ==
    /\ t \in batch \ ran
    /\ ran' = ran \cup {t}
    /\ UNCHANGED <<batch, failed, stopped>>

Fail ==
    /\ batch \ ran # {}
    /\ failed' = TRUE
    /\ UNCHANGED <<batch, ran, stopped>>

Close ==
    /\ batch # {}
    /\ batch \subseteq ran \/ failed
    /\ batch' = {}
    /\ UNCHANGED <<ran, failed, stopped>>

Stop ==
    /\ batch = {}
    /\ stopped' = TRUE
    /\ UNCHANGED <<batch, ran, failed>>

Next ==
    \/ \E t \in Tasks : Release(t) \/ Run(t)
    \/ Fail \/ Close \/ Stop

Spec == Init /\ [][Next]_vars
=============================================================================
