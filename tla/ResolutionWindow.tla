-------------------------- MODULE ResolutionWindow --------------------------
(***************************************************************************)
(* The resolution window (boojum/src/dag/resolvers/mt/resolution_window.rs): *)
(* the broker thread that follows the execution order, cuts it into        *)
(* batches, has the workers run them and notifies the awaiters.  It is     *)
(* generic in the source as it is here: the live and the playback sorter   *)
(* write the order for it, with locations of their own.                    *)
(*                                                                         *)
(* A part of a system, not a system: what the registration thread owns     *)
(* (exec_order, exec_size) is only read, and whoever composes it says what *)
(* stays unchanged there.  The workers are those of BatchExecutor, the     *)
(* specification the lock-step channel implements.                         *)
(***************************************************************************)
EXTENDS Naturals, Sequences, FiniteSets, FiniteSetsExt

CONSTANTS
    MaxTasks,           \* bound: length of the execution order
    ChannelCapacity,    \* workers * LOCK_STEP_ELEM_SIZE
    BufferCapacity,     \* capacity of exec_order_buffer: 2^19
    AssertTracked,      \* RWConfig::ASSERT_TRACKED_VALUES
    Precedes(_, _),     \* the order of the locations awaiters wait for
    DefaultLoc

VARIABLES
    \* ExecOrder: [resolver : [ins, outs], parallelism], and its size
    exec_order, exec_size,
    \* Values: Metadata of every place
    tracked, resolved, tracker,
    \* ResolverComms
    hint, registration_complete, rw_panicked, rw_panic,
    \* the broker thread
    bpc, complete_seen, range_start, range_end, notified, max_resolved,
    \* the lock-step channel: BatchExecutor
    batch, ran, failed, stopped

value_vars == <<tracked, resolved, tracker>>
comm_vars == <<hint, registration_complete, rw_panicked, rw_panic>>
broker_vars == <<bpc, complete_seen, range_start, range_end, notified,
                 max_resolved>>
chan_vars == <<batch, ran, failed, stopped>>
vars == <<value_vars, comm_vars, broker_vars, chan_vars>>

Channel == INSTANCE BatchExecutor

BrokerPcs == {"load", "lock", "hint", "process", "execute", "notify", "panic",
              "panic_flag", "kill", "ended"}

TypeOK ==
    /\ hint \in 0 .. 1
    /\ {registration_complete, rw_panicked, rw_panic, complete_seen} \subseteq BOOLEAN
    /\ bpc \in BrokerPcs
    /\ notified <= range_start /\ range_start <= range_end
    /\ range_end <= exec_size /\ exec_size <= Len(exec_order)
    /\ range_end - range_start <= BufferCapacity
    /\ Channel!TypeOK

Init ==
    /\ hint = 0 /\ registration_complete = FALSE
    /\ rw_panicked = FALSE /\ rw_panic = FALSE
    /\ bpc = "load" /\ complete_seen = FALSE
    /\ range_start = 0 /\ range_end = 0 /\ notified = 0
    /\ max_resolved = DefaultLoc
    /\ Channel!Init

-----------------------------------------------------------------------------
(* The broker thread: ResolutionWindow::resolve and process_buffer *)

Load ==
    /\ bpc = "load"
    /\ complete_seen' = registration_complete
    /\ bpc' = "lock"
    /\ UNCHANGED <<value_vars, comm_vars, range_start, range_end, notified,
                   max_resolved, chan_vars>>

(* Mutant: the room in the buffer is not looked at. *)
Extend_IgnoresSpace ==
    LET new == exec_size > range_end
    IN  /\ bpc = "lock"
        /\ range_end' = exec_size
        /\ bpc' = IF ~new /\ ~complete_seen THEN "hint"
                  ELSE IF ~new /\ range_end = range_start THEN "kill"
                  ELSE "process"
        /\ UNCHANGED <<value_vars, comm_vars, complete_seen, range_start,
                       notified, max_resolved, chan_vars>>

(* Under the mutex of the execution order: take what is new, as far as the
   buffer has room; stop if registration was complete before and nothing is
   left; wait for the hint if there is nothing new and more may come. *)
Extend ==
    LET space_left == BufferCapacity - (range_end - range_start)
        new == exec_size > range_end
    IN  /\ bpc = "lock"
        /\ range_end' = IF new THEN Min({exec_size, range_end + space_left})
                        ELSE range_end
        /\ bpc' = IF ~new /\ ~complete_seen THEN "hint"
                  ELSE IF ~new /\ range_end = range_start THEN "kill"
                  ELSE "process"
        /\ UNCHANGED <<value_vars, comm_vars, complete_seen, range_start,
                       notified, max_resolved, chan_vars>>

(* compare_exchange(1, 0) on the hint. *)
TakeHint ==
    /\ bpc = "hint"
    /\ hint = 1
    /\ hint' = 0
    /\ bpc' = "load"
    /\ UNCHANGED <<value_vars, registration_complete, rw_panicked, rw_panic,
                   complete_seen, range_start, range_end, notified,
                   max_resolved, chan_vars>>

(* Every 2^10 failures it looks at the end of registration instead. *)
SeeComplete ==
    /\ bpc = "hint"
    /\ hint = 0 /\ registration_complete
    /\ bpc' = "load"
    /\ UNCHANGED <<value_vars, comm_vars, complete_seen, range_start,
                   range_end, notified, max_resolved, chan_vars>>

(* Mutant: the batch is not limited by the parallelism of its first task. *)
BatchSize_IgnoresParallelism ==
    Min({ChannelCapacity, range_end - range_start})

BatchSize ==
    Min({exec_order[range_start + 1].parallelism, ChannelCapacity,
         range_end - range_start})

(* One turn of process_buffer up to execute, after assert!(count > 0); it
   returns on an empty buffer.  Order indices count from 0. *)
SendBatch ==
    /\ bpc = "process"
    /\ IF range_start < range_end
       THEN Channel!Release(range_start + BatchSize - 1) /\ bpc' = "execute"
       ELSE bpc' = "load" /\ UNCHANGED chan_vars
    /\ UNCHANGED <<value_vars, comm_vars, complete_seen, range_start,
                   range_end, notified, max_resolved>>

(* execute returns; get_panic; without a panic the window moves on. *)
BatchDone ==
    /\ bpc = "execute"
    /\ Channel!Close
    /\ IF failed
       THEN bpc' = "panic" /\ UNCHANGED range_start
       ELSE bpc' = "notify" /\ range_start' = range_start + Cardinality(batch)
    /\ UNCHANGED <<value_vars, comm_vars, complete_seen, range_end, notified,
                   max_resolved>>

OutsOf(k) == exec_order[k].resolver.outs

(* AwaitersBroker::notify with the trackers of the next drained task. *)
Notify ==
    /\ bpc = "notify"
    /\ notified' = notified + 1
    /\ max_resolved' = IF OutsOf(notified + 1) = {} THEN max_resolved
                       ELSE tracker[Min(OutsOf(notified + 1))]
    /\ bpc' = IF notified' = range_start THEN "process" ELSE "notify"
    /\ UNCHANGED <<value_vars, comm_vars, complete_seen, range_start,
                   range_end, chan_vars>>

StorePanic ==
    /\ bpc = "panic"
    /\ rw_panic' = TRUE
    /\ bpc' = "panic_flag"
    /\ UNCHANGED <<value_vars, hint, registration_complete, rw_panicked,
                   complete_seen, range_start, range_end, notified,
                   max_resolved, chan_vars>>

(* Mutant: the payload is stored, the flag is not. *)
RaisePanicked_Forgotten ==
    /\ bpc = "panic_flag"
    /\ bpc' = "kill"
    /\ UNCHANGED <<value_vars, comm_vars, complete_seen, range_start,
                   range_end, notified, max_resolved, chan_vars>>

RaisePanicked ==
    /\ bpc = "panic_flag"
    /\ rw_panicked' = TRUE
    /\ bpc' = "kill"
    /\ UNCHANGED <<value_vars, hint, registration_complete, rw_panic,
                   complete_seen, range_start, range_end, notified,
                   max_resolved, chan_vars>>

KillPool ==
    /\ bpc = "kill"
    /\ Channel!Stop
    /\ bpc' = "ended"
    /\ UNCHANGED <<value_vars, comm_vars, complete_seen, range_start,
                   range_end, notified, max_resolved>>

Broker ==
    \/ Load \/ Extend \/ TakeHint \/ SeeComplete \/ SendBatch \/ BatchDone
    \/ Notify \/ StorePanic \/ RaisePanicked \/ KillPool

-----------------------------------------------------------------------------
(* The workers: Worker::invoke *)

ResolverAt(t) == exec_order[t + 1].resolver

(* The assertions of invoke: inputs tracked and resolved, outputs not. *)
InvokeAsserts(r) ==
    /\ AssertTracked => r.ins \subseteq tracked
    /\ r.ins \subseteq resolved
    /\ r.outs \cap resolved = {}

Invoke(t) ==
    LET r == ResolverAt(t)
    IN  /\ t \in batch \ ran
        /\ IF InvokeAsserts(r)
           THEN /\ Channel!Run(t)
                /\ resolved' = resolved \cup r.outs
                /\ tracked' = tracked \cup r.outs
           ELSE Channel!Fail /\ UNCHANGED <<tracked, resolved>>
        /\ UNCHANGED <<tracker, comm_vars, broker_vars>>

(* The closure itself panics. *)
ClosurePanics(t) ==
    /\ t \in batch \ ran
    /\ InvokeAsserts(ResolverAt(t))
    /\ Channel!Fail
    /\ UNCHANGED <<value_vars, comm_vars, broker_vars>>

Workers ==
    \E t \in Channel!Tasks : Invoke(t) \/ ClosurePanics(t)

-----------------------------------------------------------------------------
(* What holds of a window with any of the sorters *)

(* A released batch can run in any order, and at any time until it closes: the
   assertions of invoke hold for every task of it that has not run. *)
BatchReady ==
    \A t \in batch \ ran : InvokeAsserts(ResolverAt(t))
=============================================================================
