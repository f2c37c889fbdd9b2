--------------------------- MODULE ResolverFacade ---------------------------
(***************************************************************************)
(* The part of MtCircuitResolver (boojum/src/dag/resolvers/mt/mod.rs) and  *)
(* of the awaiters (boojum/src/dag/awaiters.rs) that is the same with any  *)
(* sorter: how the registration thread waits for a value, ends the         *)
(* registration and joins the broker thread.                               *)
(*                                                                         *)
(* A part of a system: whoever composes it says what else is unchanged.    *)
(***************************************************************************)
CONSTANT Precedes(_, _)     \* the order of the locations awaiters wait for

VARIABLES
    rpc,                    \* where the registration thread is
    track_id,               \* Awaiter.md.tracker
    unwinding,              \* a panic payload was resumed on this thread
    registration_complete, rw_panicked, rw_panic,   \* ResolverComms
    bpc, max_resolved       \* the broker thread: whether it ended, AwaitersBroker

(* Awaiter::wait, one turn of its loop: the resolved location ... *)
AwaitCheck ==
    /\ rpc = "wait"
    /\ rpc' = IF Precedes(max_resolved, track_id) THEN "wait_panic" ELSE "idle"
    /\ UNCHANGED <<track_id, unwinding, registration_complete, rw_panicked,
                   rw_panic, bpc, max_resolved>>

(* ... then the panic flag.  The payload can be taken once: without it wait
   returns as if the value were there. *)
AwaitCheckPanic ==
    /\ rpc = "wait_panic"
    /\ rpc' = IF ~rw_panicked THEN "wait" ELSE "idle"
    /\ unwinding' = (unwinding \/ (rw_panicked /\ rw_panic))
    /\ rw_panic' = (rw_panic /\ ~rw_panicked)
    /\ UNCHANGED <<track_id, registration_complete, rw_panicked, bpc, max_resolved>>

Complete ==
    /\ rpc = "complete"
    /\ registration_complete' = TRUE
    /\ rpc' = "join"
    /\ UNCHANGED <<track_id, unwinding, rw_panicked, rw_panic, bpc, max_resolved>>

(* The broker thread is joined; a payload that is left is resumed here. *)
Join ==
    /\ rpc = "join"
    /\ bpc = "ended"
    /\ rpc' = "ended"
    /\ unwinding' = (unwinding \/ (rw_panicked /\ rw_panic))
    /\ rw_panic' = (rw_panic /\ ~rw_panicked)
    /\ UNCHANGED <<track_id, registration_complete, rw_panicked, bpc, max_resolved>>

Step == AwaitCheck \/ AwaitCheckPanic \/ Complete \/ Join
=============================================================================
