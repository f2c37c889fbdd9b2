----------------------------- MODULE WitnessDag -----------------------------
(***************************************************************************)
(* What a CircuitResolver (boojum/src/dag/mod.rs) promises its client: a   *)
(* value is set from outside or computed by the one resolver it is an      *)
(* output of; a resolver runs at most once, and only when all its inputs   *)
(* have values; wait_till_resolved ends normally only when every resolver  *)
(* has run, and a panicking closure is always reported.                    *)
(***************************************************************************)
CONSTANTS
    Places,     \* variables of the circuit
    Resolvers   \* [ins, outs] records the client may register

VARIABLES
    known,      \* resolvers the client has registered
    applied,    \* resolvers that have run
    resolved,   \* places that have a value
    failed,     \* some closure panicked
    status      \* what the client was told: "open", "done" or "panicked"

vars == <<known, applied, resolved, failed, status>>

Init ==
    /\ known = {} /\ applied = {} /\ resolved = {}
    /\ failed = FALSE /\ status = "open"

SetValue(p) ==
    /\ p \notin resolved
    /\ resolved' = resolved \cup {p}
    /\ UNCHANGED <<known, applied, failed, status>>

Register(r) ==
    /\ r \notin known
    /\ known' = known \cup {r}
    /\ UNCHANGED <<applied, resolved, failed, status>>

Ready(r) == r.ins \subseteq resolved /\ r.outs \cap resolved = {}

Apply(r) ==
    /\ Ready(r)
    /\ applied' = applied \cup {r}
    /\ resolved' = resolved \cup r.outs
    /\ UNCHANGED <<known, failed, status>>

Fail(r) ==
    /\ Ready(r)
    /\ failed' = TRUE
    /\ UNCHANGED <<known, applied, resolved, status>>

Done ==
    /\ status = "open" /\ ~failed /\ applied = known
    /\ status' = "done"
    /\ UNCHANGED <<known, applied, resolved, failed>>

Panic ==
    /\ status = "open" /\ failed
    /\ status' = "panicked"
    /\ UNCHANGED <<known, applied, resolved, failed>>

Next ==
    \/ \E p \in Places : SetValue(p)
    \/ \E r \in Resolvers : Register(r)
    \/ \E r \in known \ applied : Apply(r) \/ Fail(r)
    \/ Done \/ Panic

Spec == Init /\ [][Next]_vars
=============================================================================
