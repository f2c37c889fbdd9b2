----------------------------- MODULE StResolver -----------------------------
(***************************************************************************)
(* The single-threaded circuit resolver (boojum/src/dag/resolvers/st.rs):  *)
(* a call of the client that leaves a resolver without an input defers it; *)
(* every later value may set off a cascade of deferred resolvers inside    *)
(* the call that brought it.                                               *)
(*                                                                         *)
(* Each closure is a step of its own inside the call, since it may panic.  *)
(* The places of a circuit are variables, and a circuit is registered in   *)
(* the order of its places, as a constraint system allocates them; values  *)
(* from outside come at any time.  Field elements are left out.            *)
(***************************************************************************)
EXTENDS Integers, Sequences, FiniteSetsExt

CONSTANTS
    PlaceCnt,           \* variables of a circuit
    Circuits            \* [set : places set from outside,
                        \*  resolvers : sequence of [ins, outs] records]

Places == 0 .. PlaceCnt - 1

(* The resolvers of a circuit compute later places from earlier ones. *)
InPlaceOrder(c) ==
    /\ \A i \in DOMAIN c.resolvers :
        \A p \in c.resolvers[i].outs : \A q \in c.resolvers[i].ins : q < p
    /\ \A i, j \in DOMAIN c.resolvers :
        i < j => \A p \in c.resolvers[i].outs, q \in c.resolvers[j].outs : p < q

ASSUME PlaceCntAssumption == PlaceCnt \in Nat

(* Every place is set from outside or is an output of one resolver, and a resolver
   has at least one output. *)
ASSUME CircuitsAssumption ==
    \A c \in Circuits :
        /\ c.set \subseteq Places
        /\ c.resolvers \in Seq([ins : SUBSET Places, outs : (SUBSET Places) \ {{}}])
        /\ InPlaceOrder(c)
        /\ c.set \cup UNION {c.resolvers[i].outs : i \in DOMAIN c.resolvers} = Places
        /\ \A i \in DOMAIN c.resolvers : c.resolvers[i].outs \cap c.set = {}

VARIABLES
    circuit,
    pc,             \* inside a call: what it does next; "idle" between calls
    added,          \* resolvers added so far: Stats, and the ResolverBox
    unset,          \* values the client still has to set
    resolved,       \* Values.variables: tracked and resolved are one here
    max_tracked,    \* Values.max_tracked
    deferrer,       \* Deferrer.resolvers: a queue of indices of resolvers
    cur,            \* the resolver whose closure is next
    applied         \* history: resolvers whose closures returned

vars == <<circuit, pc, added, unset, resolved, max_tracked, deferrer, cur,
          applied>>

Pcs == {"idle", "resolve", "advance", "invoke", "done", "panicked"}

StTypeOK ==
    /\ circuit \in Circuits
    /\ pc \in Pcs
    /\ added \in 0 .. Len(circuit.resolvers)
    /\ unset \subseteq circuit.set
    /\ resolved \subseteq Places
    /\ max_tracked \in Places \cup {-1}
    /\ deferrer \in Seq(1 .. added)
    /\ cur \in 0 .. added
    /\ applied \subseteq 1 .. added

Init ==
    /\ circuit \in Circuits
    /\ pc = "idle" /\ added = 0 /\ unset = circuit.set
    /\ resolved = {} /\ max_tracked = -1
    /\ deferrer = << >> /\ cur = 0 /\ applied = {}

-----------------------------------------------------------------------------
(* Values *)

(* Mutant: the first gap instead of the place before it. *)
AdvanceTrack_FirstGap(places) ==
    Max({max_tracked} \cup
        {p + 1 : p \in {q \in Places : max_tracked + 1 .. q \subseteq places}})

(* advance_track: the run of tracked places is extended up to the first gap. *)
AdvanceTrack(places) ==
    Max({max_tracked} \cup
        {p \in Places : p > max_tracked /\ max_tracked + 1 .. p \subseteq places})

Resolver(i) == circuit.resolvers[i]

-----------------------------------------------------------------------------
(* Calls of the client *)

SetValue(p) ==
    /\ pc = "idle"
    /\ p \in unset
    /\ unset' = unset \ {p}
    /\ resolved' = resolved \cup {p}
    /\ max_tracked' = AdvanceTrack(resolved')
    /\ pc' = "advance"
    /\ UNCHANGED <<circuit, added, deferrer, cur, applied>>

(* Mutant: a resolver is deferred only when none of its inputs has a value. *)
AddResolution_AnyInput ==
    LET i == added + 1
    IN  /\ pc = "idle"
        /\ i \in DOMAIN circuit.resolvers
        /\ added' = i
        /\ IF Resolver(i).ins = {} \/ Resolver(i).ins \cap resolved # {}
           THEN cur' = i /\ pc' = "resolve" /\ UNCHANGED deferrer
           ELSE deferrer' = Append(deferrer, i) /\ UNCHANGED <<cur, pc>>
        /\ UNCHANGED <<circuit, unset, resolved, max_tracked, applied>>

(* All inputs have values: the closure runs at once; otherwise it is boxed. *)
AddResolution ==
    LET i == added + 1
    IN  /\ pc = "idle"
        /\ i \in DOMAIN circuit.resolvers
        /\ added' = i
        /\ IF Resolver(i).ins \subseteq resolved
           THEN cur' = i /\ pc' = "resolve" /\ UNCHANGED deferrer
           ELSE deferrer' = Append(deferrer, i) /\ UNCHANGED <<cur, pc>>
        /\ UNCHANGED <<circuit, unset, resolved, max_tracked, applied>>

(* wait_till_resolved does nothing: the client takes it that all is resolved. *)
WaitTillResolved ==
    /\ pc = "idle"
    /\ unset = {} /\ added = Len(circuit.resolvers)
    /\ pc' = "done"
    /\ UNCHANGED <<circuit, added, unset, resolved, max_tracked, deferrer, cur,
                   applied>>

-----------------------------------------------------------------------------
(* The cascade inside a call *)

(* Mutant: a resolver is queued under its smallest input. *)
TryTake_SmallestInput ==
    deferrer # << >> /\ Min(Resolver(Head(deferrer)).ins) <= max_tracked

(* Mutant: the head has to lie strictly inside the run. *)
TryTake_Strict ==
    deferrer # << >> /\ Max(Resolver(Head(deferrer)).ins) < max_tracked

(* try_take looks at the head only.  While max_tracked is -1 its cast to u64 is
   a placeholder, which no place compares with. *)
TryTake == deferrer # << >> /\ Max(Resolver(Head(deferrer)).ins) <= max_tracked

(* One turn of the loop of advance; the call returns when the head has to wait. *)
Advance ==
    /\ pc = "advance"
    /\ IF TryTake
       THEN /\ cur' = Head(deferrer)
            /\ deferrer' = Tail(deferrer)
            /\ pc' = "invoke"
       ELSE pc' = "idle" /\ cur' = 0 /\ UNCHANGED deferrer
    /\ UNCHANGED <<circuit, added, unset, resolved, max_tracked, applied>>

(* The assertions of invoke_boxed: inputs resolved, outputs not. *)
InvokeAsserts(r) == r.ins \subseteq resolved /\ r.outs \cap resolved = {}

(* The closure returns: invoke_closure and invoke_boxed end alike, the
   outputs have values and the cascade goes on. *)
Apply ==
    /\ pc \in {"resolve", "invoke"}
    /\ pc = "invoke" => InvokeAsserts(Resolver(cur))
    /\ resolved' = resolved \cup Resolver(cur).outs
    /\ max_tracked' = AdvanceTrack(resolved')
    /\ applied' = applied \cup {cur}
    /\ pc' = "advance"
    /\ UNCHANGED <<circuit, added, unset, deferrer, cur>>

(* The closure or an assertion panics; the client unwinds. *)
ClosurePanics ==
    /\ pc \in {"resolve", "invoke"}
    /\ pc' = "panicked"
    /\ UNCHANGED <<circuit, added, unset, resolved, max_tracked, deferrer, cur,
                   applied>>

Ended == pc \in {"done", "panicked"} /\ UNCHANGED vars

Next ==
    \/ \E p \in Places : SetValue(p)
    \/ AddResolution \/ WaitTillResolved
    \/ Advance \/ Apply \/ ClosurePanics
    \/ Ended

Spec == Init /\ [][Next]_vars

-----------------------------------------------------------------------------
(* The assertions of invoke_boxed hold of every resolver the cascade takes from
   the queue, though try_take compared one place with the end of a run only. *)
TakenIsReady == pc = "invoke" => InvokeAsserts(Resolver(cur))

(* get_awaiter asserts that its place is resolved.  A place may be read once all
   values and resolvers up to it were given, whatever the order of the calls. *)
PrefixResolved ==
    pc = "idle" =>
        \A p \in Places :
            (/\ \A q \in 0 .. p : q \notin unset
             /\ \A i \in DOMAIN circuit.resolvers :
                    Resolver(i).outs \cap 0 .. p # {} => i <= added)
            => 0 .. p \subseteq resolved

Dag == INSTANCE WitnessDag WITH
        Resolvers <- UNION {{c.resolvers[i] : i \in DOMAIN c.resolvers} : c \in Circuits},
        known <- {Resolver(i) : i \in 1 .. added},
        applied <- {Resolver(i) : i \in applied},
        failed <- pc = "panicked",
        status <- IF pc = "done" THEN "done" ELSE "open"

(* The single-threaded resolver keeps the promises of CircuitResolver: in
   particular wait_till_resolved, which does nothing, is called with nothing
   left to resolve. *)
StImplementsWitnessDag == Dag!Spec
=============================================================================
