---------------------------- MODULE MtResolver ----------------------------
(***************************************************************************)
(* The multi-threaded circuit resolver in record mode: MtCircuitResolver   *)
(* with the live sorter (sorter_live.rs), the registrar, the buffer guide, *)
(* the resolution window's broker thread and the awaiters                  *)
(* (boojum/src/dag/resolvers/mt, boojum/src/dag/awaiters.rs).              *)
(*                                                                         *)
(* Three kinds of threads interleave: the registration thread (the client's *)
(* calls), the broker, and the workers, which are taken from               *)
(* BatchExecutor, the specification the lock-step channel implements.      *)
(* Field elements are abstracted away: a place has a value or has none.    *)
(***************************************************************************)
EXTENDS BufferGuide, PlaceTracking

CONSTANTS
    Circuits,           \* [set : places set from outside, resolvers : ...]
    ChannelCapacity,    \* workers * LOCK_STEP_ELEM_SIZE
    BufferCapacity,     \* capacity of exec_order_buffer: 2^19
    MaxAwaits           \* bound: awaiters taken in a behaviour

ASSUME CapacityAssumption ==
    ChannelCapacity \in Nat \ {0} /\ BufferCapacity \in Nat \ {0}
ASSUME MaxAwaitsAssumption == MaxAwaits \in Nat
ASSUME CircuitsAssumption ==
    \A c \in Circuits :
        /\ c.set \subseteq Places
        /\ \A r \in c.resolvers : r.ins \subseteq Places /\ r.outs \subseteq Places \ c.set
        /\ \A r, s \in c.resolvers : r # s => r.outs \cap s.outs = {}
        /\ IsFiniteSet(c.resolvers) /\ Cardinality(c.resolvers) <= MaxItems

VARIABLES
    circuit,                \* the circuit the client builds
    \* the registration thread
    rpc, todo, unset,       \* where it is; calls the client still has to make
    delayed,                \* Registrar.vars
    work, cur,              \* internalize's stack; the resolver being internalized
    pushed,                 \* OrderInfo.value of each item of the guide
    awaits, awaiting, track_id,
    unwinding,              \* the panic payload was resumed on this thread
    \* Values: Metadata of every place
    tracked, resolved, tracker,
    \* ResolverComms
    hint, registration_complete, rw_panicked, rw_panic,
    \* the broker thread
    bpc, complete_seen, range_start, range_end, notified, max_resolved,
    \* the lock-step channel: BatchExecutor
    batch, ran, failed, stopped

client_vars == <<circuit, rpc, todo, unset, delayed, work, cur, pushed, awaits,
                 awaiting, track_id, unwinding>>
value_vars == <<tracked, resolved, tracker>>
comm_vars == <<hint, registration_complete, rw_panicked, rw_panic>>
broker_vars == <<bpc, complete_seen, range_start, range_end, notified,
                 max_resolved>>
chan_vars == <<batch, ran, failed, stopped>>
vars == <<client_vars, value_vars, comm_vars, broker_vars, chan_vars, guide_vars>>

DefaultLoc == [id |-> 0, pos |-> 0]

RW == INSTANCE ResolutionWindow WITH
        MaxTasks <- MaxItems,
        AssertTracked <- TRUE,
        exec_size <- Len(order),
        exec_order <- [k \in DOMAIN order |->
                        [resolver |-> pushed[order[k].item],
                         parallelism |-> order[k].parallelism]]

RegistrationPcs == {"idle", "internalize", "hint", "track", "await_hint", "wait",
                    "wait_panic", "final_hint", "complete", "join", "ended",
                    "aborted"}

MtTypeOK ==
    /\ GuideTypeOK
    /\ circuit \in Circuits
    /\ rpc \in RegistrationPcs
    /\ todo \subseteq circuit.resolvers /\ unset \subseteq circuit.set
    /\ delayed \subseteq circuit.resolvers \ todo
    /\ work \subseteq circuit.resolvers \ (todo \cup delayed)
    /\ cur \in work \cup {NoResolver}
    /\ pushed \in Seq(circuit.resolvers) /\ Len(pushed) = Len(loc)
    /\ awaits \in 0 .. MaxAwaits /\ awaiting \subseteq Places
    /\ track_id \in GuideLocs /\ max_resolved \in GuideLocs
    /\ unwinding \in BOOLEAN
    /\ tracked \subseteq Places /\ resolved \subseteq tracked
    /\ tracker \in [Places -> GuideLocs]
    /\ RW!TypeOK

Init ==
    /\ GuideInit
    /\ circuit \in Circuits
    /\ rpc = "idle" /\ todo = circuit.resolvers /\ unset = circuit.set
    /\ delayed = {} /\ work = {} /\ cur = NoResolver /\ pushed = << >>
    /\ awaits = 0 /\ awaiting = {} /\ track_id = DefaultLoc
    /\ unwinding = FALSE
    /\ tracked = {} /\ resolved = {}
    /\ tracker = [p \in Places |-> DefaultLoc]
    /\ RW!Init

-----------------------------------------------------------------------------
(* The registration thread: Values and Registrar *)

(* Registrar::accept: no input above the maximum tracked variable. *)
Accepted(r) == MaxIx(r.ins) <= MaxTracked(tracked)

(* Mutant: a resolver whose last input was just tracked is not freed. *)
Advanced_Strict(places) == {r \in delayed : MaxIx(r.ins) < MaxTracked(places)}

(* Registrar::advance: the delayed resolvers the places set free. *)
Advanced(places) == {r \in delayed : MaxIx(r.ins) <= MaxTracked(places)}

(* The maximum tracker among the inputs of r, as the item it belongs to. *)
AfterOf(r) == ItemAfter({tracker[p] : p \in r.ins})

SetValue(p) ==
    /\ rpc = "idle"
    /\ p \in unset
    /\ unset' = unset \ {p}
    /\ tracked' = tracked \cup {p}
    /\ resolved' = resolved \cup {p}
    /\ work' = Advanced(tracked')
    /\ delayed' = delayed \ work'
    /\ rpc' = IF work' = {} THEN "idle" ELSE "internalize"
    /\ UNCHANGED <<circuit, todo, cur, pushed, awaits, awaiting, track_id,
                   unwinding, tracker, comm_vars, broker_vars, chan_vars, guide_vars>>

AddResolution(r) ==
    /\ rpc = "idle"
    /\ r \in todo
    /\ todo' = todo \ {r}
    /\ IF Accepted(r)
       THEN work' = {r} /\ rpc' = "internalize" /\ UNCHANGED delayed
       ELSE delayed' = delayed \cup {r} /\ UNCHANGED <<work, rpc>>
    /\ UNCHANGED <<circuit, unset, cur, pushed, awaits, awaiting, track_id,
                   unwinding, value_vars, comm_vars, broker_vars, chan_vars, guide_vars>>

(* internalize_one up to write_order, which appends to the execution order
   under its mutex.  The registrar's map has no order of iteration: any resolver
   that is waiting may be next. *)
Internalize(r) ==
    /\ rpc = "internalize"
    /\ r \in work
    /\ Push(AfterOf(r))
    /\ pushed' = Append(pushed, r)
    /\ cur' = r
    /\ rpc' = IF order' # order THEN "hint" ELSE "track"
    /\ UNCHANGED <<circuit, todo, unset, delayed, work, awaits, awaiting, track_id,
                   unwinding, value_vars, comm_vars, broker_vars, chan_vars>>

(* The end of write_order: the mutex is released, then the hint is stored. *)
StoreHint ==
    /\ rpc \in {"hint", "await_hint", "final_hint"}
    /\ hint' = 1
    /\ rpc' = CASE rpc = "hint" -> "track"
                [] rpc = "await_hint" -> "wait"
                [] rpc = "final_hint" -> "complete"
    /\ UNCHANGED <<circuit, todo, unset, delayed, work, cur, pushed, awaits,
                   awaiting, track_id, unwinding, value_vars, broker_vars,
                   registration_complete, rw_panicked, rw_panic, chan_vars, guide_vars>>

(* The rest of internalize_one: track_values panics on a place that is tracked
   already and overwrites the metadata of the others; then the registrar
   advances. *)
Track ==
    /\ rpc = "track"
    /\ cur.outs \cap tracked = {}
    /\ tracked' = tracked \cup cur.outs
    /\ resolved' = resolved \ cur.outs
    /\ tracker' = [p \in Places |-> IF p \in cur.outs THEN loc[Len(loc)] ELSE tracker[p]]
    /\ work' = (work \ {cur}) \cup Advanced(tracked')
    /\ delayed' = delayed \ work'
    /\ cur' = NoResolver
    /\ rpc' = IF work' = {} THEN "idle" ELSE "internalize"
    /\ UNCHANGED <<circuit, todo, unset, pushed, awaits, awaiting, track_id,
                   unwinding, comm_vars, broker_vars, chan_vars, guide_vars>>

(* Mutant: the place with the largest index is taken to be the last resolved. *)
MaxTracker_LastPlace(places) == tracker[MaxIx(places)]

MaxTracker(places) ==
    tracker[CHOOSE p \in places : \A q \in places : ~Precedes(tracker[p], tracker[q])]

(* get_awaiter: panics unless every place up to the largest one is tracked;
   takes the largest tracker, then flushes the sorter. *)
GetAwaiter(places) ==
    /\ rpc = "idle" /\ awaits < MaxAwaits
    /\ MaxTracked(tracked) >= MaxIx(places)
    /\ awaits' = awaits + 1
    /\ awaiting' = places
    /\ track_id' = MaxTracker(places)
    /\ Flush
    /\ rpc' = IF order' # order THEN "await_hint" ELSE "wait"
    /\ UNCHANGED <<circuit, todo, unset, delayed, work, cur, pushed, unwinding,
                   value_vars, comm_vars, broker_vars, chan_vars>>

(* Mutant: what the guide still buffers is not flushed. *)
FinalFlush_NoFlush ==
    /\ rpc = "idle"
    /\ unwinding \/ (todo = {} /\ unset = {})
    /\ rpc' = IF delayed = {} THEN "complete" ELSE "aborted"
    /\ UNCHANGED <<circuit, todo, unset, delayed, work, cur, pushed, awaits,
                   awaiting, track_id, unwinding, value_vars, comm_vars,
                   broker_vars, chan_vars, guide_vars>>

(* wait_till_resolved of a client that made all its calls, or the drop of the
   resolver by one that unwinds: final_flush asserts that nothing is delayed. *)
FinalFlush ==
    /\ rpc = "idle"
    /\ unwinding \/ (todo = {} /\ unset = {})
    /\ IF delayed = {}
       THEN /\ Flush
            /\ rpc' = IF order' # order THEN "final_hint" ELSE "complete"
       ELSE rpc' = "aborted" /\ UNCHANGED guide_vars
    /\ UNCHANGED <<circuit, todo, unset, delayed, work, cur, pushed, awaits,
                   awaiting, track_id, unwinding, value_vars, comm_vars,
                   broker_vars, chan_vars>>

(* Waiting for a value, the end of the registration and the join, as with any
   sorter. *)
Facade == INSTANCE ResolverFacade

FacadeStep ==
    /\ Facade!Step
    /\ UNCHANGED <<circuit, todo, unset, delayed, work, cur, pushed, awaits,
                   awaiting, value_vars, hint, complete_seen, range_start,
                   range_end, notified, chan_vars, guide_vars>>

(* A client that unwinds makes no further call than the drop. *)
Call ==
    /\ ~unwinding
    /\ \/ \E p \in unset : SetValue(p)
       \/ \E r \in todo : AddResolution(r)
       \/ \E places \in (SUBSET Places) \ {{}} : GetAwaiter(places)

InCall ==
    \/ \E r \in work : Internalize(r)
    \/ StoreHint \/ Track \/ FacadeStep

-----------------------------------------------------------------------------
(* The broker thread and the workers read the execution order and the record of
   what was pushed, and write neither. *)
Broker == RW!Broker /\ UNCHANGED <<client_vars, guide_vars>>

Workers == RW!Workers /\ UNCHANGED <<client_vars, guide_vars>>

-----------------------------------------------------------------------------
Ended ==
    /\ rpc = "aborted" \/ (rpc = "ended" /\ bpc = "ended")
    /\ UNCHANGED vars

Next == Call \/ FinalFlush \/ InCall \/ Broker \/ Workers \/ Ended

Spec == Init /\ [][Next]_vars

(* Calls return and closures terminate; the broker and the workers are
   scheduled; the client owes no call but the last one. *)
Fairness ==
    /\ WF_vars(InCall) /\ WF_vars(FinalFlush)
    /\ WF_vars(Broker) /\ WF_vars(Workers)
FairSpec == Spec /\ Fairness

-----------------------------------------------------------------------------
(* Safety *)

(* A released batch can run in any order, and at any time until it closes: the
   assertions of invoke hold for every task of it that has not run. *)
BatchTasksReady == RW!BatchReady

(* The registration thread writes the metadata of an output before the broker
   can see its resolver: "Once an item is added to the exec_order, it's
   guaranteed that the corresponding values are present".  Otherwise a worker's
   mark_resolved would be overwritten or track_values would panic. *)
ReleasedIsTracked ==
    /\ \A k \in 1 .. Len(order) : RW!OutsOf(k) \subseteq tracked
    /\ rpc \in {"hint", "track"} => cur.outs \cap tracked = {}

(* An awaiter that returns without unwinding found every awaited place
   resolved: the largest tracker stands for all of them. *)
AwaitedResolved ==
    [][ (rpc \in {"wait", "wait_panic"} /\ rpc' = "idle" /\ ~unwinding') =>
            awaiting \subseteq resolved]_vars

(* "It can handle any non circular dependency among the deferred resolvers":
   when all calls of the circuit are made, no resolver is delayed. *)
NoResolverStuck ==
    rpc = "idle" /\ todo = {} /\ unset = {} => delayed = {}

(* The circuits of which that is true: whatever comes before an input is set from
   outside or computed from places before it. *)
InComputationOrder(c) ==
    \A r \in c.resolvers : \A p \in 0 .. MaxIx(r.ins) :
        p \in c.set \/ \E q \in c.resolvers : p \in q.outs /\ \A i \in q.ins : i < p

Dag == INSTANCE WitnessDag WITH
        Resolvers <- UNION {c.resolvers : c \in Circuits},
        known <- circuit.resolvers \ todo,
        applied <- {RW!ResolverAt(t) : t \in ran},
        status <- IF unwinding THEN "panicked"
                  ELSE IF rpc = "ended" THEN "done" ELSE "open"

ImplementsWitnessDag == Dag!Spec

-----------------------------------------------------------------------------
(* Liveness *)

(* Every call returns or unwinds: internalizing ends, the flush of an awaiter and
   the hint reach the broker, a panic reaches the awaiter, and wait_till_resolved
   joins a broker that ends. *)
CallsReturn == rpc # "idle" ~> rpc \in {"idle", "ended", "aborted"}
=============================================================================
