-------------------------- MODULE ResolutionRecord --------------------------
(***************************************************************************)
(* What the live sorter records of a run so that the playback sorter can   *)
(* repeat its execution order without a guide or a registrar               *)
(* (boojum/src/dag/resolvers/mt/sorters/sorter_live.rs, sorters/mod.rs):   *)
(* for every registration, its place in the order, its parallelism, and    *)
(* how long the order was when the registration was processed.             *)
(*                                                                         *)
(* Only the registration thread writes the record, and it reads nothing    *)
(* the other threads write; they are left out here and are in MtResolver.  *)
(* A script is the sequence of calls the client makes.  Registrations are  *)
(* numbered from 0, as in added_at.                                        *)
(***************************************************************************)
EXTENDS BufferGuide, PlaceTracking

CONSTANTS
    Resolvers,  \* [ins, outs]
    Scripts     \* sequences of calls; what a call does not use is empty

Calls == [op : {"set", "add", "await"}, places : SUBSET Places,
          resolver : Resolvers \cup {NoResolver}]
Adds(s) == {i \in DOMAIN s : s[i].op = "add"}

(* A circuit registers no more resolvers than it has variables, for which the
   record has room. *)
ASSUME ScriptsAssumption ==
    /\ Resolvers \subseteq [ins : SUBSET Places, outs : SUBSET Places]
    /\ Scripts \subseteq Seq(Calls)
    /\ \A s \in Scripts : Cardinality(Adds(s)) <= MaxItems

(* set_value sets one place; every add_resolution brings a resolver of its own. *)
ASSUME CallsAssumption ==
    \A s \in Scripts :
        /\ \A i \in DOMAIN s : s[i].op = "set" => \E p \in Places : s[i].places = {p}
        /\ \A i \in Adds(s) : s[i].resolver \in Resolvers
        /\ \A i, j \in Adds(s) : s[i].resolver = s[j].resolver => i = j

VARIABLES
    script,         \* the calls of the client
    live_pc,        \* "call", "internalize" or "recorded"
    live_at,        \* calls made
    registrations,  \* stats.registrations_added, then registrations_count
    box,            \* ResolverBox: the resolvers, in the order of registration
    delayed, work,  \* Registrar.vars and internalize's stack, by registration
    pushed,         \* added_at of each item of the guide
    live_tracked, live_tracker,
    record          \* ResolutionRecord.items

record_vars == <<script, live_pc, live_at, registrations, box, delayed, work,
                 pushed, live_tracked, live_tracker, record>>

RegNums == 0 .. MaxItems - 1
ResolverOf(n) == box[n + 1]
LiveCall == script[live_at + 1]

(* Loc of a value set from outside. *)
GuideDefault == [id |-> 0, pos |-> 0]

RecordInit ==
    /\ GuideInit
    /\ script \in Scripts
    /\ live_pc = "call" /\ live_at = 0 /\ registrations = 0 /\ box = << >>
    /\ delayed = {} /\ work = {} /\ pushed = << >>
    /\ live_tracked = {}
    /\ live_tracker = [p \in Places |-> GuideDefault]
    /\ record = [n \in RegNums |-> [order_ix |-> 0, order_len |-> 0, parallelism |-> 0]]

-----------------------------------------------------------------------------
(* Registrar::accept and Registrar::advance *)
Freed(waiting, places) ==
    {n \in waiting : MaxIx(ResolverOf(n).ins) <= MaxTracked(places)}

(* Mutant: the index within the part just written. *)
Ordered_NoOffset(rec) ==
    [n \in RegNums |->
        IF \E k \in Len(order) + 1 .. Len(order') : pushed'[order'[k].item] = n
        THEN LET k == CHOOSE k \in Len(order) + 1 .. Len(order') :
                        pushed'[order'[k].item] = n
             IN  [rec[n] EXCEPT !.order_ix = k - 1 - Len(order),
                                !.parallelism = order'[k].parallelism]
        ELSE rec[n]]

(* write_order: the registrations whose items the order was extended by. *)
Ordered(rec) ==
    [n \in RegNums |->
        IF \E k \in Len(order) + 1 .. Len(order') : pushed'[order'[k].item] = n
        THEN LET k == CHOOSE k \in Len(order) + 1 .. Len(order') :
                        pushed'[order'[k].item] = n
             IN  [rec[n] EXCEPT !.order_ix = k - 1,
                                !.parallelism = order'[k].parallelism]
        ELSE rec[n]]

LiveSet ==
    /\ live_pc = "call" /\ live_at < Len(script) /\ LiveCall.op = "set"
    /\ LiveCall.places \cap live_tracked = {}
    /\ live_tracked' = live_tracked \cup LiveCall.places
    /\ work' = Freed(delayed, live_tracked')
    /\ delayed' = delayed \ work'
    /\ live_pc' = "internalize"
    /\ UNCHANGED <<script, live_at, registrations, box, pushed, live_tracker,
                   record, guide_vars>>

LiveAdd ==
    /\ live_pc = "call" /\ live_at < Len(script) /\ LiveCall.op = "add"
    /\ box' = Append(box, LiveCall.resolver)
    /\ work' = IF MaxIx(LiveCall.resolver.ins) <= MaxTracked(live_tracked)
               THEN {registrations} ELSE {}
    /\ delayed' = delayed \cup ({registrations} \ work')
    /\ live_pc' = "internalize"
    /\ UNCHANGED <<script, live_at, registrations, pushed, live_tracked,
                   live_tracker, record, guide_vars>>

(* internalize_one: push to the guide, write_order, track_values, advance. *)
LiveInternalize(n) ==
    LET r == ResolverOf(n)
    IN  /\ live_pc = "internalize" /\ n \in work
        /\ r.outs \cap live_tracked = {}
        /\ Push(ItemAfter({live_tracker[p] : p \in r.ins}))
        /\ pushed' = Append(pushed, n)
        /\ record' = Ordered(record)
        /\ live_tracked' = live_tracked \cup r.outs
        /\ live_tracker' = [p \in Places |-> IF p \in r.outs THEN loc'[Len(loc')]
                                             ELSE live_tracker[p]]
        /\ work' = (work \ {n}) \cup Freed(delayed, live_tracked')
        /\ delayed' = delayed \ work'
        /\ UNCHANGED <<script, live_pc, live_at, registrations, box>>

(* Mutant: a registration is said to come with the whole order of the circuit. *)
LiveReturn_CountsLater ==
    /\ live_pc = "internalize" /\ work = {}
    /\ live_pc' = "call" /\ live_at' = live_at + 1
    /\ IF LiveCall.op = "add"
       THEN /\ record' = [record EXCEPT ![registrations].order_len = Cardinality(Adds(script))]
            /\ registrations' = registrations + 1
       ELSE UNCHANGED <<record, registrations>>
    /\ UNCHANGED <<script, box, delayed, work, pushed, live_tracked,
                   live_tracker, guide_vars>>

(* The call returns; add_resolution records the length of the order first. *)
LiveReturn ==
    /\ live_pc = "internalize" /\ work = {}
    /\ live_pc' = "call" /\ live_at' = live_at + 1
    /\ IF LiveCall.op = "add"
       THEN /\ record' = [record EXCEPT ![registrations].order_len = Len(order)]
            /\ registrations' = registrations + 1
       ELSE UNCHANGED <<record, registrations>>
    /\ UNCHANGED <<script, box, delayed, work, pushed, live_tracked,
                   live_tracker, guide_vars>>

(* flush overwrites the length of the last registration, or that of the first
   one to come. *)
Flushed ==
    /\ Flush
    /\ UNCHANGED pushed
    /\ record' = [Ordered(record) EXCEPT
                    ![Max({1, registrations}) - 1].order_len = Len(order')]

(* get_awaiter; waiting changes nothing here. *)
LiveAwait ==
    /\ live_pc = "call" /\ live_at < Len(script) /\ LiveCall.op = "await"
    /\ MaxTracked(live_tracked) >= MaxIx(LiveCall.places)
    /\ Flushed
    /\ live_at' = live_at + 1
    /\ UNCHANGED <<script, live_pc, registrations, box, delayed, work,
                   live_tracked, live_tracker>>

(* final_flush, after assert!(self.registrar.is_empty()). *)
LiveFinalFlush ==
    /\ live_pc = "call" /\ live_at = Len(script)
    /\ delayed = {}
    /\ Flushed
    /\ live_pc' = "recorded"
    /\ UNCHANGED <<script, live_at, registrations, box, delayed, work,
                   live_tracked, live_tracker>>

Recording ==
    \/ LiveSet \/ LiveAdd \/ LiveReturn \/ LiveAwait \/ LiveFinalFlush
    \/ \E n \in work : LiveInternalize(n)
=============================================================================
