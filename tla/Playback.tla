------------------------------ MODULE Playback ------------------------------
(***************************************************************************)
(* The multi-threaded circuit resolver in playback mode: MtCircuitResolver *)
(* with PlaybackResolverSorter (sorter_playback.rs).  A first run records  *)
(* (ResolutionRecord); then the client makes the same calls to a new       *)
(* resolver, whose sorter puts every registration where the record says    *)
(* and lets the resolution window run as far as the order went in the      *)
(* recorded run.                                                           *)
(*                                                                         *)
(* The threads interleave as in MtResolver: the registration thread, the   *)
(* broker of ResolutionWindow, the workers of BatchExecutor.               *)
(***************************************************************************)
EXTENDS ResolutionRecord

CONSTANTS
    BufSizes,           \* values of BOOJUM_PRS_BUF_SIZE
    ChannelCapacity, BufferCapacity

ASSUME PlaybackAssumption ==
    /\ BufSizes \subseteq Nat \ {0}
    /\ ChannelCapacity \in Nat \ {0} /\ BufferCapacity \in Nat \ {0}

VARIABLES
    \* the registration thread
    rpc, played,            \* where it is; calls made
    registrations_added,
    buf_size, exec_order_buffer,    \* its capacity; registrations not written yet
    awaiting, track_id, unwinding,
    \* ExecOrder
    exec_order, exec_size,
    \* Values
    tracked, resolved, tracker,
    \* ResolverComms
    hint, registration_complete, rw_panicked, rw_panic,
    \* the broker thread
    bpc, complete_seen, range_start, range_end, notified, max_resolved,
    \* the lock-step channel: BatchExecutor
    batch, ran, failed, stopped

sorter_vars == <<registrations_added, buf_size, exec_order_buffer>>
order_vars == <<exec_order, exec_size>>
value_vars == <<tracked, resolved, tracker>>
comm_vars == <<hint, registration_complete, rw_panicked, rw_panic>>
broker_vars == <<bpc, complete_seen, range_start, range_end, notified,
                 max_resolved>>
chan_vars == <<batch, ran, failed, stopped>>
play_vars == <<rpc, played, awaiting, track_id, unwinding, sorter_vars,
               order_vars, value_vars, comm_vars, broker_vars, chan_vars>>
vars == <<record_vars, guide_vars, play_vars>>

(* OrderIx: locations are positions in the order, from 1; 0 is for what is set
   from outside. *)
Before0(a, b) == a < b

RW == INSTANCE ResolutionWindow WITH
        MaxTasks <- MaxItems, AssertTracked <- FALSE,
        Precedes <- Before0, DefaultLoc <- 0

Facade == INSTANCE ResolverFacade WITH Precedes <- Before0

(* OrderInfo with ResolverIx::default(), the first resolver of the box, and
   parallelism 0. *)
DefaultItem == [resolver |-> ResolverOf(0), parallelism |-> 0]

Call == script[played + 1]
Idle(op) ==
    /\ live_pc = "recorded"
    /\ rpc = "idle" /\ ~unwinding
    /\ played < Len(script) /\ Call.op = op

PlaybackInit ==
    /\ rpc = "idle" /\ played = 0 /\ registrations_added = 0
    /\ buf_size \in BufSizes /\ exec_order_buffer = << >>
    /\ awaiting = {} /\ track_id = 0 /\ unwinding = FALSE
    /\ exec_order = << >> /\ exec_size = 0
    /\ tracked = {} /\ resolved = {} /\ tracker = [p \in Places |-> 0]
    /\ RW!Init

Init == RecordInit /\ PlaybackInit

-----------------------------------------------------------------------------
(* The registration thread *)

(* The first run; at its end the second resolver is made, with an order of
   default items. *)
Record ==
    /\ Recording
    /\ exec_order' = IF live_pc' = "recorded"
                     THEN [k \in 1 .. registrations |-> DefaultItem] ELSE << >>
    /\ UNCHANGED <<rpc, played, awaiting, track_id, unwinding, sorter_vars,
                   exec_size, value_vars, comm_vars, broker_vars, chan_vars>>

SetValue ==
    /\ Idle("set")
    /\ Call.places \cap tracked = {}
    /\ tracked' = tracked \cup Call.places
    /\ resolved' = resolved \cup Call.places
    /\ played' = played + 1
    /\ UNCHANGED <<record_vars, guide_vars, rpc, awaiting, track_id, unwinding,
                   sorter_vars, order_vars, tracker, comm_vars, broker_vars,
                   chan_vars>>

(* Mutant: locations from 0. *)
AddResolution_FromZero ==
    LET r == Call.resolver
        item == record[registrations_added]
    IN  /\ Idle("add")
        /\ r.outs \cap tracked = {}
        /\ tracked' = tracked \cup r.outs
        /\ resolved' = resolved \ r.outs
        /\ tracker' = [p \in Places |-> IF p \in r.outs THEN item.order_ix
                                        ELSE tracker[p]]
        /\ exec_order_buffer' = Append(exec_order_buffer,
                                      [resolver |-> r, record_item |-> item])
        /\ registrations_added' = registrations_added + 1
        /\ played' = played + 1
        /\ rpc' = IF Len(exec_order_buffer') = buf_size THEN "write" ELSE "idle"
        /\ UNCHANGED <<record_vars, guide_vars, awaiting, track_id, unwinding,
                       buf_size, order_vars, comm_vars, broker_vars, chan_vars>>

(* add_resolution, without a registrar: the resolver is buffered with the next item
   of the record; a full buffer is written next. *)
AddResolution ==
    LET r == Call.resolver
        item == record[registrations_added]
    IN  /\ Idle("add")
        /\ r.outs \cap tracked = {}
        /\ tracked' = tracked \cup r.outs
        /\ resolved' = resolved \ r.outs
        /\ tracker' = [p \in Places |-> IF p \in r.outs THEN item.order_ix + 1
                                        ELSE tracker[p]]
        /\ exec_order_buffer' = Append(exec_order_buffer,
                                      [resolver |-> r, record_item |-> item])
        /\ registrations_added' = registrations_added + 1
        /\ played' = played + 1
        /\ rpc' = IF Len(exec_order_buffer') = buf_size THEN "write" ELSE "idle"
        /\ UNCHANGED <<record_vars, guide_vars, awaiting, track_id, unwinding,
                       buf_size, order_vars, comm_vars, broker_vars, chan_vars>>

(* write_buffer, with the mutex held until after the hint is stored: the items
   at their places of the record, then the size. *)
WriteBuffer(size) ==
    /\ exec_order' = [k \in DOMAIN exec_order |->
            LET here == {i \in DOMAIN exec_order_buffer :
                            exec_order_buffer[i].record_item.order_ix = k - 1}
                last == exec_order_buffer[Max(here)]
            IN  IF here = {} THEN exec_order[k]
                ELSE [resolver |-> last.resolver,
                      parallelism |-> last.record_item.parallelism]]
    /\ exec_size' = size
    /\ exec_order_buffer' = << >>
    /\ hint' = 1

(* Mutant: what the live order held before the last registration began. *)
RecordedSize_OneEarlier ==
    IF registrations_added = registrations THEN registrations
    ELSE record[Max({registrations_added - 2, 0})].order_len

(* The size write_buffer gives the order: all of it when every registration is
   in, else what the record says of the last one. *)
RecordedSize ==
    IF registrations_added = registrations THEN registrations
    ELSE record[registrations_added - 1].order_len

(* The buffer is full at the end of add_resolution. *)
WriteFull ==
    /\ rpc = "write"
    /\ WriteBuffer(RecordedSize)
    /\ rpc' = "idle"
    /\ UNCHANGED <<record_vars, guide_vars, played, awaiting, track_id, unwinding,
                   registrations_added, buf_size, value_vars,
                   registration_complete, rw_panicked, rw_panic, broker_vars,
                   chan_vars>>

GetAwaiter ==
    /\ Idle("await")
    /\ MaxTracked(tracked) >= MaxIx(Call.places)
    /\ awaiting' = Call.places
    /\ track_id' = Max({tracker[p] : p \in Call.places})
    /\ rpc' = "flush"
    /\ UNCHANGED <<record_vars, guide_vars, played, unwinding, sorter_vars,
                   order_vars, value_vars, comm_vars, broker_vars, chan_vars>>

(* The flush of get_awaiter.  Before the first registration there is no record
   to read: registrations_added - 1 underflows and panics with the mutex held,
   and the drop of the resolver then panics on the poisoned mutex. *)
AwaitFlush ==
    /\ rpc = "flush"
    /\ played' = played + 1
    /\ IF registrations_added = 0 /\ registrations # 0
       THEN rpc' = "aborted" /\ UNCHANGED <<exec_order_buffer, order_vars, hint>>
       ELSE rpc' = "wait" /\ WriteBuffer(RecordedSize)
    /\ UNCHANGED <<record_vars, guide_vars, awaiting, track_id, unwinding,
                   registrations_added, buf_size, value_vars,
                   registration_complete, rw_panicked, rw_panic, broker_vars,
                   chan_vars>>

(* wait_till_resolved of a client that made all its calls, or the drop by one
   that unwinds. *)
FinalFlush ==
    /\ rpc = "idle" /\ live_pc = "recorded"
    /\ unwinding \/ played = Len(script)
    /\ WriteBuffer(registrations)
    /\ rpc' = "complete"
    /\ UNCHANGED <<record_vars, guide_vars, played, awaiting, track_id, unwinding,
                   registrations_added, buf_size, value_vars,
                   registration_complete, rw_panicked, rw_panic, broker_vars,
                   chan_vars>>

FacadeStep ==
    /\ Facade!Step
    /\ UNCHANGED <<record_vars, guide_vars, played, awaiting, sorter_vars,
                   order_vars, value_vars, hint, complete_seen, range_start,
                   range_end, notified, chan_vars>>

Registration ==
    \/ Record \/ SetValue \/ AddResolution \/ WriteFull \/ GetAwaiter
    \/ AwaitFlush \/ FinalFlush \/ FacadeStep

-----------------------------------------------------------------------------
others == <<record_vars, guide_vars, rpc, played, awaiting, track_id, unwinding,
            sorter_vars, order_vars>>

Broker == live_pc = "recorded" /\ RW!Broker /\ UNCHANGED others

Workers == RW!Workers /\ UNCHANGED others

Ended ==
    /\ rpc = "aborted" \/ (rpc = "ended" /\ bpc = "ended")
    /\ UNCHANGED vars

Next == Registration \/ Broker \/ Workers \/ Ended

Spec == Init /\ [][Next]_vars

(* The client makes its calls, calls return and closures terminate; the broker
   and the workers are scheduled. *)
Fairness == WF_vars(Registration) /\ WF_vars(Broker) /\ WF_vars(Workers)
FairSpec == Spec /\ Fairness

-----------------------------------------------------------------------------
(* Safety *)

(* "It is safe to execute the order up to this value" (ExecOrder.size): the
   assertions of invoke hold for every task of a released batch that has not
   run, whatever the workers do first. *)
SafeToExecute == RW!BatchReady

(* The scripts of which that is true: no value is set between the last registration
   before a flush and the flush, for the length that is recorded then stands for the
   registration. *)
SetsInTime(s) ==
    \A i \in DOMAIN s, j \in DOMAIN s \cup {Len(s) + 1} :
        /\ i < j /\ s[i].op = "set"
        /\ j = Len(s) + 1 \/ s[j].op = "await"
        => (\E k \in i .. j - 1 : s[k].op = "add") \/ (\A k \in 1 .. i : s[k].op = "set")

(* What the window has read is the recorded order, item by item: the client's own
   resolver where the live run had it, with the parallelism it had, whatever the
   size of the buffer and however the registrations line up with their places.  No
   default item, nothing moved.  The drop of a resolver whose client unwinds
   releases default items, when the window has stopped. *)
OrderReplayed ==
    \A k \in 1 .. range_end :
        exec_order[k] = [resolver |-> ResolverOf(pushed[order[k].item]),
                         parallelism |-> order[k].parallelism]

(* An awaiter that returns without unwinding found every awaited place
   resolved: "Without the additions, awaiters for 0th resolver would resolve
   immediately". *)
AwaitedResolved ==
    [][ (rpc \in {"wait", "wait_panic"} /\ rpc' = "idle" /\ ~unwinding') =>
            awaiting \subseteq resolved]_vars

Dag == INSTANCE WitnessDag WITH
        known <- {script[i].resolver : i \in Adds(script) \cap (1 .. played)},
        applied <- {RW!ResolverAt(t) : t \in ran},
        status <- IF unwinding THEN "panicked"
                  ELSE IF rpc = "ended" THEN "done" ELSE "open"

(* The second resolver keeps the promises of the first, without a registrar. *)
ImplementsWitnessDag == Dag!Spec

-----------------------------------------------------------------------------
(* Liveness *)

(* Every call returns or unwinds: the record makes the window run as far as an
   awaited resolver, wherever the live order had put it, and to the end when the
   last call is made. *)
CallsReturn == rpc # "idle" ~> rpc \in {"idle", "ended", "aborted"}
=============================================================================
