--------------------------- MODULE Playback_proofs ---------------------------
(***************************************************************************)
(* Proofs about a recorded run and its replay, for every sequence of calls *)
(* and every size of the guide and of the buffers: what the resolution     *)
(* window of the second resolver reads is the order of the first one.      *)
(*                                                                         *)
(* The live run and the replay number the registrations alike, as their    *)
(* client makes the same calls.  The record ties the number of a           *)
(* registration to its place in the order, and the length of the order to  *)
(* the registrations it needs.                                             *)
(***************************************************************************)
EXTENDS Playback, BufferGuide_proofs

-----------------------------------------------------------------------------
(* The inductive invariant of the live run *)

(* Registrations among the first k calls. *)
AddsUpTo(k) == Cardinality(Adds(script) \cap (1 .. k))

(* Calls made, and the one that is being made. *)
Called == IF live_pc = "internalize" THEN live_at + 1 ELSE live_at

(* The box holds the resolvers in the order of the calls that registered them. *)
CallInv ==
    /\ script \in Scripts
    /\ live_pc \in {"call", "internalize", "recorded"}
    /\ live_at \in Nat /\ Called <= Len(script)
    /\ live_pc = "recorded" => live_at = Len(script)
    /\ registrations = AddsUpTo(live_at)
    /\ box \in Seq(Resolvers \cup {NoResolver}) /\ Len(box) = AddsUpTo(Called)
    /\ \A i \in Adds(script) \cap (1 .. Called) : box[AddsUpTo(i)] = script[i].resolver

(* Every registration is delayed, on the stack of internalize or pushed, and pushed
   once.  At the end all of them are in the order. *)
PushedInv ==
    /\ delayed \cup work \subseteq 0 .. Len(box) - 1 /\ delayed \cap work = {}
    /\ pushed \in Seq(0 .. Len(box) - 1) /\ Len(pushed) = Len(loc)
    /\ \A s, t \in Items : pushed[s] = pushed[t] => s = t
    /\ \A t \in Items : pushed[t] \notin delayed \cup work
    /\ \A n \in 0 .. Len(box) - 1 : n \in delayed \cup work \/ \E t \in Items : pushed[t] = n
    /\ live_pc # "internalize" => work = {}
    /\ live_pc = "recorded" => delayed = {} /\ \A i \in SpanIxs : spans[i] = << >>

RecordItems == [order_ix : Nat, order_len : Nat, parallelism : Nat]

(* The record names the place of every registration in the order, and a length up to
   which the order holds no later one. *)
RecordInv ==
    /\ record \in [RegNums -> RecordItems]
    /\ \A k \in 1 .. Len(order) :
            /\ record[pushed[order[k].item]].order_ix = k - 1
            /\ record[pushed[order[k].item]].parallelism = order[k].parallelism
    /\ \A n \in 0 .. registrations - 1 :
            /\ record[n].order_len <= Len(order)
            /\ \A k \in 1 .. record[n].order_len : pushed[order[k].item] <= n

LiveInv == GuideInv /\ CallInv /\ PushedInv /\ RecordInv

-----------------------------------------------------------------------------
(* The inductive invariant of the replay *)

(* Registrations the order of the replay holds; the others are in the buffer. *)
Added == registrations_added - Len(exec_order_buffer)

(* What registration n puts into the order. *)
ItemOf(n) == [resolver |-> ResolverOf(n), parallelism |-> record[n].parallelism]

BufferItems == [resolver : Resolvers \cup {NoResolver}, record_item : RecordItems]

RegistrationPcs == {"idle", "write", "flush", "wait", "wait_panic", "aborted", "complete",
                    "join", "ended"}

(* A registration is buffered with its item of the record, and goes to the place the
   record says. *)
SorterInv ==
    /\ rpc \in RegistrationPcs
    /\ played \in 0 .. Len(script)
    /\ rpc = "flush" => played < Len(script) /\ Call.op = "await"
    /\ registrations_added = AddsUpTo(played)
    /\ exec_order_buffer \in Seq(BufferItems) /\ Added \in Nat
    /\ \A i \in 1 .. Len(exec_order_buffer) :
            exec_order_buffer[i] = [resolver |-> ResolverOf(Added + i - 1),
                                    record_item |-> record[Added + i - 1]]
    /\ rpc = "write" => exec_order_buffer # << >>
    /\ DOMAIN exec_order = 1 .. registrations
    /\ \A n \in 0 .. Added - 1 : exec_order[record[n].order_ix + 1] = ItemOf(n)

(* The order is released, and read, up to items it holds.  The drop by a client that
   unwinds releases all of it, when the window has stopped. *)
SizeInv ==
    /\ exec_size \in Nat /\ exec_size <= registrations
    /\ ~unwinding => \A k \in 1 .. exec_size : pushed[order[k].item] < Added
    /\ \A k \in 1 .. range_end : pushed[order[k].item] < Added

(* Between the batches exactly what the window has passed has run; a batch is what
   may run at once with its first item. *)
WindowInv ==
    /\ bpc \in RW!BrokerPcs
    /\ notified \in Nat /\ range_start \in Nat /\ range_end \in Nat
    /\ notified <= range_start /\ range_start <= range_end /\ range_end <= registrations
    /\ range_end - range_start <= BufferCapacity
    /\ ran \subseteq 0 .. range_end - 1 /\ 0 .. range_start - 1 \subseteq ran
    /\ bpc # "execute" => batch = {}
    /\ bpc = "execute" =>
            /\ \E last \in range_start .. range_end - 1 :
                    /\ last < range_start + order[range_start + 1].parallelism
                    /\ batch = range_start .. last
            /\ ran \subseteq (0 .. range_start - 1) \cup batch
    /\ bpc # "execute" /\ ~failed => ran = 0 .. range_start - 1
    /\ bpc = "notify" => notified < range_start

(* A client unwinds when the window has announced a panic and stopped. *)
PanicInv ==
    /\ failed \in BOOLEAN /\ unwinding \in BOOLEAN /\ rw_panicked \in BOOLEAN
    /\ bpc \in {"load", "lock", "hint", "process", "notify"} => ~failed
    /\ rw_panicked => bpc \in {"kill", "ended"}
    /\ unwinding => rw_panicked

(* Nothing of the second resolver moves before the first run has ended. *)
NotStarted ==
    /\ rpc = "idle" /\ played = 0 /\ unwinding = FALSE
    /\ registrations_added = 0 /\ exec_order_buffer = << >>
    /\ exec_order = << >> /\ exec_size = 0
    /\ RW!Init

ReplayInv == SorterInv /\ SizeInv /\ WindowInv /\ PanicInv

PlaybackInv ==
    /\ LiveInv
    /\ live_pc # "recorded" => NotStarted
    /\ live_pc = "recorded" => ReplayInv
-----------------------------------------------------------------------------
(* Calls and registrations *)

LEMMA ScriptFacts ==
    ASSUME script \in Scripts
    PROVE  /\ Len(script) \in Nat /\ Adds(script) \subseteq 1 .. Len(script)
           /\ DOMAIN script = 1 .. Len(script)
           /\ \A i \in 1 .. Len(script) :
                /\ script[i].op \in {"set", "add", "await"} /\ script[i].places \subseteq Places
                /\ script[i].resolver \in Resolvers \cup {NoResolver}
                /\ i \in Adds(script) <=> script[i].op = "add"
           /\ IsFiniteSet(Adds(script)) /\ Cardinality(Adds(script)) <= MaxItems
  <1>1. script \in Seq(Calls) /\ Cardinality(Adds(script)) <= MaxItems
    BY ScriptsAssumption
  <1>2. Len(script) \in Nat /\ DOMAIN script = 1 .. Len(script)
        /\ \A i \in 1 .. Len(script) : script[i] \in Calls
    BY <1>1, LenProperties, ElementOfSeq
  <1>3. Adds(script) \subseteq 1 .. Len(script)
        /\ \A i \in 1 .. Len(script) : i \in Adds(script) <=> script[i].op = "add"
    BY <1>2 DEF Adds
  <1>4. IsFiniteSet(Adds(script))
    <2>1. IsFiniteSet(1 .. Len(script))
      BY <1>2, FS_Interval
    <2> QED
      BY <1>3, <2>1, FS_Subset
  <1> QED
    BY <1>1, <1>2, <1>3, <1>4 DEF Calls

(* One call more is one registration more if it is add_resolution. *)
LEMMA AddsCounted ==
    ASSUME script \in Scripts
    PROVE  /\ AddsUpTo(0) = 0
           /\ \A k \in 0 .. Len(script) : AddsUpTo(k) \in Nat /\ AddsUpTo(k) <= MaxItems
           /\ \A k \in Nat : k < Len(script) =>
                AddsUpTo(k + 1) = IF script[k + 1].op = "add" THEN AddsUpTo(k) + 1
                                  ELSE AddsUpTo(k)
           /\ \A j, k \in 0 .. Len(script) : j <= k => AddsUpTo(j) <= AddsUpTo(k)
  <1> DEFINE A == Adds(script)
             S(k) == A \cap (1 .. k)
  <1>1. /\ Len(script) \in Nat /\ A \subseteq 1 .. Len(script) /\ IsFiniteSet(A)
        /\ Cardinality(A) <= MaxItems
        /\ \A i \in 1 .. Len(script) : i \in A <=> script[i].op = "add"
    BY ScriptFacts
  <1>2. \A k : AddsUpTo(k) = Cardinality(S(k))
    BY DEF AddsUpTo
  <1>3. Cardinality(A) \in Nat /\ MaxItems \in Nat
    BY <1>1, FS_CardinalityType, GuideConstants
  <1> HIDE DEF A
  <1>4. \A k : IsFiniteSet(S(k)) /\ Cardinality(S(k)) \in Nat /\ Cardinality(S(k)) <= Cardinality(A)
    BY <1>1, <1>3, FS_Subset, FS_CardinalityType
  <1>5. ASSUME NEW k \in Nat, k < Len(script)
        PROVE  Cardinality(S(k + 1)) = IF k + 1 \in A THEN Cardinality(S(k)) + 1
                                       ELSE Cardinality(S(k))
    <2>1. CASE k + 1 \in A
      <3>1. S(k + 1) = S(k) \cup {k + 1} /\ k + 1 \notin S(k)
        BY <1>5, <2>1
      <3> HIDE DEF S
      <3> QED
        BY <1>4, <2>1, <3>1, FS_AddElement
    <2>2. CASE k + 1 \notin A
      <3>1. S(k + 1) = S(k)
        BY <1>1, <1>5, <2>2
      <3> QED
        BY <2>2, <3>1
    <2> QED
      BY <2>1, <2>2
  <1>6. \A k \in Nat : k < Len(script) => k + 1 \in 1 .. Len(script)
    BY <1>1
  <1>7. S(0) = {}
    OBVIOUS
  <1>8. ASSUME NEW j \in 0 .. Len(script), NEW k \in 0 .. Len(script), j <= k
        PROVE  Cardinality(S(j)) <= Cardinality(S(k))
    <2>1. S(j) \subseteq S(k)
      BY <1>8
    <2> HIDE DEF S
    <2> QED
      BY <1>4, <2>1, FS_Subset
  <1> HIDE DEF S
  <1>9. Cardinality(S(0)) = 0
    BY <1>7, FS_EmptySet
  <1> QED
    BY <1>1, <1>2, <1>3, <1>4, <1>5, <1>6, <1>8, <1>9

(* A call of add_resolution is the registration after those of the calls before it. *)
LEMMA AddNumber ==
    ASSUME script \in Scripts, NEW k \in 0 .. Len(script), NEW i \in Adds(script) \cap (1 .. k)
    PROVE  AddsUpTo(i) \in 1 .. AddsUpTo(k)
  <1>1. /\ Len(script) \in Nat /\ i \in 1 .. Len(script) /\ script[i].op = "add"
    BY ScriptFacts
  <1>2. i - 1 \in 0 .. Len(script) /\ i - 1 \in Nat /\ i - 1 < Len(script) /\ (i - 1) + 1 = i
        /\ i \in 0 .. Len(script) /\ i <= k
    BY <1>1
  <1>3. AddsUpTo(i) = AddsUpTo(i - 1) + 1
    <2>1. AddsUpTo((i - 1) + 1) = AddsUpTo(i - 1) + 1
      BY <1>1, <1>2, AddsCounted
    <2> QED
      BY <1>2, <2>1
  <1>4. AddsUpTo(i - 1) \in Nat /\ AddsUpTo(i) <= AddsUpTo(k) /\ AddsUpTo(k) \in Nat
    BY <1>2, AddsCounted
  <1> QED
    BY <1>3, <1>4

-----------------------------------------------------------------------------
(* The live run: its calls *)

LEMMA BoxFacts ==
    ASSUME CallInv
    PROVE  /\ script \in Scripts /\ Len(script) \in Nat
           /\ live_at \in 0 .. Len(script) /\ Called \in 0 .. Len(script)
           /\ registrations \in Nat /\ registrations <= Len(box)
           /\ Len(box) \in Nat /\ Len(box) <= MaxItems
           /\ live_pc # "internalize" => Called = live_at /\ registrations = Len(box)
           /\ \A n \in 0 .. Len(box) - 1 : ResolverOf(n) \in Resolvers \cup {NoResolver}
  <1>1. script \in Scripts /\ Len(script) \in Nat
    BY ScriptFacts DEF CallInv
  <1>2. live_at \in 0 .. Len(script) /\ Called \in 0 .. Len(script) /\ live_at <= Called
    BY <1>1 DEF CallInv, Called
  <1>3. /\ registrations = AddsUpTo(live_at) /\ Len(box) = AddsUpTo(Called)
        /\ box \in Seq(Resolvers \cup {NoResolver})
    BY DEF CallInv
  <1>4. /\ AddsUpTo(live_at) \in Nat /\ AddsUpTo(Called) \in Nat /\ AddsUpTo(Called) <= MaxItems
        /\ AddsUpTo(live_at) <= AddsUpTo(Called)
    BY <1>1, <1>2, AddsCounted
  <1>5. live_pc # "internalize" => Called = live_at
    BY DEF Called
  <1>6. \A n \in 0 .. Len(box) - 1 : ResolverOf(n) \in Resolvers \cup {NoResolver}
    <2> TAKE n \in 0 .. Len(box) - 1
    <2>1. n + 1 \in 1 .. Len(box)
      BY <1>3, <1>4
    <2> QED
      BY <1>3, <2>1, ElementOfSeq DEF ResolverOf
  <1> QED
    BY <1>1, <1>2, <1>3, <1>4, <1>5, <1>6

(* What the steps of the live run do to the calls and the box. *)
LEMMA CallInvKept ==
    ASSUME CallInv, Recording
    PROVE  CallInv'
  <1>1. /\ script \in Scripts /\ Len(script) \in Nat /\ live_at \in 0 .. Len(script)
        /\ Called \in 0 .. Len(script) /\ Len(box) \in Nat
        /\ box \in Seq(Resolvers \cup {NoResolver})
        /\ registrations = AddsUpTo(live_at) /\ Len(box) = AddsUpTo(Called)
        /\ \A i \in Adds(script) \cap (1 .. Called) : box[AddsUpTo(i)] = script[i].resolver
    BY BoxFacts DEF CallInv
  <1>2. script' = script
    BY DEF Recording, LiveSet, LiveAdd, LiveReturn, LiveAwait, LiveFinalFlush, LiveInternalize
  <1>3. ASSUME live_at < Len(script)
        PROVE  /\ AddsUpTo(live_at + 1) = IF LiveCall.op = "add" THEN AddsUpTo(live_at) + 1
                                          ELSE AddsUpTo(live_at)
               /\ LiveCall.resolver \in Resolvers \cup {NoResolver}
               /\ live_at + 1 \in Nat /\ live_at + 1 <= Len(script)
    <2>1. live_at \in Nat /\ live_at + 1 \in 1 .. Len(script)
      BY <1>1, <1>3
    <2> QED
      BY <1>1, <1>3, <2>1, AddsCounted, ScriptFacts DEF LiveCall
  <1> DEFINE Good(pc, at, called, regs, b) ==
                /\ pc \in {"call", "internalize", "recorded"}
                /\ at \in Nat /\ called <= Len(script)
                /\ pc = "recorded" => at = Len(script)
                /\ regs = AddsUpTo(at)
                /\ b \in Seq(Resolvers \cup {NoResolver}) /\ Len(b) = AddsUpTo(called)
                /\ \A i \in Adds(script) \cap (1 .. called) : b[AddsUpTo(i)] = script[i].resolver
  <1>4. Good(live_pc', live_at', Called', registrations', box') => CallInv'
    BY <1>1, <1>2 DEF CallInv, AddsUpTo
  <1>5. \A i \in Adds(script) : script[i].op = "add"
    BY <1>1, ScriptFacts
  <1>6. ASSUME live_at < Len(script), LiveCall.op # "add"
        PROVE  Adds(script) \cap (1 .. live_at + 1) = Adds(script) \cap (1 .. live_at)
    <2>1. live_at + 1 \notin Adds(script)
      BY <1>5, <1>6 DEF LiveCall
    <2>2. \A i \in 1 .. live_at + 1 : i \in 1 .. live_at \/ i = live_at + 1
      BY <1>1
    <2>3. \A i \in 1 .. live_at : i \in 1 .. live_at + 1
      BY <1>1
    <2> QED
      BY <2>1, <2>2, <2>3
  <1> HIDE DEF Good
  <1>7. CASE LiveSet
    <2>1. /\ live_pc = "call" /\ live_at < Len(script) /\ LiveCall.op = "set"
          /\ live_pc' = "internalize" /\ live_at' = live_at
          /\ registrations' = registrations /\ box' = box
      BY <1>7 DEF LiveSet
    <2>2. Called = live_at /\ Called' = live_at + 1
      BY <2>1 DEF Called
    <2>3. AddsUpTo(live_at + 1) = AddsUpTo(live_at)
      BY <1>3, <2>1
    <2>4. Good("internalize", live_at, live_at + 1, registrations, box)
      BY <1>1, <1>3, <1>6, <2>1, <2>2, <2>3 DEF Good
    <2> QED
      BY <1>4, <2>1, <2>2, <2>4
  <1>8. CASE LiveAdd
    <2>1. /\ live_pc = "call" /\ live_at < Len(script) /\ LiveCall.op = "add"
          /\ live_pc' = "internalize" /\ live_at' = live_at
          /\ registrations' = registrations /\ box' = Append(box, LiveCall.resolver)
      BY <1>8 DEF LiveAdd
    <2>2. Called = live_at /\ Called' = live_at + 1
      BY <2>1 DEF Called
    <2>3. AddsUpTo(live_at + 1) = AddsUpTo(live_at) + 1
      BY <1>3, <2>1
    <2>4. /\ box' \in Seq(Resolvers \cup {NoResolver}) /\ Len(box') = Len(box) + 1
          /\ \A n \in 1 .. Len(box) : box'[n] = box[n]
          /\ box'[Len(box) + 1] = LiveCall.resolver
      BY <1>1, <1>3, <2>1, AppendByPosition
    <2>5. ASSUME NEW i \in Adds(script) \cap (1 .. live_at + 1)
          PROVE  box'[AddsUpTo(i)] = script[i].resolver
      <3>1. CASE i = live_at + 1
        <4>1. AddsUpTo(i) = Len(box) + 1
          BY <1>1, <2>2, <2>3, <3>1
        <4> QED
          BY <2>4, <3>1, <4>1 DEF LiveCall
      <3>2. CASE i # live_at + 1
        <4>1. i \in Adds(script) \cap (1 .. live_at)
          BY <1>1, <2>5, <3>2
        <4>2. AddsUpTo(i) \in 1 .. Len(box)
          BY <1>1, <2>2, <4>1, AddNumber
        <4> QED
          BY <1>1, <2>2, <2>4, <4>1, <4>2
      <3> QED
        BY <3>1, <3>2
    <2>6. Len(box') = AddsUpTo(live_at + 1)
      BY <1>1, <2>2, <2>3, <2>4
    <2>7. live_at \in Nat /\ live_at + 1 <= Len(script) /\ registrations = AddsUpTo(live_at)
      BY <1>1, <1>3, <2>1
    <2>8. Good("internalize", live_at, live_at + 1, registrations, box')
      BY <2>4, <2>5, <2>6, <2>7 DEF Good
    <2> QED
      BY <1>4, <2>1, <2>2, <2>8
  <1>9. CASE LiveReturn
    <2>1. /\ live_pc = "internalize" /\ live_pc' = "call" /\ live_at' = live_at + 1
          /\ registrations' = (IF LiveCall.op = "add" THEN registrations + 1 ELSE registrations)
          /\ box' = box
      BY <1>9 DEF LiveReturn
    <2>2. Called = live_at + 1 /\ Called' = live_at + 1
      BY <2>1 DEF Called
    <2>3. live_at < Len(script)
      BY <1>1, <2>2
    <2>4. registrations' = AddsUpTo(live_at + 1)
      BY <1>1, <1>3, <2>1, <2>3
    <2>5. Good("call", live_at + 1, live_at + 1, registrations', box)
      BY <1>1, <1>3, <2>2, <2>3, <2>4 DEF Good
    <2> QED
      BY <1>4, <2>1, <2>2, <2>5
  <1>10. CASE LiveAwait
    <2>1. /\ live_pc = "call" /\ live_at < Len(script) /\ LiveCall.op = "await"
          /\ live_pc' = "call" /\ live_at' = live_at + 1
          /\ registrations' = registrations /\ box' = box
      BY <1>10 DEF LiveAwait
    <2>2. Called = live_at /\ Called' = live_at + 1
      BY <2>1 DEF Called
    <2>3. AddsUpTo(live_at + 1) = AddsUpTo(live_at)
      BY <1>3, <2>1
    <2>4. Good("call", live_at + 1, live_at + 1, registrations, box)
      BY <1>1, <1>3, <1>6, <2>1, <2>2, <2>3 DEF Good
    <2> QED
      BY <1>4, <2>1, <2>2, <2>4
  <1>11. CASE LiveFinalFlush
    <2>1. /\ live_pc = "call" /\ live_at = Len(script) /\ live_pc' = "recorded"
          /\ live_at' = live_at /\ registrations' = registrations /\ box' = box
      BY <1>11 DEF LiveFinalFlush
    <2>2. Called = live_at /\ Called' = live_at
      BY <2>1 DEF Called
    <2>3. Good("recorded", live_at, live_at, registrations, box)
      BY <1>1, <2>1, <2>2 DEF Good
    <2> QED
      BY <1>4, <2>1, <2>2, <2>3
  <1>12. ASSUME NEW n \in work, LiveInternalize(n) PROVE CallInv'
    <2>1. /\ live_pc' = live_pc /\ live_at' = live_at /\ registrations' = registrations
          /\ box' = box
      BY <1>12 DEF LiveInternalize
    <2>2. Called' = Called
      BY <2>1 DEF Called
    <2>3. Good(live_pc, live_at, Called, registrations, box)
      BY DEF Good, CallInv
    <2> QED
      BY <1>4, <2>1, <2>2, <2>3
  <1> QED
    BY <1>7, <1>8, <1>9, <1>10, <1>11, <1>12 DEF Recording

-----------------------------------------------------------------------------
(* The live run: what is pushed *)

LEMMA PushedFacts ==
    ASSUME GuideInv, CallInv, PushedInv
    PROVE  /\ Len(loc) \in Nat /\ Items = 1 .. Len(loc) /\ Len(box) \in Nat
           /\ \A t \in Items : /\ pushed[t] \in 0 .. Len(box) - 1
                               /\ pushed[t] \in Nat /\ pushed[t] \in RegNums
           /\ \A k \in 1 .. Len(order) : order[k].item \in Items
  <1>1. Len(loc) \in Nat /\ Items = 1 .. Len(loc)
    BY GuideTypes DEF Items
  <1>2. Len(box) \in Nat /\ Len(box) <= MaxItems /\ MaxItems \in Nat
    BY BoxFacts, GuideConstants
  <1>3. \A t \in Items : pushed[t] \in 0 .. Len(box) - 1
    BY <1>1, ElementOfSeq DEF PushedInv
  <1>4. \A t \in Items : pushed[t] \in Nat /\ pushed[t] \in RegNums
    BY <1>2, <1>3 DEF RegNums
  <1> QED
    BY <1>1, <1>2, <1>3, <1>4, OrderedItems

(* A registration on the stack of internalize is not pushed yet, so there is room. *)
LEMMA RoomToPush ==
    ASSUME GuideInv, CallInv, PushedInv, NEW n \in work
    PROVE  Len(loc) < MaxItems
  <1> DEFINE all == 0 .. Len(box) - 1
             rest == all \ {n}
             f == [t \in 1 .. Len(loc) |-> pushed[t]]
  <1>1. /\ Len(loc) \in Nat /\ Items = 1 .. Len(loc)
        /\ Len(box) \in Nat /\ Len(box) <= MaxItems /\ MaxItems \in Nat
    BY PushedFacts, BoxFacts, GuideConstants
  <1>2. IsFiniteSet(all) /\ Cardinality(all) = Len(box)
    <2>1. 0 \in Int /\ Len(box) - 1 \in Int
      BY <1>1
    <2>2. IsFiniteSet(all) /\ Cardinality(all) = IF 0 > Len(box) - 1 THEN 0 ELSE Len(box) - 1 - 0 + 1
      BY <2>1, FS_Interval
    <2> QED
      BY <1>1, <2>2
  <1>3. n \in all
    BY DEF PushedInv
  <1>4. f \in Injection(1 .. Len(loc), rest)
    <2>1. \A t \in 1 .. Len(loc) : pushed[t] \in all /\ pushed[t] # n
      BY <1>1, PushedFacts DEF PushedInv
    <2>2. f \in [1 .. Len(loc) -> rest]
      BY <2>1
    <2>3. \A s, t \in 1 .. Len(loc) : f[s] = f[t] => s = t
      BY <1>1 DEF PushedInv
    <2> HIDE DEF f, rest
    <2> QED
      BY <2>2, <2>3 DEF Injection, IsInjective
  <1> HIDE DEF f, all
  <1>5. IsFiniteSet(rest) /\ Cardinality(rest) = Len(box) - 1
    BY <1>2, <1>3, FS_RemoveElement
  <1> HIDE DEF rest
  <1>6. Cardinality(1 .. Len(loc)) <= Cardinality(rest)
    BY <1>4, <1>5, FS_Injection
  <1>7. Cardinality(1 .. Len(loc)) = Len(loc)
    <2>1. 1 \in Int /\ Len(loc) \in Int
      BY <1>1
    <2>2. Cardinality(1 .. Len(loc)) = IF 1 > Len(loc) THEN 0 ELSE Len(loc) - 1 + 1
      BY <2>1, FS_Interval
    <2> QED
      BY <1>1, <2>2
  <1> QED
    BY <1>1, <1>5, <1>6, <1>7

LEMMA ItemAfterIsItem ==
    ASSUME GuideInv, NEW locs
    PROVE  ItemAfter(locs) \in 0 .. Len(loc)
  <1> DEFINE last(k) == loc[k] \in locs /\ \A l \in locs : ~Precedes(loc[k], l)
  <1>1. ItemAfter(locs) = IF \E k \in Items : last(k) THEN CHOOSE k \in Items : last(k) ELSE 0
    BY DEF ItemAfter
  <1> HIDE DEF last
  <1>2. ItemAfter(locs) \in Items \/ ItemAfter(locs) = 0
    BY <1>1
  <1>3. Len(loc) \in Nat
    BY GuideTypes
  <1> QED
    BY <1>2, <1>3 DEF Items

(* internalize_one: one item more, the order only grows. *)
LEMMA InternalizeFrame ==
    ASSUME GuideInv, CallInv, PushedInv, NEW n \in work, LiveInternalize(n)
    PROVE  /\ GuideInv' /\ OrderGrows
           /\ Len(loc') = Len(loc) + 1 /\ Len(pushed') = Len(loc) + 1
           /\ pushed' \in Seq(0 .. Len(box) - 1)
           /\ \A t \in Items : pushed'[t] = pushed[t]
           /\ pushed'[Len(loc) + 1] = n
           /\ Items' = Items \cup {Len(loc) + 1} /\ Len(loc) + 1 \notin Items
           /\ UNCHANGED <<script, live_pc, live_at, registrations, box>>
           /\ record' = Ordered(record)
           /\ n \notin work' \cup delayed' \/ n \in delayed
           /\ work' \cup delayed' = (work \cup delayed) \ ({n} \ delayed)
           /\ work' \cap delayed' = {}
  <1> DEFINE a == ItemAfter({live_tracker[p] : p \in ResolverOf(n).ins})
  <1>1. /\ Push(a) /\ pushed' = Append(pushed, n)
        /\ UNCHANGED <<script, live_pc, live_at, registrations, box>>
        /\ record' = Ordered(record)
    BY DEF LiveInternalize
  <1>2. a \in 0 .. Len(loc)
    BY ItemAfterIsItem
  <1> HIDE DEF a
  <1>3. Len(loc) < MaxItems
    BY RoomToPush
  <1>4. GuideInv'
    BY <1>1, <1>2, <1>3, PushExistingInv, PushNewInv DEF Push
  <1>5. OrderGrows /\ \E l \in GuideLocs : loc' = Append(loc, l)
    BY <1>1, <1>2, <1>3, PushGrows
  <1>6. /\ Len(loc) \in Nat /\ Items = 1 .. Len(loc) /\ loc \in Seq(GuideLocs)
        /\ pushed \in Seq(0 .. Len(box) - 1) /\ Len(pushed) = Len(loc)
        /\ n \in 0 .. Len(box) - 1
    BY GuideTypes, PushedFacts DEF PushedInv
  <1>7. Len(loc') = Len(loc) + 1
    BY <1>5, <1>6, AppendByPosition
  <1>8. /\ Len(pushed') = Len(loc) + 1 /\ pushed' \in Seq(0 .. Len(box) - 1)
        /\ \A t \in 1 .. Len(loc) : pushed'[t] = pushed[t]
        /\ pushed'[Len(loc) + 1] = n
    BY <1>1, <1>6, AppendByPosition
  <1>9. Items' = Items \cup {Len(loc) + 1} /\ Len(loc) + 1 \notin Items
    BY <1>6, <1>7 DEF Items
  <1>10. /\ work' = (work \ {n}) \cup Freed(delayed, live_tracked')
         /\ delayed' = delayed \ work'
         /\ Freed(delayed, live_tracked') \subseteq delayed
    BY DEF LiveInternalize, Freed
  <1>11. /\ n \notin work' \cup delayed' \/ n \in delayed
         /\ work' \cup delayed' = (work \cup delayed) \ ({n} \ delayed)
         /\ work' \cap delayed' = {}
    BY <1>10
  <1> QED
    BY <1>1, <1>4, <1>5, <1>6, <1>7, <1>8, <1>9, <1>11

LEMMA PushedInvKept ==
    ASSUME GuideInv, CallInv, PushedInv, Recording
    PROVE  PushedInv'
  <1>1. /\ Len(loc) \in Nat /\ Items = 1 .. Len(loc)
        /\ registrations \in Nat /\ Len(box) \in Nat /\ box \in Seq(Resolvers \cup {NoResolver})
        /\ live_pc # "internalize" => registrations = Len(box)
        /\ pushed \in Seq(0 .. Len(box) - 1) /\ Len(pushed) = Len(loc)
    BY PushedFacts, BoxFacts DEF PushedInv, CallInv
  <1>2. CASE LiveSet
    <2>1. /\ live_pc = "call" /\ live_pc' = "internalize" /\ box' = box /\ pushed' = pushed
          /\ loc' = loc /\ work' = Freed(delayed, live_tracked')
          /\ delayed' = delayed \ work'
      BY <1>2 DEF LiveSet, guide_vars
    <2>2. work = {} /\ work' \subseteq delayed
      BY <2>1 DEF PushedInv, Freed
    <2>3. /\ delayed' \cup work' = delayed \cup work /\ delayed' \cap work' = {}
      BY <2>1, <2>2
    <2> QED
      BY <2>1, <2>3 DEF PushedInv, Items
  <1>3. CASE LiveAdd
    <2>1. /\ live_pc = "call" /\ live_pc' = "internalize" /\ pushed' = pushed /\ loc' = loc
          /\ box' = Append(box, LiveCall.resolver)
          /\ work' \subseteq {registrations}
          /\ delayed' = delayed \cup ({registrations} \ work')
          /\ live_at < Len(script)
      BY <1>3 DEF LiveAdd, guide_vars
    <2>2. work = {} /\ registrations = Len(box) /\ delayed \subseteq 0 .. Len(box) - 1
      BY <1>1, <2>1 DEF PushedInv
    <2>3. Len(box') = Len(box) + 1
      <3>1. LiveCall.resolver \in Resolvers \cup {NoResolver}
        <4>1. live_at + 1 \in 1 .. Len(script)
          BY <2>1, BoxFacts
        <4> QED
          BY <4>1, ScriptFacts, BoxFacts DEF LiveCall
      <3> QED
        BY <1>1, <2>1, <3>1, AppendByPosition
    <2>4. Len(box) \notin 0 .. Len(box) - 1
      BY <1>1
    <2>5. /\ delayed' \cup work' = (delayed \cup work) \cup {Len(box)}
          /\ delayed' \cap work' = {}
      BY <2>1, <2>2, <2>4
    <2>6. 0 .. Len(box') - 1 = (0 .. Len(box) - 1) \cup {Len(box)}
      BY <1>1, <2>3
    <2>7. pushed \in Seq(0 .. Len(box') - 1)
      <3>1. \A t \in 1 .. Len(pushed) : pushed[t] \in 0 .. Len(box') - 1
        BY <1>1, <2>6, ElementOfSeq
      <3>2. pushed = [t \in 1 .. Len(pushed) |-> pushed[t]] /\ Len(pushed) \in Nat
        BY <1>1
      <3> HIDE DEF Items
      <3> QED
        BY <3>1, <3>2
    <2>8. \A t \in Items : pushed[t] # Len(box)
      BY <2>4, PushedFacts
    <2> HIDE DEF Freed
    <2>9. live_pc' # "recorded" /\ Items' = Items /\ Len(pushed') = Len(loc')
      BY <1>1, <2>1 DEF Items
    <2>10. delayed' \cup work' \subseteq 0 .. Len(box') - 1
      BY <2>5, <2>6 DEF PushedInv
    <2>11. \A t \in Items' : pushed'[t] \notin delayed' \cup work'
      BY <2>1, <2>5, <2>8, <2>9 DEF PushedInv
    <2>12. \A m \in 0 .. Len(box') - 1 :
                m \in delayed' \cup work' \/ \E t \in Items' : pushed'[t] = m
      BY <2>1, <2>5, <2>6, <2>9 DEF PushedInv
    <2>13. \A s, t \in Items' : pushed'[s] = pushed'[t] => s = t
      BY <2>1, <2>9 DEF PushedInv
    <2> QED
      BY <2>1, <2>5, <2>7, <2>9, <2>10, <2>11, <2>12, <2>13 DEF PushedInv
  <1>4. CASE LiveReturn
    <2>1. /\ live_pc' = "call" /\ work = {} /\ box' = box /\ pushed' = pushed /\ loc' = loc
          /\ work' = work /\ delayed' = delayed
      BY <1>4 DEF LiveReturn, guide_vars
    <2> QED
      BY <2>1 DEF PushedInv, Items
  <1>5. CASE LiveAwait
    <2>1. /\ live_pc = "call" /\ live_pc' = live_pc /\ box' = box /\ pushed' = pushed
          /\ loc' = loc /\ work' = work /\ delayed' = delayed
      BY <1>5 DEF LiveAwait, Flushed, Flush
    <2> QED
      BY <2>1 DEF PushedInv, Items
  <1>6. CASE LiveFinalFlush
    <2>1. /\ live_pc = "call" /\ delayed = {} /\ box' = box /\ pushed' = pushed
          /\ loc' = loc /\ work' = work /\ delayed' = delayed /\ Flush
      BY <1>6 DEF LiveFinalFlush, Flushed, Flush
    <2>2. \A i \in SpanIxs : spans'[i] = << >>
      BY <2>1, FlushEmpties
    <2> QED
      BY <2>1, <2>2 DEF PushedInv, Items
  <1>7. ASSUME NEW n \in work, LiveInternalize(n) PROVE PushedInv'
    <2>1. /\ Len(loc') = Len(loc) + 1 /\ Len(pushed') = Len(loc) + 1
          /\ pushed' \in Seq(0 .. Len(box) - 1)
          /\ \A t \in Items : pushed'[t] = pushed[t]
          /\ pushed'[Len(loc) + 1] = n
          /\ Items' = Items \cup {Len(loc) + 1} /\ Len(loc) + 1 \notin Items
          /\ box' = box /\ live_pc' = live_pc
          /\ n \notin work' \cup delayed' \/ n \in delayed
          /\ work' \cup delayed' = (work \cup delayed) \ ({n} \ delayed)
          /\ work' \cap delayed' = {}
      BY <1>7, InternalizeFrame
    <2>2. n \notin delayed /\ live_pc = "internalize"
      BY <1>7 DEF PushedInv, LiveInternalize
    <2>3. work' \cup delayed' = (work \cup delayed) \ {n}
      BY <2>1, <2>2
    <2>4. \A t \in Items : pushed[t] # n
      BY <1>7 DEF PushedInv
    <2>5. ASSUME NEW s \in Items', NEW t \in Items', pushed'[s] = pushed'[t]
          PROVE  s = t
      <3>1. CASE s \in Items /\ t \in Items
        BY <2>1, <2>5, <3>1 DEF PushedInv
      <3>2. CASE s \notin Items /\ t \notin Items
        BY <2>1, <3>2
      <3>3. CASE s \in Items /\ t \notin Items
        BY <2>1, <2>4, <2>5, <3>3
      <3>4. CASE s \notin Items /\ t \in Items
        BY <2>1, <2>4, <2>5, <3>4
      <3> QED
        BY <3>1, <3>2, <3>3, <3>4
    <2>6. \A t \in Items' : pushed'[t] \notin work' \cup delayed'
      BY <2>1, <2>3 DEF PushedInv
    <2>7. ASSUME NEW m \in 0 .. Len(box) - 1
          PROVE  m \in work' \cup delayed' \/ \E t \in Items' : pushed'[t] = m
      <3>1. CASE m = n
        BY <2>1, <3>1
      <3>2. CASE m # n /\ m \in delayed \cup work
        BY <2>3, <3>2
      <3>3. CASE \E t \in Items : pushed[t] = m
        BY <2>1, <3>3
      <3> QED
        BY <3>1, <3>2, <3>3 DEF PushedInv
    <2> QED
      BY <2>1, <2>2, <2>3, <2>5, <2>6, <2>7 DEF PushedInv
  <1> QED
    BY <1>2, <1>3, <1>4, <1>5, <1>6, <1>7 DEF Recording

-----------------------------------------------------------------------------
(* The live run: the record *)

(* write_order, with the order of the next state: every registration of the order has
   its place and its parallelism, and the recorded lengths are left alone. *)
LEMMA OrderedRecords ==
    ASSUME RecordInv, GuideInv', OrderGrows,
           \A t \in 1 .. Len(loc') : pushed'[t] \in RegNums,
           \A s, t \in 1 .. Len(loc') : pushed'[s] = pushed'[t] => s = t,
           \A k \in 1 .. Len(order) : pushed'[order[k].item] = pushed[order[k].item]
    PROVE  /\ Ordered(record) \in [RegNums -> RecordItems]
           /\ \A n \in RegNums : Ordered(record)[n].order_len = record[n].order_len
           /\ \A k \in 1 .. Len(order') :
                /\ Ordered(record)[pushed'[order'[k].item]].order_ix = k - 1
                /\ Ordered(record)[pushed'[order'[k].item]].parallelism = order'[k].parallelism
  <1> DEFINE at(k) == pushed'[order'[k].item]
             new == Len(order) + 1 .. Len(order')
             K(n) == CHOOSE k \in new : at(k) = n
             O == Ordered(record)
  <1>1. /\ Len(order) \in Nat /\ Len(order') \in Nat /\ Len(order) <= Len(order')
        /\ \A k \in 1 .. Len(order) : order'[k] = order[k]
    BY DEF OrderGrows
  <1>2. /\ \A k \in 1 .. Len(order') :
              order'[k].item \in 1 .. Len(loc') /\ order'[k].parallelism \in Nat
        /\ \A j, k \in 1 .. Len(order') : order'[j].item = order'[k].item => j = k
    BY ItemsInOrder DEF GuideInv
  <1>3. \A k \in 1 .. Len(order') : at(k) \in RegNums
    BY <1>2
  <1>4. \A j, k \in 1 .. Len(order') : at(j) = at(k) => j = k
    BY <1>2
  <1>5. \A k \in 1 .. Len(order) : k \in 1 .. Len(order') /\ at(k) = pushed[order[k].item]
    BY <1>1
  <1>6. \A k \in new : k \in 1 .. Len(order') /\ k - 1 \in Nat /\ k \notin 1 .. Len(order)
    BY <1>1
  <1>7. \A k \in 1 .. Len(order') : k \in 1 .. Len(order) \/ k \in new
    BY <1>1
  <1> HIDE DEF at, new
  <1>8. O = [n \in RegNums |->
                IF \E k \in new : at(k) = n
                THEN [record[n] EXCEPT !.order_ix = K(n) - 1,
                                       !.parallelism = order'[K(n)].parallelism]
                ELSE record[n]]
    BY DEF Ordered, at, new
  <1> HIDE DEF O
  <1>9. \A k \in new : K(at(k)) = k
    BY <1>4, <1>6
  <1> HIDE DEF K
  <1>10. \A n \in RegNums : record[n] \in RecordItems
    BY DEF RecordInv
  <1>11. ASSUME NEW n \in RegNums, NEW k \in new, at(k) = n
         PROVE  /\ O[n] \in RecordItems /\ O[n].order_len = record[n].order_len
                /\ O[n].order_ix = k - 1 /\ O[n].parallelism = order'[k].parallelism
    <2>1. K(n) = k /\ k - 1 \in Nat /\ order'[k].parallelism \in Nat
      BY <1>2, <1>6, <1>9, <1>11
    <2>2. O[n] = [record[n] EXCEPT !.order_ix = k - 1, !.parallelism = order'[k].parallelism]
      BY <1>8, <1>11, <2>1
    <2>3. record[n] \in RecordItems
      BY <1>10
    <2> QED
      BY <2>1, <2>2, <2>3 DEF RecordItems
  <1>12. ASSUME NEW n \in RegNums, ~\E k \in new : at(k) = n
         PROVE  O[n] = record[n]
    BY <1>8, <1>12
  <1>13. O \in [RegNums -> RecordItems]
    <2>1. \A n \in RegNums : O[n] \in RecordItems
      BY <1>10, <1>11, <1>12
    <2>2. DOMAIN O = RegNums /\ O = [n \in RegNums |-> O[n]]
      BY <1>8
    <2> QED
      BY <2>1, <2>2
  <1>14. \A n \in RegNums : O[n].order_len = record[n].order_len
    BY <1>11, <1>12
  <1>15. ASSUME NEW k \in 1 .. Len(order')
         PROVE  O[at(k)].order_ix = k - 1 /\ O[at(k)].parallelism = order'[k].parallelism
    <2>1. CASE k \in new
      BY <1>3, <1>11, <2>1
    <2>2. CASE k \in 1 .. Len(order)
      <3>1. ~\E j \in new : at(j) = at(k)
        BY <1>4, <1>5, <1>6, <2>2
      <3>2. O[at(k)] = record[at(k)]
        BY <1>3, <1>12, <3>1
      <3> QED
        BY <1>1, <1>5, <2>2, <3>2 DEF RecordInv
    <2> QED
      BY <1>7, <2>1, <2>2
  <1> QED
    BY <1>13, <1>14, <1>15 DEF at, O

(* A length that was recorded stays right when the order grows. *)
LEMMA LengthsKept ==
    ASSUME RecordInv, OrderGrows, NEW n \in 0 .. registrations - 1, n \in RegNums,
           \A k \in 1 .. Len(order) : pushed'[order[k].item] = pushed[order[k].item]
    PROVE  /\ record[n].order_len <= Len(order')
           /\ \A k \in 1 .. record[n].order_len : pushed'[order'[k].item] <= n
  <1>1. /\ Len(order) \in Nat /\ Len(order') \in Nat /\ Len(order) <= Len(order')
        /\ \A k \in 1 .. Len(order) : order'[k] = order[k]
    BY DEF OrderGrows
  <1>2. /\ record[n].order_len <= Len(order)
        /\ \A k \in 1 .. record[n].order_len : pushed[order[k].item] <= n
    BY DEF RecordInv
  <1>3. record[n].order_len \in Nat
    <2>1. record[n] \in RecordItems
      BY DEF RecordInv
    <2> QED
      BY <2>1 DEF RecordItems
  <1> QED
    BY <1>1, <1>2, <1>3

LEMMA RegistrationNumbers ==
    ASSUME CallInv
    PROVE  /\ \A n \in 0 .. Len(box) - 1 : n \in RegNums /\ n \in Nat
           /\ \A n \in 0 .. registrations - 1 : n \in RegNums /\ n \in Nat
  <1>1. /\ registrations \in Nat /\ registrations <= Len(box)
        /\ Len(box) \in Nat /\ Len(box) <= MaxItems /\ MaxItems \in Nat
    BY BoxFacts, GuideConstants
  <1> QED
    BY <1>1 DEF RegNums

(* The lengths a step of the live run writes: the one of the last registration. *)
LengthsWritten ==
    /\ \A n \in 0 .. registrations' - 1 :
            \/ n \in 0 .. registrations - 1 /\ record'[n].order_len = record[n].order_len
            \/ /\ n = registrations' - 1 /\ record'[n].order_len = Len(order')
               /\ LiveAwait \/ LiveFinalFlush \/ (LiveReturn /\ LiveCall.op = "add")
    /\ LiveFinalFlush /\ registrations > 0 =>
            record'[registrations - 1].order_len = Len(order')

(* flush of a client between two calls. *)
LEMMA FlushedRecord ==
    ASSUME GuideInv, CallInv, PushedInv, RecordInv, Flushed, live_pc = "call",
           registrations' = registrations
    PROVE  /\ RecordInv' /\ GuideInv'
           /\ \A n \in 0 .. registrations - 1 :
                record'[n].order_len = IF n = registrations - 1 THEN Len(order')
                                       ELSE record[n].order_len
  <1> DEFINE m == Max({1, registrations}) - 1
  <1>1. /\ Flush /\ pushed' = pushed /\ loc' = loc
        /\ record' = [Ordered(record) EXCEPT ![m].order_len = Len(order')]
    BY DEF Flushed, Flush
  <1>2. GuideInv' /\ OrderGrows
    BY <1>1, FlushInv, FlushGrows
  <1>3. /\ Len(loc) \in Nat /\ Items = 1 .. Len(loc)
        /\ registrations \in Nat /\ Len(box) = registrations
        /\ \A t \in Items : pushed[t] \in 0 .. Len(box) - 1 /\ pushed[t] \in RegNums
    BY PushedFacts, BoxFacts
  <1>4. m = IF registrations = 0 THEN 0 ELSE registrations - 1
    <2>1. Max({1, registrations}) = IF 1 >= registrations THEN 1 ELSE registrations
      BY <1>3, MaxOfTwo
    <2> QED
      BY <1>3, <2>1
  <1> HIDE DEF m
  <1>5. /\ Ordered(record) \in [RegNums -> RecordItems]
        /\ \A n \in RegNums : Ordered(record)[n].order_len = record[n].order_len
        /\ \A k \in 1 .. Len(order') :
             /\ Ordered(record)[pushed'[order'[k].item]].order_ix = k - 1
             /\ Ordered(record)[pushed'[order'[k].item]].parallelism = order'[k].parallelism
    <2>1. \A t \in 1 .. Len(loc') : pushed'[t] \in RegNums
      BY <1>1, <1>3
    <2>2. \A s, t \in 1 .. Len(loc') : pushed'[s] = pushed'[t] => s = t
      BY <1>1, <1>3 DEF PushedInv
    <2>3. \A k \in 1 .. Len(order) : pushed'[order[k].item] = pushed[order[k].item]
      BY <1>1
    <2> QED
      BY <1>2, <2>1, <2>2, <2>3, OrderedRecords
  <1> DEFINE O == Ordered(record)
  <1>6. O \in [RegNums -> RecordItems]
    BY <1>5
  <1>7. Len(order') \in Nat
    BY <1>2 DEF OrderGrows
  <1> HIDE DEF O
  <1>8. /\ record' \in [RegNums -> RecordItems]
        /\ \A n \in RegNums : /\ record'[n].order_ix = O[n].order_ix
                              /\ record'[n].parallelism = O[n].parallelism
                              /\ n # m => record'[n].order_len = O[n].order_len
                              /\ n = m => record'[n].order_len = Len(order')
    <2>1. record' = [O EXCEPT ![m].order_len = Len(order')]
      BY <1>1 DEF O
    <2>2. \A n \in RegNums : O[n] \in RecordItems
      BY <1>6
    <2>3. record' = [n \in RegNums |-> IF n = m THEN [O[m] EXCEPT !.order_len = Len(order')]
                                       ELSE O[n]]
      BY <1>6, <2>1
    <2>4. \A n \in RegNums : record'[n] = IF n = m THEN [O[n] EXCEPT !.order_len = Len(order')]
                                           ELSE O[n]
      BY <2>3
    <2>5. \A x \in RecordItems : LET y == [x EXCEPT !.order_len = Len(order')]
                                 IN  y \in RecordItems /\ y.order_ix = x.order_ix
                                     /\ y.parallelism = x.parallelism
                                     /\ y.order_len = Len(order')
      BY <1>7 DEF RecordItems
    <2> QED
      BY <2>2, <2>3, <2>4, <2>5
  <1>9. ASSUME NEW k \in 1 .. Len(order')
        PROVE  /\ record'[pushed'[order'[k].item]].order_ix = k - 1
               /\ record'[pushed'[order'[k].item]].parallelism = order'[k].parallelism
    <2>1. pushed'[order'[k].item] \in RegNums
      <3>1. order'[k].item \in 1 .. Len(loc')
        BY <1>2, ItemsInOrder DEF GuideInv
      <3> QED
        BY <1>1, <1>3, <3>1
    <2> QED
      BY <1>5, <1>8, <2>1 DEF O
  <1>10. ASSUME NEW n \in 0 .. registrations - 1
         PROVE  /\ record'[n].order_len <= Len(order')
                /\ \A k \in 1 .. record'[n].order_len : pushed'[order'[k].item] <= n
    <2>1. n \in RegNums
      BY RegistrationNumbers
    <2>2. CASE n = m
      <3>1. record'[n].order_len = Len(order')
        BY <1>8, <2>1, <2>2
      <3>2. n = registrations - 1
        BY <1>3, <1>4, <2>2
      <3>3. \A k \in 1 .. Len(order') : pushed'[order'[k].item] \in 0 .. registrations - 1
        <4>1. \A k \in 1 .. Len(order') : order'[k].item \in 1 .. Len(loc')
          BY <1>2, ItemsInOrder DEF GuideInv
        <4> QED
          BY <1>1, <1>3, <4>1
      <3> QED
        BY <1>3, <1>7, <3>1, <3>2, <3>3
    <2>3. CASE n # m
      <3>1. record'[n].order_len = record[n].order_len
        BY <1>5, <1>8, <2>1, <2>3 DEF O
      <3>2. \A k \in 1 .. Len(order) : pushed'[order[k].item] = pushed[order[k].item]
        BY <1>1
      <3> QED
        BY <1>2, <2>1, <3>1, <3>2, LengthsKept
    <2> QED
      BY <2>2, <2>3
  <1>11. \A n \in 0 .. registrations - 1 :
            /\ n \in RegNums /\ (n = m <=> n = registrations - 1)
            /\ record'[n].order_len = IF n = registrations - 1 THEN Len(order')
                                      ELSE record[n].order_len
    <2>1. \A n \in 0 .. registrations - 1 : n \in RegNums /\ (n = m <=> n = registrations - 1)
      BY <1>3, <1>4, RegistrationNumbers
    <2> QED
      BY <1>5, <1>8, <2>1 DEF O
  <1> QED
    BY <1>1, <1>2, <1>8, <1>9, <1>10, <1>11 DEF RecordInv

LEMMA RecordInvKept ==
    ASSUME GuideInv, CallInv, PushedInv, RecordInv, Recording
    PROVE  RecordInv' /\ GuideInv' /\ LengthsWritten
  <1>1. CASE LiveSet \/ LiveAdd
    <2>1. /\ record' = record /\ order' = order /\ pushed' = pushed
          /\ registrations' = registrations /\ UNCHANGED guide_vars
      BY <1>1 DEF LiveSet, LiveAdd, guide_vars
    <2>2. GuideInv'
      BY <2>1, NextGuideInv
    <2>3. LengthsWritten
      <3>1. ~LiveFinalFlush
        BY <1>1 DEF LiveSet, LiveAdd, LiveFinalFlush
      <3> QED
        BY <2>1, <3>1 DEF LengthsWritten
    <2> QED
      BY <2>1, <2>2, <2>3 DEF RecordInv
  <1>2. CASE LiveReturn
    <2>1. /\ live_pc = "internalize" /\ order' = order /\ pushed' = pushed
          /\ UNCHANGED guide_vars
          /\ IF LiveCall.op = "add"
             THEN /\ record' = [record EXCEPT ![registrations].order_len = Len(order)]
                  /\ registrations' = registrations + 1
             ELSE record' = record /\ registrations' = registrations
      BY <1>2 DEF LiveReturn, guide_vars
    <2>2. GuideInv'
      BY <2>1, NextGuideInv
    <2>3. ~LiveFinalFlush
      BY <2>1 DEF LiveFinalFlush
    <2>4. CASE LiveCall.op # "add"
      <3>1. LengthsWritten
        BY <2>1, <2>4, <2>3 DEF LengthsWritten
      <3> QED
        BY <2>1, <2>2, <2>4, <3>1 DEF RecordInv
    <2>5. CASE LiveCall.op = "add"
      <3>1. Called = live_at + 1 /\ live_at \in Nat /\ live_at < Len(script)
        BY <2>1, BoxFacts DEF Called
      <3>2. registrations \in Nat /\ Len(box) = registrations + 1
        <4>1. AddsUpTo(live_at + 1) = AddsUpTo(live_at) + 1
          BY <2>5, <3>1, BoxFacts, AddsCounted DEF LiveCall
        <4> QED
          BY <3>1, <4>1, BoxFacts DEF CallInv
      <3>3. registrations \in RegNums
        BY <3>2, RegistrationNumbers
      <3>4. /\ Len(order) \in Nat
            /\ \A k \in 1 .. Len(order) : /\ pushed[order[k].item] \in RegNums
                                          /\ pushed[order[k].item] \in 0 .. registrations
        <4>1. Len(box) - 1 = registrations
          BY <3>2
        <4> QED
          BY <4>1, OrderedItems, PushedFacts
      <3>5. /\ record' \in [RegNums -> RecordItems]
            /\ \A n \in RegNums : /\ record'[n].order_ix = record[n].order_ix
                                  /\ record'[n].parallelism = record[n].parallelism
                                  /\ n # registrations =>
                                        record'[n].order_len = record[n].order_len
                                  /\ n = registrations => record'[n].order_len = Len(order)
        <4>1. record \in [RegNums -> RecordItems]
          BY DEF RecordInv
        <4>2. \A n \in RegNums : record[n] \in RecordItems
          BY <4>1
        <4>3. record' = [n \in RegNums |->
                            IF n = registrations THEN [record[n] EXCEPT !.order_len = Len(order)]
                            ELSE record[n]]
          BY <2>1, <2>5, <4>1
        <4>4. \A x \in RecordItems : LET y == [x EXCEPT !.order_len = Len(order)]
                                     IN  y \in RecordItems /\ y.order_ix = x.order_ix
                                         /\ y.parallelism = x.parallelism
                                         /\ y.order_len = Len(order)
          BY <3>4 DEF RecordItems
        <4> QED
          BY <4>2, <4>3, <4>4
      <3>6. \A n \in 0 .. registrations' - 1 :
                /\ n \in RegNums
                /\ n = registrations \/ (n \in 0 .. registrations - 1 /\ n # registrations)
        BY <2>1, <2>5, <3>2, <3>3, RegistrationNumbers
      <3>7. \A k \in 1 .. Len(order) : pushed[order[k].item] <= registrations
        BY <3>2, <3>4
      <3>8. LengthsWritten
        <4>1. registrations' - 1 = registrations
          BY <2>1, <2>5, <3>2
        <4>2. ASSUME NEW n \in 0 .. registrations' - 1
              PROVE  \/ /\ n \in 0 .. registrations - 1
                        /\ record'[n].order_len = record[n].order_len
                     \/ n = registrations' - 1 /\ record'[n].order_len = Len(order')
          BY <2>1, <3>5, <3>6, <4>1
        <4> QED
          BY <1>2, <2>5, <2>3, <4>2 DEF LengthsWritten
      <3> QED
        BY <2>1, <2>2, <3>4, <3>5, <3>6, <3>7, <3>8 DEF RecordInv
    <2> QED
      BY <2>4, <2>5
  <1>3. CASE LiveAwait \/ LiveFinalFlush
    <2>1. Flushed /\ live_pc = "call" /\ registrations' = registrations
      BY <1>3 DEF LiveAwait, LiveFinalFlush
    <2>2. /\ RecordInv' /\ GuideInv'
          /\ \A n \in 0 .. registrations - 1 :
                record'[n].order_len = IF n = registrations - 1 THEN Len(order')
                                       ELSE record[n].order_len
      BY <2>1, FlushedRecord
    <2>3. registrations > 0 => registrations - 1 \in 0 .. registrations - 1
      BY BoxFacts
    <2>4. LengthsWritten
      BY <1>3, <2>1, <2>2, <2>3 DEF LengthsWritten
    <2> QED
      BY <2>2, <2>4
  <1>4. ASSUME NEW n \in work, LiveInternalize(n)
        PROVE  RecordInv' /\ GuideInv' /\ LengthsWritten
    <2>1. /\ GuideInv' /\ OrderGrows /\ record' = Ordered(record)
          /\ registrations' = registrations /\ box' = box
          /\ \A t \in Items : pushed'[t] = pushed[t]
          /\ pushed' \in Seq(0 .. Len(box) - 1)
          /\ Len(pushed') = Len(loc')
      BY <1>4, InternalizeFrame
    <2>2. PushedInv'
      BY <1>4, PushedInvKept DEF Recording
    <2>3. \A t \in 1 .. Len(loc') : pushed'[t] \in RegNums
      <3>1. \A t \in 1 .. Len(loc') : pushed'[t] \in 0 .. Len(box) - 1
        BY <2>1, ElementOfSeq
      <3> QED
        BY <3>1, RegistrationNumbers
    <2>4. \A s, t \in 1 .. Len(loc') : pushed'[s] = pushed'[t] => s = t
      BY <2>2 DEF PushedInv, Items
    <2>5. \A k \in 1 .. Len(order) : pushed'[order[k].item] = pushed[order[k].item]
      BY <2>1, OrderedItems
    <2>6. /\ Ordered(record) \in [RegNums -> RecordItems]
          /\ \A m \in RegNums : Ordered(record)[m].order_len = record[m].order_len
          /\ \A k \in 1 .. Len(order') :
               /\ Ordered(record)[pushed'[order'[k].item]].order_ix = k - 1
               /\ Ordered(record)[pushed'[order'[k].item]].parallelism = order'[k].parallelism
      BY <2>1, <2>3, <2>4, <2>5, OrderedRecords
    <2>7. ASSUME NEW m \in 0 .. registrations - 1
          PROVE  /\ record'[m].order_len <= Len(order')
                 /\ \A k \in 1 .. record'[m].order_len : pushed'[order'[k].item] <= m
      <3>1. m \in RegNums
        BY RegistrationNumbers
      <3> QED
        BY <2>1, <2>5, <2>6, <3>1, LengthsKept
    <2>8. LengthsWritten
      <3>1. ~LiveFinalFlush
        BY <1>4 DEF LiveInternalize, LiveFinalFlush
      <3>2. \A m \in 0 .. registrations - 1 : record'[m].order_len = record[m].order_len
        BY <2>1, <2>6, RegistrationNumbers
      <3> QED
        BY <2>1, <3>1, <3>2 DEF LengthsWritten
    <2> QED
      BY <2>1, <2>6, <2>7, <2>8 DEF RecordInv
  <1> QED
    BY <1>1, <1>2, <1>3, <1>4 DEF Recording


-----------------------------------------------------------------------------
(* The recorded run *)

(* At the end of the first run the order holds every registration, each at the place
   its record names, and the lengths are those of parts of the order that hold no
   later registration. *)
LEMMA RecordedOrder ==
    ASSUME LiveInv, live_pc = "recorded"
    PROVE  /\ registrations \in Nat /\ registrations <= MaxItems
           /\ registrations = Len(box) /\ registrations = AddsUpTo(Len(script))
           /\ Len(order) = registrations
           /\ \A k \in 1 .. registrations :
                /\ pushed[order[k].item] \in 0 .. registrations - 1
                /\ record[pushed[order[k].item]].order_ix = k - 1
                /\ record[pushed[order[k].item]].parallelism = order[k].parallelism
                /\ order[k].parallelism \in Nat /\ order[k].parallelism > 0
           /\ \A n \in 0 .. registrations - 1 :
                /\ record[n] \in RecordItems
                /\ record[n].order_ix \in Nat /\ record[n].order_ix + 1 \in 1 .. registrations
                /\ pushed[order[record[n].order_ix + 1].item] = n
                /\ record[n].order_len \in Nat /\ record[n].order_len <= registrations
                /\ \A k \in 1 .. record[n].order_len : pushed[order[k].item] <= n
  <1> DEFINE all == 0 .. registrations - 1
             at(k) == pushed[order[k].item]
             g == [k \in 1 .. Len(order) |-> at(k)]
  <1>1. GuideInv /\ CallInv /\ PushedInv /\ RecordInv
    BY DEF LiveInv
  <1>2. /\ registrations \in Nat /\ registrations <= MaxItems /\ registrations = Len(box)
        /\ MaxItems \in Nat
    BY <1>1, BoxFacts, GuideConstants
  <1>3. registrations = AddsUpTo(Len(script))
    BY <1>1 DEF CallInv
  <1>4. /\ Len(order) \in Nat
        /\ \A k \in 1 .. Len(order) :
                /\ order[k].item \in Items
                /\ order[k].parallelism \in Nat /\ order[k].parallelism > 0
        /\ \A j, k \in 1 .. Len(order) : order[j].item = order[k].item => j = k
    BY <1>1, OrderedItems
  <1>5. /\ Items = 1 .. Len(loc) /\ \A t \in Items : pushed[t] \in all
    BY <1>1, <1>2, PushedFacts
  <1>6. \A t \in Items : \E k \in 1 .. Len(order) : order[k].item = t
    <2>1. /\ \A t \in 1 .. Len(loc) :
                \/ \E k \in 1 .. Len(order) : order[k].item = t
                \/ \E i \in SpanIxs : \E x \in 1 .. Len(spans[i]) : spans[i][x] = t
      BY <1>1 DEF GuideInv, Inv, Complete
    <2>2. \A i \in SpanIxs : spans[i] = << >>
      BY <1>1 DEF PushedInv
    <2>3. \A i \in SpanIxs : ~ \E x \in 1 .. Len(spans[i]) : TRUE
      <3> TAKE i \in SpanIxs
      <3>1. Len(spans[i]) = 0
        BY <2>2, EmptySeq
      <3> QED
        BY <3>1
    <2> QED
      BY <1>5, <2>1, <2>3
  <1>7. \A n \in all : \E k \in 1 .. Len(order) : at(k) = n
    <2> TAKE n \in all
    <2>1. delayed = {} /\ work = {}
      BY <1>1 DEF PushedInv
    <2>2. PICK t \in Items : pushed[t] = n
      BY <1>1, <1>2, <2>1 DEF PushedInv
    <2> QED
      BY <1>6, <2>2
  <1>8. \A k \in 1 .. Len(order) : at(k) \in all
    BY <1>4, <1>5
  <1>9. \A j, k \in 1 .. Len(order) : at(j) = at(k) => j = k
    BY <1>1, <1>4 DEF PushedInv
  <1> HIDE DEF at, all
  <1>10. Len(order) = registrations
    <2>1. g \in [1 .. Len(order) -> all]
      BY <1>8
    <2>2. (\A j, k \in 1 .. Len(order) : g[j] = g[k] => j = k)
          /\ (\A n \in all : \E k \in 1 .. Len(order) : g[k] = n)
      BY <1>7, <1>9
    <2> HIDE DEF g
    <2>3. g \in Injection(1 .. Len(order), all) /\ g \in Surjection(1 .. Len(order), all)
      BY <2>1, <2>2 DEF Injection, IsInjective, Surjection
    <2>4. /\ IsFiniteSet(all) /\ IsFiniteSet(1 .. Len(order))
          /\ Cardinality(all) = registrations /\ Cardinality(1 .. Len(order)) = Len(order)
      <3>1. 0 \in Int /\ registrations - 1 \in Int /\ 1 \in Int /\ Len(order) \in Int
        BY <1>2, <1>4
      <3>2. /\ IsFiniteSet(all)
            /\ Cardinality(all) = IF 0 > registrations - 1 THEN 0 ELSE registrations - 1 - 0 + 1
            /\ IsFiniteSet(1 .. Len(order))
            /\ Cardinality(1 .. Len(order)) = IF 1 > Len(order) THEN 0 ELSE Len(order) - 1 + 1
        BY <3>1, FS_Interval DEF all
      <3> QED
        BY <1>2, <1>4, <3>2
    <2>5. /\ Cardinality(1 .. Len(order)) <= Cardinality(all)
          /\ Cardinality(all) <= Cardinality(1 .. Len(order))
      BY <2>3, <2>4, FS_Injection, FS_Surjection
    <2> QED
      BY <1>2, <1>4, <2>4, <2>5
  <1>11. \A k \in 1 .. registrations :
            record[at(k)].order_ix = k - 1 /\ record[at(k)].parallelism = order[k].parallelism
    BY <1>1, <1>10 DEF RecordInv, at
  <1>12. \A n \in all : n \in RegNums
    BY <1>1, RegistrationNumbers DEF all
  <1>13. \A n \in all : /\ record[n].order_ix \in Nat
                        /\ record[n].order_ix + 1 \in 1 .. registrations
                        /\ at(record[n].order_ix + 1) = n
    <2> TAKE n \in all
    <2>1. PICK k \in 1 .. registrations : at(k) = n
      BY <1>7, <1>10
    <2>2. record[n].order_ix = k - 1
      BY <1>11, <2>1
    <2>3. k - 1 \in Nat /\ (k - 1) + 1 = k
      BY <1>2
    <2> QED
      BY <2>1, <2>2, <2>3
  <1>14. \A n \in all : /\ record[n] \in RecordItems
                        /\ record[n].order_len \in Nat /\ record[n].order_len <= registrations
                        /\ \A k \in 1 .. record[n].order_len : at(k) <= n
    <2> TAKE n \in all
    <2>1. record[n] \in RecordItems
      BY <1>1, <1>12 DEF RecordInv
    <2>2. record[n].order_len \in Nat
      BY <2>1 DEF RecordItems
    <2>3. /\ record[n].order_len <= registrations
          /\ \A k \in 1 .. record[n].order_len : at(k) <= n
      BY <1>1, <1>10 DEF RecordInv, all, at
    <2> QED
      BY <2>1, <2>2, <2>3
  <1> QED
    BY <1>2, <1>3, <1>4, <1>8, <1>10, <1>11, <1>13, <1>14 DEF all, at

-----------------------------------------------------------------------------
(* The playback sorter *)

LEMMA SorterFacts ==
    ASSUME LiveInv, live_pc = "recorded", SorterInv
    PROVE  /\ registrations_added \in Nat /\ registrations_added <= registrations
           /\ Added \in Nat /\ Len(exec_order_buffer) \in Nat
           /\ Added + Len(exec_order_buffer) = registrations_added
           /\ Added <= registrations_added
           /\ DOMAIN exec_order_buffer = 1 .. Len(exec_order_buffer)
           /\ Len(script) \in Nat /\ script \in Scripts
  <1>1. script \in Scripts /\ Len(script) \in Nat
    BY BoxFacts DEF LiveInv
  <1>2. played \in 0 .. Len(script) /\ Len(script) \in 0 .. Len(script) /\ played <= Len(script)
    BY <1>1 DEF SorterInv
  <1>3. /\ AddsUpTo(played) \in Nat /\ AddsUpTo(played) <= AddsUpTo(Len(script))
    BY <1>1, <1>2, AddsCounted
  <1>4. registrations_added = AddsUpTo(played) /\ registrations = AddsUpTo(Len(script))
    BY RecordedOrder DEF SorterInv
  <1>5. Len(exec_order_buffer) \in Nat /\ DOMAIN exec_order_buffer = 1 .. Len(exec_order_buffer)
    BY LenProperties DEF SorterInv
  <1>6. Added \in Nat /\ Added = registrations_added - Len(exec_order_buffer)
    BY DEF SorterInv, Added
  <1> QED
    BY <1>1, <1>3, <1>4, <1>5, <1>6

(* write_buffer puts every registration so far where the record says, and moves
   nothing it put there before. *)
LEMMA WritesBuffer ==
    ASSUME LiveInv, live_pc = "recorded", SorterInv, NEW size, WriteBuffer(size)
    PROVE  /\ DOMAIN exec_order' = 1 .. registrations
           /\ \A n \in 0 .. registrations_added - 1 :
                exec_order'[record[n].order_ix + 1] = ItemOf(n)
           /\ exec_size' = size /\ exec_order_buffer' = << >>
  <1> DEFINE len == Len(exec_order_buffer)
             here(k) == {i \in DOMAIN exec_order_buffer :
                            exec_order_buffer[i].record_item.order_ix = k - 1}
             last(k) == exec_order_buffer[Max(here(k))]
  <1>1. exec_order' = [k \in DOMAIN exec_order |->
            IF here(k) = {} THEN exec_order[k]
            ELSE [resolver |-> last(k).resolver,
                  parallelism |-> last(k).record_item.parallelism]]
        /\ exec_size' = size /\ exec_order_buffer' = << >>
    BY DEF WriteBuffer
  <1>2. /\ DOMAIN exec_order = 1 .. registrations
        /\ \A n \in 0 .. Added - 1 : exec_order[record[n].order_ix + 1] = ItemOf(n)
        /\ \A i \in 1 .. len : exec_order_buffer[i] = [resolver |-> ResolverOf(Added + i - 1),
                                                       record_item |-> record[Added + i - 1]]
    BY DEF SorterInv
  <1>3. /\ len \in Nat /\ Added \in Nat /\ registrations_added \in Nat
        /\ Added + len = registrations_added /\ registrations_added <= registrations
        /\ registrations \in Nat /\ DOMAIN exec_order_buffer = 1 .. len
    BY SorterFacts, RecordedOrder
  <1> HIDE DEF len
  <1>4. \A i \in 1 .. len : Added + i - 1 \in 0 .. registrations - 1
    BY <1>3
  <1>5. \A n \in 0 .. registrations - 1 :
            /\ record[n].order_ix \in Nat /\ record[n].order_ix + 1 \in 1 .. registrations
            /\ pushed[order[record[n].order_ix + 1].item] = n
    BY RecordedOrder
  <1>6. ASSUME NEW n \in 0 .. registrations - 1
        PROVE  here(record[n].order_ix + 1) = {i \in 1 .. len : Added + i - 1 = n}
    <2>1. record[n].order_ix \in Nat /\ (record[n].order_ix + 1) - 1 = record[n].order_ix
      BY <1>5
    <2>2. \A i \in 1 .. len : exec_order_buffer[i].record_item.order_ix
                                = record[Added + i - 1].order_ix
      <3> TAKE i \in 1 .. len
      <3>1. exec_order_buffer[i] = [resolver |-> ResolverOf(Added + i - 1),
                                    record_item |-> record[Added + i - 1]]
        BY <1>2
      <3>2. exec_order_buffer[i].record_item = record[Added + i - 1]
        BY <3>1
      <3> QED
        BY <3>2
    <2>3. \A i \in 1 .. len : record[Added + i - 1].order_ix = record[n].order_ix
                                => Added + i - 1 = n
      <3> TAKE i \in 1 .. len
      <3> HAVE record[Added + i - 1].order_ix = record[n].order_ix
      <3>1. /\ pushed[order[record[Added + i - 1].order_ix + 1].item] = Added + i - 1
            /\ pushed[order[record[n].order_ix + 1].item] = n
        BY <1>4, <1>5
      <3> QED
        BY <3>1
    <2>4. here(record[n].order_ix + 1)
            = {i \in 1 .. len : record[Added + i - 1].order_ix = record[n].order_ix}
      BY <1>3, <2>1, <2>2
    <2> HIDE DEF here
    <2>5. \A i \in 1 .. len : record[Added + i - 1].order_ix = record[n].order_ix
                                <=> Added + i - 1 = n
      BY <2>3
    <2> QED
      BY <2>4, <2>5
  <1>7. ASSUME NEW n \in 0 .. registrations_added - 1
        PROVE  exec_order'[record[n].order_ix + 1] = ItemOf(n)
    <2> DEFINE k == record[n].order_ix + 1
    <2>1. n \in 0 .. registrations - 1 /\ k \in DOMAIN exec_order
      <3>1. n \in 0 .. registrations - 1
        BY <1>3
      <3> QED
        BY <1>2, <1>5, <3>1
    <2>2. here(k) = {i \in 1 .. len : Added + i - 1 = n}
      BY <1>6, <2>1
    <2> HIDE DEF k
    <2>3. CASE n < Added
      <3>1. here(k) = {}
        BY <1>3, <2>2, <2>3
      <3>2. n \in 0 .. Added - 1
        BY <1>3, <2>3
      <3>3. exec_order[k] = ItemOf(n)
        BY <1>2, <3>2 DEF k
      <3> HIDE DEF here, last
      <3>4. exec_order'[k] = exec_order[k]
        BY <1>1, <2>1, <3>1
      <3> QED
        BY <3>3, <3>4 DEF k
    <2>4. CASE ~(n < Added)
      <3> DEFINE i == n - Added + 1
      <3>1. i \in 1 .. len /\ Added + i - 1 = n /\ i \in Int
        BY <1>3, <2>4
      <3>2. here(k) = {i}
        <4>1. \A j \in 1 .. len : Added + j - 1 = n <=> j = i
          BY <1>3
        <4> HIDE DEF i
        <4> QED
          BY <2>2, <3>1, <4>1
      <3> HIDE DEF i, here, last
      <3>3. exec_order_buffer[i] = [resolver |-> ResolverOf(n), record_item |-> record[n]]
        <4>1. exec_order_buffer[i] = [resolver |-> ResolverOf(Added + i - 1),
                                      record_item |-> record[Added + i - 1]]
          BY <1>2, <3>1
        <4> QED
          BY <3>1, <4>1
      <3>4. Max(here(k)) = i
        <4>1. Max({i, i}) = i
          BY <3>1, MaxOfTwo
        <4> QED
          BY <3>2, <4>1
      <3>5. last(k) = exec_order_buffer[i] /\ here(k) # {}
        BY <3>2, <3>4 DEF last
      <3>6. exec_order'[k] = [resolver |-> last(k).resolver,
                              parallelism |-> last(k).record_item.parallelism]
        BY <1>1, <2>1, <3>5
      <3> QED
        BY <3>3, <3>5, <3>6 DEF ItemOf, k
    <2> QED
      BY <2>3, <2>4
  <1>8. DOMAIN exec_order' = 1 .. registrations
    BY <1>1, <1>2
  <1> QED
    BY <1>1, <1>7, <1>8

(* The size write_buffer gives the order: up to it the order holds items that are
   written. *)
LEMMA RecordedSizeIsWritten ==
    ASSUME LiveInv, live_pc = "recorded", SorterInv,
           registrations_added > 0 \/ registrations = 0
    PROVE  /\ RecordedSize \in Nat /\ RecordedSize <= registrations
           /\ \A k \in 1 .. RecordedSize : pushed[order[k].item] < registrations_added
  <1>1. /\ registrations_added \in Nat /\ registrations_added <= registrations
        /\ registrations \in Nat
    BY SorterFacts, RecordedOrder
  <1>2. \A k \in 1 .. registrations : pushed[order[k].item] \in 0 .. registrations - 1
    BY RecordedOrder
  <1>3. CASE registrations_added = registrations
    BY <1>1, <1>2, <1>3 DEF RecordedSize
  <1>4. CASE registrations_added # registrations
    <2> DEFINE n == registrations_added - 1
    <2>1. n \in 0 .. registrations - 1 /\ n \in Int /\ registrations_added = n + 1
      BY <1>1, <1>4
    <2>2. RecordedSize = record[n].order_len
      BY <1>4 DEF RecordedSize
    <2> HIDE DEF n
    <2>3. /\ record[n].order_len \in Nat /\ record[n].order_len <= registrations
          /\ \A k \in 1 .. record[n].order_len : pushed[order[k].item] <= n
      BY <2>1, RecordedOrder
    <2>4. ASSUME NEW k \in 1 .. record[n].order_len
          PROVE  pushed[order[k].item] < registrations_added
      <3>1. k \in 1 .. registrations
        BY <1>1, <2>3
      <3>2. pushed[order[k].item] \in Int /\ pushed[order[k].item] <= n
        BY <1>2, <2>3, <3>1
      <3> QED
        BY <2>1, <3>2
    <2> QED
      BY <2>2, <2>3, <2>4
  <1> QED
    BY <1>3, <1>4

-----------------------------------------------------------------------------
(* The steps of the registration thread, once the first run is recorded *)

LEMMA LiveFrame ==
    ASSUME LiveInv, UNCHANGED record_vars, UNCHANGED guide_vars
    PROVE  /\ LiveInv'
           /\ UNCHANGED <<script, live_pc, live_at, registrations, box, delayed, work, pushed,
                          live_tracked, live_tracker, record>>
           /\ UNCHANGED <<first_id, spans, order, loc, after>>
           /\ \A k : AddsUpTo(k)' = AddsUpTo(k)
           /\ \A n : ResolverOf(n)' = ResolverOf(n) /\ ItemOf(n)' = ItemOf(n)
  <1>1. /\ UNCHANGED <<script, live_pc, live_at, registrations, box, delayed, work, pushed,
                       live_tracked, live_tracker, record>>
        /\ UNCHANGED <<first_id, spans, order, loc, after>>
    BY DEF record_vars, guide_vars
  <1>2. /\ \A k : AddsUpTo(k)' = AddsUpTo(k)
        /\ \A n : ResolverOf(n)' = ResolverOf(n) /\ ItemOf(n)' = ItemOf(n)
        /\ Called' = Called /\ Items' = Items
    BY <1>1 DEF AddsUpTo, ResolverOf, ItemOf, Called, Items
  <1>3. GuideInv'
    BY <1>1 DEF LiveInv, GuideInv
  <1>4. CallInv'
    BY <1>1, <1>2 DEF LiveInv, CallInv, AddsUpTo
  <1>5. PushedInv'
    BY <1>1, <1>2 DEF LiveInv, PushedInv
  <1>6. RecordInv'
    BY <1>1, <1>2 DEF LiveInv, RecordInv
  <1> QED
    BY <1>1, <1>2, <1>3, <1>4, <1>5, <1>6 DEF LiveInv

LEMMA SorterFrame ==
    ASSUME LiveInv, SorterInv, UNCHANGED record_vars, UNCHANGED guide_vars,
           UNCHANGED <<played, registrations_added, exec_order_buffer, exec_order>>,
           \/ rpc' = rpc
           \/ rpc' \in RegistrationPcs \ {"flush", "write"}
           \/ rpc' = "flush" /\ played < Len(script) /\ Call.op = "await"
    PROVE  SorterInv' /\ Added' = Added
  <1>1. /\ UNCHANGED <<script, registrations, record>>
        /\ \A k : AddsUpTo(k)' = AddsUpTo(k)
        /\ \A n : ResolverOf(n)' = ResolverOf(n) /\ ItemOf(n)' = ItemOf(n)
    BY LiveFrame
  <1>2. Added' = Added /\ Call' = Call
    BY <1>1 DEF Added, Call
  <1>3. rpc' \in RegistrationPcs
    BY DEF SorterInv, RegistrationPcs
  <1>4. /\ rpc' = "flush" => played' < Len(script') /\ Call'.op = "await"
        /\ rpc' = "write" => exec_order_buffer' # << >>
    BY <1>1, <1>2 DEF SorterInv
  <1>5. /\ played' \in 0 .. Len(script') /\ registrations_added' = AddsUpTo(played)'
        /\ exec_order_buffer' \in Seq(BufferItems) /\ Added' \in Nat
        /\ DOMAIN exec_order' = 1 .. registrations'
    BY <1>1, <1>2 DEF SorterInv
  <1>6. \A i \in 1 .. Len(exec_order_buffer') :
            exec_order_buffer'[i] = [resolver |-> ResolverOf(Added + i - 1)',
                                     record_item |-> record'[Added' + i - 1]]
    BY <1>1, <1>2 DEF SorterInv
  <1>7. \A n \in 0 .. Added' - 1 : exec_order'[record'[n].order_ix + 1] = ItemOf(n)'
    BY <1>1, <1>2 DEF SorterInv
  <1> QED
    BY <1>2, <1>3, <1>4, <1>5, <1>6, <1>7 DEF SorterInv

LEMMA WindowFrame ==
    ASSUME LiveInv, WindowInv, UNCHANGED record_vars, UNCHANGED guide_vars,
           UNCHANGED <<bpc, range_start, range_end, notified, batch, ran, failed>>
    PROVE  WindowInv'
  BY LiveFrame DEF WindowInv

LEMMA SizeFrame ==
    ASSUME LiveInv, SizeInv, Added' = Added, UNCHANGED record_vars, UNCHANGED guide_vars,
           UNCHANGED <<exec_size, range_end>>, ~unwinding' => ~unwinding
    PROVE  SizeInv'
  BY LiveFrame DEF SizeInv

(* write_buffer makes Added all that is registered, so what was released before still
   is in the order. *)
LEMMA WrittenSorter ==
    ASSUME LiveInv, live_pc = "recorded", SorterInv, SizeInv, WindowInv,
           UNCHANGED record_vars, UNCHANGED guide_vars,
           UNCHANGED <<registrations_added, range_end, unwinding>>,
           NEW size \in Nat, WriteBuffer(size), size <= registrations,
           ~unwinding => \A k \in 1 .. size : pushed[order[k].item] < registrations_added,
           rpc' \in RegistrationPcs \ {"flush", "write"},
           played' \in 0 .. Len(script), registrations_added = AddsUpTo(played')
    PROVE  SorterInv' /\ SizeInv'
  <1>1. /\ UNCHANGED <<script, live_pc, registrations, record, pushed, order>>
        /\ \A k : AddsUpTo(k)' = AddsUpTo(k)
        /\ \A n : ResolverOf(n)' = ResolverOf(n) /\ ItemOf(n)' = ItemOf(n)
    BY LiveFrame
  <1>2. /\ DOMAIN exec_order' = 1 .. registrations
        /\ \A n \in 0 .. registrations_added - 1 :
                exec_order'[record[n].order_ix + 1] = ItemOf(n)
        /\ exec_size' = size /\ exec_order_buffer' = << >>
    BY WritesBuffer
  <1>3. /\ registrations_added \in Nat /\ Added \in Nat /\ Added <= registrations_added
    BY SorterFacts
  <1>4. Len(exec_order_buffer') = 0 /\ exec_order_buffer' \in Seq(BufferItems)
    BY <1>2, EmptySeq
  <1>5. Added' = registrations_added /\ Added' \in Nat
    BY <1>3, <1>4 DEF Added
  <1>6. SorterInv'
    <2>1. registrations_added' = AddsUpTo(played)'
      BY <1>1 DEF AddsUpTo
    <2>2. \A i \in 1 .. Len(exec_order_buffer') :
            exec_order_buffer'[i] = [resolver |-> ResolverOf(Added + i - 1)',
                                     record_item |-> record'[Added' + i - 1]]
      BY <1>4
    <2>3. \A n \in 0 .. Added' - 1 : exec_order'[record'[n].order_ix + 1] = ItemOf(n)'
      BY <1>1, <1>2, <1>5
    <2>4. rpc' \in RegistrationPcs /\ rpc' # "flush" /\ rpc' # "write"
      OBVIOUS
    <2> QED
      BY <1>1, <1>2, <1>4, <1>5, <2>1, <2>2, <2>3, <2>4 DEF SorterInv
  <1>7. SizeInv'
    <2>1. \A k \in 1 .. range_end : pushed[order[k].item] < registrations_added
      <3> TAKE k \in 1 .. range_end
      <3>1. pushed[order[k].item] < Added
        BY DEF SizeInv
      <3>2. k \in 1 .. registrations
        BY RecordedOrder DEF WindowInv
      <3>3. pushed[order[k].item] \in Int
        BY <3>2, RecordedOrder
      <3> QED
        BY <1>3, <3>1, <3>3
    <2> QED
      BY <1>1, <1>2, <1>5, <2>1 DEF SizeInv
  <1> QED
    BY <1>6, <1>7

(* A call is a registration more or none. *)
LEMMA PlayedOne ==
    ASSUME LiveInv, live_pc = "recorded", SorterInv, played < Len(script)
    PROVE  /\ played + 1 \in 0 .. Len(script) /\ played + 1 \in 1 .. Len(script)
           /\ AddsUpTo(played + 1) = IF Call.op = "add" THEN registrations_added + 1
                                     ELSE registrations_added
           /\ Call.places \subseteq Places
           /\ Call.op = "add" => /\ registrations_added \in 0 .. registrations - 1
                                 /\ Call.resolver = ResolverOf(registrations_added)
  <1>1. script \in Scripts /\ Len(script) \in Nat /\ played \in Nat
        /\ registrations_added = AddsUpTo(played) /\ registrations_added \in Nat
    BY SorterFacts DEF SorterInv
  <1>2. played + 1 \in 0 .. Len(script) /\ played + 1 \in 1 .. Len(script)
    BY <1>1
  <1>3. AddsUpTo(played + 1) = IF Call.op = "add" THEN registrations_added + 1
                               ELSE registrations_added
    BY <1>1, AddsCounted DEF Call
  <1>4. Call.places \subseteq Places
    BY <1>1, <1>2, ScriptFacts DEF Call
  <1>5. ASSUME Call.op = "add"
        PROVE  /\ registrations_added \in 0 .. registrations - 1
               /\ Call.resolver = ResolverOf(registrations_added)
    <2>1. live_at = Len(script) /\ Called = live_at /\ registrations = AddsUpTo(Len(script))
      BY RecordedOrder DEF LiveInv, CallInv, Called
    <2>2. played + 1 \in Adds(script) \cap (1 .. Called)
      BY <1>1, <1>2, <1>5, <2>1, ScriptFacts DEF Call
    <2>3. AddsUpTo(played + 1) \in 1 .. registrations
      <3>1. Len(script) \in 0 .. Len(script)
        BY <1>1
      <3> QED
        BY <1>1, <2>1, <2>2, <3>1, AddNumber
    <2>4. box[AddsUpTo(played + 1)] = Call.resolver
      BY <2>2 DEF LiveInv, CallInv, Call
    <2>5. AddsUpTo(played + 1) = registrations_added + 1
      BY <1>3, <1>5
    <2> QED
      BY <1>1, <2>3, <2>4, <2>5, RecordedOrder DEF ResolverOf
  <1> QED
    BY <1>2, <1>3, <1>4, <1>5

LEMMA SetValueKept ==
    ASSUME PlaybackInv, SetValue
    PROVE  PlaybackInv'
  <1>1. /\ live_pc = "recorded" /\ rpc = "idle" /\ played < Len(script) /\ Call.op = "set"
        /\ played' = played + 1 /\ rpc' = rpc
        /\ UNCHANGED <<unwinding, registrations_added, exec_order_buffer, exec_order, exec_size,
                       rw_panicked, bpc, range_start, range_end, notified, batch, ran, failed>>
        /\ UNCHANGED record_vars /\ UNCHANGED guide_vars
    BY DEF SetValue, Idle, sorter_vars, order_vars, comm_vars, broker_vars, chan_vars
  <1>2. LiveInv /\ SorterInv /\ SizeInv /\ WindowInv /\ PanicInv
    BY <1>1 DEF PlaybackInv, ReplayInv
  <1>3. /\ LiveInv' /\ UNCHANGED <<script, live_pc, registrations, record>>
        /\ \A k : AddsUpTo(k)' = AddsUpTo(k)
        /\ \A n : ResolverOf(n)' = ResolverOf(n) /\ ItemOf(n)' = ItemOf(n)
    BY <1>1, <1>2, LiveFrame
  <1>4. Added' = Added
    BY <1>1 DEF Added
  <1>5. played' \in 0 .. Len(script) /\ registrations_added = AddsUpTo(played')
    BY <1>1, <1>2, PlayedOne
  <1>6. SorterInv'
    BY <1>1, <1>2, <1>3, <1>4, <1>5 DEF SorterInv, AddsUpTo
  <1>7. SizeInv' /\ WindowInv'
    BY <1>1, <1>2, <1>4, SizeFrame, WindowFrame
  <1>8. PanicInv'
    BY <1>1, <1>2 DEF PanicInv
  <1> QED
    BY <1>1, <1>3, <1>6, <1>7, <1>8 DEF PlaybackInv, ReplayInv

(* add_resolution buffers the client's resolver with the item of its registration. *)
LEMMA AddResolutionKept ==
    ASSUME PlaybackInv, AddResolution
    PROVE  PlaybackInv'
  <1> DEFINE entry == [resolver |-> Call.resolver, record_item |-> record[registrations_added]]
             len == Len(exec_order_buffer)
  <1>1. /\ live_pc = "recorded" /\ rpc = "idle" /\ played < Len(script) /\ Call.op = "add"
        /\ played' = played + 1 /\ rpc' \in {"write", "idle"}
        /\ exec_order_buffer' = Append(exec_order_buffer, entry)
        /\ registrations_added' = registrations_added + 1
        /\ UNCHANGED <<unwinding, exec_order, exec_size, rw_panicked, bpc, range_start,
                       range_end, notified, batch, ran, failed>>
        /\ UNCHANGED record_vars /\ UNCHANGED guide_vars
    BY DEF AddResolution, Idle, order_vars, comm_vars, broker_vars, chan_vars
  <1>2. LiveInv /\ SorterInv /\ SizeInv /\ WindowInv /\ PanicInv
    BY <1>1 DEF PlaybackInv, ReplayInv
  <1>3. /\ LiveInv' /\ UNCHANGED <<script, live_pc, registrations, record>>
        /\ \A k : AddsUpTo(k)' = AddsUpTo(k)
        /\ \A n : ResolverOf(n)' = ResolverOf(n) /\ ItemOf(n)' = ItemOf(n)
    BY <1>1, <1>2, LiveFrame
  <1>4. /\ played' \in 0 .. Len(script) /\ registrations_added' = AddsUpTo(played')
        /\ registrations_added \in 0 .. registrations - 1
        /\ Call.resolver = ResolverOf(registrations_added)
    BY <1>1, <1>2, PlayedOne
  <1>5. /\ len \in Nat /\ Added \in Nat /\ Added + len = registrations_added
    BY <1>1, <1>2, SorterFacts
  <1>6. entry \in BufferItems
    <2>1. record[registrations_added] \in RecordItems
      BY <1>1, <1>2, <1>4, RecordedOrder
    <2>2. Call.resolver \in Resolvers \cup {NoResolver}
      BY <1>1, <1>2, PlayedOne, SorterFacts, ScriptFacts DEF Call
    <2> QED
      BY <2>1, <2>2 DEF BufferItems
  <1>7. /\ exec_order_buffer' \in Seq(BufferItems) /\ Len(exec_order_buffer') = len + 1
        /\ \A i \in 1 .. len : exec_order_buffer'[i] = exec_order_buffer[i]
        /\ exec_order_buffer'[len + 1] = entry
    <2>1. exec_order_buffer \in Seq(BufferItems)
      BY <1>2 DEF SorterInv
    <2> HIDE DEF entry
    <2> QED
      BY <1>1, <1>6, <2>1, AppendByPosition
  <1> HIDE DEF len
  <1>8. Added' = Added /\ exec_order_buffer' # << >>
    <2>1. Added' = (registrations_added + 1) - (len + 1)
      BY <1>1, <1>7 DEF Added
    <2>2. Len(exec_order_buffer') # 0
      BY <1>5, <1>7
    <2> QED
      BY <1>5, <1>4, <2>1, <2>2, EmptySeq
  <1>9. ASSUME NEW i \in 1 .. len + 1
        PROVE  exec_order_buffer'[i] = [resolver |-> ResolverOf(Added + i - 1),
                                        record_item |-> record[Added + i - 1]]
    <2>1. CASE i = len + 1
      <3>1. Added + i - 1 = registrations_added
        BY <1>5, <2>1
      <3> QED
        BY <1>4, <1>7, <2>1, <3>1
    <2>2. CASE i # len + 1
      <3>1. i \in 1 .. len
        BY <1>5, <2>2
      <3>2. exec_order_buffer[i] = [resolver |-> ResolverOf(Added + i - 1),
                                    record_item |-> record[Added + i - 1]]
        BY <1>2, <3>1 DEF SorterInv, len
      <3> QED
        BY <1>7, <3>1, <3>2
    <2> QED
      BY <2>1, <2>2
  <1> HIDE DEF entry
  <1>10. SorterInv'
    <2>1. \A i \in 1 .. Len(exec_order_buffer') :
            exec_order_buffer'[i] = [resolver |-> ResolverOf(Added + i - 1)',
                                     record_item |-> record'[Added' + i - 1]]
      BY <1>3, <1>7, <1>8, <1>9
    <2>2. \A n \in 0 .. Added' - 1 : exec_order'[record'[n].order_ix + 1] = ItemOf(n)'
      BY <1>1, <1>2, <1>3, <1>8 DEF SorterInv
    <2>3. /\ rpc' \in RegistrationPcs /\ rpc' # "flush"
          /\ registrations_added' = AddsUpTo(played)'
          /\ DOMAIN exec_order' = 1 .. registrations'
      BY <1>1, <1>2, <1>3, <1>4 DEF RegistrationPcs, SorterInv, AddsUpTo
    <2> QED
      BY <1>3, <1>4, <1>5, <1>7, <1>8, <2>1, <2>2, <2>3 DEF SorterInv
  <1>11. SizeInv' /\ WindowInv'
    BY <1>1, <1>2, <1>8, SizeFrame, WindowFrame
  <1>12. PanicInv'
    BY <1>1, <1>2 DEF PanicInv
  <1> QED
    BY <1>1, <1>3, <1>10, <1>11, <1>12 DEF PlaybackInv, ReplayInv

LEMMA WriteFullKept ==
    ASSUME PlaybackInv, WriteFull
    PROVE  PlaybackInv'
  <1>1. /\ rpc = "write" /\ rpc' = "idle" /\ WriteBuffer(RecordedSize)
        /\ UNCHANGED <<played, unwinding, registrations_added, rw_panicked, bpc, range_start,
                       range_end, notified, batch, ran, failed>>
        /\ UNCHANGED record_vars /\ UNCHANGED guide_vars
    BY DEF WriteFull, broker_vars, chan_vars
  <1>2. /\ LiveInv /\ live_pc = "recorded"
        /\ SorterInv /\ SizeInv /\ WindowInv /\ PanicInv
    BY <1>1 DEF PlaybackInv, ReplayInv, NotStarted
  <1>3. LiveInv' /\ live_pc' = live_pc
    BY <1>1, <1>2, LiveFrame
  <1>4. registrations_added > 0
    <2>1. exec_order_buffer # << >> /\ exec_order_buffer \in Seq(BufferItems)
      BY <1>1, <1>2 DEF SorterInv
    <2>2. Len(exec_order_buffer) # 0
      BY <2>1, EmptySeq
    <2> QED
      BY <1>2, <2>2, SorterFacts
  <1>5. /\ RecordedSize \in Nat /\ RecordedSize <= registrations
        /\ \A k \in 1 .. RecordedSize : pushed[order[k].item] < registrations_added
    BY <1>2, <1>4, RecordedSizeIsWritten
  <1>6. /\ played' \in 0 .. Len(script) /\ registrations_added = AddsUpTo(played')
        /\ rpc' \in RegistrationPcs \ {"flush", "write"}
    BY <1>1, <1>2 DEF SorterInv, RegistrationPcs
  <1>7. SorterInv' /\ SizeInv'
    BY <1>1, <1>2, <1>5, <1>6, WrittenSorter
  <1>8. WindowInv' /\ PanicInv'
    BY <1>1, <1>2, WindowFrame DEF PanicInv
  <1> QED
    BY <1>2, <1>3, <1>7, <1>8 DEF PlaybackInv, ReplayInv

LEMMA GetAwaiterKept ==
    ASSUME PlaybackInv, GetAwaiter
    PROVE  PlaybackInv'
  <1>1. /\ live_pc = "recorded" /\ played < Len(script) /\ Call.op = "await" /\ rpc' = "flush"
        /\ UNCHANGED <<played, unwinding, registrations_added, exec_order_buffer, exec_order,
                       exec_size, rw_panicked, bpc, range_start, range_end, notified, batch,
                       ran, failed>>
        /\ UNCHANGED record_vars /\ UNCHANGED guide_vars
    BY DEF GetAwaiter, Idle, sorter_vars, order_vars, comm_vars, broker_vars, chan_vars
  <1>2. LiveInv /\ SorterInv /\ SizeInv /\ WindowInv /\ PanicInv
    BY <1>1 DEF PlaybackInv, ReplayInv
  <1>3. LiveInv' /\ live_pc' = live_pc
    BY <1>1, <1>2, LiveFrame
  <1>4. SorterInv' /\ Added' = Added
    BY <1>1, <1>2, SorterFrame
  <1>5. SizeInv' /\ WindowInv' /\ PanicInv'
    BY <1>1, <1>2, <1>4, SizeFrame, WindowFrame DEF PanicInv
  <1> QED
    BY <1>1, <1>3, <1>4, <1>5 DEF PlaybackInv, ReplayInv

(* The flush of get_awaiter: nothing can be released before the first registration. *)
LEMMA AwaitFlushKept ==
    ASSUME PlaybackInv, AwaitFlush
    PROVE  PlaybackInv'
  <1>1. /\ rpc = "flush" /\ played' = played + 1
        /\ \/ /\ rpc' = "aborted"
              /\ UNCHANGED <<exec_order_buffer, exec_order, exec_size>>
           \/ /\ ~(registrations_added = 0 /\ registrations # 0)
              /\ rpc' = "wait" /\ WriteBuffer(RecordedSize)
        /\ UNCHANGED <<unwinding, registrations_added, rw_panicked, bpc, range_start,
                       range_end, notified, batch, ran, failed>>
        /\ UNCHANGED record_vars /\ UNCHANGED guide_vars
    BY DEF AwaitFlush, broker_vars, chan_vars, order_vars
  <1>2. /\ LiveInv /\ live_pc = "recorded"
        /\ SorterInv /\ SizeInv /\ WindowInv /\ PanicInv
    BY <1>1 DEF PlaybackInv, ReplayInv, NotStarted
  <1>3. /\ LiveInv' /\ UNCHANGED <<script, live_pc, registrations, record>>
        /\ \A k : AddsUpTo(k)' = AddsUpTo(k)
        /\ \A n : ResolverOf(n)' = ResolverOf(n) /\ ItemOf(n)' = ItemOf(n)
    BY <1>1, <1>2, LiveFrame
  <1>4. played < Len(script) /\ Call.op = "await"
    BY <1>1, <1>2 DEF SorterInv
  <1>5. played' \in 0 .. Len(script) /\ registrations_added = AddsUpTo(played')
    BY <1>1, <1>2, <1>4, PlayedOne
  <1>6. WindowInv' /\ PanicInv'
    BY <1>1, <1>2, WindowFrame DEF PanicInv
  <1>7. CASE rpc' = "aborted" /\ UNCHANGED <<exec_order_buffer, exec_order, exec_size>>
    <2>1. Added' = Added
      BY <1>1, <1>7 DEF Added
    <2>2. SorterInv'
      BY <1>1, <1>2, <1>3, <1>5, <1>7, <2>1 DEF SorterInv, AddsUpTo, RegistrationPcs
    <2>3. SizeInv'
      BY <1>1, <1>2, <1>7, <2>1, SizeFrame
    <2> QED
      BY <1>2, <1>3, <1>6, <2>2, <2>3 DEF PlaybackInv, ReplayInv
  <1>8. CASE ~(registrations_added = 0 /\ registrations # 0) /\ rpc' = "wait"
             /\ WriteBuffer(RecordedSize)
    <2>1. registrations_added > 0 \/ registrations = 0
      BY <1>2, <1>8, SorterFacts
    <2>2. /\ RecordedSize \in Nat /\ RecordedSize <= registrations
          /\ \A k \in 1 .. RecordedSize : pushed[order[k].item] < registrations_added
      BY <1>2, <2>1, RecordedSizeIsWritten
    <2>3. rpc' \in RegistrationPcs \ {"flush", "write"}
      BY <1>8 DEF RegistrationPcs
    <2>4. SorterInv' /\ SizeInv'
      BY <1>1, <1>2, <1>5, <1>8, <2>2, <2>3, WrittenSorter
    <2> QED
      BY <1>2, <1>3, <1>6, <2>4 DEF PlaybackInv, ReplayInv
  <1> QED
    BY <1>1, <1>7, <1>8

(* The last flush releases all of the order; a client that does not unwind has made
   all its calls. *)
LEMMA FinalFlushKept ==
    ASSUME PlaybackInv, FinalFlush
    PROVE  PlaybackInv'
  <1>1. /\ live_pc = "recorded" /\ rpc' = "complete" /\ WriteBuffer(registrations)
        /\ unwinding \/ played = Len(script)
        /\ UNCHANGED <<played, unwinding, registrations_added, rw_panicked, bpc, range_start,
                       range_end, notified, batch, ran, failed>>
        /\ UNCHANGED record_vars /\ UNCHANGED guide_vars
    BY DEF FinalFlush, broker_vars, chan_vars
  <1>2. LiveInv /\ SorterInv /\ SizeInv /\ WindowInv /\ PanicInv
    BY <1>1 DEF PlaybackInv, ReplayInv
  <1>3. LiveInv' /\ live_pc' = live_pc
    BY <1>1, <1>2, LiveFrame
  <1>4. registrations \in Nat /\ registrations <= registrations
    BY <1>1, <1>2, RecordedOrder
  <1>5. ~unwinding => \A k \in 1 .. registrations : pushed[order[k].item] < registrations_added
    <2> SUFFICES ASSUME ~unwinding, NEW k \in 1 .. registrations
                 PROVE  pushed[order[k].item] < registrations_added
      OBVIOUS
    <2>1. registrations_added = registrations
      BY <1>1, <1>2, RecordedOrder DEF SorterInv
    <2>2. pushed[order[k].item] \in 0 .. registrations - 1
      BY <1>1, <1>2, RecordedOrder
    <2> QED
      BY <1>4, <2>1, <2>2
  <1>6. /\ played' \in 0 .. Len(script) /\ registrations_added = AddsUpTo(played')
        /\ rpc' \in RegistrationPcs \ {"flush", "write"}
    BY <1>1, <1>2 DEF SorterInv, RegistrationPcs
  <1>7. SorterInv' /\ SizeInv'
    BY <1>1, <1>2, <1>4, <1>5, <1>6, WrittenSorter
  <1>8. WindowInv' /\ PanicInv'
    BY <1>1, <1>2, WindowFrame DEF PanicInv
  <1> QED
    BY <1>1, <1>3, <1>7, <1>8 DEF PlaybackInv, ReplayInv

(* Waiting, completing and joining change nothing that is registered. *)
LEMMA FacadeStepKept ==
    ASSUME PlaybackInv, FacadeStep
    PROVE  PlaybackInv'
  <1>1. /\ rpc \in {"wait", "wait_panic", "complete", "join"}
        /\ rpc' \in {"wait", "wait_panic", "idle", "join", "ended"}
        /\ unwinding' = unwinding \/ unwinding' = (unwinding \/ (rw_panicked /\ rw_panic))
        /\ UNCHANGED <<played, registrations_added, exec_order_buffer, exec_order, exec_size,
                       rw_panicked, bpc, range_start, range_end, notified, batch, ran, failed>>
        /\ UNCHANGED record_vars /\ UNCHANGED guide_vars
    BY DEF FacadeStep, Facade!Step, Facade!AwaitCheck, Facade!AwaitCheckPanic,
           Facade!Complete, Facade!Join, sorter_vars, order_vars, chan_vars
  <1>2. /\ LiveInv /\ live_pc = "recorded"
        /\ SorterInv /\ SizeInv /\ WindowInv /\ PanicInv
    BY <1>1 DEF PlaybackInv, ReplayInv, NotStarted
  <1>3. LiveInv' /\ live_pc' = live_pc
    BY <1>1, <1>2, LiveFrame
  <1>4. SorterInv' /\ Added' = Added
    BY <1>1, <1>2, SorterFrame DEF RegistrationPcs
  <1>5. /\ unwinding' \in BOOLEAN /\ (~unwinding' => ~unwinding)
        /\ unwinding' => rw_panicked
    BY <1>1, <1>2 DEF PanicInv
  <1>6. SizeInv' /\ WindowInv' /\ PanicInv'
    BY <1>1, <1>2, <1>4, <1>5, SizeFrame, WindowFrame DEF PanicInv
  <1> QED
    BY <1>2, <1>3, <1>4, <1>6 DEF PlaybackInv, ReplayInv

-----------------------------------------------------------------------------
(* The steps of the broker and of the workers *)

(* The broker and the workers only read what the registration thread writes. *)
LEMMA ThreadFrame ==
    ASSUME PlaybackInv, live_pc = "recorded", UNCHANGED others
    PROVE  /\ LiveInv /\ SorterInv /\ SizeInv /\ WindowInv /\ PanicInv
           /\ LiveInv' /\ SorterInv' /\ Added' = Added
           /\ UNCHANGED record_vars /\ UNCHANGED guide_vars
           /\ UNCHANGED <<live_pc, order, pushed, registrations, unwinding, exec_order,
                          exec_size>>
           /\ registrations \in Nat /\ registrations <= MaxItems
           /\ Added \in Nat
           /\ \A k \in 1 .. registrations :
                /\ pushed[order[k].item] \in 0 .. registrations - 1
                /\ order[k].parallelism \in Nat /\ order[k].parallelism > 0
  <1>1. LiveInv /\ SorterInv /\ SizeInv /\ WindowInv /\ PanicInv
    BY DEF PlaybackInv, ReplayInv
  <1>2. /\ UNCHANGED record_vars /\ UNCHANGED guide_vars
        /\ UNCHANGED <<rpc, played, unwinding, registrations_added, exec_order_buffer,
                       exec_order, exec_size>>
    BY DEF others, sorter_vars, order_vars
  <1>3. /\ LiveInv' /\ UNCHANGED <<live_pc, order, pushed, registrations>>
    BY <1>1, <1>2, LiveFrame
  <1>4. SorterInv' /\ Added' = Added
    BY <1>1, <1>2, SorterFrame
  <1> QED
    BY <1>1, <1>2, <1>3, <1>4, RecordedOrder, SorterFacts

(* The steps that only move the broker between its turns. *)
LEMMA BrokerMoves ==
    ASSUME PlaybackInv, live_pc = "recorded", UNCHANGED others,
           UNCHANGED <<range_start, range_end, notified, batch, ran, failed>>,
           bpc # "execute", bpc' \in RW!BrokerPcs \ {"execute", "notify"},
           rw_panicked' \in BOOLEAN, rw_panicked => rw_panicked',
           bpc' \in {"load", "lock", "hint", "process"} => ~failed,
           rw_panicked' => bpc' \in {"kill", "ended"}
    PROVE  PlaybackInv'
  <1>1. /\ LiveInv /\ SizeInv /\ WindowInv /\ PanicInv /\ LiveInv' /\ SorterInv'
        /\ Added' = Added /\ UNCHANGED record_vars /\ UNCHANGED guide_vars
        /\ UNCHANGED <<live_pc, order, registrations, unwinding, exec_size>>
    BY ThreadFrame
  <1>2. WindowInv'
    BY <1>1 DEF WindowInv
  <1>3. SizeInv'
    BY <1>1, SizeFrame
  <1>4. PanicInv'
    BY <1>1 DEF PanicInv
  <1> QED
    BY <1>1, <1>2, <1>3, <1>4 DEF PlaybackInv, ReplayInv

(* Load, the hint and the steps after a panic. *)
LEMMA TurnsKept ==
    ASSUME PlaybackInv, live_pc = "recorded", UNCHANGED others,
           \/ RW!Load \/ RW!TakeHint \/ RW!SeeComplete
           \/ RW!StorePanic \/ RW!RaisePanicked \/ RW!KillPool
    PROVE  PlaybackInv'
  <1>1. /\ \/ bpc = "load" /\ bpc' = "lock" /\ rw_panicked' = rw_panicked
           \/ bpc = "hint" /\ bpc' = "load" /\ rw_panicked' = rw_panicked
           \/ bpc = "panic" /\ bpc' = "panic_flag" /\ rw_panicked' = rw_panicked
           \/ bpc = "panic_flag" /\ bpc' = "kill" /\ rw_panicked' = TRUE
           \/ bpc = "kill" /\ bpc' = "ended" /\ rw_panicked' = rw_panicked
        /\ UNCHANGED <<range_start, range_end, notified, batch, ran, failed>>
    BY DEF RW!Load, RW!TakeHint, RW!SeeComplete, RW!StorePanic, RW!RaisePanicked,
           RW!KillPool, RW!Channel!Stop, RW!value_vars, RW!comm_vars, RW!chan_vars
  <1>2. PanicInv
    BY ThreadFrame
  <1>3. bpc # "execute" /\ bpc' \in RW!BrokerPcs \ {"execute", "notify"}
    BY <1>1 DEF RW!BrokerPcs
  <1>4. /\ rw_panicked' \in BOOLEAN /\ (rw_panicked => rw_panicked')
        /\ bpc' \in {"load", "lock", "hint", "process"} => ~failed
        /\ rw_panicked' => bpc' \in {"kill", "ended"}
    <2>1. /\ failed \in BOOLEAN /\ rw_panicked \in BOOLEAN
          /\ bpc \in {"load", "lock", "hint", "process", "notify"} => ~failed
          /\ rw_panicked => bpc \in {"kill", "ended"}
      BY <1>2 DEF PanicInv
    <2>2. CASE bpc = "kill"
      BY <1>1, <2>1, <2>2
    <2>3. CASE bpc = "panic_flag"
      BY <1>1, <2>1, <2>3
    <2>4. CASE bpc \in {"load", "hint", "panic"}
      BY <1>1, <2>1, <2>4
    <2> QED
      BY <1>1, <2>2, <2>3, <2>4
  <1> QED
    BY <1>1, <1>3, <1>4, BrokerMoves

(* Min and Cardinality are the same operators in the window's module. *)
LEMMA WindowMin ==
    ASSUME NEW S
    PROVE  RW!Min(S) = Min(S)
  BY DEF RW!Min, Min

LEMMA WindowCardinality ==
    ASSUME NEW S
    PROVE  RW!Cardinality(S) = Cardinality(S)
  BY DEF RW!Cardinality, Cardinality

LEMMA LongerRange ==
    ASSUME NEW a \in Int, NEW b \in Int, a <= b
    PROVE  \A t \in 0 .. a - 1 : t \in 0 .. b - 1
  OBVIOUS

(* The window reads items that are in the order: nothing has panicked, so what is
   released is written. *)
LEMMA ExtendKept ==
    ASSUME PlaybackInv, live_pc = "recorded", RW!Extend, UNCHANGED others
    PROVE  PlaybackInv'
  <1> DEFINE new == exec_size > range_end
             room == range_end + (BufferCapacity - (range_end - range_start))
  <1>1. /\ bpc = "lock"
        /\ range_end' = IF new THEN Min({exec_size, room}) ELSE range_end
        /\ bpc' = IF ~new /\ ~complete_seen THEN "hint"
                  ELSE IF ~new /\ range_end = range_start THEN "kill" ELSE "process"
        /\ UNCHANGED <<rw_panicked, range_start, notified, batch, ran, failed>>
    BY WindowMin DEF RW!Extend, RW!comm_vars, RW!chan_vars
  <1>2. /\ LiveInv /\ SizeInv /\ WindowInv /\ PanicInv /\ LiveInv' /\ SorterInv'
        /\ Added' = Added
        /\ UNCHANGED <<live_pc, order, pushed, registrations, unwinding, exec_size>>
        /\ registrations \in Nat
    BY ThreadFrame
  <1>3. /\ range_start \in Nat /\ range_end \in Nat /\ exec_size \in Nat
        /\ BufferCapacity \in Nat /\ range_start <= range_end
        /\ range_end <= registrations /\ exec_size <= registrations
        /\ range_end - range_start <= BufferCapacity
    BY <1>2, PlaybackAssumption DEF WindowInv, SizeInv
  <1>4. /\ range_end' \in Nat /\ range_end <= range_end'
        /\ range_end' - range_start <= BufferCapacity
        /\ range_end' = range_end \/ range_end' <= exec_size
    <2>1. room \in Int /\ room >= range_end /\ room - range_start = BufferCapacity
      BY <1>3
    <2> HIDE DEF room
    <2>2. Min({exec_size, room}) = IF exec_size <= room THEN exec_size ELSE room
      BY <1>3, <2>1, MinOfTwo
    <2> QED
      BY <1>1, <1>3, <2>1, <2>2
  <1>5. bpc' \in {"hint", "kill", "process"}
    BY <1>1
  <1>6. WindowInv'
    <2>1. /\ notified \in Nat /\ notified <= range_start
          /\ ran \subseteq 0 .. range_end - 1 /\ 0 .. range_start - 1 \subseteq ran
          /\ batch = {} /\ (~failed => ran = 0 .. range_start - 1)
      BY <1>1, <1>2 DEF WindowInv
    <2>2. ran \subseteq 0 .. range_end' - 1
      <3>0. range_end \in Int /\ range_end' \in Int /\ range_end <= range_end'
        BY <1>3, <1>4
      <3>1. \A t \in 0 .. range_end - 1 : t \in 0 .. range_end' - 1
        BY <3>0, LongerRange
      <3> QED
        BY <2>1, <3>1
    <2>3. bpc' \in RW!BrokerPcs /\ bpc' # "execute" /\ bpc' # "notify"
      BY <1>5 DEF RW!BrokerPcs
    <2>4. range_start <= range_end' /\ range_end' <= registrations
      BY <1>2, <1>3, <1>4
    <2> QED
      BY <1>1, <1>2, <1>3, <1>4, <2>1, <2>2, <2>3, <2>4 DEF WindowInv
  <1>7. ~rw_panicked /\ ~unwinding /\ ~failed
    BY <1>1, <1>2 DEF PanicInv
  <1>8. SizeInv'
    <2>1. \A k \in 1 .. range_end : pushed[order[k].item] < Added
      BY <1>2 DEF SizeInv
    <2>2. \A k \in 1 .. exec_size : pushed[order[k].item] < Added
      BY <1>2, <1>7 DEF SizeInv
    <2>3. \A k \in 1 .. range_end' : k \in 1 .. range_end \/ k \in 1 .. exec_size
      BY <1>3, <1>4
    <2>4. \A k \in 1 .. range_end' : pushed[order[k].item] < Added
      BY <2>1, <2>2, <2>3
    <2> QED
      BY <1>2, <2>2, <2>4 DEF SizeInv
  <1>9. PanicInv'
    BY <1>1, <1>2, <1>5, <1>7 DEF PanicInv
  <1> QED
    BY <1>2, <1>6, <1>8, <1>9 DEF PlaybackInv, ReplayInv

(* Up to where it is read, the order of the second resolver is the recorded one: the
   items are all written. *)
LEMMA ReadIsRecorded ==
    ASSUME LiveInv, live_pc = "recorded", SorterInv, SizeInv, WindowInv
    PROVE  \A k \in 1 .. range_end :
                exec_order[k] = [resolver |-> ResolverOf(pushed[order[k].item]),
                                 parallelism |-> order[k].parallelism]
  <1> SUFFICES ASSUME NEW k \in 1 .. range_end
               PROVE  exec_order[k] = [resolver |-> ResolverOf(pushed[order[k].item]),
                                       parallelism |-> order[k].parallelism]
    OBVIOUS
  <1> DEFINE n == pushed[order[k].item]
  <1>1. /\ registrations \in Nat /\ Added \in Nat /\ range_end \in Nat
        /\ range_end <= registrations
    BY RecordedOrder, SorterFacts DEF WindowInv
  <1>2. k \in 1 .. registrations
    BY <1>1
  <1>3. /\ n \in 0 .. registrations - 1
        /\ record[n].order_ix = k - 1 /\ record[n].parallelism = order[k].parallelism
    BY <1>2, RecordedOrder
  <1>4. n < Added
    BY DEF SizeInv
  <1> HIDE DEF n
  <1>5. n \in 0 .. Added - 1 /\ (k - 1) + 1 = k
    BY <1>1, <1>3, <1>4
  <1>6. exec_order[record[n].order_ix + 1] = ItemOf(n)
    BY <1>5 DEF SorterInv
  <1>7. exec_order[k] = ItemOf(n)
    BY <1>3, <1>5, <1>6
  <1> QED
    BY <1>3, <1>7 DEF ItemOf, n

(* A batch starts where the window does and ends within the parallelism of its first
   task. *)
LEMMA SendBatchKept ==
    ASSUME PlaybackInv, live_pc = "recorded", RW!SendBatch, UNCHANGED others
    PROVE  PlaybackInv'
  <1> DEFINE last == range_start + RW!BatchSize - 1
  <1>1. /\ bpc = "process"
        /\ \/ /\ range_start < range_end /\ bpc' = "execute"
              /\ batch' = {t \in RW!Channel!Tasks : t \notin ran /\ t <= last}
           \/ ~(range_start < range_end) /\ bpc' = "load" /\ batch' = batch
        /\ UNCHANGED <<rw_panicked, range_start, range_end, notified, ran, failed>>
    BY DEF RW!SendBatch, RW!Channel!Release, RW!comm_vars, RW!chan_vars
  <1>2. /\ LiveInv /\ SorterInv /\ SizeInv /\ WindowInv /\ PanicInv /\ LiveInv' /\ SorterInv'
        /\ Added' = Added /\ UNCHANGED record_vars /\ UNCHANGED guide_vars
        /\ UNCHANGED <<live_pc, order, registrations, unwinding, exec_size>>
        /\ registrations \in Nat /\ registrations <= MaxItems
        /\ \A k \in 1 .. registrations : /\ order[k].parallelism \in Nat
                                         /\ order[k].parallelism > 0
    BY ThreadFrame
  <1>3. /\ notified \in Nat /\ notified <= range_start
        /\ range_start \in Nat /\ range_end \in Nat /\ range_start <= range_end
        /\ range_end <= registrations /\ range_end - range_start <= BufferCapacity
        /\ ran = 0 .. range_start - 1 /\ batch = {}
    BY <1>1, <1>2 DEF WindowInv, PanicInv
  <1>4. SizeInv' /\ PanicInv'
    <2>1. bpc' \in {"execute", "load"}
      BY <1>1
    <2>2. SizeInv'
      BY <1>1, <1>2, SizeFrame
    <2> QED
      BY <1>1, <1>2, <2>1, <2>2 DEF PanicInv
  <1>5. CASE range_start < range_end
    <2> DEFINE par == order[range_start + 1].parallelism
    <2>1. range_start + 1 \in 1 .. range_end /\ range_start + 1 \in 1 .. registrations
      BY <1>2, <1>3, <1>5
    <2>2. par \in Nat /\ par > 0
      BY <1>2, <2>1
    <2>3. RW!BatchSize = Min({par, ChannelCapacity, range_end - range_start})
      <3>1. exec_order[range_start + 1].parallelism = par
        <4>1. exec_order[range_start + 1]
                = [resolver |-> ResolverOf(pushed[order[range_start + 1].item]),
                   parallelism |-> order[range_start + 1].parallelism]
          BY <1>2, <2>1, ReadIsRecorded
        <4> QED
          BY <4>1
      <3> QED
        BY <3>1, WindowMin DEF RW!BatchSize
    <2> HIDE DEF par
    <2>4. /\ RW!BatchSize \in Nat /\ RW!BatchSize > 0 /\ RW!BatchSize <= par
          /\ RW!BatchSize <= range_end - range_start
      <3> DEFINE S == {par, ChannelCapacity, range_end - range_start}
      <3>1. S \subseteq Nat /\ S # {} /\ (\A s \in S : 1 <= s) /\ S \subseteq Int
        BY <1>3, <1>5, <2>2, PlaybackAssumption
      <3>2. par \in S /\ range_end - range_start \in S /\ RW!BatchSize = Min(S)
        BY <2>3
      <3> HIDE DEF S
      <3>3. Min(S) \in S /\ \A s \in S : Min(S) <= s
        <4>1. S \in SUBSET Int /\ S # {} /\ 1 \in Int
          BY <3>1
        <4>2. \A s \in S : 1 <= s
          BY <3>1
        <4> QED
          BY <4>1, <4>2, MinOfBounded
      <3>4. Min(S) \in Nat /\ 1 <= Min(S)
        BY <3>1, <3>3
      <3> QED
        BY <3>2, <3>3, <3>4
    <2>5. last \in range_start .. range_end - 1 /\ last < range_start + par /\ last \in Nat
      BY <1>3, <2>2, <2>4
    <2> HIDE DEF last
    <2>6. batch' = range_start .. last
      <3>1. batch' = {t \in 0 .. MaxItems - 1 : t \notin 0 .. range_start - 1 /\ t <= last}
        BY <1>1, <1>3, <1>5 DEF RW!Channel!Tasks
      <3>2. last <= MaxItems - 1 /\ MaxItems \in Nat
        BY <1>2, <1>3, <2>5, GuideConstants
      <3>3. \A t : t \in batch' <=> t \in range_start .. last
        BY <1>3, <2>5, <3>1, <3>2
      <3> QED
        BY <3>3
    <2>7. bpc' = "execute"
      BY <1>1, <1>5
    <2>8. /\ last \in range_start' .. range_end' - 1
          /\ last < range_start' + order'[range_start' + 1].parallelism
          /\ batch' = range_start' .. last
          /\ ran' \subseteq (0 .. range_start' - 1) \cup batch'
      BY <1>1, <1>2, <1>3, <2>5, <2>6 DEF par
    <2>9. ran' \subseteq 0 .. range_end' - 1 /\ 0 .. range_start' - 1 \subseteq ran'
      BY <1>1, <1>3
    <2>10. WindowInv'
      BY <1>1, <1>2, <1>3, <2>7, <2>8, <2>9 DEF WindowInv, RW!BrokerPcs
    <2> QED
      BY <1>2, <1>4, <2>10 DEF PlaybackInv, ReplayInv
  <1>6. CASE ~(range_start < range_end)
    <2>1. bpc' = "load" /\ batch' = batch
      BY <1>1, <1>6
    <2>2. WindowInv'
      BY <1>1, <1>2, <2>1 DEF WindowInv, RW!BrokerPcs
    <2> QED
      BY <1>2, <1>4, <2>2 DEF PlaybackInv, ReplayInv
  <1> QED
    BY <1>5, <1>6

(* When a batch closes without a panic, all of it ran. *)
LEMMA BatchDoneKept ==
    ASSUME PlaybackInv, live_pc = "recorded", RW!BatchDone, UNCHANGED others
    PROVE  PlaybackInv'
  <1>1. /\ bpc = "execute" /\ batch # {} /\ batch' = {}
        /\ batch \subseteq ran \/ failed
        /\ \/ failed /\ bpc' = "panic" /\ range_start' = range_start
           \/ ~failed /\ bpc' = "notify" /\ range_start' = range_start + Cardinality(batch)
        /\ UNCHANGED <<rw_panicked, range_end, notified, ran, failed>>
    BY WindowCardinality DEF RW!BatchDone, RW!Channel!Close, RW!comm_vars
  <1>2. /\ LiveInv /\ SizeInv /\ WindowInv /\ PanicInv /\ LiveInv' /\ SorterInv'
        /\ Added' = Added /\ UNCHANGED record_vars /\ UNCHANGED guide_vars
        /\ UNCHANGED <<live_pc, order, registrations, unwinding, exec_size>>
        /\ registrations \in Nat
    BY ThreadFrame
  <1>3. /\ notified \in Nat /\ notified <= range_start
        /\ range_start \in Nat /\ range_end \in Nat /\ range_start <= range_end
        /\ range_end <= registrations /\ range_end - range_start <= BufferCapacity
        /\ ran \subseteq 0 .. range_end - 1 /\ 0 .. range_start - 1 \subseteq ran
        /\ ran \subseteq (0 .. range_start - 1) \cup batch
        /\ BufferCapacity \in Nat
    BY <1>1, <1>2, PlaybackAssumption DEF WindowInv
  <1>4. PICK last \in range_start .. range_end - 1 : batch = range_start .. last
    BY <1>1, <1>2 DEF WindowInv
  <1>5. SizeInv' /\ PanicInv'
    <2>1. bpc' \in {"panic", "notify"} /\ (bpc' = "notify" => ~failed)
      BY <1>1
    <2>2. SizeInv'
      BY <1>1, <1>2, SizeFrame
    <2> QED
      BY <1>1, <1>2, <2>1, <2>2 DEF PanicInv
  <1>6. CASE failed
    <2>1. bpc' = "panic" /\ range_start' = range_start /\ failed'
      BY <1>1, <1>6
    <2>2. WindowInv'
      BY <1>1, <1>2, <1>3, <2>1 DEF WindowInv, RW!BrokerPcs
    <2> QED
      BY <1>2, <1>5, <2>2 DEF PlaybackInv, ReplayInv
  <1>7. CASE ~failed
    <2>1. bpc' = "notify" /\ range_start' = range_start + Cardinality(batch) /\ ~failed'
          /\ batch \subseteq ran
      BY <1>1, <1>7
    <2>2. Cardinality(batch) = last - range_start + 1
      <3>1. range_start \in Int /\ last \in Int /\ ~(range_start > last)
        BY <1>3, <1>4
      <3> QED
        BY <1>4, <3>1, FS_Interval
    <2>3. range_start' = last + 1 /\ last + 1 \in Nat /\ last + 1 <= range_end
          /\ range_start < last + 1
      BY <1>3, <1>4, <2>1, <2>2
    <2>4. ran = 0 .. last
      <3>1. \A t : t \in ran => t \in 0 .. last
        BY <1>3, <1>4
      <3>2. \A t \in 0 .. last : t \in 0 .. range_start - 1 \/ t \in batch
        BY <1>3, <1>4
      <3> QED
        BY <1>3, <2>1, <3>1, <3>2
    <2>5. ran' = 0 .. range_start' - 1
      BY <1>1, <1>3, <1>4, <2>3, <2>4
    <2>6. /\ range_start' \in Nat /\ range_end' \in Nat /\ notified' \in Nat
          /\ notified' < range_start' /\ notified' <= range_start'
          /\ range_start' <= range_end' /\ range_end' <= registrations'
          /\ range_end' - range_start' <= BufferCapacity
      BY <1>1, <1>2, <1>3, <2>3
    <2>7. ran' \subseteq 0 .. range_end' - 1 /\ 0 .. range_start' - 1 \subseteq ran'
      BY <1>1, <1>2, <1>3, <2>5
    <2>8. bpc' \in RW!BrokerPcs /\ bpc' # "execute" /\ batch' = {}
      BY <1>1, <2>1 DEF RW!BrokerPcs
    <2>9. WindowInv'
      BY <2>5, <2>6, <2>7, <2>8 DEF WindowInv
    <2> QED
      BY <1>2, <1>5, <2>9 DEF PlaybackInv, ReplayInv
  <1> QED
    BY <1>6, <1>7

LEMMA NotifyKept ==
    ASSUME PlaybackInv, live_pc = "recorded", RW!Notify, UNCHANGED others
    PROVE  PlaybackInv'
  <1>1. /\ bpc = "notify" /\ notified' = notified + 1
        /\ bpc' = IF notified' = range_start THEN "process" ELSE "notify"
        /\ UNCHANGED <<rw_panicked, range_start, range_end, batch, ran, failed>>
    BY DEF RW!Notify, RW!comm_vars, RW!chan_vars
  <1>2. /\ LiveInv /\ SizeInv /\ WindowInv /\ PanicInv /\ LiveInv' /\ SorterInv'
        /\ Added' = Added /\ UNCHANGED record_vars /\ UNCHANGED guide_vars
        /\ UNCHANGED <<live_pc, order, registrations, unwinding, exec_size>>
    BY ThreadFrame
  <1>3. notified \in Nat /\ notified < range_start /\ range_start \in Nat
    BY <1>1, <1>2 DEF WindowInv
  <1>4. bpc' \in {"process", "notify"} /\ (bpc' = "notify" => notified' # range_start)
    BY <1>1
  <1>5. WindowInv'
    <2>1. notified' \in Nat /\ notified' <= range_start
      BY <1>1, <1>3
    <2>2. bpc' = "notify" => notified' < range_start
      BY <1>3, <1>4, <2>1
    <2>3. bpc' \in RW!BrokerPcs /\ bpc' # "execute"
      BY <1>4 DEF RW!BrokerPcs
    <2> QED
      BY <1>1, <1>2, <2>1, <2>2, <2>3 DEF WindowInv
  <1>6. SizeInv' /\ PanicInv'
    <2>1. SizeInv'
      BY <1>1, <1>2, SizeFrame
    <2> QED
      BY <1>1, <1>2, <1>4, <2>1 DEF PanicInv
  <1> QED
    BY <1>2, <1>5, <1>6 DEF PlaybackInv, ReplayInv

(* A task runs, or panics. *)
LEMMA WorkersKept ==
    ASSUME PlaybackInv, Workers
    PROVE  PlaybackInv'
  <1>1. PICK t : /\ t \in batch \ ran
                 /\ \/ ran' = ran \cup {t} /\ failed' = failed
                    \/ ran' = ran /\ failed' = TRUE
                 /\ UNCHANGED <<rw_panicked, bpc, range_start, range_end, notified, batch>>
                 /\ UNCHANGED others
    BY DEF Workers, RW!Workers, RW!Invoke, RW!ClosurePanics, RW!Channel!Run, RW!Channel!Fail,
           RW!comm_vars, RW!broker_vars
  <1>2. live_pc = "recorded"
    BY <1>1 DEF PlaybackInv, NotStarted, RW!Init, RW!Channel!Init
  <1>3. /\ LiveInv /\ SizeInv /\ WindowInv /\ PanicInv /\ LiveInv' /\ SorterInv'
        /\ Added' = Added /\ UNCHANGED record_vars /\ UNCHANGED guide_vars
        /\ UNCHANGED <<live_pc, order, registrations, unwinding, exec_size>>
    BY <1>1, <1>2, ThreadFrame
  <1>4. /\ bpc = "execute" /\ ran \subseteq 0 .. range_end - 1
        /\ ran \subseteq (0 .. range_start - 1) \cup batch
        /\ 0 .. range_start - 1 \subseteq ran
        /\ range_start \in Nat /\ range_end \in Nat
    BY <1>1, <1>3 DEF WindowInv
  <1>5. PICK last \in range_start .. range_end - 1 :
            /\ last < range_start + order[range_start + 1].parallelism
            /\ batch = range_start .. last
    BY <1>3, <1>4 DEF WindowInv
  <1>6. t \in 0 .. range_end - 1
    BY <1>1, <1>4, <1>5
  <1>7. /\ ran' \subseteq 0 .. range_end - 1 /\ 0 .. range_start - 1 \subseteq ran'
        /\ ran' \subseteq (0 .. range_start - 1) \cup batch
    BY <1>1, <1>4, <1>6
  <1>8. WindowInv'
    BY <1>1, <1>3, <1>4, <1>7 DEF WindowInv
  <1>9. SizeInv' /\ PanicInv'
    <2>1. SizeInv'
      BY <1>1, <1>3, SizeFrame
    <2> QED
      BY <1>1, <1>3, <1>4, <2>1 DEF PanicInv
  <1> QED
    BY <1>2, <1>3, <1>8, <1>9 DEF PlaybackInv, ReplayInv

-----------------------------------------------------------------------------
(* The theorem *)

(* The end of the first run: an order of default items, none of them released. *)
LEMMA RecordKept ==
    ASSUME PlaybackInv, Record
    PROVE  PlaybackInv'
  <1>1. /\ Recording
        /\ exec_order' = IF live_pc' = "recorded"
                         THEN [k \in 1 .. registrations |-> DefaultItem] ELSE << >>
        /\ UNCHANGED <<rpc, played, unwinding, registrations_added, exec_order_buffer,
                       exec_size, hint, registration_complete, rw_panicked, rw_panic, bpc,
                       complete_seen, range_start, range_end, notified, max_resolved, batch,
                       ran, failed, stopped>>
    BY DEF Record, sorter_vars, comm_vars, broker_vars, chan_vars
  <1>2. LiveInv /\ GuideInv /\ CallInv /\ PushedInv /\ RecordInv
    BY DEF PlaybackInv, LiveInv
  <1>3. LiveInv'
    BY <1>1, <1>2, CallInvKept, PushedInvKept, RecordInvKept DEF LiveInv
  <1>4. live_pc # "recorded" /\ script' = script
    BY <1>1 DEF Recording, LiveSet, LiveAdd, LiveReturn, LiveAwait, LiveFinalFlush,
                LiveInternalize, CallInv
  <1>5. NotStarted
    BY <1>4 DEF PlaybackInv
  <1>6. CASE live_pc' # "recorded"
    <2>1. NotStarted'
      BY <1>1, <1>5, <1>6 DEF NotStarted, RW!Init, RW!Channel!Init
    <2> QED
      BY <1>3, <1>6, <2>1 DEF PlaybackInv
  <1>7. CASE live_pc' = "recorded"
    <2>1. registrations' = registrations
      BY <1>1, <1>4, <1>7 DEF Recording, LiveSet, LiveAdd, LiveReturn, LiveAwait,
                              LiveFinalFlush, LiveInternalize
    <2>2. registrations \in Nat /\ script \in Scripts /\ Len(script) \in Nat
      BY <1>2, BoxFacts
    <2>3. /\ rpc' = "idle" /\ played' = 0 /\ unwinding' = FALSE
          /\ registrations_added' = 0 /\ exec_order_buffer' = << >> /\ exec_size' = 0
          /\ bpc' = "load" /\ range_start' = 0 /\ range_end' = 0 /\ notified' = 0
          /\ rw_panicked' = FALSE /\ batch' = {} /\ ran' = {} /\ failed' = FALSE
      BY <1>1, <1>5 DEF NotStarted, RW!Init, RW!Channel!Init
    <2>4. /\ Len(exec_order_buffer') = 0 /\ exec_order_buffer' \in Seq(BufferItems)
          /\ Added' = 0
      <3>1. Len(exec_order_buffer') = 0 /\ exec_order_buffer' \in Seq(BufferItems)
        BY <2>3, EmptySeq
      <3>2. Added' = 0 - 0
        BY <2>3, <3>1 DEF Added
      <3> QED
        BY <3>1, <3>2
    <2>5. AddsUpTo(played)' = 0
      <3>1. AddsUpTo(0) = 0
        BY <2>2, AddsCounted
      <3> QED
        BY <1>4, <2>3, <3>1 DEF AddsUpTo
    <2>6. DOMAIN exec_order' = 1 .. registrations'
      BY <1>1, <1>7, <2>1
    <2>7. SorterInv'
      BY <1>4, <2>2, <2>3, <2>4, <2>5, <2>6 DEF SorterInv, RegistrationPcs
    <2>8. SizeInv'
      BY <2>1, <2>2, <2>3 DEF SizeInv
    <2>9. WindowInv'
      <3>1. 0 .. 0 - 1 = {}
        OBVIOUS
      <3>2. 0 - 0 <= BufferCapacity
        BY PlaybackAssumption
      <3> QED
        BY <2>1, <2>2, <2>3, <3>1, <3>2 DEF WindowInv, RW!BrokerPcs
    <2>10. PanicInv'
      BY <2>3 DEF PanicInv
    <2> QED
      BY <1>3, <1>7, <2>7, <2>8, <2>9, <2>10 DEF PlaybackInv, ReplayInv
  <1> QED
    BY <1>6, <1>7

LEMMA InitPlaybackInv == Init => PlaybackInv
  <1> SUFFICES ASSUME Init PROVE PlaybackInv
    OBVIOUS
  <1>1. RecordInit /\ PlaybackInit
    BY DEF Init
  <1>2. GuideInv
    BY <1>1, InitGuideInv DEF RecordInit
  <1>3. /\ script \in Scripts /\ live_pc = "call" /\ live_at = 0 /\ registrations = 0
        /\ box = << >> /\ delayed = {} /\ work = {} /\ pushed = << >>
        /\ record = [n \in RegNums |-> [order_ix |-> 0, order_len |-> 0, parallelism |-> 0]]
        /\ order = << >> /\ loc = << >>
    BY <1>1 DEF RecordInit, GuideInit
  <1>4. /\ Len(script) \in Nat /\ AddsUpTo(0) = 0 /\ Called = 0
    BY <1>3, ScriptFacts, AddsCounted DEF Called
  <1>5. Len(box) = 0 /\ box \in Seq(Resolvers \cup {NoResolver})
    BY <1>3, EmptySeq
  <1>6. CallInv
    BY <1>3, <1>4, <1>5 DEF CallInv
  <1>7. Len(pushed) = 0 /\ Len(loc) = 0 /\ Len(order) = 0 /\ pushed \in Seq(0 .. Len(box) - 1)
    BY <1>3, EmptySeq
  <1>8. PushedInv
    BY <1>3, <1>5, <1>7 DEF PushedInv, Items
  <1>9. RecordInv
    BY <1>3, <1>7 DEF RecordInv, RecordItems
  <1>10. NotStarted
    BY <1>1 DEF PlaybackInit, NotStarted
  <1> QED
    BY <1>2, <1>3, <1>6, <1>8, <1>9, <1>10 DEF PlaybackInv, LiveInv

LEMMA NextPlaybackInv ==
    ASSUME PlaybackInv, [Next]_vars
    PROVE  PlaybackInv'
  <1>1. CASE Registration
    BY <1>1, RecordKept, SetValueKept, AddResolutionKept, WriteFullKept, GetAwaiterKept,
       AwaitFlushKept, FinalFlushKept, FacadeStepKept DEF Registration
  <1>2. CASE Broker
    BY <1>2, TurnsKept, ExtendKept, SendBatchKept, BatchDoneKept, NotifyKept
    DEF Broker, RW!Broker
  <1>3. CASE Workers
    BY <1>3, WorkersKept
  <1>4. CASE Ended \/ UNCHANGED vars
    <2>1. /\ UNCHANGED record_vars /\ UNCHANGED guide_vars
          /\ UNCHANGED <<rpc, played, unwinding, registrations_added, exec_order_buffer,
                         exec_order, exec_size, hint, registration_complete, rw_panicked,
                         rw_panic, bpc, complete_seen, range_start, range_end, notified,
                         max_resolved, batch, ran, failed, stopped>>
      BY <1>4 DEF Ended, vars, play_vars, sorter_vars, order_vars, comm_vars, broker_vars,
                  chan_vars
    <2>2. LiveInv /\ LiveInv' /\ live_pc' = live_pc
      BY <2>1, LiveFrame DEF PlaybackInv
    <2>3. live_pc # "recorded" => NotStarted'
      BY <2>1 DEF PlaybackInv, NotStarted, RW!Init, RW!Channel!Init
    <2>4. ASSUME live_pc = "recorded" PROVE ReplayInv'
      <3>1. SorterInv /\ SizeInv /\ WindowInv /\ PanicInv
        BY <2>4 DEF PlaybackInv, ReplayInv
      <3>2. SorterInv' /\ Added' = Added
        BY <2>1, <2>2, <3>1, SorterFrame
      <3>3. SizeInv' /\ WindowInv'
        BY <2>1, <2>2, <3>1, <3>2, SizeFrame, WindowFrame
      <3>4. PanicInv'
        BY <2>1, <3>1 DEF PanicInv
      <3> QED
        BY <3>2, <3>3, <3>4 DEF ReplayInv
    <2> QED
      BY <2>2, <2>3, <2>4 DEF PlaybackInv
  <1> QED
    BY <1>1, <1>2, <1>3, <1>4 DEF Next

LEMMA PlaybackInvariance == Spec => []PlaybackInv
  <1>1. PlaybackInv /\ [Next]_vars => PlaybackInv'
    BY NextPlaybackInv
  <1> QED
    BY InitPlaybackInv, <1>1, PTL DEF Spec

(* What the window of the second resolver has read is the recorded order, item by item:
   the client's own resolver where the live run had it, with the parallelism it had, for
   every sequence of calls, every size of the guide and of the buffer, and wherever the
   window and the registration thread are. *)
THEOREM ReplaysTheOrder == Spec => []OrderReplayed
  <1>1. PlaybackInv => OrderReplayed
    <2> SUFFICES ASSUME PlaybackInv PROVE OrderReplayed
      OBVIOUS
    <2>1. CASE live_pc = "recorded"
      BY <2>1, ReadIsRecorded DEF PlaybackInv, ReplayInv, OrderReplayed
    <2>2. CASE live_pc # "recorded"
      <3>1. range_end = 0
        BY <2>2 DEF PlaybackInv, NotStarted, RW!Init
      <3> QED
        BY <3>1 DEF OrderReplayed
    <2> QED
      BY <2>1, <2>2
  <1> QED
    BY PlaybackInvariance, <1>1, PTL

-----------------------------------------------------------------------------
(* The values: the inductive invariant of both runs *)

Ins(t) == ResolverOf(pushed[t]).ins
Outs(t) == ResolverOf(pushed[t]).outs

(* Places set by the first k calls, and by the calls before registration n returns. *)
GivenBy(k) == {p \in Places : \E i \in 1 .. k : script[i].op = "set" /\ p \in script[i].places}
GivenWith(n) == {p \in Places : \E i \in 1 .. Len(script) :
                    script[i].op = "set" /\ p \in script[i].places /\ AddsUpTo(i) <= n}

(* Tracked in the live run is what is set or computed by an item, by one of them; the
   tracker of a computed place is the location of its item. *)
LiveValueInv ==
    /\ live_tracked \subseteq Places /\ live_tracker \in [Places -> GuideLocs]
    /\ \A p \in Places : p \in live_tracked <=>
            p \in GivenBy(Called) \/ \E t \in Items : p \in Outs(t)
    /\ \A t \in Items : \A p \in Outs(t) : p \notin GivenBy(Called)
    /\ \A s, t \in Items : \A p \in Outs(s) : p \in Outs(t) => s = t
    /\ \A t \in Items : \A p \in Outs(t) : live_tracker[p] = loc[t]
    /\ \A p \in Places :
            live_tracker[p] = GuideDefault \/ \E t \in Items : live_tracker[p] = loc[t]

(* The registrar lets a registration through when its inputs are tracked; a computed
   input is of an item no later than the one the registration is pushed after. *)
LiveInputsInv ==
    /\ \A t \in Items : loc[t].id > 0
    /\ \A n \in work : ResolverOf(n).ins \subseteq live_tracked
    /\ \A t \in Items : \A p \in Ins(t) :
            p \in GivenBy(Called) \/ \E s \in Items : /\ p \in Outs(s) /\ after[t] # 0
                                                      /\ ~Precedes(loc[after[t]], loc[s])

LiveValues == LiveValueInv /\ LiveInputsInv

(* What the registration thread of the replay has tracked, and what is resolved: what is
   set, and what has run.  The tracker of a computed place is its place in the order. *)
ReplayValueInv ==
    /\ tracked \subseteq Places /\ resolved \subseteq Places
    /\ \A p \in Places : p \in tracked <=>
            \/ p \in GivenBy(played)
            \/ \E n \in 0 .. registrations_added - 1 : p \in ResolverOf(n).outs
    /\ \A p \in Places : p \in resolved <=>
            p \in GivenBy(played) \/ \E t \in ran : p \in Outs(order[t + 1].item)
    /\ tracker \in [Places -> 0 .. MaxItems]
    /\ \A n \in 0 .. registrations_added - 1 : \A p \in ResolverOf(n).outs :
            tracker[p] = record[n].order_ix + 1

(* Awaiters are told of no place the window has not passed, and wait for a tracked place
   until its place in the order.  A panic that is announced is in its slot until the
   client that waits has taken it. *)
NoticeInv ==
    /\ max_resolved \in Nat /\ max_resolved <= notified
    /\ rpc \in {"flush", "wait", "wait_panic"} => \A p \in awaiting :
            p \in tracked /\ track_id \in Nat /\ tracker[p] <= track_id
    /\ rw_panic \in BOOLEAN
    /\ bpc = "panic_flag" => rw_panic
    /\ rw_panicked => rw_panic \/ unwinding

ValuesInv ==
    /\ LiveValues
    /\ live_pc # "recorded" =>
            tracked = {} /\ resolved = {} /\ tracker = [p \in Places |-> 0]
    /\ live_pc = "recorded" => ReplayValueInv /\ NoticeInv

(* The inputs of the k-th task that no item computes. *)
External(k) == {p \in Ins(order[k].item) : ~ \E s \in Items : p \in Outs(s)}

(* Under SetsInTime: up to the length recorded with a registration, the order needs no set
   that comes after it.  The last length is that of the whole order. *)
RecordedSets ==
    /\ \A n \in 0 .. registrations - 1 : \A k \in 1 .. record[n].order_len :
            External(k) \subseteq GivenWith(n)
    /\ live_pc = "recorded" /\ registrations > 0 =>
            record[registrations - 1].order_len = Len(order)

(* The order is released, and read, up to tasks whose inputs are set. *)
ReplayedSets ==
    /\ ~unwinding => \A k \in 1 .. exec_size : External(k) \subseteq GivenBy(played)
    /\ \A k \in 1 .. range_end : External(k) \subseteq GivenBy(played)

SetsInv == RecordedSets /\ ReplayedSets

-----------------------------------------------------------------------------
(* Places *)

LEMMA ResolverPlaces ==
    ASSUME NEW r \in Resolvers \cup {NoResolver}
    PROVE  r.ins \subseteq Places /\ r.outs \subseteq Places
  BY ScriptsAssumption DEF NoResolver

(* The places of the registrations, and of the items. *)
LEMMA ItemPlaces ==
    ASSUME GuideInv, CallInv, PushedInv
    PROVE  /\ \A n \in 0 .. Len(box) - 1 : /\ ResolverOf(n).ins \subseteq Places
                                           /\ ResolverOf(n).outs \subseteq Places
           /\ \A t \in Items : Ins(t) \subseteq Places /\ Outs(t) \subseteq Places
  <1>1. \A n \in 0 .. Len(box) - 1 : /\ ResolverOf(n).ins \subseteq Places
                                     /\ ResolverOf(n).outs \subseteq Places
    BY BoxFacts, ResolverPlaces
  <1>2. \A t \in Items : pushed[t] \in 0 .. Len(box) - 1
    BY PushedFacts
  <1> QED
    BY <1>1, <1>2 DEF Ins, Outs

LEMMA LiveTrackedRun ==
    ASSUME NEW places, places \subseteq Places, NEW known, known \subseteq Places,
           MaxIx(places) <= MaxTracked(known)
    PROVE  places \subseteq known
  <1> SUFFICES ASSUME NEW p \in places PROVE p \in known
    OBVIOUS
  <1>1. p \in Nat
    BY DEF Places
  <1>2. p <= MaxIx(places) /\ MaxIx(places) \in Int
    BY PlaceCntAssumption, MaxOrMinusOne DEF Places, MaxIx
  <1>3. MaxTracked(known) \in Int /\ 0 .. MaxTracked(known) \subseteq known
    BY PlaceCntAssumption, UnbrokenRun DEF Places, MaxTracked
  <1>4. p \in 0 .. MaxTracked(known)
    BY <1>1, <1>2, <1>3
  <1> QED
    BY <1>3, <1>4

(* One call more sets its places or none. *)
LEMMA GivenOne ==
    ASSUME script \in Scripts, NEW k \in Nat, k < Len(script)
    PROVE  /\ GivenBy(0) = {} /\ GivenBy(k) \subseteq Places /\ GivenBy(k) \subseteq GivenBy(k + 1)
           /\ GivenBy(k + 1) = IF script[k + 1].op = "set" THEN GivenBy(k) \cup script[k + 1].places
                               ELSE GivenBy(k)
  <1>1. \A i \in 1 .. k + 1 : i \in 1 .. k \/ i = k + 1
    OBVIOUS
  <1>2. \A i \in 1 .. k : i \in 1 .. k + 1
    OBVIOUS
  <1>3. k + 1 \in 1 .. k + 1 /\ k + 1 \in 1 .. Len(script)
    BY ScriptFacts
  <1>4. script[k + 1].places \subseteq Places
    BY <1>3, ScriptFacts
  <1> QED
    BY <1>1, <1>2, <1>3, <1>4 DEF GivenBy

(* What some of the first calls set, all of them set. *)
LEMMA GivenGrows ==
    ASSUME NEW j \in Int, NEW k \in Int, j <= k
    PROVE  GivenBy(j) \subseteq GivenBy(k)
  <1>1. \A i \in 1 .. j : i \in 1 .. k
    OBVIOUS
  <1> QED
    BY <1>1 DEF GivenBy

-----------------------------------------------------------------------------
(* The values of the live run *)

(* A step that pushes and tracks nothing. *)
LEMMA LiveValuesFrame ==
    ASSUME LiveValues, UNCHANGED <<pushed, loc, after, live_tracked, live_tracker>>,
           \A t \in Items : Ins(t)' = Ins(t) /\ Outs(t)' = Outs(t),
           GivenBy(Called)' = GivenBy(Called),
           \A n \in work' : ResolverOf(n)'.ins \subseteq live_tracked
    PROVE  LiveValues'
  <1>1. Items' = Items
    BY DEF Items
  <1>2. LiveValueInv'
    BY <1>1 DEF LiveValues, LiveValueInv
  <1>3. LiveInputsInv'
    <2>1. \A t \in Items' : loc'[t].id > 0
      BY <1>1 DEF LiveValues, LiveInputsInv
    <2>2. \A n \in work' : ResolverOf(n)'.ins \subseteq live_tracked'
      OBVIOUS
    <2>3. \A t \in Items' : \A p \in Ins(t)' :
            \/ p \in GivenBy(Called)'
            \/ \E s \in Items' : /\ p \in Outs(s)' /\ after'[t] # 0
                                 /\ ~Precedes(loc'[after'[t]], loc'[s])
      BY <1>1 DEF LiveValues, LiveInputsInv
    <2> QED
      BY <2>1, <2>2, <2>3 DEF LiveInputsInv
  <1> QED
    BY <1>2, <1>3 DEF LiveValues

(* A registration that waits, once the registrar finds its inputs tracked. *)
LEMMA FreedTracked ==
    ASSUME CallInv, PushedInv, GuideInv, NEW known, known \subseteq Places,
           NEW n \in Freed(delayed, known)
    PROVE  ResolverOf(n).ins \subseteq known
  <1>1. n \in 0 .. Len(box) - 1 /\ MaxIx(ResolverOf(n).ins) <= MaxTracked(known)
    BY DEF Freed, PushedInv
  <1>2. ResolverOf(n).ins \subseteq Places
    BY <1>1, ItemPlaces
  <1> QED
    BY <1>1, <1>2, LiveTrackedRun

LEMMA LiveSetValues ==
    ASSUME GuideInv, CallInv, PushedInv, LiveValues, LiveSet
    PROVE  LiveValues'
  <1> DEFINE places == LiveCall.places
  <1>1. /\ live_pc = "call" /\ live_at < Len(script) /\ LiveCall.op = "set"
        /\ places \cap live_tracked = {} /\ live_tracked' = live_tracked \cup places
        /\ work' = Freed(delayed, live_tracked') /\ live_pc' = "internalize"
        /\ UNCHANGED <<script, live_at, box, pushed, live_tracker, loc, after>>
    BY DEF LiveSet, guide_vars
  <1>2. script \in Scripts /\ live_at \in Nat /\ Called = live_at
    BY <1>1, BoxFacts DEF Called
  <1>3. GivenBy(live_at + 1) = GivenBy(live_at) \cup places
    BY <1>1, <1>2, GivenOne DEF LiveCall
  <1>4. GivenBy(Called)' = GivenBy(Called) \cup places
    <2>1. Called' = live_at + 1
      BY <1>1 DEF Called
    <2>2. GivenBy(Called)' = GivenBy(live_at + 1)
      BY <1>1, <2>1 DEF GivenBy
    <2> QED
      BY <1>2, <1>3, <2>2
  <1>5. places \subseteq Places
    <2>1. live_at + 1 \in 1 .. Len(script)
      BY <1>1, <1>2, ScriptFacts
    <2> QED
      BY <1>2, <2>1, ScriptFacts DEF LiveCall
  <1>6. /\ \A n : ResolverOf(n)' = ResolverOf(n)
        /\ \A t : Ins(t)' = Ins(t) /\ Outs(t)' = Outs(t)
        /\ Items' = Items
    BY <1>1 DEF ResolverOf, Ins, Outs, Items
  <1>7. \A t \in Items : \A p \in Outs(t) : p \in live_tracked
    BY ItemPlaces DEF LiveValues, LiveValueInv
  <1> HIDE DEF places
  <1>8. LiveValueInv'
    <2>1. live_tracked' \subseteq Places /\ live_tracker' \in [Places -> GuideLocs]
      BY <1>1, <1>5 DEF LiveValues, LiveValueInv
    <2>2. \A p \in Places : p \in live_tracked' <=>
            p \in GivenBy(Called)' \/ \E t \in Items' : p \in Outs(t)'
      BY <1>1, <1>4, <1>6 DEF LiveValues, LiveValueInv
    <2>3. \A t \in Items' : \A p \in Outs(t)' : p \notin GivenBy(Called)'
      BY <1>1, <1>4, <1>6, <1>7 DEF LiveValues, LiveValueInv
    <2>4. \A s, t \in Items' : \A p \in Outs(s)' : p \in Outs(t)' => s = t
      BY <1>6 DEF LiveValues, LiveValueInv
    <2>5. /\ \A t \in Items' : \A p \in Outs(t)' : live_tracker'[p] = loc'[t]
          /\ \A p \in Places : live_tracker'[p] = GuideDefault
                               \/ \E t \in Items' : live_tracker'[p] = loc'[t]
      BY <1>1, <1>6 DEF LiveValues, LiveValueInv
    <2> QED
      BY <2>1, <2>2, <2>3, <2>4, <2>5 DEF LiveValueInv
  <1>9. LiveInputsInv'
    <2>1. \A t \in Items' : loc'[t].id > 0
      BY <1>1, <1>6 DEF LiveValues, LiveInputsInv
    <2>2. \A n \in work' : ResolverOf(n)'.ins \subseteq live_tracked'
      <3>1. live_tracked' \subseteq Places
        BY <1>8 DEF LiveValueInv
      <3> QED
        BY <1>1, <1>6, <3>1, FreedTracked
    <2>3. \A t \in Items' : \A p \in Ins(t)' :
            \/ p \in GivenBy(Called)'
            \/ \E s \in Items' : /\ p \in Outs(s)' /\ after'[t] # 0
                                 /\ ~Precedes(loc'[after'[t]], loc'[s])
      BY <1>1, <1>4, <1>6 DEF LiveValues, LiveInputsInv
    <2> QED
      BY <2>1, <2>2, <2>3 DEF LiveInputsInv
  <1> QED
    BY <1>8, <1>9 DEF LiveValues

LEMMA LiveAddValues ==
    ASSUME GuideInv, CallInv, PushedInv, LiveValues, LiveAdd
    PROVE  LiveValues'
  <1> DEFINE r == LiveCall.resolver
  <1>1. /\ live_pc = "call" /\ live_at < Len(script) /\ LiveCall.op = "add"
        /\ box' = Append(box, r) /\ live_pc' = "internalize"
        /\ work' = IF MaxIx(r.ins) <= MaxTracked(live_tracked) THEN {registrations} ELSE {}
        /\ UNCHANGED <<script, live_at, registrations, pushed, live_tracked, live_tracker, loc, after>>
    BY DEF LiveAdd, guide_vars
  <1>2. /\ script \in Scripts /\ live_at \in Nat /\ Called = live_at
        /\ registrations = Len(box) /\ Len(box) \in Nat
        /\ box \in Seq(Resolvers \cup {NoResolver})
    BY <1>1, BoxFacts DEF Called, CallInv
  <1>3. r \in Resolvers \cup {NoResolver}
    <2>1. live_at + 1 \in 1 .. Len(script)
      BY <1>1, <1>2, ScriptFacts
    <2> QED
      BY <1>2, <2>1, ScriptFacts DEF LiveCall
  <1>4. GivenBy(Called)' = GivenBy(Called)
    <2>1. GivenBy(live_at + 1) = GivenBy(live_at)
      BY <1>1, <1>2, GivenOne DEF LiveCall
    <2>2. Called' = live_at + 1
      BY <1>1 DEF Called
    <2>3. GivenBy(Called)' = GivenBy(live_at + 1)
      BY <1>1, <2>2 DEF GivenBy
    <2> QED
      BY <1>2, <2>1, <2>3
  <1> HIDE DEF r
  <1>5. /\ \A n \in 0 .. Len(box) - 1 : ResolverOf(n)' = ResolverOf(n)
        /\ \A n : n = registrations => ResolverOf(n)' = r
    <2>1. /\ \A k \in 1 .. Len(box) : box'[k] = box[k]
          /\ box'[Len(box) + 1] = r
      BY <1>1, <1>2, <1>3, AppendByPosition
    <2>2. \A n \in 0 .. Len(box) - 1 : n + 1 \in 1 .. Len(box)
      BY <1>2
    <2> QED
      BY <1>2, <2>1, <2>2 DEF ResolverOf
  <1>6. \A t \in Items : Ins(t)' = Ins(t) /\ Outs(t)' = Outs(t)
    <2> TAKE t \in Items
    <2>1. pushed[t] \in 0 .. Len(box) - 1 /\ pushed'[t] = pushed[t]
      BY <1>1, PushedFacts
    <2>2. ResolverOf(pushed[t])' = ResolverOf(pushed[t])
      BY <1>1, <1>5, <2>1 DEF ResolverOf
    <2> QED
      BY <1>1, <2>2 DEF Ins, Outs, ResolverOf
  <1>7. \A n \in work' : ResolverOf(n)'.ins \subseteq live_tracked
    <2> SUFFICES ASSUME MaxIx(r.ins) <= MaxTracked(live_tracked),
                        work' = {registrations}
                 PROVE  \A n \in work' : ResolverOf(n)'.ins \subseteq live_tracked
      BY <1>1
    <2>1. r.ins \subseteq live_tracked
      BY <1>3, ResolverPlaces, LiveTrackedRun DEF LiveValues, LiveValueInv
    <2> QED
      BY <1>5, <2>1
  <1> QED
    BY <1>1, <1>4, <1>6, <1>7, LiveValuesFrame

(* The calls return, and awaiters flush. *)
LEMMA LiveReturnsValues ==
    ASSUME GuideInv, CallInv, PushedInv, LiveValues,
           LiveReturn \/ LiveAwait \/ LiveFinalFlush
    PROVE  LiveValues'
  <1>1. /\ UNCHANGED <<script, box, pushed, live_tracked, live_tracker, loc, after>>
        /\ work' = work
    BY DEF LiveReturn, LiveAwait, LiveFinalFlush, Flushed, Flush, guide_vars
  <1>2. work = {}
    BY DEF LiveReturn, LiveAwait, LiveFinalFlush, PushedInv
  <1>3. \A t \in Items : Ins(t)' = Ins(t) /\ Outs(t)' = Outs(t)
    BY <1>1 DEF Ins, Outs, ResolverOf
  <1>4. \A k : GivenBy(k)' = GivenBy(k)
    BY <1>1 DEF GivenBy
  <1>5. GivenBy(Called)' = GivenBy(Called)
    <2>1. CASE LiveReturn \/ LiveFinalFlush
      <3>1. Called' = Called
        BY <2>1 DEF LiveReturn, LiveFinalFlush, Called
      <3> QED
        BY <1>1, <3>1 DEF GivenBy
    <2>2. CASE LiveAwait
      <3>1. /\ live_pc = "call" /\ live_pc' = live_pc /\ live_at' = live_at + 1
            /\ live_at < Len(script) /\ LiveCall.op = "await"
        BY <2>2 DEF LiveAwait
      <3>2. Called = live_at /\ Called' = live_at + 1
        BY <3>1 DEF Called
      <3>3. GivenBy(live_at + 1) = GivenBy(live_at)
        <4>1. script \in Scripts /\ live_at \in Nat
          BY BoxFacts
        <4> QED
          BY <3>1, <4>1, GivenOne DEF LiveCall
      <3>4. GivenBy(Called)' = GivenBy(live_at + 1)
        BY <1>1, <3>2 DEF GivenBy
      <3> QED
        BY <3>2, <3>3, <3>4
    <2> QED
      BY <2>1, <2>2
  <1> QED
    BY <1>1, <1>2, <1>3, <1>5, LiveValuesFrame

(* What internalize_one pushes a registration after: an item that no input comes after, if
   an input is computed. *)
LEMMA AfterInputs ==
    ASSUME GuideInv, NEW locs, \A t \in Items : loc[t].id > 0,
           \A l \in locs : l = GuideDefault \/ \E s \in Items : l = loc[s]
    PROVE  \A s \in Items : loc[s] \in locs =>
                /\ ItemAfter(locs) # 0 /\ ItemAfter(locs) \in Items
                /\ ~Precedes(loc[ItemAfter(locs)], loc[s])
  <1> DEFINE last(k) == loc[k] \in locs /\ \A l \in locs : ~Precedes(loc[k], l)
             T == {t \in Items : loc[t] \in locs}
  <1> SUFFICES ASSUME NEW s \in Items, loc[s] \in locs
               PROVE  /\ ItemAfter(locs) # 0 /\ ItemAfter(locs) \in Items
                      /\ ~Precedes(loc[ItemAfter(locs)], loc[s])
    OBVIOUS
  <1>1. /\ loc \in Seq(GuideLocs) /\ Len(loc) \in Nat /\ Items = 1 .. Len(loc)
        /\ \A t \in Items : loc[t] \in GuideLocs
    BY GuideTypes, ElementOfSeq DEF Items
  <1>2. PICK k \in T : \A t \in T : ~Precedes(loc[k], loc[t])
    <2>1. T \subseteq 1 .. Len(loc) /\ T # {}
      BY <1>1
    <2> HIDE DEF T
    <2> QED
      BY <1>1, <2>1, LatestItem
  <1>3. ~Precedes(loc[k], GuideDefault)
    <2>1. loc[k].id \in Nat /\ loc[k].pos \in Nat
      BY <1>1 DEF GuideLocs
    <2> QED
      BY <2>1 DEF Precedes, GuideDefault
  <1>4. k \in Items /\ last(k)
    BY <1>2, <1>3
  <1>5. ItemAfter(locs) = CHOOSE i \in Items : last(i)
    BY <1>4 DEF ItemAfter
  <1> HIDE DEF T
  <1>6. ItemAfter(locs) \in Items /\ last(ItemAfter(locs))
    BY <1>4, <1>5
  <1>7. 0 \notin Items
    BY <1>1
  <1> QED
    BY <1>6, <1>7

LEMMA LiveInternalizeValues ==
    ASSUME GuideInv, CallInv, PushedInv, LiveValues, NEW n \in work, LiveInternalize(n)
    PROVE  LiveValues'
  <1> DEFINE r == ResolverOf(n)
             locs == {live_tracker[p] : p \in r.ins}
             a == ItemAfter(locs)
             here == Len(loc) + 1
  <1>1. /\ live_pc = "internalize" /\ live_pc' = live_pc /\ live_at' = live_at
        /\ r.outs \cap live_tracked = {} /\ Push(a) /\ script' = script /\ box' = box
        /\ live_tracked' = live_tracked \cup r.outs
        /\ live_tracker' = [p \in Places |-> IF p \in r.outs THEN loc'[Len(loc')]
                                             ELSE live_tracker[p]]
        /\ work' = (work \ {n}) \cup Freed(delayed, live_tracked')
    BY DEF LiveInternalize
  <1>2. /\ Len(loc) \in Nat /\ Items = 1 .. Len(loc) /\ loc \in Seq(GuideLocs)
        /\ after \in Seq(0 .. MaxItems) /\ Len(after) = Len(loc)
        /\ \A t \in Items : after[t] # 0 => after[t] \in Items
    BY GuideTypes, PushedFacts DEF GuideInv, Depends
  <1>3. /\ n \in 0 .. Len(box) - 1 /\ r.ins \subseteq Places /\ r.outs \subseteq Places
        /\ r.ins \subseteq live_tracked
    BY ItemPlaces DEF PushedInv, LiveValues, LiveInputsInv
  <1>4. /\ a \in 0 .. Len(loc) /\ Len(loc) < MaxItems
        /\ \A p \in r.ins : \A s \in Items : live_tracker[p] = loc[s] =>
                a # 0 /\ a \in Items /\ ~Precedes(loc[a], loc[s])
    <2>1. \A l \in locs : l = GuideDefault \/ \E s \in Items : l = loc[s]
      BY <1>3 DEF LiveValues, LiveValueInv
    <2>2. \A p \in r.ins : live_tracker[p] \in locs
      OBVIOUS
    <2> HIDE DEF locs
    <2>3. \A s \in Items : loc[s] \in locs =>
                a # 0 /\ a \in Items /\ ~Precedes(loc[a], loc[s])
      BY <2>1, AfterInputs DEF LiveValues, LiveInputsInv
    <2> QED
      BY <2>2, <2>3, ItemAfterIsItem, RoomToPush
  <1> HIDE DEF a
  <1>5. /\ Len(loc') = here /\ Items' = Items \cup {here} /\ here \notin Items
        /\ \A t \in Items : pushed'[t] = pushed[t]
        /\ pushed'[here] = n
    BY InternalizeFrame
  <1>6. PICK l \in GuideLocs : loc' = Append(loc, l) /\ l.id > 0
    BY <1>1, <1>4, PushGrows
  <1>7. /\ loc'[here] = l /\ \A t \in Items : loc'[t] = loc[t]
        /\ after'[here] = a /\ \A t \in Items : after'[t] = after[t]
    <2>1. loc'[here] = l /\ \A t \in Items : loc'[t] = loc[t]
      BY <1>2, <1>6, AppendByPosition
    <2>2. after' = Append(after, a) /\ a \in 0 .. MaxItems
      BY <1>1, <1>2, <1>4, PushGrows, GuideConstants
    <2>3. after'[here] = a /\ \A t \in Items : after'[t] = after[t]
      BY <1>2, <2>2, AppendByPosition
    <2> QED
      BY <2>1, <2>3
  <1>8. /\ \A i : ResolverOf(i)' = ResolverOf(i)
        /\ \A t \in Items : Ins(t)' = Ins(t) /\ Outs(t)' = Outs(t)
        /\ \A t : t = here => Ins(t)' = r.ins /\ Outs(t)' = r.outs
        /\ GivenBy(Called)' = GivenBy(Called)
    <2>1. \A i : ResolverOf(i)' = ResolverOf(i)
      BY <1>1 DEF ResolverOf
    <2>2. /\ \A t \in Items : Ins(t)' = Ins(t) /\ Outs(t)' = Outs(t)
          /\ \A t : t = here => Ins(t)' = r.ins /\ Outs(t)' = r.outs
      BY <1>1, <1>5 DEF Ins, Outs, ResolverOf
    <2>3. GivenBy(Called)' = GivenBy(Called)
      BY <1>1 DEF GivenBy, Called
    <2> QED
      BY <2>1, <2>2, <2>3
  <1>9. loc'[Len(loc')] = l
    BY <1>5, <1>7
  <1>10. \A t \in Items : Outs(t) \cap r.outs = {}
    BY <1>1, ItemPlaces DEF LiveValues, LiveValueInv
  <1>11. r.outs \cap GivenBy(Called) = {}
    BY <1>1, <1>3 DEF LiveValues, LiveValueInv
  <1> HIDE DEF r, here, locs
  <1>12. LiveValueInv'
    <2>1. live_tracked' \subseteq Places /\ live_tracker' \in [Places -> GuideLocs]
      BY <1>1, <1>3, <1>9 DEF LiveValues, LiveValueInv
    <2>2. \A p \in Places : p \in live_tracked' <=>
            p \in GivenBy(Called)' \/ \E t \in Items' : p \in Outs(t)'
      BY <1>1, <1>5, <1>8 DEF LiveValues, LiveValueInv
    <2>3. \A t \in Items' : \A p \in Outs(t)' : p \notin GivenBy(Called)'
      BY <1>5, <1>8, <1>11 DEF LiveValues, LiveValueInv
    <2>4. \A s, t \in Items' : \A p \in Outs(s)' : p \in Outs(t)' => s = t
      BY <1>5, <1>8, <1>10 DEF LiveValues, LiveValueInv
    <2>5. ASSUME NEW t \in Items', NEW p \in Outs(t)' PROVE live_tracker'[p] = loc'[t]
      <3>1. CASE t = here
        BY <1>1, <1>3, <1>7, <1>8, <1>9, <2>5, <3>1
      <3>2. CASE t \in Items
        <4>1. p \in Outs(t) /\ p \in Places /\ p \notin r.outs
          BY <1>8, <1>10, <2>5, <3>2, ItemPlaces
        <4> QED
          BY <1>1, <1>7, <3>2, <4>1 DEF LiveValues, LiveValueInv
      <3> QED
        BY <1>5, <3>1, <3>2
    <2>6. \A p \in Places : live_tracker'[p] = GuideDefault
                            \/ \E t \in Items' : live_tracker'[p] = loc'[t]
      BY <1>1, <1>5, <1>7, <1>9 DEF LiveValues, LiveValueInv
    <2> QED
      BY <2>1, <2>2, <2>3, <2>4, <2>5, <2>6 DEF LiveValueInv
  <1>13. LiveInputsInv'
    <2>1. \A t \in Items' : loc'[t].id > 0
      BY <1>5, <1>6, <1>7 DEF LiveValues, LiveInputsInv
    <2>2. \A i \in work' : ResolverOf(i)'.ins \subseteq live_tracked'
      <3>1. live_tracked' \subseteq Places
        BY <1>12 DEF LiveValueInv
      <3>2. \A i \in Freed(delayed, live_tracked') : ResolverOf(i).ins \subseteq live_tracked'
        BY <3>1, FreedTracked
      <3>3. \A i \in work : ResolverOf(i).ins \subseteq live_tracked'
        BY <1>1 DEF LiveValues, LiveInputsInv
      <3> QED
        BY <1>1, <1>8, <3>2, <3>3
    <2>3. ASSUME NEW t \in Items', NEW p \in Ins(t)', p \notin GivenBy(Called)
          PROVE  \E s \in Items : /\ p \in Outs(s) /\ after'[t] # 0
                                  /\ ~Precedes(loc'[after'[t]], loc[s])
      <3>1. CASE t = here
        <4>1. p \in r.ins /\ p \in live_tracked /\ p \in Places
          BY <1>3, <1>8, <2>3, <3>1
        <4>2. PICK s \in Items : p \in Outs(s)
          BY <2>3, <4>1 DEF LiveValues, LiveValueInv
        <4>3. live_tracker[p] = loc[s]
          BY <4>2 DEF LiveValues, LiveValueInv
        <4>4. a # 0 /\ a \in Items /\ ~Precedes(loc[a], loc[s])
          BY <1>4, <4>1, <4>3
        <4> QED
          BY <1>7, <3>1, <4>2, <4>4
      <3>2. CASE t \in Items
        <4>1. PICK s \in Items : /\ p \in Outs(s) /\ after[t] # 0
                                 /\ ~Precedes(loc[after[t]], loc[s])
          BY <1>8, <2>3, <3>2 DEF LiveValues, LiveInputsInv
        <4>2. after'[t] = after[t] /\ loc'[after[t]] = loc[after[t]]
          BY <1>2, <1>7, <3>2, <4>1
        <4> QED
          BY <4>1, <4>2
      <3> QED
        BY <1>5, <3>1, <3>2
    <2>4. \A t \in Items' : \A p \in Ins(t)' :
            \/ p \in GivenBy(Called)'
            \/ \E s \in Items' : /\ p \in Outs(s)' /\ after'[t] # 0
                                 /\ ~Precedes(loc'[after'[t]], loc'[s])
      BY <1>5, <1>7, <1>8, <2>3
    <2> QED
      BY <2>1, <2>2, <2>4 DEF LiveInputsInv
  <1> QED
    BY <1>12, <1>13 DEF LiveValues

LEMMA LiveValuesKept ==
    ASSUME GuideInv, CallInv, PushedInv, LiveValues, Recording
    PROVE  LiveValues'
  BY LiveSetValues, LiveAddValues, LiveReturnsValues, LiveInternalizeValues DEF Recording

LEMMA LiveValuesInit == RecordInit => LiveValues
  <1> SUFFICES ASSUME RecordInit PROVE LiveValues
    OBVIOUS
  <1>1. /\ script \in Scripts /\ live_pc = "call" /\ live_at = 0 /\ work = {}
        /\ live_tracked = {} /\ live_tracker = [p \in Places |-> GuideDefault] /\ loc = << >>
    BY DEF RecordInit, GuideInit
  <1>2. Items = {} /\ GivenBy(Called) = {}
    BY <1>1 DEF Items, Called, GivenBy
  <1>3. GuideDefault \in GuideLocs
    BY DEF GuideDefault, GuideLocs
  <1> QED
    BY <1>1, <1>2, <1>3 DEF LiveValues, LiveValueInv, LiveInputsInv

-----------------------------------------------------------------------------
(* The values of the replay *)

LEMMA ValuesFrame ==
    ASSUME LiveInv, LiveValues, UNCHANGED record_vars, UNCHANGED guide_vars
    PROVE  /\ LiveValues' /\ \A k : GivenBy(k)' = GivenBy(k) /\ GivenWith(k)' = GivenWith(k)
           /\ \A t : Ins(t)' = Ins(t) /\ Outs(t)' = Outs(t)
           /\ Items' = Items
  <1>1. /\ UNCHANGED <<script, live_pc, live_at, box, work, pushed, live_tracked, live_tracker>>
        /\ UNCHANGED <<loc, after>>
        /\ \A k : AddsUpTo(k)' = AddsUpTo(k)
    BY LiveFrame
  <1>2. /\ \A k : GivenBy(k)' = GivenBy(k) /\ GivenWith(k)' = GivenWith(k)
        /\ \A t : Ins(t)' = Ins(t) /\ Outs(t)' = Outs(t)
        /\ \A n : ResolverOf(n)' = ResolverOf(n)
    BY <1>1 DEF GivenBy, GivenWith, Ins, Outs, ResolverOf
  <1>3. GivenBy(Called)' = GivenBy(Called)
    BY <1>1 DEF GivenBy, Called
  <1>4. \A n \in work' : ResolverOf(n)'.ins \subseteq live_tracked
    BY <1>1, <1>2 DEF LiveValues, LiveInputsInv
  <1>5. LiveValues'
    BY <1>1, <1>2, <1>3, <1>4, LiveValuesFrame
  <1> QED
    BY <1>1, <1>2, <1>5 DEF Items

LEMMA ReplayValuesFrame ==
    ASSUME LiveInv, ReplayValueInv, UNCHANGED record_vars, UNCHANGED guide_vars,
           UNCHANGED <<tracked, resolved, tracker, ran, registrations_added>>,
           GivenBy(played)' = GivenBy(played)
    PROVE  ReplayValueInv'
  <1>1. /\ UNCHANGED <<box, pushed, record>> /\ UNCHANGED order
        /\ \A n : ResolverOf(n)' = ResolverOf(n)
    BY LiveFrame
  <1>2. \A t \in ran : Outs(order[t + 1].item)' = Outs(order[t + 1].item)
    BY <1>1 DEF Outs, ResolverOf
  <1> QED
    BY <1>1, <1>2 DEF ReplayValueInv

(* When all is recorded a registration is the item at its place of the order, and its
   outputs are its own. *)
LEMMA ReplayFacts ==
    ASSUME LiveInv, live_pc = "recorded", LiveValues
    PROVE  /\ Called = Len(script) /\ live_at = Len(script)
           /\ \A n \in 0 .. registrations - 1 :
                /\ order[record[n].order_ix + 1].item \in Items
                /\ Outs(order[record[n].order_ix + 1].item) = ResolverOf(n).outs
                /\ ResolverOf(n).outs \subseteq Places
                /\ ResolverOf(n).outs \cap GivenBy(Len(script)) = {}
           /\ \A m, n \in 0 .. registrations - 1 : \A p \in ResolverOf(m).outs :
                p \in ResolverOf(n).outs => m = n
  <1>1. Called = Len(script) /\ live_at = Len(script)
    BY DEF LiveInv, CallInv, Called
  <1>2. \A n \in 0 .. registrations - 1 :
            /\ record[n].order_ix + 1 \in 1 .. Len(order)
            /\ pushed[order[record[n].order_ix + 1].item] = n
    BY RecordedOrder
  <1>3. \A k \in 1 .. Len(order) : order[k].item \in Items
    BY PushedFacts DEF LiveInv
  <1>4. ASSUME NEW n \in 0 .. registrations - 1
        PROVE  /\ order[record[n].order_ix + 1].item \in Items
               /\ Outs(order[record[n].order_ix + 1].item) = ResolverOf(n).outs
               /\ ResolverOf(n).outs \subseteq Places
               /\ ResolverOf(n).outs \cap GivenBy(Len(script)) = {}
    <2> DEFINE t == order[record[n].order_ix + 1].item
    <2>1. t \in Items /\ pushed[t] = n
      BY <1>2, <1>3
    <2> HIDE DEF t
    <2>2. Outs(t) = ResolverOf(n).outs
      BY <2>1 DEF Outs
    <2>3. Outs(t) \subseteq Places
      BY <2>1, ItemPlaces DEF LiveInv
    <2>4. \A p \in Outs(t) : p \notin GivenBy(Len(script))
      BY <1>1, <2>1 DEF LiveValues, LiveValueInv
    <2> QED
      BY <2>1, <2>2, <2>3, <2>4 DEF t
  <1>5. ASSUME NEW m \in 0 .. registrations - 1, NEW n \in 0 .. registrations - 1,
               NEW p \in ResolverOf(m).outs, p \in ResolverOf(n).outs
        PROVE  m = n
    <2>1. order[record[m].order_ix + 1].item = order[record[n].order_ix + 1].item
      BY <1>4, <1>5 DEF LiveValues, LiveValueInv
    <2> QED
      BY <1>2, <2>1
  <1> QED
    BY <1>1, <1>4, <1>5

(* What has run, or is in the batch, is in the order of the second resolver, so it is
   registered and tracked there. *)
LEMMA ReadFacts ==
    ASSUME LiveInv, live_pc = "recorded", SorterInv, SizeInv, WindowInv
    PROVE  \A k \in 1 .. range_end :
                /\ k \in 1 .. registrations /\ k \in 1 .. Len(order)
                /\ order[k].item \in Items
                /\ pushed[order[k].item] \in 0 .. registrations_added - 1
                /\ pushed[order[k].item] \in 0 .. registrations - 1
                /\ record[pushed[order[k].item]].order_ix + 1 = k
                /\ exec_order[k].resolver = ResolverOf(pushed[order[k].item])
  <1> TAKE k \in 1 .. range_end
  <1>1. /\ registrations \in Nat /\ Added \in Nat /\ range_end \in Nat
        /\ range_end <= registrations /\ Len(order) = registrations
        /\ registrations_added \in Nat /\ Added <= registrations_added
    BY RecordedOrder, SorterFacts DEF WindowInv
  <1>2. k \in 1 .. registrations /\ k \in 1 .. Len(order)
    BY <1>1
  <1>3. /\ pushed[order[k].item] \in 0 .. registrations - 1
        /\ record[pushed[order[k].item]].order_ix = k - 1
    BY <1>2, RecordedOrder
  <1>4. order[k].item \in Items
    BY <1>2, PushedFacts DEF LiveInv
  <1>5. pushed[order[k].item] < Added
    BY DEF SizeInv
  <1>6. /\ pushed[order[k].item] \in 0 .. registrations_added - 1
        /\ record[pushed[order[k].item]].order_ix + 1 = k
    BY <1>1, <1>3, <1>5
  <1>7. exec_order[k] = [resolver |-> ResolverOf(pushed[order[k].item]),
                         parallelism |-> order[k].parallelism]
    BY ReadIsRecorded
  <1> QED
    BY <1>2, <1>3, <1>4, <1>6, <1>7

LEMMA RanFacts ==
    ASSUME LiveInv, live_pc = "recorded", SorterInv, SizeInv, WindowInv
    PROVE  /\ \A t \in ran : t \in Nat /\ t + 1 \in 1 .. range_end
           /\ \A t \in batch : t \in Nat /\ t + 1 \in 1 .. range_end /\ range_start <= t
  <1>1. range_start \in Nat /\ range_end \in Nat /\ ran \subseteq 0 .. range_end - 1
    BY DEF WindowInv
  <1>2. batch = {} \/ \E last \in range_start .. range_end - 1 : batch = range_start .. last
    BY DEF WindowInv
  <1> QED
    BY <1>1, <1>2

LEMMA ResolvedTracked ==
    ASSUME LiveInv, live_pc = "recorded", SorterInv, SizeInv, WindowInv, ReplayValueInv
    PROVE  resolved \subseteq tracked
  <1> SUFFICES ASSUME NEW p \in resolved, p \notin GivenBy(played) PROVE p \in tracked
    BY DEF ReplayValueInv
  <1>1. p \in Places
    BY DEF ReplayValueInv
  <1>2. PICK t \in ran : p \in Outs(order[t + 1].item)
    BY <1>1 DEF ReplayValueInv
  <1>3. pushed[order[t + 1].item] \in 0 .. registrations_added - 1
    BY RanFacts, ReadFacts
  <1> QED
    BY <1>1, <1>2, <1>3 DEF ReplayValueInv, Outs

(* A call that sets nothing gives nothing. *)
LEMMA PlayedGives ==
    ASSUME LiveInv, live_pc = "recorded", SorterInv, played < Len(script)
    PROVE  GivenBy(played + 1) = IF Call.op = "set" THEN GivenBy(played) \cup Call.places
                                 ELSE GivenBy(played)
  <1>1. script \in Scripts /\ played \in Nat
    BY SorterFacts DEF SorterInv
  <1> QED
    BY <1>1, GivenOne DEF Call

LEMMA SetValueValues ==
    ASSUME PlaybackInv, ValuesInv, SetValue
    PROVE  ValuesInv'
  <1>1. /\ live_pc = "recorded" /\ rpc = "idle" /\ played < Len(script) /\ Call.op = "set"
        /\ tracked' = tracked \cup Call.places /\ resolved' = resolved \cup Call.places
        /\ played' = played + 1 /\ UNCHANGED record_vars /\ UNCHANGED guide_vars
        /\ UNCHANGED <<rpc, tracker, registrations_added, ran, max_resolved, notified, rw_panic,
                       rw_panicked, bpc, unwinding>>
    BY DEF SetValue, Idle, sorter_vars, comm_vars, broker_vars, chan_vars
  <1>2. LiveInv /\ SorterInv /\ LiveValues /\ ReplayValueInv /\ NoticeInv
    BY <1>1 DEF PlaybackInv, ReplayInv, ValuesInv
  <1>3. /\ LiveValues' /\ live_pc' = live_pc
        /\ UNCHANGED <<box, pushed, record>> /\ UNCHANGED order
        /\ \A k : GivenBy(k)' = GivenBy(k)
        /\ \A n : ResolverOf(n)' = ResolverOf(n)
        /\ \A t : Outs(t)' = Outs(t)
    BY <1>1, <1>2, LiveFrame, ValuesFrame
  <1>4. GivenBy(played)' = GivenBy(played) \cup Call.places /\ Call.places \subseteq Places
    <2>1. GivenBy(played + 1) = GivenBy(played) \cup Call.places
      BY <1>1, <1>2, PlayedGives
    <2>2. GivenBy(played)' = GivenBy(played + 1)
      BY <1>1, <1>3 DEF GivenBy
    <2> QED
      BY <1>1, <1>2, <2>1, <2>2, PlayedOne
  <1>5. \A t \in ran : Outs(order[t + 1].item)' = Outs(order[t + 1].item)
    BY <1>3 DEF Outs
  <1>6. ReplayValueInv'
    <2>1. \A p \in Places : p \in tracked' <=>
            \/ p \in GivenBy(played)'
            \/ \E n \in 0 .. registrations_added' - 1 : p \in ResolverOf(n)'.outs
      BY <1>1, <1>2, <1>3, <1>4 DEF ReplayValueInv
    <2>2. \A p \in Places : p \in resolved' <=>
            p \in GivenBy(played)' \/ \E t \in ran' : p \in Outs(order[t + 1].item)'
      BY <1>1, <1>2, <1>4, <1>5 DEF ReplayValueInv
    <2> QED
      BY <1>1, <1>2, <1>3, <1>4, <2>1, <2>2 DEF ReplayValueInv
  <1>7. NoticeInv'
    BY <1>1, <1>2 DEF NoticeInv
  <1> QED
    BY <1>1, <1>3, <1>6, <1>7 DEF ValuesInv

(* The outputs of a registration are tracked by it alone, and nothing of them is
   resolved. *)
LEMMA AddResolutionValues ==
    ASSUME PlaybackInv, ValuesInv, AddResolution
    PROVE  ValuesInv'
  <1> DEFINE r == Call.resolver
             ra == registrations_added
  <1>1. /\ live_pc = "recorded" /\ rpc = "idle" /\ played < Len(script) /\ Call.op = "add"
        /\ r.outs \cap tracked = {}
        /\ tracked' = tracked \cup r.outs /\ resolved' = resolved \ r.outs
        /\ tracker' = [p \in Places |-> IF p \in r.outs THEN record[ra].order_ix + 1
                                        ELSE tracker[p]]
        /\ registrations_added' = ra + 1
        /\ played' = played + 1 /\ UNCHANGED record_vars /\ UNCHANGED guide_vars
        /\ rpc' \in {"idle", "write"}
        /\ UNCHANGED <<ran, max_resolved, notified, rw_panic, rw_panicked, bpc, unwinding>>
    BY DEF AddResolution, Idle, comm_vars, broker_vars, chan_vars
  <1>2. /\ LiveInv /\ SorterInv /\ SizeInv /\ WindowInv /\ LiveValues /\ ReplayValueInv
        /\ NoticeInv
    BY <1>1 DEF PlaybackInv, ReplayInv, ValuesInv
  <1>3. /\ LiveValues' /\ live_pc' = live_pc
        /\ UNCHANGED <<box, pushed, record>> /\ UNCHANGED order
        /\ \A k : GivenBy(k)' = GivenBy(k)
        /\ \A n : ResolverOf(n)' = ResolverOf(n)
        /\ \A t : Outs(t)' = Outs(t)
    BY <1>1, <1>2, LiveFrame, ValuesFrame
  <1>4. GivenBy(played)' = GivenBy(played)
    <2>1. GivenBy(played + 1) = GivenBy(played)
      BY <1>1, <1>2, PlayedGives
    <2>2. GivenBy(played)' = GivenBy(played + 1)
      BY <1>1, <1>3 DEF GivenBy
    <2> QED
      BY <2>1, <2>2
  <1>5. ra \in 0 .. registrations - 1 /\ r = ResolverOf(ra)
    BY <1>1, <1>2, PlayedOne
  <1>6. registrations \in Nat /\ ra \in Nat
    BY <1>1, <1>2, <1>5, RecordedOrder
  <1>7. /\ r.outs \subseteq Places
        /\ \A n \in 0 .. ra - 1 : n \in 0 .. registrations - 1 /\ n # ra
        /\ \A n \in 0 .. ra - 1 : ResolverOf(n).outs \cap r.outs = {}
    <2>1. \A n \in 0 .. ra - 1 : n \in 0 .. registrations - 1 /\ n # ra
      BY <1>5, <1>6
    <2> QED
      BY <1>1, <1>2, <1>5, <2>1, ReplayFacts
  <1>8. resolved' = resolved
    BY <1>1, <1>2, ResolvedTracked
  <1>9. record[ra].order_ix + 1 \in 0 .. MaxItems
    <2>1. registrations <= MaxItems /\ record[ra].order_ix + 1 \in 1 .. registrations
      BY <1>1, <1>2, <1>5, RecordedOrder
    <2> QED
      BY <1>6, <2>1, GuideConstants
  <1>10. \A t \in ran : Outs(order[t + 1].item)' = Outs(order[t + 1].item)
    BY <1>3 DEF Outs
  <1>11. \A n : n \in 0 .. registrations_added' - 1 <=> n \in 0 .. ra - 1 \/ n = ra
    BY <1>1, <1>6
  <1> HIDE DEF ra, r
  <1>12. ReplayValueInv'
    <2>1. \A p \in Places : p \in tracked' <=>
            \/ p \in GivenBy(played)'
            \/ \E n \in 0 .. registrations_added' - 1 : p \in ResolverOf(n)'.outs
      BY <1>1, <1>2, <1>3, <1>4, <1>5, <1>11 DEF ReplayValueInv, ra
    <2>2. \A p \in Places : p \in resolved' <=>
            p \in GivenBy(played)' \/ \E t \in ran' : p \in Outs(order[t + 1].item)'
      BY <1>1, <1>2, <1>4, <1>8, <1>10 DEF ReplayValueInv
    <2>3. tracker' \in [Places -> 0 .. MaxItems]
      BY <1>1, <1>2, <1>9 DEF ReplayValueInv
    <2>4. ASSUME NEW n \in 0 .. registrations_added' - 1, NEW p \in ResolverOf(n).outs
          PROVE  tracker'[p] = record[n].order_ix + 1
      <3>1. CASE n = ra
        BY <1>1, <1>5, <1>7, <2>4, <3>1
      <3>2. CASE n \in 0 .. ra - 1
        <4>1. p \notin r.outs /\ p \in Places
          BY <1>1, <1>2, <1>7, <2>4, <3>2, ReplayFacts
        <4> QED
          BY <1>1, <1>2, <2>4, <3>2, <4>1 DEF ReplayValueInv, ra
      <3> QED
        BY <1>11, <2>4, <3>1, <3>2
    <2>5. \A n \in 0 .. registrations_added' - 1 : \A p \in ResolverOf(n)'.outs :
            tracker'[p] = record'[n].order_ix + 1
      BY <1>3, <2>4
    <2>6. tracked' \subseteq Places /\ resolved' \subseteq Places
      BY <1>1, <1>2, <1>7 DEF ReplayValueInv
    <2> QED
      BY <2>1, <2>2, <2>3, <2>5, <2>6 DEF ReplayValueInv
  <1>13. NoticeInv'
    BY <1>1, <1>2 DEF NoticeInv
  <1> QED
    BY <1>1, <1>3, <1>12, <1>13 DEF ValuesInv

(* A step of the registration thread that makes no call. *)
LEMMA SameValues ==
    ASSUME PlaybackInv, ValuesInv, live_pc = "recorded", UNCHANGED record_vars,
           UNCHANGED guide_vars,
           UNCHANGED <<tracked, resolved, tracker, ran, registrations_added>>,
           GivenBy(played)' = GivenBy(played), NoticeInv'
    PROVE  ValuesInv'
  <1>1. LiveInv /\ LiveValues /\ ReplayValueInv
    BY DEF PlaybackInv, ValuesInv
  <1>2. LiveValues' /\ ReplayValueInv' /\ live_pc' = live_pc
    BY <1>1, LiveFrame, ValuesFrame, ReplayValuesFrame
  <1> QED
    BY <1>2 DEF ValuesInv

LEMMA WritesKeepValues ==
    ASSUME PlaybackInv, ValuesInv, WriteFull \/ AwaitFlush \/ FinalFlush
    PROVE  ValuesInv'
  <1>1. /\ UNCHANGED record_vars /\ UNCHANGED guide_vars
        /\ UNCHANGED <<tracked, resolved, tracker, ran, registrations_added, awaiting, track_id,
                       max_resolved, notified, rw_panic, rw_panicked, bpc, unwinding>>
    BY DEF WriteFull, AwaitFlush, FinalFlush, value_vars, broker_vars, chan_vars
  <1>2. live_pc = "recorded"
    BY DEF WriteFull, AwaitFlush, FinalFlush, PlaybackInv, NotStarted
  <1>3. LiveInv /\ SorterInv /\ NoticeInv
    BY <1>2 DEF PlaybackInv, ReplayInv, ValuesInv
  <1>4. \A k : GivenBy(k)' = GivenBy(k)
    BY <1>1, <1>2, <1>3, ValuesFrame DEF ValuesInv
  <1>5. CASE AwaitFlush
    <2>1. rpc = "flush" /\ played' = played + 1 /\ rpc' \in {"aborted", "wait"}
      BY <1>5 DEF AwaitFlush
    <2>2. GivenBy(played)' = GivenBy(played)
      <3>1. played < Len(script) /\ Call.op = "await"
        BY <1>3, <2>1 DEF SorterInv
      <3>2. GivenBy(played + 1) = GivenBy(played)
        BY <1>2, <1>3, <3>1, PlayedGives
      <3>3. GivenBy(played)' = GivenBy(played + 1)
        BY <1>4, <2>1 DEF GivenBy
      <3> QED
        BY <3>2, <3>3
    <2>3. NoticeInv'
      BY <1>1, <1>3, <2>1 DEF NoticeInv
    <2> QED
      BY <1>1, <1>2, <2>2, <2>3, SameValues
  <1>6. CASE WriteFull \/ FinalFlush
    <2>1. played' = played /\ rpc' \in {"idle", "complete"}
      BY <1>6 DEF WriteFull, FinalFlush
    <2>2. GivenBy(played)' = GivenBy(played)
      BY <1>4, <2>1 DEF GivenBy
    <2>3. NoticeInv'
      BY <1>1, <1>3, <2>1 DEF NoticeInv
    <2> QED
      BY <1>1, <1>2, <2>2, <2>3, SameValues
  <1> QED
    BY <1>5, <1>6

(* get_awaiter asks for tracked places, and takes the largest of their trackers. *)
LEMMA GetAwaiterValues ==
    ASSUME PlaybackInv, ValuesInv, GetAwaiter
    PROVE  ValuesInv'
  <1> DEFINE places == Call.places
             T == {tracker[p] : p \in places}
  <1>1. /\ live_pc = "recorded" /\ played < Len(script)
        /\ MaxTracked(tracked) >= MaxIx(places) /\ awaiting' = places
        /\ track_id' = Max(T) /\ rpc' = "flush"
        /\ UNCHANGED record_vars /\ UNCHANGED guide_vars
        /\ UNCHANGED <<tracked, resolved, tracker, ran, registrations_added, played,
                       max_resolved, notified, rw_panic, rw_panicked, bpc, unwinding>>
    BY DEF GetAwaiter, Idle, sorter_vars, value_vars, comm_vars, broker_vars, chan_vars
  <1>2. LiveInv /\ SorterInv /\ NoticeInv /\ ReplayValueInv
    BY <1>1 DEF PlaybackInv, ReplayInv, ValuesInv
  <1>3. GivenBy(played)' = GivenBy(played)
    <2>1. \A k : GivenBy(k)' = GivenBy(k)
      BY <1>1, <1>2, ValuesFrame DEF ValuesInv
    <2> QED
      BY <1>1, <2>1 DEF GivenBy
  <1>4. places \subseteq Places
    BY <1>1, <1>2, PlayedOne
  <1>5. places \subseteq tracked
    <2>1. MaxTracked(tracked) \in Int /\ MaxIx(places) \in Int /\ tracked \subseteq Places
      <3>1. tracked \subseteq Places
        BY <1>2 DEF ReplayValueInv
      <3>2. MaxTracked(tracked) \in Int
        BY <3>1, PlaceCntAssumption, UnbrokenRun DEF Places, MaxTracked
      <3>3. MaxIx(places) \in Int
        BY <1>4, PlaceCntAssumption, MaxOrMinusOne DEF Places, MaxIx
      <3> QED
        BY <3>1, <3>2, <3>3
    <2>2. MaxIx(places) <= MaxTracked(tracked)
      BY <1>1, <2>1
    <2> HIDE DEF places
    <2> QED
      BY <1>4, <2>1, <2>2, LiveTrackedRun
  <1>6. ASSUME NEW p \in places PROVE Max(T) \in Nat /\ tracker[p] <= Max(T)
    <2>1. /\ T \subseteq Int /\ T # {} /\ tracker[p] \in T /\ MaxItems \in Int
          /\ \A s \in T : s \in Nat /\ s <= MaxItems
      BY <1>2, <1>4, <1>6, GuideConstants DEF ReplayValueInv
    <2> HIDE DEF T
    <2> QED
      BY <2>1, MaxOfBounded
  <1>7. NoticeInv'
    BY <1>1, <1>2, <1>5, <1>6 DEF NoticeInv
  <1> QED
    BY <1>1, <1>3, <1>7, SameValues

(* An awaiter looks at the location or at the panic flag, of which it may take the payload;
   the registration ends. *)
LEMMA FacadeStepValues ==
    ASSUME PlaybackInv, ValuesInv, FacadeStep
    PROVE  ValuesInv'
  <1>1. /\ UNCHANGED record_vars /\ UNCHANGED guide_vars
        /\ UNCHANGED <<played, awaiting, tracked, resolved, tracker, ran, registrations_added,
                       notified, track_id, max_resolved, rw_panicked, bpc>>
        /\ rpc \in {"wait", "wait_panic", "complete", "join"}
        /\ rpc' \in {"wait", "wait_panic"} => rpc \in {"wait", "wait_panic"}
        /\ rpc' # "flush"
        /\ \/ UNCHANGED <<rw_panic, unwinding>>
           \/ /\ unwinding' = (unwinding \/ (rw_panicked /\ rw_panic))
              /\ rw_panic' = (rw_panic /\ ~rw_panicked)
    BY DEF FacadeStep, Facade!Step, Facade!AwaitCheck, Facade!AwaitCheckPanic, Facade!Complete,
           Facade!Join, value_vars, sorter_vars, chan_vars
  <1>2. live_pc = "recorded"
    BY <1>1 DEF PlaybackInv, NotStarted
  <1>3. LiveInv /\ PanicInv /\ NoticeInv
    BY <1>2 DEF PlaybackInv, ReplayInv, ValuesInv
  <1>4. GivenBy(played)' = GivenBy(played)
    <2>1. \A k : GivenBy(k)' = GivenBy(k)
      BY <1>1, <1>2, <1>3, ValuesFrame DEF ValuesInv
    <2> QED
      BY <1>1, <2>1 DEF GivenBy
  <1>5. NoticeInv'
    <2>1. rpc' \in {"flush", "wait", "wait_panic"} => \A p \in awaiting' :
            p \in tracked' /\ track_id' \in Nat /\ tracker'[p] <= track_id'
      BY <1>1, <1>3 DEF NoticeInv
    <2>2. max_resolved' \in Nat /\ max_resolved' <= notified'
      BY <1>1, <1>3 DEF NoticeInv
    <2>3. rw_panicked \in BOOLEAN /\ rw_panic \in BOOLEAN /\ unwinding \in BOOLEAN
      BY <1>3 DEF NoticeInv, PanicInv
    <2>4. /\ rw_panic' \in BOOLEAN
          /\ bpc' = "panic_flag" => rw_panic'
          /\ rw_panicked' => rw_panic' \/ unwinding'
      <3>1. bpc = "panic_flag" => rw_panic /\ ~rw_panicked
        BY <1>3 DEF NoticeInv, PanicInv
      <3>2. rw_panicked => rw_panic \/ unwinding
        BY <1>3 DEF NoticeInv
      <3> QED
        BY <1>1, <2>3, <3>1, <3>2
    <2> QED
      BY <2>1, <2>2, <2>4 DEF NoticeInv
  <1> QED
    BY <1>1, <1>2, <1>4, <1>5, SameValues

-----------------------------------------------------------------------------
(* The values: the broker and the workers *)

LEMMA FirstPlace ==
    ASSUME NEW places, places \subseteq Places, places # {}
    PROVE  Min(places) \in places
  <1>1. 0 \in Int /\ places \subseteq Int /\ \A q \in places : 0 <= q
    BY DEF Places
  <1> QED
    BY <1>1, MinOfBounded

LEMMA BrokerValues ==
    ASSUME PlaybackInv, ValuesInv, Broker
    PROVE  ValuesInv'
  <1>1. live_pc = "recorded" /\ RW!Broker /\ UNCHANGED others
    BY DEF Broker
  <1>2. /\ UNCHANGED record_vars /\ UNCHANGED guide_vars
        /\ UNCHANGED <<rpc, played, awaiting, track_id, unwinding, registrations_added>>
    BY <1>1 DEF others, sorter_vars
  <1>3. UNCHANGED <<tracked, resolved, tracker, ran>>
    BY <1>1 DEF RW!Broker, RW!Load, RW!Extend, RW!TakeHint, RW!SeeComplete, RW!SendBatch,
                RW!BatchDone, RW!Notify, RW!StorePanic, RW!RaisePanicked, RW!KillPool,
                RW!value_vars, RW!chan_vars, RW!Channel!Release, RW!Channel!Close,
                RW!Channel!Stop
  <1>4. LiveInv /\ SorterInv /\ SizeInv /\ WindowInv /\ PanicInv /\ NoticeInv /\ ReplayValueInv
    BY <1>1 DEF PlaybackInv, ReplayInv, ValuesInv
  <1>5. GivenBy(played)' = GivenBy(played)
    <2>1. \A k : GivenBy(k)' = GivenBy(k)
      BY <1>1, <1>2, <1>4, ValuesFrame DEF ValuesInv
    <2> QED
      BY <1>2, <2>1 DEF GivenBy
  <1>6. rpc' \in {"flush", "wait", "wait_panic"} => \A p \in awaiting' :
            p \in tracked' /\ track_id' \in Nat /\ tracker'[p] <= track_id'
    BY <1>2, <1>3, <1>4 DEF NoticeInv
  <1>7. /\ max_resolved' \in Nat /\ max_resolved' <= notified'
    <2>1. CASE RW!Notify
      <3> DEFINE k == notified + 1
      <3>1. /\ bpc = "notify" /\ notified' = k
            /\ max_resolved' = IF RW!OutsOf(k) = {} THEN max_resolved
                               ELSE tracker[RW!Min(RW!OutsOf(k))]
        BY <2>1 DEF RW!Notify
      <3>2. max_resolved \in Nat /\ max_resolved <= notified
        BY <1>4 DEF NoticeInv
      <3>3. /\ notified \in Nat /\ k \in Nat /\ k \in 1 .. range_end /\ notified <= k
        <4>1. /\ notified \in Nat /\ range_start \in Nat /\ range_end \in Nat
              /\ notified < range_start /\ range_start <= range_end
          BY <1>4, <3>1 DEF WindowInv
        <4> QED
          BY <4>1
      <3> HIDE DEF k
      <3>4. CASE RW!OutsOf(k) = {}
        BY <3>1, <3>2, <3>3, <3>4
      <3>5. CASE RW!OutsOf(k) # {}
        <4> DEFINE n == pushed[order[k].item]
        <4>1. /\ n \in 0 .. registrations_added - 1 /\ record[n].order_ix + 1 = k
              /\ n \in 0 .. registrations - 1 /\ RW!OutsOf(k) = ResolverOf(n).outs
          BY <1>1, <1>4, <3>3, ReadFacts DEF RW!OutsOf
        <4> HIDE DEF n
        <4>2. RW!Min(RW!OutsOf(k)) \in ResolverOf(n).outs
          <5>1. ResolverOf(n).outs \subseteq Places
            BY <1>1, <1>4, <4>1, ReplayFacts DEF ValuesInv
          <5>2. ResolverOf(n).outs # {}
            BY <3>5, <4>1
          <5>3. Min(ResolverOf(n).outs) \in ResolverOf(n).outs
            BY <5>1, <5>2, FirstPlace
          <5> QED
            BY <4>1, <5>3, WindowMin
        <4>3. max_resolved' = k
          BY <1>4, <3>1, <3>5, <4>1, <4>2 DEF ReplayValueInv
        <4> QED
          BY <3>1, <3>3, <4>3
      <3> QED
        BY <3>4, <3>5
    <2>2. CASE ~RW!Notify
      <3>1. max_resolved' = max_resolved /\ notified' = notified
        BY <1>1, <2>2 DEF RW!Broker, RW!Load, RW!Extend, RW!TakeHint, RW!SeeComplete,
              RW!SendBatch, RW!BatchDone, RW!StorePanic, RW!RaisePanicked, RW!KillPool
      <3> QED
        BY <1>4, <3>1 DEF NoticeInv
    <2> QED
      BY <2>1, <2>2
  <1>8. /\ rw_panic' \in BOOLEAN
        /\ bpc' = "panic_flag" => rw_panic'
        /\ rw_panicked' => rw_panic' \/ unwinding'
    <2>1. CASE RW!StorePanic
      BY <2>1 DEF RW!StorePanic
    <2>2. CASE RW!RaisePanicked
      BY <1>4, <2>2 DEF RW!RaisePanicked, NoticeInv
    <2>3. CASE ~RW!StorePanic /\ ~RW!RaisePanicked
      <3>1. rw_panic' = rw_panic /\ rw_panicked' = rw_panicked /\ bpc' # "panic_flag"
        BY <1>1, <2>3 DEF RW!Broker, RW!Load, RW!Extend, RW!TakeHint, RW!SeeComplete,
              RW!SendBatch, RW!BatchDone, RW!Notify, RW!KillPool, RW!comm_vars
      <3> QED
        BY <1>2, <1>4, <3>1 DEF NoticeInv
    <2> QED
      BY <2>1, <2>2, <2>3
  <1>9. NoticeInv'
    BY <1>6, <1>7, <1>8 DEF NoticeInv
  <1> QED
    BY <1>1, <1>2, <1>3, <1>5, <1>9, SameValues

(* A task that runs resolves its outputs, which are tracked. *)
LEMMA WorkersValues ==
    ASSUME PlaybackInv, ValuesInv, Workers
    PROVE  ValuesInv'
  <1>1. PICK t : /\ t \in batch \ ran
                 /\ \/ /\ ran' = ran \cup {t}
                       /\ resolved' = resolved \cup RW!ResolverAt(t).outs
                       /\ tracked' = tracked \cup RW!ResolverAt(t).outs
                    \/ UNCHANGED <<ran, resolved, tracked>>
                 /\ UNCHANGED <<tracker, rw_panicked, rw_panic, bpc, notified, max_resolved>>
                 /\ UNCHANGED others
    BY DEF Workers, RW!Workers, RW!Invoke, RW!ClosurePanics, RW!Channel!Run, RW!Channel!Fail,
           RW!value_vars, RW!comm_vars, RW!broker_vars
  <1>2. live_pc = "recorded"
    BY <1>1 DEF PlaybackInv, NotStarted, RW!Init, RW!Channel!Init
  <1>3. /\ LiveInv /\ SorterInv /\ SizeInv /\ WindowInv /\ LiveValues /\ NoticeInv
        /\ ReplayValueInv
    BY <1>2 DEF PlaybackInv, ReplayInv, ValuesInv
  <1>4. /\ UNCHANGED record_vars /\ UNCHANGED guide_vars
        /\ UNCHANGED <<rpc, played, awaiting, track_id, unwinding, registrations_added>>
    BY <1>1 DEF others, sorter_vars
  <1>5. /\ LiveValues' /\ live_pc' = live_pc
        /\ UNCHANGED <<box, pushed, record>> /\ UNCHANGED order
        /\ \A k : GivenBy(k)' = GivenBy(k)
        /\ \A n : ResolverOf(n)' = ResolverOf(n)
        /\ \A i : Outs(i)' = Outs(i)
    BY <1>3, <1>4, LiveFrame, ValuesFrame
  <1>6. GivenBy(played)' = GivenBy(played)
    BY <1>4, <1>5 DEF GivenBy
  <1>7. CASE UNCHANGED <<ran, resolved, tracked>>
    <2>1. NoticeInv'
      BY <1>1, <1>3, <1>4, <1>7 DEF NoticeInv
    <2> QED
      BY <1>1, <1>2, <1>4, <1>6, <1>7, <2>1, SameValues
  <1>8. CASE /\ ran' = ran \cup {t}
             /\ resolved' = resolved \cup RW!ResolverAt(t).outs
             /\ tracked' = tracked \cup RW!ResolverAt(t).outs
    <2> DEFINE i == order[t + 1].item
    <2>1. t \in Nat /\ t + 1 \in 1 .. range_end
      BY <1>1, <1>2, <1>3, RanFacts
    <2>2. /\ i \in Items /\ pushed[i] \in 0 .. registrations_added - 1
          /\ RW!ResolverAt(t).outs = Outs(i)
      BY <1>2, <1>3, <2>1, ReadFacts DEF RW!ResolverAt, Outs
    <2>3. Outs(i) \subseteq Places
      BY <1>3, <2>2, ItemPlaces DEF LiveInv
    <2> HIDE DEF i
    <2>4. Outs(i) \subseteq tracked
      BY <1>3, <2>2, <2>3 DEF ReplayValueInv, Outs
    <2>5. tracked' = tracked /\ resolved' = resolved \cup Outs(i)
      BY <1>8, <2>2, <2>4
    <2>6. \A s \in ran' : Outs(order[s + 1].item)' = Outs(order[s + 1].item)
      BY <1>5 DEF Outs
    <2>7. \A p \in Places : p \in resolved' <=>
            p \in GivenBy(played)' \/ \E s \in ran' : p \in Outs(order[s + 1].item)'
      BY <1>3, <1>6, <1>8, <2>5, <2>6 DEF ReplayValueInv, i
    <2>8. ReplayValueInv'
      BY <1>1, <1>3, <1>4, <1>5, <1>6, <2>3, <2>5, <2>7 DEF ReplayValueInv
    <2>9. NoticeInv'
      BY <1>1, <1>3, <1>4, <2>5 DEF NoticeInv
    <2> QED
      BY <1>2, <1>5, <2>8, <2>9 DEF ValuesInv
  <1> QED
    BY <1>1, <1>7, <1>8

-----------------------------------------------------------------------------
(* The values: the invariant *)

LEMMA RecordValues ==
    ASSUME PlaybackInv, PlaybackInv', ValuesInv, Record
    PROVE  ValuesInv'
  <1>1. /\ Recording
        /\ UNCHANGED <<rpc, played, awaiting, track_id, unwinding, registrations_added, tracked,
                       resolved, tracker, rw_panicked, rw_panic, bpc, notified, max_resolved,
                       ran>>
    BY DEF Record, sorter_vars, value_vars, comm_vars, broker_vars, chan_vars
  <1>2. LiveValues'
    BY <1>1, LiveValuesKept DEF PlaybackInv, LiveInv, ValuesInv
  <1>3. live_pc # "recorded"
    BY <1>1 DEF Recording, LiveSet, LiveAdd, LiveReturn, LiveAwait, LiveFinalFlush,
                LiveInternalize, PlaybackInv, LiveInv, PushedInv
  <1>4. /\ tracked = {} /\ resolved = {} /\ tracker = [p \in Places |-> 0]
        /\ rpc = "idle" /\ played = 0 /\ unwinding = FALSE /\ registrations_added = 0
        /\ rw_panicked = FALSE /\ rw_panic = FALSE /\ bpc = "load" /\ notified = 0
        /\ max_resolved = 0 /\ ran = {}
    BY <1>3 DEF PlaybackInv, ValuesInv, NotStarted, RW!Init, RW!Channel!Init
  <1>5. GivenBy(played)' = {}
    BY <1>1, <1>4 DEF GivenBy
  <1>6. ReplayValueInv'
    <2>1. 0 \in 0 .. MaxItems
      BY GuideConstants
    <2>2. \A n \in 0 .. registrations_added' - 1 : FALSE
      BY <1>1, <1>4
    <2>3. ran' = {} /\ tracked' = {} /\ resolved' = {} /\ tracker' \in [Places -> 0 .. MaxItems]
      BY <1>1, <1>4, <2>1
    <2> QED
      BY <1>5, <2>2, <2>3 DEF ReplayValueInv
  <1>7. NoticeInv'
    <2>1. /\ max_resolved' = 0 /\ notified' = 0 /\ rpc' = "idle" /\ bpc' = "load"
          /\ rw_panic' = FALSE
      BY <1>1, <1>4
    <2>2. ~rw_panicked'
      BY <1>1, <1>4
    <2>3. /\ rpc' \notin {"flush", "wait", "wait_panic"} /\ bpc' # "panic_flag"
          /\ rw_panic' \in BOOLEAN
      BY <2>1
    <2>4. max_resolved' \in Nat /\ max_resolved' <= notified'
      BY <2>1
    <2> QED
      BY <2>2, <2>3, <2>4 DEF NoticeInv
  <1>8. live_pc' # "recorded" =>
            tracked' = {} /\ resolved' = {} /\ tracker' = [p \in Places |-> 0]
    BY <1>1, <1>4
  <1> QED
    BY <1>2, <1>6, <1>7, <1>8 DEF ValuesInv

LEMMA NextValues ==
    ASSUME PlaybackInv, PlaybackInv', ValuesInv, [Next]_vars
    PROVE  ValuesInv'
  <1>1. CASE Registration
    BY <1>1, RecordValues, SetValueValues, AddResolutionValues, WritesKeepValues,
       GetAwaiterValues, FacadeStepValues DEF Registration
  <1>2. CASE Broker
    BY <1>2, BrokerValues
  <1>3. CASE Workers
    BY <1>3, WorkersValues
  <1>4. CASE Ended \/ UNCHANGED vars
    <2>1. /\ UNCHANGED record_vars /\ UNCHANGED guide_vars
          /\ UNCHANGED <<rpc, played, awaiting, track_id, unwinding, registrations_added,
                         tracked, resolved, tracker, rw_panicked, rw_panic, bpc, notified,
                         max_resolved, ran>>
      BY <1>4 DEF Ended, vars, play_vars, sorter_vars, value_vars, comm_vars, broker_vars,
                  chan_vars
    <2>2. LiveInv /\ LiveValues /\ LiveValues' /\ live_pc' = live_pc
          /\ \A k : GivenBy(k)' = GivenBy(k)
      BY <2>1, LiveFrame, ValuesFrame DEF PlaybackInv, ValuesInv
    <2>3. CASE live_pc = "recorded"
      <3>1. GivenBy(played)' = GivenBy(played)
        BY <2>1, <2>2 DEF GivenBy
      <3>2. NoticeInv'
        BY <2>1, <2>3 DEF ValuesInv, NoticeInv
      <3> QED
        BY <2>1, <2>3, <3>1, <3>2, SameValues
    <2>4. CASE live_pc # "recorded"
      BY <2>1, <2>2, <2>4 DEF ValuesInv
    <2> QED
      BY <2>3, <2>4
  <1> QED
    BY <1>1, <1>2, <1>3, <1>4 DEF Next

LEMMA ValuesInvariance == Spec => []ValuesInv
  <1>1. Init => ValuesInv
    <2> SUFFICES ASSUME Init PROVE ValuesInv
      OBVIOUS
    <2>1. RecordInit /\ tracked = {} /\ resolved = {} /\ tracker = [p \in Places |-> 0]
      BY DEF Init, PlaybackInit
    <2>2. live_pc = "call"
      BY <2>1 DEF RecordInit
    <2> QED
      BY <2>1, <2>2, LiveValuesInit DEF ValuesInv
  <1>2. PlaybackInv /\ PlaybackInv' /\ ValuesInv /\ [Next]_vars => ValuesInv'
    BY NextValues
  <1> QED
    BY PlaybackInvariance, <1>1, <1>2, PTL DEF Spec

-----------------------------------------------------------------------------
(* Awaiters *)

(* What an awaiter waits for is set, or is in the order no later than what the window has
   passed. *)
LEMMA WaitEnds ==
    ASSUME PlaybackInv, ValuesInv, [Next]_vars, rpc \in {"wait", "wait_panic"},
           rpc' = "idle", ~unwinding'
    PROVE  awaiting \subseteq resolved
  <1>1. live_pc = "recorded"
    BY DEF PlaybackInv, NotStarted
  <1>2. /\ LiveInv /\ WindowInv /\ SorterInv /\ PanicInv /\ LiveValues /\ ReplayValueInv
        /\ NoticeInv
    BY <1>1 DEF PlaybackInv, ReplayInv, ValuesInv
  <1>3. FacadeStep
    <2>1. rpc' # rpc
      OBVIOUS
    <2>2. ~UNCHANGED others /\ ~UNCHANGED vars
      BY <2>1 DEF others, vars, play_vars
    <2>3. ~Record
      BY <2>1 DEF Record
    <2>4. ~(SetValue \/ AddResolution \/ WriteFull \/ GetAwaiter \/ AwaitFlush \/ FinalFlush)
      BY DEF SetValue, AddResolution, WriteFull, GetAwaiter, AwaitFlush, FinalFlush, Idle
    <2> QED
      BY <2>2, <2>3, <2>4 DEF Next, Registration, Broker, Workers, Ended
  <1>4. ~Before0(max_resolved, track_id)
    <2>1. CASE Facade!AwaitCheck
      BY <2>1 DEF Facade!AwaitCheck
    <2>2. CASE Facade!AwaitCheckPanic
      <3>1. rw_panicked /\ unwinding' = (unwinding \/ (rw_panicked /\ rw_panic))
        BY <2>2 DEF Facade!AwaitCheckPanic
      <3>2. rw_panic \/ unwinding
        BY <1>2, <3>1 DEF NoticeInv
      <3> QED
        BY <3>1, <3>2
    <2>3. ~Facade!Complete /\ ~Facade!Join
      BY DEF Facade!Complete, Facade!Join
    <2> QED
      BY <1>3, <2>1, <2>2, <2>3 DEF FacadeStep, Facade!Step
  <1> SUFFICES ASSUME NEW p \in awaiting PROVE p \in resolved
    OBVIOUS
  <1>5. /\ p \in tracked /\ track_id \in Nat /\ tracker[p] <= track_id
        /\ max_resolved \in Nat /\ max_resolved <= notified
    BY <1>2 DEF NoticeInv
  <1>6. p \in Places
    BY <1>2, <1>5 DEF ReplayValueInv
  <1>7. CASE p \in GivenBy(played)
    BY <1>2, <1>6, <1>7 DEF ReplayValueInv
  <1>8. CASE p \notin GivenBy(played)
    <2>1. PICK n \in 0 .. registrations_added - 1 : p \in ResolverOf(n).outs
      BY <1>2, <1>5, <1>6, <1>8 DEF ReplayValueInv
    <2>2. n \in 0 .. registrations - 1
      <3>1. registrations_added \in Nat /\ registrations \in Nat
            /\ registrations_added <= registrations
        BY <1>1, <1>2, SorterFacts, RecordedOrder
      <3> QED
        BY <3>1
    <2> DEFINE k == record[n].order_ix + 1
    <2>3. p \in Outs(order[k].item)
      BY <1>1, <1>2, <2>1, <2>2, ReplayFacts
    <2>4. tracker[p] = k /\ k \in 1 .. registrations /\ registrations \in Nat
      BY <1>1, <1>2, <2>1, <2>2, RecordedOrder DEF ReplayValueInv
    <2> HIDE DEF k
    <2>5. /\ notified \in Nat /\ range_start \in Nat /\ notified <= range_start
          /\ 0 .. range_start - 1 \subseteq ran
      BY <1>2 DEF WindowInv
    <2>6. track_id <= max_resolved
      BY <1>4, <1>5 DEF Before0
    <2>7. k - 1 \in 0 .. range_start - 1 /\ (k - 1) + 1 = k
      BY <1>5, <2>4, <2>5, <2>6
    <2>8. k - 1 \in ran /\ p \in Outs(order[(k - 1) + 1].item)
      BY <2>3, <2>5, <2>7
    <2> QED
      BY <1>2, <1>6, <2>8 DEF ReplayValueInv
  <1> QED
    BY <1>7, <1>8

(* An awaiter of the replay that returns without unwinding found every place it waits for
   resolved, though the location it compares is a place in the order that the record gave
   when the resolver was registered, before anything was written there. *)
THEOREM ReplayedAwaitersFindValues == Spec => AwaitedResolved
  <1>1. PlaybackInv /\ ValuesInv /\ [Next]_vars
        => [(rpc \in {"wait", "wait_panic"} /\ rpc' = "idle" /\ ~unwinding') =>
                awaiting \subseteq resolved]_vars
    BY WaitEnds
  <1> QED
    BY PlaybackInvariance, ValuesInvariance, <1>1, PTL DEF Spec, AwaitedResolved

-----------------------------------------------------------------------------
(* The sets a recorded length needs *)

(* What a step of the live run leaves of the items and of the order. *)
LEMMA ItemsKept ==
    ASSUME LiveInv, Recording
    PROVE  /\ OrderGrows /\ script' = script
           /\ Items \subseteq Items'
           /\ \A t \in Items : Ins(t)' = Ins(t) /\ Outs(t)' = Outs(t)
  <1>1. GuideInv /\ CallInv /\ PushedInv
    BY DEF LiveInv
  <1>2. script' = script
    BY DEF Recording, LiveSet, LiveAdd, LiveReturn, LiveAwait, LiveFinalFlush, LiveInternalize
  <1>3. /\ Len(box) \in Nat /\ \A t \in Items : pushed[t] \in 0 .. Len(box) - 1
        /\ Len(order) \in Nat
    BY <1>1, PushedFacts, OrderedItems
  <1>4. CASE LiveSet \/ LiveReturn
    <2>1. UNCHANGED <<box, pushed, order, loc>>
      BY <1>4 DEF LiveSet, LiveReturn, guide_vars
    <2> QED
      BY <1>2, <1>3, <2>1 DEF OrderGrows, Items, Ins, Outs, ResolverOf
  <1>5. CASE LiveAwait \/ LiveFinalFlush
    <2>1. Flush /\ UNCHANGED <<box, pushed, loc>>
      BY <1>5 DEF LiveAwait, LiveFinalFlush, Flushed, Flush
    <2>2. OrderGrows
      BY <1>1, <2>1, FlushGrows
    <2> QED
      BY <1>2, <2>1, <2>2 DEF Items, Ins, Outs, ResolverOf
  <1>6. CASE LiveAdd
    <2>1. /\ UNCHANGED <<pushed, order, loc>> /\ box' = Append(box, LiveCall.resolver)
          /\ live_pc = "call" /\ live_at < Len(script)
      BY <1>6 DEF LiveAdd, guide_vars
    <2>2. box \in Seq(Resolvers \cup {NoResolver})
      BY <1>1 DEF CallInv
    <2>3. LiveCall.resolver \in Resolvers \cup {NoResolver}
      <3>1. live_at + 1 \in 1 .. Len(script) /\ script \in Scripts
        BY <1>1, <2>1, BoxFacts
      <3> QED
        BY <3>1, ScriptFacts DEF LiveCall
    <2>4. \A i \in 1 .. Len(box) : box'[i] = box[i]
      BY <2>1, <2>2, <2>3, AppendByPosition
    <2>5. \A n \in 0 .. Len(box) - 1 : box'[n + 1] = box[n + 1]
      BY <1>3, <2>4
    <2>6. \A t \in Items : ResolverOf(pushed[t])' = ResolverOf(pushed[t])
      BY <1>3, <2>1, <2>5 DEF ResolverOf
    <2> QED
      BY <1>2, <1>3, <2>1, <2>6 DEF OrderGrows, Items, Ins, Outs
  <1>7. ASSUME NEW n \in work, LiveInternalize(n)
        PROVE  /\ OrderGrows /\ Items \subseteq Items'
               /\ \A t \in Items : Ins(t)' = Ins(t) /\ Outs(t)' = Outs(t)
    <2>1. /\ OrderGrows /\ Items' = Items \cup {Len(loc) + 1} /\ box' = box
          /\ \A t \in Items : pushed'[t] = pushed[t]
      BY <1>1, <1>7, InternalizeFrame
    <2> QED
      BY <2>1 DEF Ins, Outs, ResolverOf
  <1> QED
    BY <1>2, <1>4, <1>5, <1>6, <1>7 DEF Recording

(* An item that stays needs no more to be set from outside than before. *)
LEMMA ExternalShrinks ==
    ASSUME LiveInv, Recording
    PROVE  \A k \in 1 .. Len(order) : External(k)' \subseteq External(k)
  <1> TAKE k \in 1 .. Len(order)
  <1>1. order[k].item \in Items /\ order'[k] = order[k]
    BY ItemsKept, PushedFacts DEF LiveInv, OrderGrows
  <1>2. /\ Items \subseteq Items' /\ \A t \in Items : Ins(t)' = Ins(t) /\ Outs(t)' = Outs(t)
    BY ItemsKept
  <1>3. Ins(order[k].item)' = Ins(order[k].item)
    <2>1. pushed'[order[k].item] \in {pushed'[order[k].item]}
      OBVIOUS
    <2> QED
      BY <1>1, <1>2 DEF Ins
  <1> QED
    BY <1>2, <1>3 DEF External

(* What is set from outside is set by a call that is made. *)
ExternalGiven == \A k \in 1 .. Len(order) : External(k) \subseteq GivenBy(Called)

LEMMA ExternalIsGiven ==
    ASSUME LiveInv, LiveValues
    PROVE  ExternalGiven
  <1>1. \A k \in 1 .. Len(order) : order[k].item \in Items
    BY PushedFacts DEF LiveInv
  <1> QED
    BY <1>1 DEF ExternalGiven, External, LiveValues, LiveInputsInv

(* Before the call of add_resolution that returns nothing is set that does not count for
   its registration; *)
LEMMA GivenAtReturn ==
    ASSUME CallInv, live_at < Len(script), LiveCall.op = "add"
    PROVE  GivenBy(live_at + 1) \subseteq GivenWith(registrations)
  <1>1. script \in Scripts /\ Len(script) \in Nat /\ live_at \in 0 .. Len(script)
        /\ registrations = AddsUpTo(live_at)
    BY BoxFacts DEF CallInv
  <1> SUFFICES ASSUME NEW p \in GivenBy(live_at + 1) PROVE p \in GivenWith(registrations)
    OBVIOUS
  <1>2. PICK i \in 1 .. live_at + 1 : script[i].op = "set" /\ p \in script[i].places
    BY DEF GivenBy
  <1>3. i # live_at + 1
    BY <1>2 DEF LiveCall
  <1>4. i \in 0 .. Len(script) /\ i \in 1 .. Len(script) /\ i <= live_at
    BY <1>1, <1>3
  <1>5. AddsUpTo(i) <= registrations
    BY <1>1, <1>4, AddsCounted
  <1> QED
    BY <1>2, <1>4, <1>5 DEF GivenBy, GivenWith

(* The numbers of that. *)
LEMMA BeforeCall ==
    ASSUME NEW len \in Nat, NEW at \in 0 .. len, NEW i \in 1 .. at
    PROVE  /\ i \in Nat /\ i \in 1 .. len /\ i \in 0 .. len /\ i < at + 1 /\ at \in Nat
           /\ at + 1 \in 1 .. len \cup {len + 1}
           /\ at = len => at + 1 = len + 1
           /\ \A k \in i .. (at + 1) - 1 : k # i => \E h \in 0 .. len :
                 k = h + 1 /\ h < len /\ i <= h /\ h + 1 <= at /\ h + 1 \in 0 .. len
  <1>1. ASSUME NEW k \in i .. (at + 1) - 1, k # i
        PROVE  k - 1 \in 0 .. len /\ k = (k - 1) + 1 /\ k - 1 < len /\ i <= k - 1
               /\ (k - 1) + 1 <= at /\ (k - 1) + 1 \in 0 .. len
    BY <1>1
  <1> QED
    BY <1>1

(* and if values are set in time, nothing before a flush that does not count for the last
   registration. *)
LEMMA GivenAtFlush ==
    ASSUME CallInv, SetsInTime(script), live_pc = "call", registrations > 0,
           live_at = Len(script) \/ (live_at < Len(script) /\ LiveCall.op = "await")
    PROVE  GivenBy(live_at) \subseteq GivenWith(registrations - 1)
  <1>1. script \in Scripts /\ Len(script) \in Nat /\ live_at \in 0 .. Len(script)
    BY BoxFacts
  <1>2. registrations = AddsUpTo(live_at) /\ registrations \in Nat
    BY BoxFacts DEF CallInv
  <1>3. DOMAIN script = 1 .. Len(script)
    BY <1>1, ScriptFacts
  <1> SUFFICES ASSUME NEW p \in GivenBy(live_at) PROVE p \in GivenWith(registrations - 1)
    OBVIOUS
  <1>4. PICK i \in 1 .. live_at : script[i].op = "set" /\ p \in script[i].places
    BY DEF GivenBy
  <1>5. /\ i \in Nat /\ i \in 1 .. Len(script) /\ i \in 0 .. Len(script)
        /\ i < live_at + 1 /\ live_at \in Nat
    BY <1>1, BeforeCall
  <1>6. /\ live_at + 1 \in 1 .. Len(script) \cup {Len(script) + 1}
        /\ live_at = Len(script) => live_at + 1 = Len(script) + 1
    BY <1>1, BeforeCall
  <1>7. live_at + 1 = Len(script) + 1 \/ script[live_at + 1].op = "await"
    BY <1>6 DEF LiveCall
  <1>8. \/ \E k \in i .. (live_at + 1) - 1 : script[k].op = "add"
        \/ \A k \in 1 .. i : script[k].op = "set"
    <2> DEFINE j == live_at + 1
    <2>1. /\ i \in DOMAIN script /\ j \in DOMAIN script \cup {Len(script) + 1}
          /\ i < j
          /\ j = Len(script) + 1 \/ script[j].op = "await"
      BY <1>3, <1>5, <1>6, <1>7
    <2>2. script[i].op = "set"
      BY <1>4
    <2> HIDE DEF j
    <2>3. (\E k \in i .. j - 1 : script[k].op = "add") \/ (\A k \in 1 .. i : script[k].op = "set")
      <3>1. SetsInTime(script)
        OBVIOUS
      <3> QED
        BY <2>1, <2>2, <3>1, Zenon DEF SetsInTime
    <2> QED
      BY <2>3 DEF j
  <1>9. AddsUpTo(i) <= registrations - 1
    <2>1. ASSUME NEW k \in i .. (live_at + 1) - 1, script[k].op = "add"
          PROVE  AddsUpTo(i) <= registrations - 1
      <3>1. k # i
        BY <1>4, <2>1
      <3>2. PICK h \in 0 .. Len(script) :
                /\ k = h + 1 /\ h < Len(script) /\ i <= h
                /\ h + 1 <= live_at /\ h + 1 \in 0 .. Len(script)
        BY <1>1, <3>1, BeforeCall
      <3>3. AddsUpTo(h + 1) = AddsUpTo(h) + 1
        BY <1>1, <2>1, <3>2, AddsCounted
      <3>4. AddsUpTo(i) \in Nat /\ AddsUpTo(h) \in Nat
        BY <1>1, <1>5, <3>2, AddsCounted
      <3>5. AddsUpTo(i) <= AddsUpTo(h)
        BY <1>1, <1>5, <3>2, AddsCounted
      <3>6. AddsUpTo(h + 1) <= AddsUpTo(live_at)
        BY <1>1, <3>2, AddsCounted
      <3>7. \A a, b, r \in Nat : a <= b /\ b + 1 <= r => a <= r - 1
        OBVIOUS
      <3>8. AddsUpTo(h) + 1 <= registrations
        BY <1>2, <3>3, <3>6
      <3> QED
        BY <1>2, <3>4, <3>5, <3>7, <3>8
    <2>2. ASSUME \A k \in 1 .. i : script[k].op = "set" PROVE AddsUpTo(i) <= registrations - 1
      <3>1. Adds(script) \cap (1 .. i) = {}
        BY <2>2 DEF Adds
      <3>2. AddsUpTo(i) = 0
        BY <3>1, FS_EmptySet DEF AddsUpTo
      <3> QED
        BY <1>2, <3>2
    <2> QED
      BY <1>8, <2>1, <2>2
  <1> QED
    BY <1>4, <1>5, <1>9 DEF GivenBy, GivenWith

(* The lengths recorded before need no more than they did. *)
LEMMA OldLengths ==
    ASSUME LiveInv, Recording, RecordedSets, NEW n \in 0 .. registrations - 1,
           record'[n].order_len = record[n].order_len
    PROVE  \A k \in 1 .. record'[n].order_len : External(k)' \subseteq GivenWith(n)
  <1>1. n \in RegNums
    BY RegistrationNumbers DEF LiveInv
  <1>2. record[n].order_len \in Nat /\ record[n].order_len <= Len(order) /\ Len(order) \in Nat
    <2>1. record[n] \in RecordItems /\ record[n].order_len <= Len(order)
      BY <1>1 DEF LiveInv, RecordInv
    <2> QED
      BY <2>1, OrderedItems DEF LiveInv, RecordItems
  <1> TAKE k \in 1 .. record'[n].order_len
  <1>3. k \in 1 .. record[n].order_len
    OBVIOUS
  <1>4. k \in 1 .. Len(order)
    BY <1>2, <1>3
  <1>5. External(k) \subseteq GivenWith(n)
    BY <1>3 DEF RecordedSets
  <1> QED
    BY <1>4, <1>5, ExternalShrinks

LEMMA RecordedSetsKept ==
    ASSUME LiveInv, LiveInv', LiveValues, ExternalGiven', RecordedSets, SetsInTime(script),
           Recording
    PROVE  RecordedSets'
  <1>1. GuideInv /\ CallInv /\ PushedInv /\ RecordInv
    BY DEF LiveInv
  <1>2. LengthsWritten /\ script' = script
    BY <1>1, RecordInvKept, ItemsKept
  <1>3. \A n : GivenWith(n)' = GivenWith(n)
    BY <1>2 DEF GivenWith, AddsUpTo
  <1>4. \A k : GivenBy(k)' = GivenBy(k)
    BY <1>2 DEF GivenBy
  <1>5. live_pc # "recorded" /\ registrations \in Nat /\ live_at \in Nat
    <2>1. live_pc # "recorded"
      BY <1>1 DEF Recording, LiveSet, LiveAdd, LiveReturn, LiveAwait, LiveFinalFlush,
                  LiveInternalize, PushedInv
    <2> QED
      BY <1>1, <2>1, BoxFacts
  <1>6. ASSUME NEW n \in 0 .. registrations' - 1, NEW k \in 1 .. record'[n].order_len
        PROVE  External(k)' \subseteq GivenWith(n)
    <2>1. CASE n \in 0 .. registrations - 1 /\ record'[n].order_len = record[n].order_len
      BY <1>6, <2>1, OldLengths
    <2>2. CASE /\ n = registrations' - 1 /\ record'[n].order_len = Len(order')
               /\ LiveReturn /\ LiveCall.op = "add"
      <3>1. /\ live_pc = "internalize" /\ registrations' = registrations + 1
            /\ order' = order
        BY <2>2 DEF LiveReturn, guide_vars
      <3>2. n = registrations /\ Called = live_at + 1 /\ live_at < Len(script)
        BY <1>1, <1>5, <2>2, <3>1, BoxFacts DEF Called
      <3>3. k \in 1 .. Len(order)
        BY <1>6, <2>2, <3>1
      <3>4. External(k)' \subseteq GivenBy(live_at + 1)
        BY <3>2, <3>3, ExternalShrinks, ExternalIsGiven DEF ExternalGiven
      <3> QED
        BY <1>1, <2>2, <3>2, <3>4, GivenAtReturn
    <2>3. CASE /\ n = registrations' - 1 /\ record'[n].order_len = Len(order')
               /\ LiveAwait \/ LiveFinalFlush
      <3>1. live_pc = "call" /\ registrations' = registrations
        BY <2>3 DEF LiveAwait, LiveFinalFlush
      <3>2. n = registrations - 1 /\ registrations > 0
        BY <1>5, <1>6, <2>3, <3>1
      <3>3. External(k)' \subseteq GivenBy(Called)'
        BY <1>6, <2>3 DEF ExternalGiven
      <3>4. GivenBy(Called)' = GivenBy(live_at)
        <4>1. CASE LiveFinalFlush
          <5>1. live_pc' = "recorded" /\ live_at' = live_at
            BY <4>1 DEF LiveFinalFlush
          <5> QED
            BY <1>2, <5>1 DEF Called, GivenBy
        <4>2. CASE LiveAwait
          <5>1. /\ live_pc' = live_pc /\ live_at' = live_at + 1
                /\ live_at < Len(script) /\ LiveCall.op = "await"
            BY <4>2 DEF LiveAwait
          <5>2. GivenBy(live_at + 1) = GivenBy(live_at)
            BY <1>1, <1>5, <5>1, BoxFacts, GivenOne DEF LiveCall
          <5>3. GivenBy(Called)' = GivenBy(live_at + 1)
            BY <1>2, <3>1, <5>1 DEF Called, GivenBy
          <5> QED
            BY <5>2, <5>3
        <4> QED
          BY <2>3, <4>1, <4>2
      <3>5. live_at = Len(script) \/ (live_at < Len(script) /\ LiveCall.op = "await")
        BY <2>3 DEF LiveAwait, LiveFinalFlush
      <3>6. GivenBy(live_at) \subseteq GivenWith(registrations - 1)
        BY <1>1, <3>1, <3>2, <3>5, GivenAtFlush
      <3> QED
        BY <3>2, <3>3, <3>4, <3>6
    <2> QED
      BY <1>2, <1>6, <2>1, <2>2, <2>3 DEF LengthsWritten
  <1>7. live_pc' = "recorded" /\ registrations' > 0 =>
            record'[registrations' - 1].order_len = Len(order')
    <2> SUFFICES ASSUME live_pc' = "recorded", registrations' > 0
                 PROVE  record'[registrations' - 1].order_len = Len(order')
      OBVIOUS
    <2>1. LiveFinalFlush
      BY <1>5 DEF Recording, LiveSet, LiveAdd, LiveReturn, LiveAwait, LiveInternalize
    <2>2. registrations' = registrations
      BY <2>1 DEF LiveFinalFlush
    <2> QED
      BY <1>2, <2>1, <2>2 DEF LengthsWritten
  <1> QED
    BY <1>3, <1>6, <1>7 DEF RecordedSets

-----------------------------------------------------------------------------
(* The sets: the replay *)

(* The calls before the last registration returned are made. *)
LEMMA GivenWithIsPlayed ==
    ASSUME LiveInv, live_pc = "recorded", SorterInv, registrations_added > 0
    PROVE  GivenWith(registrations_added - 1) \subseteq GivenBy(played)
  <1>1. /\ registrations_added \in Nat /\ registrations_added = AddsUpTo(played)
        /\ played \in 0 .. Len(script) /\ Len(script) \in Nat /\ script \in Scripts
    BY SorterFacts DEF SorterInv
  <1> SUFFICES ASSUME NEW p \in GivenWith(registrations_added - 1) PROVE p \in GivenBy(played)
    OBVIOUS
  <1>2. PICK i \in 1 .. Len(script) : /\ script[i].op = "set" /\ p \in script[i].places
                                      /\ AddsUpTo(i) <= registrations_added - 1
    BY DEF GivenWith
  <1>3. i \in 0 .. Len(script) /\ i \in Int /\ played \in Int
    BY <1>1
  <1>4. AddsUpTo(i) \in Nat /\ (played <= i => AddsUpTo(played) <= AddsUpTo(i))
    BY <1>1, <1>3, AddsCounted
  <1>5. \A a, r \in Nat : a <= r - 1 => ~(r <= a)
    OBVIOUS
  <1>6. ~(played <= i)
    BY <1>1, <1>2, <1>4, <1>5
  <1>7. i \in 1 .. played
    BY <1>3, <1>6
  <1> QED
    BY <1>2, <1>7 DEF GivenBy, GivenWith

LEMMA RecordedSizeIsSupplied ==
    ASSUME LiveInv, live_pc = "recorded", SorterInv, RecordedSets,
           registrations_added > 0 \/ registrations = 0
    PROVE  \A k \in 1 .. RecordedSize : External(k) \subseteq GivenBy(played)
  <1>1. /\ registrations_added \in Nat /\ registrations_added <= registrations
        /\ registrations \in Nat /\ registrations = Len(order)
    BY SorterFacts, RecordedOrder
  <1>2. CASE registrations = 0
    <2>1. RecordedSize = 0
      BY <1>1, <1>2 DEF RecordedSize
    <2> QED
      BY <2>1
  <1>3. CASE registrations_added > 0
    <2> DEFINE n == registrations_added - 1
    <2>1. RecordedSize = record[n].order_len
      BY <1>1, <1>3 DEF RecordedSize, RecordedSets
    <2>2. n \in 0 .. registrations - 1
      BY <1>1, <1>3
    <2>3. GivenWith(n) \subseteq GivenBy(played)
      BY <1>3, GivenWithIsPlayed
    <2> HIDE DEF n
    <2>4. \A k \in 1 .. record[n].order_len : External(k) \subseteq GivenWith(n)
      BY <2>2 DEF RecordedSets
    <2> QED
      BY <2>1, <2>3, <2>4
  <1> QED
    BY <1>2, <1>3

(* A step of the replay keeps what is released, or releases what is supplied. *)
LEMMA SetsFrame ==
    ASSUME LiveInv, live_pc = "recorded", LiveValues, SorterInv, SetsInv,
           UNCHANGED record_vars, UNCHANGED guide_vars,
           played' = played \/ played' = played + 1,
           \/ exec_size' = exec_size /\ (~unwinding' => ~unwinding)
           \/ ~unwinding' => \A k \in 1 .. exec_size' : External(k) \subseteq GivenBy(played),
           \/ range_end' = range_end
           \/ \A k \in 1 .. range_end' : External(k) \subseteq GivenBy(played)
    PROVE  SetsInv'
  <1>1. /\ UNCHANGED <<live_pc, registrations, record>> /\ UNCHANGED order
    BY LiveFrame
  <1>2. /\ \A k : GivenBy(k)' = GivenBy(k) /\ GivenWith(k)' = GivenWith(k)
        /\ \A t : Ins(t)' = Ins(t) /\ Outs(t)' = Outs(t)
        /\ Items' = Items
    BY ValuesFrame
  <1>3. \A k : External(k)' = External(k)
    BY <1>1, <1>2 DEF External, Ins
  <1>4. RecordedSets'
    BY <1>1, <1>2, <1>3 DEF SetsInv, RecordedSets
  <1>5. GivenBy(played) \subseteq GivenBy(played)'
    <2>1. played \in Int
      BY SorterFacts DEF SorterInv
    <2>2. CASE played' = played
      BY <1>2, <2>2 DEF GivenBy
    <2>3. CASE played' = played + 1
      <3>1. GivenBy(played) \subseteq GivenBy(played + 1)
        BY <2>1, GivenGrows
      <3>2. GivenBy(played)' = GivenBy(played + 1)
        BY <1>2, <2>3 DEF GivenBy
      <3> QED
        BY <3>1, <3>2
    <2> QED
      BY <2>2, <2>3
  <1>6. ~unwinding' => \A k \in 1 .. exec_size' : External(k) \subseteq GivenBy(played)
    BY DEF SetsInv, ReplayedSets
  <1>7. \A k \in 1 .. range_end' : External(k) \subseteq GivenBy(played)
    BY DEF SetsInv, ReplayedSets
  <1>8. ReplayedSets'
    BY <1>3, <1>5, <1>6, <1>7 DEF ReplayedSets
  <1> QED
    BY <1>4, <1>8 DEF SetsInv

(* A write releases what the registrations so far need, the last one everything. *)
LEMMA WritesKeepSets ==
    ASSUME PlaybackInv, ValuesInv, SetsInv, WriteFull \/ AwaitFlush \/ FinalFlush
    PROVE  SetsInv'
  <1>1. /\ UNCHANGED record_vars /\ UNCHANGED guide_vars
        /\ range_end' = range_end /\ unwinding' = unwinding
    BY DEF WriteFull, AwaitFlush, FinalFlush, broker_vars
  <1>2. live_pc = "recorded"
    BY DEF WriteFull, AwaitFlush, FinalFlush, PlaybackInv, NotStarted
  <1>3. /\ LiveInv /\ SorterInv /\ LiveValues /\ RecordedSets
        /\ registrations_added \in Nat
    BY <1>2, SorterFacts DEF PlaybackInv, ReplayInv, ValuesInv, SetsInv
  <1>4. CASE WriteFull
    <2>1. rpc = "write" /\ exec_size' = RecordedSize /\ played' = played
      BY <1>4 DEF WriteFull, WriteBuffer
    <2>2. registrations_added > 0
      <3>1. exec_order_buffer # << >> /\ exec_order_buffer \in Seq(BufferItems)
        BY <1>3, <2>1 DEF SorterInv
      <3>2. Len(exec_order_buffer) # 0
        BY <3>1, EmptySeq
      <3> QED
        BY <1>2, <1>3, <3>2, SorterFacts
    <2>3. \A k \in 1 .. exec_size' : External(k) \subseteq GivenBy(played)
      BY <1>2, <1>3, <2>1, <2>2, RecordedSizeIsSupplied
    <2> QED
      BY <1>1, <1>2, <1>3, <2>1, <2>3, SetsFrame
  <1>5. CASE AwaitFlush
    <2>1. /\ played' = played + 1
          /\ \/ exec_size' = exec_size
             \/ /\ ~(registrations_added = 0 /\ registrations # 0)
                /\ exec_size' = RecordedSize
      BY <1>5 DEF AwaitFlush, WriteBuffer, order_vars
    <2>2. CASE exec_size' = exec_size
      BY <1>1, <1>2, <1>3, <2>1, <2>2, SetsFrame
    <2>3. CASE /\ ~(registrations_added = 0 /\ registrations # 0)
               /\ exec_size' = RecordedSize
      <3>1. registrations_added > 0 \/ registrations = 0
        BY <1>3, <2>3
      <3>2. \A k \in 1 .. exec_size' : External(k) \subseteq GivenBy(played)
        BY <1>2, <1>3, <2>3, <3>1, RecordedSizeIsSupplied
      <3> QED
        BY <1>1, <1>2, <1>3, <2>1, <3>2, SetsFrame
    <2> QED
      BY <2>1, <2>2, <2>3
  <1>6. CASE FinalFlush
    <2>1. /\ exec_size' = registrations /\ played' = played
          /\ unwinding \/ played = Len(script)
      BY <1>6 DEF FinalFlush, WriteBuffer
    <2>2. ~unwinding' => \A k \in 1 .. exec_size' : External(k) \subseteq GivenBy(played)
      <3> SUFFICES ASSUME ~unwinding', NEW k \in 1 .. exec_size'
                   PROVE  External(k) \subseteq GivenBy(played)
        OBVIOUS
      <3>1. played = Len(script)
        BY <1>1, <2>1
      <3>2. Called = Len(script)
        BY <1>2, <1>3, ReplayFacts
      <3>3. k \in 1 .. Len(order)
        BY <1>2, <1>3, <2>1, RecordedOrder
      <3>4. External(k) \subseteq GivenBy(Called)
        BY <1>3, <3>3, ExternalIsGiven DEF ExternalGiven
      <3> QED
        BY <3>1, <3>2, <3>4
    <2> QED
      BY <1>1, <1>2, <1>3, <2>1, <2>2, SetsFrame
  <1> QED
    BY <1>4, <1>5, <1>6

(* The broker reads up to what is released. *)
LEMMA BrokerSets ==
    ASSUME PlaybackInv, ValuesInv, SetsInv, Broker
    PROVE  SetsInv'
  <1>1. live_pc = "recorded" /\ RW!Broker /\ UNCHANGED others
    BY DEF Broker
  <1>2. /\ UNCHANGED record_vars /\ UNCHANGED guide_vars
        /\ UNCHANGED <<played, unwinding, exec_size>>
    BY <1>1 DEF others, order_vars
  <1>3. LiveInv /\ SorterInv /\ SizeInv /\ WindowInv /\ PanicInv /\ LiveValues
    BY <1>1 DEF PlaybackInv, ReplayInv, ValuesInv
  <1>4. CASE RW!Extend
    <2> DEFINE room == range_end + (BufferCapacity - (range_end - range_start))
    <2>1. /\ bpc = "lock"
          /\ range_end' = IF exec_size > range_end THEN Min({exec_size, room}) ELSE range_end
      BY <1>4, WindowMin DEF RW!Extend
    <2>2. ~unwinding
      BY <1>3, <2>1 DEF PanicInv
    <2>3. /\ range_start \in Nat /\ range_end \in Nat /\ exec_size \in Nat
          /\ BufferCapacity \in Nat
      BY <1>3, PlaybackAssumption DEF WindowInv, SizeInv
    <2>4. range_end' = range_end \/ (range_end' \in Int /\ range_end' <= exec_size)
      <3>1. room \in Int
        BY <2>3
      <3> HIDE DEF room
      <3>2. Min({exec_size, room}) = IF exec_size <= room THEN exec_size ELSE room
        BY <2>3, <3>1, MinOfTwo
      <3> QED
        BY <2>1, <2>3, <3>1, <3>2
    <2>5. range_end' = range_end \/ \A k \in 1 .. range_end' : k \in 1 .. exec_size
      BY <2>3, <2>4
    <2>6. \/ range_end' = range_end
          \/ \A k \in 1 .. range_end' : External(k) \subseteq GivenBy(played)
      BY <2>2, <2>5 DEF SetsInv, ReplayedSets
    <2> QED
      BY <1>1, <1>2, <1>3, <2>6, SetsFrame
  <1>5. CASE ~RW!Extend
    <2>1. range_end' = range_end
      BY <1>1, <1>5 DEF RW!Broker, RW!Load, RW!TakeHint, RW!SeeComplete, RW!SendBatch,
                        RW!BatchDone, RW!Notify, RW!StorePanic, RW!RaisePanicked, RW!KillPool
    <2> QED
      BY <1>1, <1>2, <1>3, <2>1, SetsFrame
  <1> QED
    BY <1>4, <1>5

(* Before the replay starts nothing is released. *)
LEMMA RecordSets ==
    ASSUME PlaybackInv, PlaybackInv', ValuesInv, ExternalGiven', SetsInv,
           SetsInTime(script), Record
    PROVE  SetsInv'
  <1>1. Recording /\ exec_size' = exec_size /\ range_end' = range_end
    BY DEF Record, broker_vars
  <1>2. LiveInv /\ LiveInv' /\ LiveValues /\ RecordedSets
    BY DEF PlaybackInv, ValuesInv, SetsInv
  <1>3. RecordedSets'
    BY <1>1, <1>2, RecordedSetsKept
  <1>4. live_pc # "recorded"
    BY <1>1 DEF Recording, LiveSet, LiveAdd, LiveReturn, LiveAwait, LiveFinalFlush,
                LiveInternalize, PlaybackInv, LiveInv, PushedInv
  <1>5. exec_size' = 0 /\ range_end' = 0
    BY <1>1, <1>4 DEF PlaybackInv, NotStarted, RW!Init
  <1> QED
    BY <1>3, <1>5 DEF SetsInv, ReplayedSets

LEMMA NextSets ==
    ASSUME PlaybackInv, PlaybackInv', ValuesInv, ExternalGiven', SetsInv,
           SetsInTime(script), [Next]_vars
    PROVE  SetsInv'
  <1>1. CASE Record
    BY <1>1, RecordSets
  <1>2. CASE WriteFull \/ AwaitFlush \/ FinalFlush
    BY <1>2, WritesKeepSets
  <1>3. CASE Broker
    BY <1>3, BrokerSets
  <1>4. CASE SetValue \/ AddResolution \/ GetAwaiter \/ FacadeStep \/ Workers \/ Ended
             \/ UNCHANGED vars
    <2>1. /\ UNCHANGED record_vars /\ UNCHANGED guide_vars
          /\ played' = played \/ played' = played + 1
          /\ exec_size' = exec_size /\ range_end' = range_end
      BY <1>4 DEF SetValue, AddResolution, GetAwaiter, FacadeStep, Workers, RW!Workers,
                  RW!Invoke, RW!ClosurePanics, RW!broker_vars, others, Ended, vars, play_vars,
                  order_vars, broker_vars
    <2>2. unwinding' = unwinding \/ unwinding' = (unwinding \/ (rw_panicked /\ rw_panic))
      BY <1>4 DEF SetValue, AddResolution, GetAwaiter, FacadeStep, Facade!Step,
                  Facade!AwaitCheck, Facade!AwaitCheckPanic, Facade!Complete, Facade!Join,
                  Workers, others, Ended, vars, play_vars
    <2>3. ~unwinding' => ~unwinding
      BY <2>2
    <2>4. CASE live_pc = "recorded"
      <3>1. LiveInv /\ SorterInv /\ LiveValues
        BY <2>4 DEF PlaybackInv, ReplayInv, ValuesInv
      <3> QED
        BY <2>1, <2>3, <2>4, <3>1, SetsFrame
    <2>5. CASE live_pc # "recorded"
      <3>1. exec_size' = 0 /\ range_end' = 0
        BY <2>1, <2>5 DEF PlaybackInv, NotStarted, RW!Init
      <3>2. LiveInv /\ LiveValues
        BY DEF PlaybackInv, ValuesInv
      <3>3. /\ UNCHANGED <<live_pc, registrations, record>> /\ UNCHANGED order
        BY <2>1, <3>2, LiveFrame
      <3>4. /\ \A k : GivenWith(k)' = GivenWith(k)
            /\ \A t : Ins(t)' = Ins(t) /\ Outs(t)' = Outs(t)
            /\ Items' = Items
        BY <2>1, <3>2, ValuesFrame
      <3>5. \A k : External(k)' = External(k)
        BY <3>3, <3>4 DEF External, Ins
      <3>6. RecordedSets'
        BY <3>3, <3>4, <3>5 DEF SetsInv, RecordedSets
      <3> QED
        BY <3>1, <3>6 DEF SetsInv, ReplayedSets
    <2> QED
      BY <2>4, <2>5
  <1> QED
    BY <1>1, <1>2, <1>3, <1>4 DEF Next, Registration

-----------------------------------------------------------------------------
(* The sets: the invariant *)

LEMMA SetsInvariance ==
    ASSUME \A s \in Scripts : SetsInTime(s)
    PROVE  Spec => []SetsInv
  <1>1. Init => SetsInv
    <2> SUFFICES ASSUME Init PROVE SetsInv
      OBVIOUS
    <2>1. /\ registrations = 0 /\ live_pc = "call" /\ exec_size = 0 /\ range_end = 0
      BY DEF Init, RecordInit, PlaybackInit, RW!Init
    <2> QED
      BY <2>1 DEF SetsInv, RecordedSets, ReplayedSets
  <1>2. PlaybackInv /\ ValuesInv => ExternalGiven
    BY ExternalIsGiven DEF PlaybackInv, ValuesInv
  <1>3. PlaybackInv => SetsInTime(script)
    BY DEF PlaybackInv, LiveInv, CallInv
  <1>4. PlaybackInv /\ PlaybackInv' /\ ValuesInv /\ ExternalGiven' /\ SetsInv /\ [Next]_vars
        => SetsInv'
    BY <1>3, NextSets
  <1> QED
    BY PlaybackInvariance, ValuesInvariance, <1>1, <1>2, <1>4, PTL DEF Spec

-----------------------------------------------------------------------------
(* What is released is safe to run *)

(* The tasks of a batch lie in the window its first task opens. *)
LEMMA BatchWindow ==
    ASSUME LiveInv, live_pc = "recorded", WindowInv, NEW t \in batch
    PROVE  LET k == range_start + 1
           IN  /\ k \in 1 .. Len(order) /\ t + 1 \in k .. Len(order)
               /\ t + 1 < k + order[k].parallelism /\ range_start \in Nat
               /\ 0 .. range_start - 1 \subseteq ran
  <1>1. bpc = "execute" /\ 0 .. range_start - 1 \subseteq ran
    BY DEF WindowInv
  <1>2. /\ range_start \in Nat /\ range_end \in Nat /\ range_end <= Len(order)
        /\ Len(order) \in Nat
    BY RecordedOrder DEF WindowInv
  <1>3. PICK last \in range_start .. range_end - 1 :
            /\ last < range_start + order[range_start + 1].parallelism
            /\ batch = range_start .. last
    BY <1>1 DEF WindowInv
  <1>4. range_start + 1 \in 1 .. Len(order)
    BY <1>2, <1>3
  <1>5. order[range_start + 1].parallelism \in Nat
    BY <1>2, <1>4, RecordedOrder
  <1>6. range_start <= t /\ t <= last /\ last \in Int /\ t \in Int /\ last < range_end
    BY <1>2, <1>3
  <1>7. \A a, b, c, d \in Int : c \in Int /\ a <= b /\ b < c + d => a + 1 < c + 1 + d
    OBVIOUS
  <1>8. t + 1 < range_start + 1 + order[range_start + 1].parallelism
    BY <1>2, <1>3, <1>5, <1>6, <1>7
  <1>9. t + 1 \in range_start + 1 .. Len(order)
    BY <1>2, <1>6
  <1> QED
    BY <1>1, <1>2, <1>4, <1>8, <1>9

(* What a task was pushed after in the live run, and all that the live order has before
   that, has run; its other inputs are set. *)
LEMMA TaskReady ==
    ASSUME PlaybackInv, ValuesInv, SetsInv, live_pc = "recorded", NEW t \in batch \ ran
    PROVE  /\ Ins(order[t + 1].item) \subseteq resolved
           /\ Outs(order[t + 1].item) \cap resolved = {}
  <1> DEFINE i == order[t + 1].item
             k == range_start + 1
  <1>1. /\ LiveInv /\ SorterInv /\ SizeInv /\ WindowInv /\ LiveValues /\ ReplayValueInv
        /\ ReplayedSets
    BY DEF PlaybackInv, ReplayInv, ValuesInv, SetsInv
  <1>2. GuideInv /\ LiveValueInv /\ LiveInputsInv
    BY <1>1 DEF LiveInv, LiveValues
  <1>3. t \in Nat /\ t + 1 \in 1 .. range_end
    BY <1>1, RanFacts
  <1>4. i \in Items /\ t + 1 \in 1 .. Len(order)
    BY <1>1, <1>3, ReadFacts
  <1>5. Ins(i) \subseteq Places /\ Outs(i) \subseteq Places
    BY <1>1, <1>4, ItemPlaces DEF LiveInv
  <1>6. /\ k \in 1 .. Len(order) /\ t + 1 \in k .. Len(order)
        /\ t + 1 < k + order[k].parallelism /\ range_start \in Nat
        /\ 0 .. range_start - 1 \subseteq ran
    BY <1>1, BatchWindow
  <1>7. GivenBy(played) \subseteq GivenBy(Called)
    <2>1. played \in Int /\ Len(script) \in Int /\ played <= Len(script)
      BY <1>1, SorterFacts DEF SorterInv
    <2>2. Called = Len(script)
      BY <1>1, ReplayFacts
    <2> QED
      BY <2>1, <2>2, GivenGrows
  <1>8. ASSUME NEW p \in Ins(i) PROVE p \in resolved
    <2>1. CASE p \in GivenBy(played)
      BY <1>1, <1>5, <2>1 DEF ReplayValueInv
    <2>2. CASE p \notin GivenBy(played)
      <3>1. PICK c \in Items : p \in Outs(c)
        BY <1>1, <1>3, <2>2 DEF ReplayedSets, External
      <3>2. p \notin GivenBy(Called)
        BY <1>2, <3>1 DEF LiveValueInv
      <3>3. PICK s \in Items : /\ p \in Outs(s) /\ after[i] # 0
                               /\ ~Precedes(loc[after[i]], loc[s])
        BY <1>2, <1>4, <3>2 DEF LiveInputsInv
      <3> DEFINE a == after[i]
      <3>4. PICK n \in 1 .. k - 1 : order[n].item = a
        BY <1>2, <1>6, <3>3, WindowIndependent
      <3>5. n \in 1 .. Len(order) /\ n \in Nat /\ n <= range_start
        BY <1>2, <1>6, OrderedItems
      <3>6. a \in Items /\ loc[a].id < first_id
        BY <1>2, <3>4, <3>5 DEF GuideInv, Inv, Sorted, Items
      <3>7. /\ loc[a].id \in Nat /\ loc[s].id \in Nat /\ first_id \in Nat
        BY <1>2, <3>6, GuideTypes DEF Items
      <3>8. loc[s].id < first_id
        BY <3>3, <3>6, <3>7 DEF Precedes
      <3>9. PICK j \in 1 .. Len(order) : order[j].item = s
        BY <1>2, <3>8, ReleasedItem DEF Items
      <3>10. ~(n < j)
        <4>1. n < j => Precedes(loc[order[n].item], loc[order[j].item])
          BY <1>2, <3>5 DEF GuideInv, Inv, Sorted
        <4> QED
          BY <3>3, <3>4, <3>9, <4>1
      <3>11. j - 1 \in 0 .. range_start - 1 /\ (j - 1) + 1 = j
        <4>1. j \in Nat /\ j >= 1
          BY <1>2, OrderedItems
        <4>2. \A x, y, z \in Nat : x >= 1 /\ ~(y < x) /\ y <= z => x - 1 \in 0 .. z - 1
          OBVIOUS
        <4>3. j - 1 \in 0 .. range_start - 1
          BY <1>6, <3>5, <3>10, <4>1, <4>2
        <4> QED
          BY <4>1, <4>3
      <3>12. j - 1 \in ran
        BY <1>6, <3>11
      <3>13. p \in Outs(order[(j - 1) + 1].item)
        BY <3>3, <3>9, <3>11
      <3> QED
        BY <1>1, <1>5, <3>12, <3>13 DEF ReplayValueInv
    <2> QED
      BY <2>1, <2>2
  <1>9. ASSUME NEW p \in Outs(i), p \in resolved PROVE FALSE
    <2>1. p \notin GivenBy(played) /\ p \in Places
      BY <1>2, <1>4, <1>5, <1>7 DEF LiveValueInv
    <2>2. PICK u \in ran : p \in Outs(order[u + 1].item)
      BY <1>1, <1>9, <2>1 DEF ReplayValueInv
    <2>3. u \in Nat /\ u + 1 \in 1 .. range_end
      BY <1>1, RanFacts
    <2>4. order[u + 1].item \in Items /\ u + 1 \in 1 .. Len(order)
      BY <1>1, <2>3, ReadFacts
    <2>5. order[u + 1].item = i
      BY <1>2, <1>4, <2>2, <2>4 DEF LiveValueInv
    <2>6. u + 1 = t + 1
      BY <1>2, <1>4, <2>4, <2>5, OrderedItems
    <2>7. u = t
      BY <1>3, <2>3, <2>6
    <2> QED
      BY <2>7
  <1> QED
    BY <1>8, <1>9

(* With clients that set values in time, the assertions of a worker of the replay hold for
   every task it is given, in whatever order the workers run the batch, though the second
   resolver checks neither that inputs are known nor which registration an item belongs
   to: the lengths of the record release an item when what it needs is set, and the
   windows of the live order separate it from what it computes with. *)
THEOREM ReplayIsSafeToExecute ==
    ASSUME \A s \in Scripts : SetsInTime(s)
    PROVE  Spec => []SafeToExecute
  <1>1. PlaybackInv /\ ValuesInv /\ SetsInv => SafeToExecute
    <2> SUFFICES ASSUME PlaybackInv, ValuesInv, SetsInv, NEW t \in batch \ ran
                 PROVE  RW!InvokeAsserts(RW!ResolverAt(t))
      BY DEF SafeToExecute, RW!BatchReady
    <2>1. live_pc = "recorded"
      BY DEF PlaybackInv, NotStarted, RW!Init, RW!Channel!Init
    <2>2. LiveInv /\ SorterInv /\ SizeInv /\ WindowInv
      BY <2>1 DEF PlaybackInv, ReplayInv
    <2>3. t + 1 \in 1 .. range_end
      BY <2>1, <2>2, RanFacts
    <2>4. RW!ResolverAt(t) = ResolverOf(pushed[order[t + 1].item])
      BY <2>1, <2>2, <2>3, ReadFacts DEF RW!ResolverAt
    <2>5. /\ ResolverOf(pushed[order[t + 1].item]).ins \subseteq resolved
          /\ ResolverOf(pushed[order[t + 1].item]).outs \cap resolved = {}
      BY <2>1, TaskReady DEF Ins, Outs
    <2> QED
      BY <2>4, <2>5 DEF RW!InvokeAsserts
  <1> QED
    BY PlaybackInvariance, ValuesInvariance, SetsInvariance, <1>1, PTL

-----------------------------------------------------------------------------
(* The end of the replay *)

(* Every registration is of a call that is made. *)
Numbered ==
    \A n \in 0 .. registrations_added - 1 :
        \E i \in Adds(script) \cap (1 .. played) : AddsUpTo(i) = n + 1

(* A last flush that does not unwind has released the whole order; a broker that ended
   has announced a panic, or has passed all of the order. *)
EndInv ==
    /\ rpc \in {"complete", "join", "ended"} /\ ~unwinding =>
            played = Len(script) /\ exec_size = registrations
    /\ registration_complete => rpc \in {"join", "ended"}
    /\ complete_seen => registration_complete
    /\ rw_panicked \/ bpc \in {"panic", "panic_flag"} => failed
    /\ bpc \in {"kill", "ended"} =>
            (failed /\ rw_panicked) \/ (~failed /\ range_start = registrations)

(* Calls that register nothing. *)
LEMMA NumberedFrame ==
    ASSUME PlaybackInv, Numbered, UNCHANGED record_vars, UNCHANGED guide_vars,
           registrations_added' = registrations_added, played' = played \/ played' = played + 1
    PROVE  Numbered'
  <1>1. /\ script' = script /\ \A k : AddsUpTo(k)' = AddsUpTo(k)
    BY LiveFrame DEF PlaybackInv
  <1>2. played \in Nat
    <2>1. CASE live_pc = "recorded"
      BY <2>1, SorterFacts DEF PlaybackInv, ReplayInv, SorterInv
    <2>2. CASE live_pc # "recorded"
      BY <2>2 DEF PlaybackInv, NotStarted
    <2> QED
      BY <2>1, <2>2
  <1>3. \A i \in 1 .. played : i \in 1 .. played'
    BY <1>2
  <1> QED
    BY <1>1, <1>3 DEF Numbered, AddsUpTo

LEMMA AddResolutionNumbered ==
    ASSUME PlaybackInv, Numbered, AddResolution
    PROVE  Numbered'
  <1>1. /\ live_pc = "recorded" /\ played < Len(script) /\ Call.op = "add"
        /\ registrations_added' = registrations_added + 1 /\ played' = played + 1
        /\ UNCHANGED record_vars /\ UNCHANGED guide_vars
    BY DEF AddResolution, Idle
  <1>2. LiveInv /\ SorterInv
    BY <1>1 DEF PlaybackInv, ReplayInv
  <1>3. /\ script' = script /\ \A k : AddsUpTo(k)' = AddsUpTo(k)
        /\ registrations_added \in Nat /\ script \in Scripts /\ played \in Nat
    <2>1. script' = script /\ \A k : AddsUpTo(k)' = AddsUpTo(k)
      BY <1>1, <1>2, LiveFrame
    <2>2. registrations_added \in Nat /\ script \in Scripts /\ Len(script) \in Nat
      BY <1>1, <1>2, SorterFacts
    <2>3. played \in Nat
      BY <1>2, <2>2 DEF SorterInv
    <2> QED
      BY <2>1, <2>2, <2>3
  <1>4. AddsUpTo(played + 1) = registrations_added + 1 /\ played + 1 \in 1 .. Len(script)
    BY <1>1, <1>2, PlayedOne
  <1>5. played + 1 \in Adds(script) \cap (1 .. played')
    <2>1. played + 1 \in Adds(script)
      BY <1>1, <1>3, <1>4, ScriptFacts DEF Call
    <2>2. played + 1 \in 1 .. played'
      BY <1>1, <1>3
    <2> QED
      BY <2>1, <2>2
  <1>6. \A i \in 1 .. played : i \in 1 .. played'
    BY <1>1, <1>3
  <1>7. \A n \in 0 .. registrations_added' - 1 :
            n \in 0 .. registrations_added - 1 \/ n = registrations_added
    BY <1>1, <1>3
  <1>8. \A n \in 0 .. registrations_added' - 1 :
            \E i \in Adds(script) \cap (1 .. played') : AddsUpTo(i) = n + 1
    <2> TAKE n \in 0 .. registrations_added' - 1
    <2>1. CASE n = registrations_added
      BY <1>4, <1>5, <2>1
    <2>2. CASE n \in 0 .. registrations_added - 1
      BY <1>6, <2>2 DEF Numbered
    <2> QED
      BY <1>7, <2>1, <2>2
  <1> QED
    BY <1>3, <1>8 DEF Numbered, AddsUpTo

LEMMA NextNumbered ==
    ASSUME PlaybackInv, Numbered, [Next]_vars
    PROVE  Numbered'
  <1>1. CASE Record
    <2>1. live_pc # "recorded" /\ registrations_added' = registrations_added
      BY <1>1 DEF Record, Recording, LiveSet, LiveAdd, LiveReturn, LiveAwait, LiveFinalFlush,
                  LiveInternalize, sorter_vars, PlaybackInv, LiveInv, PushedInv
    <2>2. registrations_added' = 0
      BY <2>1 DEF PlaybackInv, NotStarted
    <2> QED
      BY <2>2 DEF Numbered
  <1>2. CASE AddResolution
    BY <1>2, AddResolutionNumbered
  <1>3. CASE ~Record /\ ~AddResolution
    <2>1. /\ UNCHANGED record_vars /\ UNCHANGED guide_vars
          /\ registrations_added' = registrations_added
          /\ played' = played \/ played' = played + 1
      BY <1>3 DEF Next, Registration, SetValue, WriteFull, GetAwaiter, AwaitFlush, FinalFlush,
                  FacadeStep, Broker, Workers, others, sorter_vars, Ended, vars, play_vars
    <2> QED
      BY <2>1, NumberedFrame
  <1> QED
    BY <1>1, <1>2, <1>3

-----------------------------------------------------------------------------
(* The end: the steps of the threads *)

LEMMA RegistrationEnd ==
    ASSUME PlaybackInv, EndInv, Registration
    PROVE  EndInv'
  <1>1. CASE Record
    <2>1. /\ UNCHANGED <<rpc, unwinding, registration_complete, complete_seen, rw_panicked,
                         bpc>>
      BY <1>1 DEF Record, comm_vars, broker_vars
    <2>2. live_pc # "recorded"
      BY <1>1 DEF Record, Recording, LiveSet, LiveAdd, LiveReturn, LiveAwait, LiveFinalFlush,
                  LiveInternalize, PlaybackInv, LiveInv, PushedInv
    <2>3. /\ rpc = "idle" /\ bpc = "load" /\ ~registration_complete /\ ~complete_seen
          /\ ~rw_panicked
      BY <2>2 DEF PlaybackInv, NotStarted, RW!Init
    <2> QED
      BY <2>1, <2>3 DEF EndInv
  <1>2. CASE ~Record
    <2>1. live_pc = "recorded" /\ UNCHANGED record_vars /\ UNCHANGED guide_vars
      <3>1. UNCHANGED record_vars /\ UNCHANGED guide_vars
        BY <1>2 DEF Registration, SetValue, AddResolution, WriteFull, GetAwaiter, AwaitFlush,
                    FinalFlush, FacadeStep
      <3>2. live_pc = "recorded" \/ rpc # "idle"
        BY <1>2 DEF Registration, SetValue, AddResolution, WriteFull, GetAwaiter, AwaitFlush,
                    FinalFlush, FacadeStep, Idle, Facade!Step, Facade!AwaitCheck,
                    Facade!AwaitCheckPanic, Facade!Complete, Facade!Join
      <3> QED
        BY <3>1, <3>2 DEF PlaybackInv, NotStarted
    <2>2. LiveInv /\ PanicInv
      BY <2>1 DEF PlaybackInv, ReplayInv
    <2>3. script' = script /\ registrations' = registrations
      BY <2>1, <2>2, LiveFrame
    <2>4. CASE SetValue \/ AddResolution \/ WriteFull \/ GetAwaiter \/ AwaitFlush
      <3>1. /\ rpc' \in {"idle", "write", "flush", "wait", "aborted"}
            /\ UNCHANGED <<registration_complete, complete_seen, rw_panicked, bpc, failed,
                           range_start>>
        BY <2>4 DEF SetValue, AddResolution, WriteFull, GetAwaiter, AwaitFlush, Idle, comm_vars,
                    broker_vars, chan_vars
      <3>2. ~registration_complete
        <4>1. rpc = "idle" \/ rpc = "write" \/ rpc = "flush"
          BY <2>4 DEF SetValue, AddResolution, WriteFull, GetAwaiter, AwaitFlush, Idle
        <4>2. rpc # "join" /\ rpc # "ended"
          BY <4>1
        <4> QED
          BY <4>2 DEF EndInv
      <3> QED
        BY <2>3, <3>1, <3>2 DEF EndInv
    <2>5. CASE FinalFlush
      <3>1. /\ rpc = "idle" /\ rpc' = "complete" /\ (unwinding \/ played = Len(script))
            /\ exec_size' = registrations
            /\ UNCHANGED <<registration_complete, complete_seen, rw_panicked, bpc, failed,
                           range_start, played, unwinding>>
        BY <2>5 DEF FinalFlush, WriteBuffer, broker_vars, chan_vars
      <3>2. ~registration_complete
        <4>1. rpc = "idle"
          BY <2>5 DEF FinalFlush
        <4>2. rpc # "join" /\ rpc # "ended"
          BY <4>1
        <4> QED
          BY <4>2 DEF EndInv
      <3>3. ~unwinding => played = Len(script)
        BY <3>1
      <3> QED
        BY <2>3, <3>1, <3>2, <3>3 DEF EndInv
    <2>6. CASE FacadeStep
      <3>1. /\ UNCHANGED <<played, exec_size, complete_seen, range_start, failed, rw_panicked,
                           bpc>>
            /\ unwinding' = unwinding \/ unwinding' = (unwinding \/ (rw_panicked /\ rw_panic))
            /\ \/ /\ rpc \in {"wait", "wait_panic"} /\ rpc' \in {"wait", "wait_panic", "idle"}
                  /\ registration_complete' = registration_complete
               \/ /\ rpc \in {"complete", "join"} /\ rpc' \in {"join", "ended"}
                  /\ registration_complete' = registration_complete \/ registration_complete'
        BY <2>6 DEF FacadeStep, Facade!Step, Facade!AwaitCheck, Facade!AwaitCheckPanic,
                    Facade!Complete, Facade!Join, order_vars, chan_vars
      <3>2. ~unwinding' => ~unwinding
        BY <3>1
      <3> QED
        BY <2>3, <3>1, <3>2 DEF EndInv
    <2> QED
      BY <1>2, <2>4, <2>5, <2>6 DEF Registration
  <1> QED
    BY <1>1, <1>2

(* The broker ends when it has seen that registration is complete, which it is when the
   whole order is released, and has nothing left. *)
LEMMA BrokerEnd ==
    ASSUME PlaybackInv, EndInv, Broker
    PROVE  EndInv'
  <1>1. live_pc = "recorded" /\ RW!Broker /\ UNCHANGED others
    BY DEF Broker
  <1>2. /\ UNCHANGED <<rpc, played, unwinding, exec_size, script, registrations>>
    <2>1. UNCHANGED <<rpc, played, unwinding, exec_size>> /\ UNCHANGED record_vars
      BY <1>1 DEF others, order_vars
    <2> QED
      BY <2>1 DEF record_vars
  <1>3. /\ LiveInv /\ SizeInv /\ WindowInv /\ PanicInv
    BY <1>1 DEF PlaybackInv, ReplayInv
  <1>4. UNCHANGED <<registration_complete, failed>>
    BY <1>1 DEF RW!Broker, RW!Load, RW!Extend, RW!TakeHint, RW!SeeComplete, RW!SendBatch,
                RW!BatchDone, RW!Notify, RW!StorePanic, RW!RaisePanicked, RW!KillPool,
                RW!comm_vars, RW!chan_vars, RW!Channel!Release, RW!Channel!Close,
                RW!Channel!Stop
  <1>5. complete_seen' => registration_complete'
    <2>1. complete_seen' = complete_seen \/ complete_seen' = registration_complete
      BY <1>1 DEF RW!Broker, RW!Load, RW!Extend, RW!TakeHint, RW!SeeComplete, RW!SendBatch,
                  RW!BatchDone, RW!Notify, RW!StorePanic, RW!RaisePanicked, RW!KillPool
    <2> QED
      BY <1>4, <2>1 DEF EndInv
  <1>6. rw_panicked' \/ bpc' \in {"panic", "panic_flag"} => failed'
    <2>1. CASE RW!StorePanic \/ RW!RaisePanicked
      <3>1. bpc \in {"panic", "panic_flag"}
        BY <2>1 DEF RW!StorePanic, RW!RaisePanicked
      <3> QED
        BY <1>4, <3>1 DEF EndInv
    <2>2. CASE ~RW!StorePanic /\ ~RW!RaisePanicked
      <3>1. /\ rw_panicked' = rw_panicked
            /\ bpc' \in {"panic", "panic_flag"} => failed
        BY <1>1, <2>2 DEF RW!Broker, RW!Load, RW!Extend, RW!TakeHint, RW!SeeComplete,
              RW!SendBatch, RW!BatchDone, RW!Notify, RW!KillPool, RW!comm_vars
      <3> QED
        BY <1>4, <3>1 DEF EndInv
    <2> QED
      BY <2>1, <2>2
  <1>7. bpc' \in {"kill", "ended"} =>
            (failed' /\ rw_panicked') \/ (~failed' /\ range_start' = registrations')
    <2>1. CASE RW!RaisePanicked
      <3>1. bpc = "panic_flag" /\ rw_panicked'
        BY <2>1 DEF RW!RaisePanicked
      <3> QED
        BY <1>4, <3>1 DEF EndInv
    <2>2. CASE RW!KillPool
      <3>1. bpc = "kill" /\ rw_panicked' = rw_panicked /\ range_start' = range_start
        BY <2>2 DEF RW!KillPool, RW!comm_vars
      <3> QED
        BY <1>2, <1>4, <3>1 DEF EndInv
    <2>3. CASE RW!Extend
      <3> SUFFICES ASSUME bpc' \in {"kill", "ended"}
                   PROVE  ~failed' /\ range_start' = registrations'
        OBVIOUS
      <3>1. /\ bpc = "lock" /\ ~(exec_size > range_end) /\ complete_seen
            /\ range_end = range_start /\ range_start' = range_start
        BY <2>3 DEF RW!Extend
      <3>2. ~failed /\ ~unwinding
        BY <1>3, <3>1 DEF PanicInv
      <3>3. rpc \in {"join", "ended"}
        BY <3>1 DEF EndInv
      <3>4. exec_size = registrations
        BY <3>2, <3>3 DEF EndInv
      <3>5. /\ registrations \in Nat /\ range_start \in Nat /\ range_end <= registrations
        BY <1>1, <1>3, RecordedOrder DEF WindowInv
      <3>6. range_start = registrations
        BY <3>1, <3>4, <3>5
      <3> QED
        BY <1>2, <1>4, <3>1, <3>2, <3>6
    <2>4. CASE ~RW!RaisePanicked /\ ~RW!KillPool /\ ~RW!Extend
      <3>1. bpc' \notin {"kill", "ended"}
        BY <1>1, <2>4 DEF RW!Broker, RW!Load, RW!TakeHint, RW!SeeComplete, RW!SendBatch,
                          RW!BatchDone, RW!Notify, RW!StorePanic
      <3> QED
        BY <3>1
    <2> QED
      BY <2>1, <2>2, <2>3, <2>4
  <1> QED
    BY <1>2, <1>4, <1>5, <1>6, <1>7 DEF EndInv

LEMMA NextEnd ==
    ASSUME PlaybackInv, EndInv, [Next]_vars
    PROVE  EndInv'
  <1>1. CASE Registration
    BY <1>1, RegistrationEnd
  <1>2. CASE Broker
    BY <1>2, BrokerEnd
  <1>3. CASE Workers
    <2>1. PICK t : /\ t \in batch
                   /\ failed' = failed \/ failed'
                   /\ UNCHANGED <<registration_complete, complete_seen, rw_panicked, bpc>>
                   /\ UNCHANGED others
      BY <1>3 DEF Workers, RW!Workers, RW!Invoke, RW!ClosurePanics, RW!Channel!Run,
                  RW!Channel!Fail, RW!comm_vars, RW!broker_vars
    <2>2. live_pc = "recorded"
      BY <2>1 DEF PlaybackInv, NotStarted, RW!Init, RW!Channel!Init
    <2>3. bpc = "execute" /\ ~rw_panicked
      <3>1. WindowInv /\ PanicInv
        BY <2>2 DEF PlaybackInv, ReplayInv
      <3>2. bpc = "execute"
        BY <2>1, <3>1 DEF WindowInv
      <3> QED
        BY <3>1, <3>2 DEF PanicInv
    <2>4. UNCHANGED <<rpc, played, unwinding, exec_size, script, registrations>>
      BY <2>1 DEF others, order_vars, record_vars
    <2> QED
      BY <2>1, <2>3, <2>4 DEF EndInv
  <1>4. CASE Ended \/ UNCHANGED vars
    <2>1. UNCHANGED <<rpc, played, unwinding, exec_size, script, registrations,
                      registration_complete, complete_seen, rw_panicked, bpc, failed,
                      range_start>>
      BY <1>4 DEF Ended, vars, record_vars, play_vars, order_vars, comm_vars, broker_vars,
                  chan_vars
    <2> QED
      BY <2>1 DEF EndInv
  <1> QED
    BY <1>1, <1>2, <1>3, <1>4 DEF Next

LEMMA EndInvariance == Spec => [](Numbered /\ EndInv)
  <1>1. Init => Numbered /\ EndInv
    <2> SUFFICES ASSUME Init PROVE Numbered /\ EndInv
      OBVIOUS
    <2>1. /\ registrations_added = 0 /\ rpc = "idle" /\ bpc = "load" /\ ~rw_panicked
          /\ ~registration_complete /\ ~complete_seen
      BY DEF Init, PlaybackInit, RW!Init
    <2> QED
      BY <2>1 DEF Numbered, EndInv
  <1>2. PlaybackInv /\ Numbered /\ EndInv /\ [Next]_vars => Numbered' /\ EndInv'
    BY NextNumbered, NextEnd
  <1> QED
    BY PlaybackInvariance, <1>1, <1>2, PTL DEF Spec

-----------------------------------------------------------------------------
(* The replay and WitnessDag *)

Known == {script[i].resolver : i \in Adds(script) \cap (1 .. played)}
Applied == {RW!ResolverAt(t) : t \in ran}
Status == IF unwinding THEN "panicked" ELSE IF rpc = "ended" THEN "done" ELSE "open"

(* What has run is of the items at its places of the recorded order. *)
AppliedInv == \A t \in ran : RW!ResolverAt(t) = ResolverOf(pushed[order[t + 1].item])

DagInv == PlaybackInv /\ ValuesInv /\ SetsInv /\ Numbered /\ EndInv /\ AppliedInv

LEMMA DagState ==
    Dag!vars = <<Known, Applied, resolved, failed, Status>>
  BY DEF Dag!vars, Known, Applied, Status

LEMMA AppliedHolds ==
    ASSUME PlaybackInv
    PROVE  AppliedInv
  <1>1. CASE live_pc # "recorded"
    <2>1. ran = {}
      BY <1>1 DEF PlaybackInv, NotStarted, RW!Init, RW!Channel!Init
    <2> QED
      BY <2>1 DEF AppliedInv
  <1>2. CASE live_pc = "recorded"
    <2>1. LiveInv /\ SorterInv /\ SizeInv /\ WindowInv
      BY <1>2 DEF PlaybackInv, ReplayInv
    <2>2. ASSUME NEW t \in ran
          PROVE  RW!ResolverAt(t) = ResolverOf(pushed[order[t + 1].item])
      <3>1. t + 1 \in 1 .. range_end
        BY <1>2, <2>1, RanFacts
      <3> QED
        BY <1>2, <2>1, <3>1, ReadFacts DEF RW!ResolverAt
    <2> QED
      BY <2>2 DEF AppliedInv
  <1> QED
    BY <1>1, <1>2

LEMMA DagInvariance ==
    ASSUME \A s \in Scripts : SetsInTime(s)
    PROVE  Spec => []DagInv
  <1>1. PlaybackInv /\ ValuesInv /\ SetsInv /\ Numbered /\ EndInv => DagInv
    BY AppliedHolds DEF DagInv
  <1> QED
    BY PlaybackInvariance, ValuesInvariance, SetsInvariance, EndInvariance, <1>1, PTL

(* The registrations so far are known resolvers, and no two are the same. *)
LEMMA RegisteredKnown ==
    ASSUME PlaybackInv, Numbered, live_pc = "recorded"
    PROVE  /\ \A n \in 0 .. registrations_added - 1 : ResolverOf(n) \in Known
           /\ \A m, n \in 0 .. registrations_added - 1 : ResolverOf(m) = ResolverOf(n) => m = n
  <1>1. LiveInv /\ SorterInv
    BY DEF PlaybackInv, ReplayInv
  <1>2. /\ script \in Scripts /\ Len(script) \in Nat /\ played \in 0 .. Len(script)
        /\ Called = Len(script) /\ registrations_added \in Nat
    <2>1. script \in Scripts /\ Len(script) \in Nat /\ registrations_added \in Nat
      BY <1>1, SorterFacts
    <2>2. played \in 0 .. Len(script)
      BY <1>1 DEF SorterInv
    <2>3. Called = Len(script)
      BY <1>1 DEF LiveInv, CallInv, Called
    <2> QED
      BY <2>1, <2>2, <2>3
  <1>3. \A i \in 1 .. played : i \in 1 .. Called
    BY <1>2
  <1>4. \A i \in Adds(script) \cap (1 .. played) : box[AddsUpTo(i)] = script[i].resolver
    BY <1>1, <1>3 DEF LiveInv, CallInv
  <1>5. \A n \in 0 .. registrations_added - 1 :
            \E i \in Adds(script) \cap (1 .. played) :
                AddsUpTo(i) = n + 1 /\ ResolverOf(n) = script[i].resolver
    BY <1>4 DEF Numbered, ResolverOf
  <1>6. \A n \in 0 .. registrations_added - 1 : ResolverOf(n) \in Known
    BY <1>5 DEF Known
  <1>7. ASSUME NEW m \in 0 .. registrations_added - 1, NEW n \in 0 .. registrations_added - 1,
               ResolverOf(m) = ResolverOf(n)
        PROVE  m = n
    <2>1. PICK i \in Adds(script) : AddsUpTo(i) = m + 1 /\ ResolverOf(m) = script[i].resolver
      BY <1>5
    <2>2. PICK j \in Adds(script) : AddsUpTo(j) = n + 1 /\ ResolverOf(n) = script[j].resolver
      BY <1>5
    <2>3. i = j
      BY <1>2, <1>7, <2>1, <2>2, CallsAssumption
    <2>4. m + 1 = n + 1
      BY <2>1, <2>2, <2>3
    <2>5. m \in Int /\ n \in Int
      BY <1>2
    <2> QED
      BY <2>4, <2>5
  <1> QED
    BY <1>6, <1>7

(* The calls so far, after a step that makes none. *)
LEMMA NoCall ==
    ASSUME UNCHANGED <<script, played>>
    PROVE  Known' = Known
  BY DEF Known

LEMMA OneCall ==
    ASSUME PlaybackInv, live_pc = "recorded", played < Len(script),
           script' = script, played' = played + 1
    PROVE  Known' = IF Call.op = "add" THEN Known \cup {Call.resolver} ELSE Known
  <1>1. LiveInv /\ SorterInv
    BY DEF PlaybackInv, ReplayInv
  <1>2. script \in Scripts /\ Len(script) \in Nat /\ played \in 0 .. Len(script)
    BY <1>1, SorterFacts DEF SorterInv
  <1>3. played \in Nat /\ played + 1 \in 1 .. Len(script)
    BY <1>2
  <1>4. \A i : i \in 1 .. played + 1 <=> i \in 1 .. played \/ i = played + 1
    BY <1>3
  <1>5. played + 1 \in Adds(script) <=> Call.op = "add"
    BY <1>2, <1>3, ScriptFacts DEF Call
  <1>6. Call.resolver = script[played + 1].resolver
    BY DEF Call
  <1>7. Known' = {script[i].resolver : i \in Adds(script) \cap (1 .. played + 1)}
    BY DEF Known
  <1>8. CASE Call.op = "add"
    <2>1. \A i : i \in Adds(script) \cap (1 .. played + 1) <=>
                    i \in Adds(script) \cap (1 .. played) \/ i = played + 1
      BY <1>4, <1>5, <1>8
    <2>2. Known' = Known \cup {script[played + 1].resolver}
      BY <1>7, <2>1 DEF Known
    <2> QED
      BY <1>6, <1>8, <2>2
  <1>9. CASE Call.op # "add"
    <2>1. Adds(script) \cap (1 .. played + 1) = Adds(script) \cap (1 .. played)
      BY <1>4, <1>5, <1>9
    <2> QED
      BY <1>7, <1>9, <2>1 DEF Known
  <1> QED
    BY <1>8, <1>9

(* What ran stays what it was when the order is written. *)
LEMMA AppliedSame ==
    ASSUME AppliedInv, AppliedInv', ran' = ran, UNCHANGED <<box, pushed, order>>
    PROVE  Applied' = Applied
  <1>1. \A n : ResolverOf(n)' = ResolverOf(n)
    BY DEF ResolverOf
  <1>2. \A t \in ran : RW!ResolverAt(t)' = RW!ResolverAt(t)
    BY <1>1 DEF AppliedInv
  <1>3. Applied' = {RW!ResolverAt(t)' : t \in ran}
    BY DEF Applied
  <1> QED
    BY <1>2, <1>3 DEF Applied

(* The steps of a sorter that registers, resolves and ends nothing. *)
LEMMA ReplayStutters ==
    ASSUME AppliedInv, AppliedInv', ran' = ran, UNCHANGED <<box, pushed, order>>,
           Known' = Known, resolved' = resolved, failed' = failed, Status' = Status
    PROVE  UNCHANGED Dag!vars
  <1>1. Applied' = Applied
    BY AppliedSame
  <1>2. Dag!vars' = <<Known', Applied', resolved', failed', Status'>>
    BY DEF Dag!vars, Known, Applied, Status
  <1> QED
    BY <1>1, <1>2, DagState

LEMMA RecordStutters ==
    ASSUME DagInv, AppliedInv', Record
    PROVE  UNCHANGED Dag!vars
  <1>1. live_pc # "recorded"
    BY DEF DagInv, PlaybackInv, LiveInv, PushedInv, Record, Recording, LiveSet, LiveAdd,
           LiveReturn, LiveAwait, LiveFinalFlush, LiveInternalize
  <1>2. played = 0 /\ ran = {}
    BY <1>1 DEF DagInv, PlaybackInv, NotStarted, RW!Init, RW!Channel!Init
  <1>3. UNCHANGED <<played, ran, resolved, failed, rpc, unwinding>>
    BY DEF Record, value_vars, chan_vars
  <1>4. Known = {} /\ Known' = {}
    BY <1>2, <1>3 DEF Known
  <1>5. Applied = {} /\ Applied' = {}
    BY <1>2, <1>3 DEF Applied
  <1>6. Status' = Status
    BY <1>3 DEF Status
  <1>7. Dag!vars' = <<Known', Applied', resolved', failed', Status'>>
    BY DEF Dag!vars, Known, Applied, Status
  <1> QED
    BY <1>3, <1>4, <1>5, <1>6, <1>7, DagState

LEMMA SetValueStep ==
    ASSUME DagInv, AppliedInv', SetValue
    PROVE  Dag!Next
  <1>1. /\ live_pc = "recorded" /\ played < Len(script) /\ Call.op = "set"
        /\ Call.places \cap tracked = {} /\ resolved' = resolved \cup Call.places
        /\ played' = played + 1 /\ UNCHANGED record_vars /\ UNCHANGED guide_vars
        /\ UNCHANGED <<ran, failed, rpc, unwinding>>
    BY DEF SetValue, Idle, chan_vars
  <1>2. PlaybackInv /\ AppliedInv
    BY DEF DagInv
  <1>3. /\ LiveInv /\ SorterInv /\ SizeInv /\ WindowInv /\ ReplayValueInv
    BY <1>1 DEF DagInv, PlaybackInv, ReplayInv, ValuesInv
  <1>4. UNCHANGED <<script, box, pushed, order>>
    BY <1>1 DEF record_vars, guide_vars
  <1>5. PICK p \in Places : Call.places = {p}
    <2>1. script \in Scripts /\ played + 1 \in DOMAIN script
      <3>1. script \in Scripts
        BY <1>1, <1>3, SorterFacts
      <3>2. played + 1 \in 1 .. Len(script)
        BY <1>1, <1>3, PlayedOne
      <3> QED
        BY <3>1, <3>2, ScriptFacts
    <2> QED
      BY <1>1, <2>1, CallsAssumption DEF Call
  <1>6. p \notin resolved
    BY <1>1, <1>3, <1>5, ResolvedTracked
  <1>7. Known' = Known
    <2>1. Call.op # "add"
      BY <1>1
    <2> QED
      BY <1>1, <1>2, <1>4, <2>1, OneCall
  <1>8. Applied' = Applied
    BY <1>1, <1>2, <1>4, AppliedSame
  <1>9. Status' = Status
    BY <1>1 DEF Status
  <1>10. Dag!SetValue(p)
    BY <1>1, <1>5, <1>6, <1>7, <1>8, <1>9 DEF Dag!SetValue, Known, Applied, Status
  <1> QED
    BY <1>10 DEF Dag!Next

(* The resolver is one the client has not registered; that its outputs become tracked
   takes no value back. *)
LEMMA AddResolutionStep ==
    ASSUME DagInv, AppliedInv', AddResolution
    PROVE  Dag!Next
  <1>1. /\ live_pc = "recorded" /\ played < Len(script) /\ Call.op = "add"
        /\ Call.resolver.outs \cap tracked = {} /\ resolved' = resolved \ Call.resolver.outs
        /\ played' = played + 1 /\ UNCHANGED record_vars /\ UNCHANGED guide_vars
        /\ UNCHANGED <<ran, failed, unwinding>>
    BY DEF AddResolution, Idle, chan_vars
  <1>2. rpc # "ended" /\ rpc' # "ended"
    BY DEF AddResolution, Idle
  <1>3. PlaybackInv /\ AppliedInv
    BY DEF DagInv
  <1>4. /\ LiveInv /\ SorterInv /\ SizeInv /\ WindowInv /\ ReplayValueInv
    BY <1>1 DEF DagInv, PlaybackInv, ReplayInv, ValuesInv
  <1>5. UNCHANGED <<script, box, pushed, order>>
    BY <1>1 DEF record_vars, guide_vars
  <1>6. resolved' = resolved
    BY <1>1, <1>4, ResolvedTracked
  <1>7. script \in Scripts /\ played + 1 \in Adds(script) /\ played \in Nat
    <2>1. script \in Scripts
      BY <1>1, <1>4, SorterFacts
    <2>2. played + 1 \in 1 .. Len(script)
      BY <1>1, <1>4, PlayedOne
    <2>3. played + 1 \in Adds(script)
      BY <1>1, <2>1, <2>2, ScriptFacts DEF Call
    <2>4. played \in Nat
      BY <1>4 DEF SorterInv
    <2> QED
      BY <2>1, <2>3, <2>4
  <1>8. PICK r \in Resolvers : r = Call.resolver /\ r = script[played + 1].resolver
    BY <1>7, CallsAssumption DEF Call
  <1>9. r \notin Known
    <2>1. \A i \in 1 .. played : i # played + 1
      BY <1>7
    <2> QED
      BY <1>7, <1>8, <2>1, CallsAssumption DEF Known
  <1>10. Known' = Known \cup {r}
    BY <1>1, <1>3, <1>5, <1>8, OneCall
  <1>11. Applied' = Applied
    BY <1>1, <1>3, <1>5, AppliedSame
  <1>12. Status' = Status
    BY <1>1, <1>2 DEF Status
  <1>13. Dag!Register(r)
    BY <1>1, <1>6, <1>9, <1>10, <1>11, <1>12 DEF Dag!Register, Known, Applied, Status
  <1> QED
    BY <1>13 DEF Dag!Next

(* The buffer is written; the items the window has read stay where they are. *)
LEMMA WritesStutter ==
    ASSUME DagInv, AppliedInv', WriteFull \/ GetAwaiter \/ AwaitFlush \/ FinalFlush
    PROVE  UNCHANGED Dag!vars
  <1>1. /\ UNCHANGED record_vars /\ UNCHANGED guide_vars
        /\ UNCHANGED <<ran, resolved, failed, unwinding>>
    BY DEF WriteFull, GetAwaiter, AwaitFlush, FinalFlush, value_vars, chan_vars
  <1>2. rpc # "ended" /\ rpc' # "ended"
    BY DEF WriteFull, GetAwaiter, AwaitFlush, FinalFlush, Idle
  <1>3. PlaybackInv /\ AppliedInv
    BY DEF DagInv
  <1>4. UNCHANGED <<script, box, pushed, order>>
    BY <1>1 DEF record_vars, guide_vars
  <1>5. Known' = Known
    <2>1. CASE AwaitFlush
      <3>1. rpc = "flush" /\ played' = played + 1
        BY <2>1 DEF AwaitFlush
      <3>2. live_pc = "recorded"
        BY <1>3, <3>1 DEF PlaybackInv, NotStarted
      <3>3. played < Len(script) /\ Call.op = "await"
        BY <1>3, <3>1, <3>2 DEF PlaybackInv, ReplayInv, SorterInv
      <3>4. Call.op # "add"
        BY <3>3
      <3> QED
        BY <1>3, <1>4, <3>1, <3>2, <3>3, <3>4, OneCall
    <2>2. CASE WriteFull \/ GetAwaiter \/ FinalFlush
      <3>1. played' = played
        BY <2>2 DEF WriteFull, GetAwaiter, FinalFlush
      <3> QED
        BY <1>4, <3>1, NoCall
    <2> QED
      BY <2>1, <2>2
  <1>6. Status' = Status
    BY <1>1, <1>2 DEF Status
  <1> QED
    BY <1>1, <1>3, <1>4, <1>5, <1>6, ReplayStutters

(* A task of the batch that has not run is known and not applied. *)
LEMMA TaskKnown ==
    ASSUME DagInv, live_pc = "recorded", NEW t \in batch \ ran
    PROVE  /\ RW!ResolverAt(t) \in Known /\ RW!ResolverAt(t) \notin Applied
           /\ RW!ResolverAt(t).ins \subseteq resolved
           /\ RW!ResolverAt(t).outs \cap resolved = {}
  <1>1. PlaybackInv /\ ValuesInv /\ SetsInv /\ Numbered /\ AppliedInv
    BY DEF DagInv
  <1>2. LiveInv /\ SorterInv /\ SizeInv /\ WindowInv
    BY <1>1 DEF PlaybackInv, ReplayInv
  <1> DEFINE n == pushed[order[t + 1].item]
  <1>3. t \in Nat /\ t + 1 \in 1 .. range_end
    BY <1>2, RanFacts
  <1>4. /\ n \in 0 .. registrations_added - 1 /\ record[n].order_ix + 1 = t + 1
        /\ RW!ResolverAt(t) = ResolverOf(n)
    BY <1>2, <1>3, ReadFacts DEF RW!ResolverAt
  <1>5. ResolverOf(n).ins \subseteq resolved /\ ResolverOf(n).outs \cap resolved = {}
    BY <1>1, TaskReady DEF Ins, Outs
  <1> HIDE DEF n
  <1>6. ASSUME NEW s \in ran, RW!ResolverAt(s) = ResolverOf(n)
        PROVE  FALSE
    <2> DEFINE m == pushed[order[s + 1].item]
    <2>1. s \in Nat /\ s + 1 \in 1 .. range_end
      BY <1>2, RanFacts
    <2>2. m \in 0 .. registrations_added - 1 /\ record[m].order_ix + 1 = s + 1
      BY <1>2, <2>1, ReadFacts
    <2>3. ResolverOf(m) = ResolverOf(n)
      BY <1>1, <1>6 DEF AppliedInv
    <2> HIDE DEF m
    <2>4. m = n
      BY <1>1, <1>4, <2>2, <2>3, RegisteredKnown
    <2>5. s + 1 = t + 1
      BY <1>4, <2>2, <2>4
    <2>6. s = t
      BY <1>3, <2>1, <2>5
    <2> QED
      BY <2>6
  <1>7. ResolverOf(n) \notin Applied
    BY <1>6 DEF Applied
  <1>8. ResolverOf(n) \in Known
    BY <1>1, <1>4, RegisteredKnown
  <1> QED
    BY <1>4, <1>5, <1>7, <1>8

LEMMA WorkersStep ==
    ASSUME DagInv, Workers
    PROVE  Dag!Next
  <1>1. PICK t : RW!Invoke(t) \/ RW!ClosurePanics(t)
    BY DEF Workers, RW!Workers
  <1>2. UNCHANGED <<script, played, unwinding, rpc, exec_order>>
    BY DEF Workers, others, record_vars, order_vars
  <1>3. Known' = Known /\ Status' = Status /\ \A s : RW!ResolverAt(s)' = RW!ResolverAt(s)
    BY <1>2 DEF Known, Status, RW!ResolverAt
  <1>4. t \in batch \ ran
    BY <1>1 DEF RW!Invoke, RW!ClosurePanics
  <1>5. live_pc = "recorded"
    BY <1>4 DEF DagInv, PlaybackInv, NotStarted, RW!Init, RW!Channel!Init
  <1> DEFINE r == RW!ResolverAt(t)
  <1>6. r \in Known \ Applied /\ r.ins \subseteq resolved /\ r.outs \cap resolved = {}
    BY <1>4, <1>5, TaskKnown
  <1>7. CASE RW!Invoke(t)
    <2>1. ran' = ran \cup {t} /\ failed' = failed /\ resolved' = resolved \cup r.outs
      <3>1. RW!InvokeAsserts(RW!ResolverAt(t))
        BY <1>6 DEF RW!InvokeAsserts
      <3> QED
        BY <1>7, <3>1 DEF RW!Invoke, RW!Channel!Run
    <2>2. Applied' = Applied \cup {r}
      BY <1>3, <2>1 DEF Applied
    <2>3. Dag!Apply(r)
      BY <1>3, <1>6, <2>1, <2>2 DEF Dag!Apply, Dag!Ready, Known, Applied, Status
    <2> QED
      BY <1>6, <2>3 DEF Dag!Next, Known, Applied
  <1>8. CASE RW!ClosurePanics(t)
    <2>1. failed' = TRUE /\ UNCHANGED <<resolved, ran>>
      BY <1>8 DEF RW!ClosurePanics, RW!Channel!Fail, RW!value_vars
    <2>2. Applied' = Applied
      BY <1>3, <2>1 DEF Applied
    <2>3. Dag!Fail(r)
      BY <1>3, <1>6, <2>1, <2>2 DEF Dag!Fail, Dag!Ready, Known, Applied, Status
    <2> QED
      BY <1>6, <2>3 DEF Dag!Next, Known, Applied
  <1> QED
    BY <1>1, <1>7, <1>8

LEMMA BrokerStutters ==
    ASSUME DagInv, AppliedInv', Broker
    PROVE  UNCHANGED Dag!vars
  <1>1. UNCHANGED <<script, played, box, pushed, rpc, unwinding>> /\ UNCHANGED order
    BY DEF Broker, others, record_vars, guide_vars
  <1>2. UNCHANGED <<resolved, ran, failed>>
    BY DEF Broker, RW!Broker, RW!Load, RW!Extend, RW!TakeHint, RW!SeeComplete, RW!SendBatch,
           RW!BatchDone, RW!Notify, RW!StorePanic, RW!RaisePanicked, RW!KillPool,
           RW!Channel!Release, RW!Channel!Close, RW!Channel!Stop, RW!value_vars, RW!chan_vars
  <1>3. Known' = Known /\ Status' = Status
    BY <1>1 DEF Known, Status
  <1>4. AppliedInv
    BY DEF DagInv
  <1> QED
    BY <1>1, <1>2, <1>3, <1>4, ReplayStutters

(* When the registration thread has joined the broker and no panic is left to resume,
   every registration of the recorded order has run. *)
LEMMA ReplayedToTheEnd ==
    ASSUME DagInv, rpc = "join", bpc = "ended", ~unwinding, ~(rw_panicked /\ rw_panic)
    PROVE  ~failed /\ Applied = Known
  <1>1. PlaybackInv /\ ValuesInv /\ Numbered /\ EndInv /\ AppliedInv
    BY DEF DagInv
  <1>2. live_pc = "recorded"
    BY <1>1 DEF PlaybackInv, NotStarted
  <1>3. LiveInv /\ SorterInv /\ SizeInv /\ WindowInv /\ NoticeInv
    BY <1>1, <1>2 DEF PlaybackInv, ReplayInv, ValuesInv
  <1>4. ~rw_panicked
    BY <1>3 DEF NoticeInv
  <1>5. ~failed /\ range_start = registrations
    BY <1>1, <1>4 DEF EndInv
  <1>6. played = Len(script)
    BY <1>1 DEF EndInv
  <1>7. /\ registrations \in Nat /\ Len(order) = registrations
        /\ registrations = AddsUpTo(Len(script)) /\ Len(script) \in Nat /\ script \in Scripts
    BY <1>2, <1>3, RecordedOrder, SorterFacts
  <1>8. registrations_added = registrations
    BY <1>3, <1>6, <1>7 DEF SorterInv
  <1>9. ran = 0 .. registrations - 1
    <2>1. bpc # "execute"
      OBVIOUS
    <2> QED
      BY <1>3, <1>5, <2>1 DEF WindowInv
  <1>10. Applied \subseteq Known
    <2>1. ASSUME NEW t \in ran PROVE RW!ResolverAt(t) \in Known
      <3>1. t + 1 \in 1 .. range_end
        BY <1>2, <1>3, RanFacts
      <3>2. pushed[order[t + 1].item] \in 0 .. registrations_added - 1
        BY <1>2, <1>3, <3>1, ReadFacts
      <3>3. RW!ResolverAt(t) = ResolverOf(pushed[order[t + 1].item])
        BY <1>1 DEF AppliedInv
      <3> QED
        BY <1>1, <1>2, <3>2, <3>3, RegisteredKnown
    <2> QED
      BY <2>1 DEF Applied
  <1>11. ASSUME NEW i \in Adds(script) \cap (1 .. played)
         PROVE  script[i].resolver \in Applied
    <2>1. Len(script) \in 0 .. Len(script) /\ i \in Adds(script) \cap (1 .. Len(script))
      BY <1>6, <1>7
    <2>2. AddsUpTo(i) \in 1 .. registrations
      BY <1>7, <2>1, AddNumber
    <2> DEFINE n == AddsUpTo(i) - 1
    <2>3. n \in 0 .. registrations - 1 /\ n + 1 = AddsUpTo(i)
      BY <1>7, <2>2
    <2> HIDE DEF n
    <2>4. ResolverOf(n) = script[i].resolver
      <3>1. Called = Len(script)
        BY <1>2, <1>3 DEF LiveInv, CallInv, Called
      <3>2. box[AddsUpTo(i)] = script[i].resolver
        BY <1>3, <2>1, <3>1 DEF LiveInv, CallInv
      <3> QED
        BY <2>3, <3>2 DEF ResolverOf
    <2> DEFINE t == record[n].order_ix
    <2>5. t \in Nat /\ t + 1 \in 1 .. registrations /\ pushed[order[t + 1].item] = n
      BY <1>2, <1>3, <2>3, RecordedOrder
    <2> HIDE DEF t
    <2>6. t \in ran
      BY <1>7, <1>9, <2>5
    <2>7. RW!ResolverAt(t) = script[i].resolver
      BY <1>1, <2>4, <2>5, <2>6 DEF AppliedInv
    <2> QED
      BY <2>6, <2>7 DEF Applied
  <1>12. Known \subseteq Applied
    BY <1>11 DEF Known
  <1> QED
    BY <1>5, <1>10, <1>12

LEMMA FacadeStepStep ==
    ASSUME DagInv, AppliedInv', FacadeStep
    PROVE  Dag!Next \/ UNCHANGED Dag!vars
  <1>1. /\ UNCHANGED <<script, played, box, pushed, resolved, failed, ran>>
        /\ UNCHANGED order
    BY DEF FacadeStep, value_vars, chan_vars, record_vars, guide_vars
  <1>2. AppliedInv /\ EndInv
    BY DEF DagInv
  <1>3. Known' = Known /\ Applied' = Applied
    BY <1>1, <1>2, AppliedSame, NoCall
  <1>4. Status' = Status => UNCHANGED Dag!vars
    BY <1>1, <1>2, <1>3, ReplayStutters
  <1>5. live_pc = "recorded" \/ rpc = "idle"
    BY DEF DagInv, PlaybackInv, NotStarted
  <1>6. rpc # "idle"
    BY DEF FacadeStep, Facade!Step, Facade!AwaitCheck, Facade!AwaitCheckPanic,
           Facade!Complete, Facade!Join
  <1>7. failed \in BOOLEAN /\ unwinding \in BOOLEAN
    BY <1>5, <1>6 DEF DagInv, PlaybackInv, ReplayInv, PanicInv
  <1>8. rw_panicked => failed = TRUE
    BY <1>2, <1>7 DEF EndInv
  <1>9. ASSUME Status = "open", failed = TRUE, Status' = "panicked"
        PROVE  Dag!Next
    <2>1. Dag!Panic
      BY <1>1, <1>3, <1>9 DEF Dag!Panic, Known, Applied, Status
    <2> QED
      BY <2>1 DEF Dag!Next
  <1>10. CASE Facade!AwaitCheck \/ Facade!Complete
    <2>1. rpc # "ended" /\ rpc' # "ended" /\ unwinding' = unwinding
      BY <1>10 DEF Facade!AwaitCheck, Facade!Complete
    <2> QED
      BY <1>4, <2>1 DEF Status
  <1>11. CASE Facade!AwaitCheckPanic
    <2>1. /\ rpc # "ended" /\ rpc' # "ended"
          /\ unwinding' = (unwinding \/ (rw_panicked /\ rw_panic))
      BY <1>11 DEF Facade!AwaitCheckPanic
    <2>2. CASE unwinding \/ ~(rw_panicked /\ rw_panic)
      <3>1. Status' = Status
        BY <2>1, <2>2 DEF Status
      <3> QED
        BY <1>4, <3>1
    <2>3. CASE ~unwinding /\ rw_panicked /\ rw_panic
      <3>1. Status = "open" /\ Status' = "panicked"
        BY <2>1, <2>3 DEF Status
      <3> QED
        BY <1>8, <1>9, <2>3, <3>1
    <2> QED
      BY <2>2, <2>3
  <1>12. CASE Facade!Join
    <2>1. /\ rpc = "join" /\ bpc = "ended" /\ rpc' = "ended"
          /\ unwinding' = (unwinding \/ (rw_panicked /\ rw_panic))
      BY <1>12 DEF Facade!Join
    <2>2. CASE unwinding
      <3>1. Status' = Status
        BY <2>1, <2>2 DEF Status
      <3> QED
        BY <1>4, <3>1
    <2>3. CASE ~unwinding /\ rw_panicked /\ rw_panic
      <3>1. Status = "open" /\ Status' = "panicked"
        BY <2>1, <2>3 DEF Status
      <3> QED
        BY <1>8, <1>9, <2>3, <3>1
    <2>4. CASE ~unwinding /\ ~(rw_panicked /\ rw_panic)
      <3>1. Status = "open" /\ Status' = "done"
        BY <2>1, <2>4 DEF Status
      <3>2. ~failed /\ Applied = Known
        BY <2>1, <2>4, ReplayedToTheEnd
      <3>3. Dag!Done
        BY <1>1, <1>3, <3>1, <3>2 DEF Dag!Done, Known, Applied, Status
      <3> QED
        BY <3>3 DEF Dag!Next
    <2> QED
      BY <2>2, <2>3, <2>4
  <1> QED
    BY <1>10, <1>11, <1>12 DEF FacadeStep, Facade!Step

LEMMA StepImplements ==
    ASSUME DagInv, DagInv', [Next]_vars
    PROVE  [Dag!Next]_(Dag!vars)
  <1>1. AppliedInv /\ AppliedInv'
    BY DEF DagInv
  <1>2. CASE Registration
    BY <1>1, <1>2, RecordStutters, SetValueStep, AddResolutionStep, WritesStutter,
       FacadeStepStep DEF Registration
  <1>3. CASE Broker
    BY <1>1, <1>3, BrokerStutters
  <1>4. CASE Workers
    BY <1>4, WorkersStep
  <1>5. CASE Ended \/ UNCHANGED vars
    <2>1. /\ UNCHANGED <<script, played, box, pushed, resolved, failed, ran, rpc, unwinding>>
          /\ UNCHANGED order
      BY <1>5 DEF Ended, vars, record_vars, guide_vars, play_vars, value_vars, chan_vars
    <2>2. Known' = Known /\ Status' = Status
      BY <2>1 DEF Known, Status
    <2> QED
      BY <1>1, <2>1, <2>2, ReplayStutters
  <1> QED
    BY <1>2, <1>3, <1>4, <1>5 DEF Next

(* The resolver that replays a record keeps the promises of CircuitResolver, like the one
   that made it, though it checks nothing of what it is given: for clients that set values
   in time, every sequence of calls and every interleaving is a resolver running once,
   after its inputs, or nothing; wait_till_resolved ends normally only when all ran, and a
   closure's panic is resumed on the client. *)
THEOREM ReplayRefinesWitnessDag ==
    ASSUME \A s \in Scripts : SetsInTime(s)
    PROVE  Spec => ImplementsWitnessDag
  <1>1. Init => Dag!Init
    <2> SUFFICES ASSUME Init PROVE Dag!Init
      OBVIOUS
    <2>1. /\ played = 0 /\ resolved = {} /\ unwinding = FALSE /\ rpc = "idle"
          /\ ran = {} /\ failed = FALSE
      BY DEF Init, PlaybackInit, RW!Init, RW!Channel!Init
    <2>2. Known = {} /\ Applied = {} /\ Status = "open"
      BY <2>1 DEF Known, Applied, Status
    <2> QED
      BY <2>1, <2>2 DEF Dag!Init, Known, Applied, Status
  <1> QED
    BY <1>1, StepImplements, DagInvariance, PTL DEF Spec, ImplementsWitnessDag, Dag!Spec
=============================================================================
