------------------------- MODULE MtResolver_proofs -------------------------
(***************************************************************************)
(* Proofs about the multi-threaded resolver, for every circuit, size of    *)
(* the guide, the channel and the buffer, and every interleaving of the    *)
(* registration thread, the broker and the workers: a released batch can   *)
(* run in any order, an awaiter returns to values that are there, the      *)
(* resolver implements WitnessDag, and nothing stays delayed of a circuit  *)
(* whose places are in an order of computation.                            *)
(***************************************************************************)
EXTENDS MtResolver, BufferGuide_proofs

-----------------------------------------------------------------------------
(* The inductive invariant *)

(* The resolver cur is in the guide, its outputs are not tracked yet. *)
InGuide == rpc \in {"hint", "track"}

TrackedItems == IF InGuide THEN 1 .. Len(loc) - 1 ELSE Items

(* The places set from outside so far. *)
Given == circuit.set \ unset

(* Every resolver of the circuit is in one place: still to be registered, delayed,
   on the stack of internalize or pushed, and pushed once. *)
ClientInv ==
    /\ circuit \in Circuits /\ rpc \in RegistrationPcs
    /\ todo \subseteq circuit.resolvers /\ unset \subseteq circuit.set
    /\ delayed \subseteq circuit.resolvers \ todo
    /\ work \subseteq circuit.resolvers \ (todo \cup delayed)
    /\ pushed \in Seq(circuit.resolvers) /\ Len(pushed) = Len(loc)
    /\ \A s, t \in Items : s # t => pushed[s] # pushed[t]
    /\ \A t \in Items : /\ pushed[t] \notin todo \cup delayed
                        /\ pushed[t] \in work => InGuide /\ t = Len(loc)
    /\ \A r \in circuit.resolvers :
            r \in todo \cup delayed \cup work \/ \E t \in Items : pushed[t] = r
    /\ InGuide => /\ Len(loc) \in Items /\ pushed[Len(loc)] = cur /\ cur \in work
                  /\ loc[Len(loc)].id >= first_id
    /\ ~InGuide => cur = NoResolver
    /\ rpc \notin {"internalize", "hint", "track"} => work = {}
    /\ awaits \in 0 .. MaxAwaits /\ awaiting \subseteq Places
    /\ track_id \in GuideLocs /\ unwinding \in BOOLEAN

(* A place is tracked once it is given or its resolver is pushed, with the location
   of the latter as its tracker, and resolved once the resolver ran. *)
ValueInv ==
    /\ tracked \subseteq Places /\ resolved \subseteq Places
    /\ tracker \in [Places -> GuideLocs]
    /\ \A p \in Places : p \in tracked <=>
            p \in Given \/ \E s \in TrackedItems : p \in pushed[s].outs
    /\ \A p \in Places : p \in resolved <=>
            p \in Given \/ \E t \in ran : p \in pushed[order[t + 1].item].outs
    /\ \A s \in TrackedItems : \A p \in pushed[s].outs : tracker[p] = loc[s]
    /\ \A p \in Places : tracker[p] = DefaultLoc \/ \E s \in TrackedItems : tracker[p] = loc[s]

(* A resolver waits in the registrar while an input is beyond the run of tracked
   places; it is pushed after the last of its inputs. *)
InputsInv ==
    /\ \A r \in work : r.ins \subseteq tracked
    /\ \A r \in delayed : MaxIx(r.ins) > MaxTracked(tracked)
    /\ \A t \in Items : loc[t].id > 0
    /\ \A t \in Items : \A p \in pushed[t].ins :
            p \in Given \/ \E s \in Items : /\ p \in pushed[s].outs /\ after[t] # 0
                                            /\ ~Precedes(loc[after[t]], loc[s])

(* Between the batches exactly what the window has passed has run; a batch is what
   may run at once with its first item. *)
WindowInv ==
    /\ bpc \in RW!BrokerPcs
    /\ notified \in Nat /\ range_start \in Nat /\ range_end \in Nat
    /\ notified <= range_start /\ range_start <= range_end /\ range_end <= Len(order)
    /\ range_end - range_start <= BufferCapacity
    /\ ran \subseteq 0 .. Len(order) - 1 /\ 0 .. range_start - 1 \subseteq ran
    /\ bpc # "execute" => batch = {}
    /\ bpc = "execute" =>
            /\ \E last \in range_start .. range_end - 1 :
                    /\ last < range_start + order[range_start + 1].parallelism
                    /\ batch = range_start .. last
            /\ ran \subseteq (0 .. range_start - 1) \cup batch
    /\ bpc # "execute" /\ ~failed => ran = 0 .. range_start - 1
    /\ bpc = "notify" => notified < range_start

(* A panic is stored before it is announced and before the pool is told to die. *)
PanicInv ==
    /\ hint \in 0 .. 1
    /\ registration_complete \in BOOLEAN /\ complete_seen \in BOOLEAN
    /\ rw_panicked \in BOOLEAN /\ rw_panic \in BOOLEAN
    /\ failed \in BOOLEAN /\ stopped \in BOOLEAN
    /\ bpc \in {"load", "lock", "hint", "process", "notify"} => ~failed
    /\ bpc \in {"panic", "panic_flag"} => failed
    /\ bpc = "panic_flag" => rw_panic
    /\ bpc \in {"kill", "ended"} =>
            (failed /\ rw_panicked) \/ (~failed /\ complete_seen /\ range_start = Len(order))
    /\ bpc \notin {"kill", "ended"} => ~rw_panicked
    /\ rw_panicked => failed /\ (rw_panic \/ unwinding)
    /\ complete_seen => registration_complete
    /\ registration_complete => rpc \in {"join", "ended"}
    /\ rpc = "ended" => bpc = "ended"

(* What the awaiters are told is the location of an item that ran, or the default. *)
Told ==
    max_resolved = DefaultLoc \/ \E m \in 1 .. notified : max_resolved = loc[order[m].item]

(* What an awaiter waits for comes no earlier than any place it awaits. *)
Awaited ==
    rpc \in {"await_hint", "wait", "wait_panic"} =>
        awaiting \subseteq tracked /\ \A p \in awaiting : ~Precedes(track_id, tracker[p])

(* The client that ends the registration without a panic has made all its calls,
   and nothing is left in the guide. *)
FinalInv ==
    rpc \in {"final_hint", "complete", "join", "ended"} =>
        /\ delayed = {} /\ \A i \in SpanIxs : spans[i] = << >>
        /\ ~unwinding => todo = {} /\ unset = {}

MtInv ==
    /\ GuideInv /\ ClientInv /\ ValueInv /\ InputsInv
    /\ WindowInv /\ PanicInv /\ Told /\ Awaited /\ FinalInv

-----------------------------------------------------------------------------
(* Places *)

(* Max of places and -1. *)
LEMMA MaxOfPlaces ==
    ASSUME NEW S, S \subseteq Places
    PROVE  /\ Max({-1} \cup S) \in Int
           /\ Max({-1} \cup S) \in S \cup {-1}
           /\ \A p \in {-1} \cup S : p <= Max({-1} \cup S)
  BY PlaceCntAssumption, MaxOrMinusOne DEF Places

(* Values::advance_track: everything up to the maximum tracked variable is tracked,
   the next one is not. *)
LEMMA MaxTrackedIsRun ==
    ASSUME NEW places, places \subseteq Places
    PROVE  /\ MaxTracked(places) \in Int /\ MaxTracked(places) >= -1
           /\ 0 .. MaxTracked(places) \subseteq places
           /\ MaxTracked(places) + 1 \notin places
  BY PlaceCntAssumption, UnbrokenRun DEF Places, MaxTracked

(* The largest of some places, -1 of none. *)
LEMMA MaxIxIsMax ==
    ASSUME NEW places, places \subseteq Places
    PROVE  /\ MaxIx(places) \in Int
           /\ MaxIx(places) \in places \cup {-1}
           /\ \A p \in places : p <= MaxIx(places)
  BY MaxOfPlaces DEF MaxIx

(* What Registrar::accept and get_awaiter check: no place above the maximum tracked
   variable, so all of them are tracked. *)
LEMMA UpToMaxTracked ==
    ASSUME NEW places, places \subseteq Places, NEW known, known \subseteq Places,
           MaxIx(places) <= MaxTracked(known)
    PROVE  places \subseteq known
  <1> SUFFICES ASSUME NEW p \in places PROVE p \in known
    OBVIOUS
  <1>1. p \in Nat
    BY DEF Places
  <1>2. p <= MaxIx(places) /\ MaxIx(places) \in Int
    BY MaxIxIsMax
  <1>3. MaxTracked(known) \in Int /\ 0 .. MaxTracked(known) \subseteq known
    BY MaxTrackedIsRun
  <1>4. p \in 0 .. MaxTracked(known)
    BY <1>1, <1>2, <1>3
  <1> QED
    BY <1>3, <1>4

-----------------------------------------------------------------------------
(* What the invariant says of a state *)

(* The circuit that is built, by the assumption on circuits. *)
LEMMA CircuitFacts ==
    ASSUME ClientInv
    PROVE  /\ circuit.set \subseteq Places /\ Given \subseteq circuit.set
           /\ IsFiniteSet(circuit.resolvers) /\ Cardinality(circuit.resolvers) <= MaxItems
           /\ \A r \in circuit.resolvers :
                r.ins \subseteq Places /\ r.outs \subseteq Places \ circuit.set
           /\ \A r, s \in circuit.resolvers : \A p \in r.outs : p \in s.outs => r = s
  <1>1. circuit \in Circuits
    BY DEF ClientInv
  <1>2. \A r, s \in circuit.resolvers : r # s => r.outs \cap s.outs = {}
    BY <1>1, CircuitsAssumption
  <1> QED
    BY <1>1, <1>2, CircuitsAssumption DEF Given

(* The items of the guide and the resolvers they stand for. *)
LEMMA ItemFacts ==
    ASSUME GuideInv, ClientInv
    PROVE  /\ Len(loc) \in Nat /\ Items = 1 .. Len(loc) /\ TrackedItems \subseteq Items
           /\ ~InGuide => TrackedItems = Items
           /\ InGuide => Items = TrackedItems \cup {Len(loc)} /\ Len(loc) \notin TrackedItems
           /\ \A t \in Items : /\ loc[t] \in GuideLocs
                               /\ pushed[t] \in circuit.resolvers
                               /\ pushed[t].ins \subseteq Places
                               /\ pushed[t].outs \subseteq Places \ circuit.set
           /\ \A s, t \in Items : \A p \in pushed[s].outs : p \in pushed[t].outs => s = t
  <1>1. /\ Len(loc) \in Nat /\ loc \in Seq(GuideLocs) /\ Len(pushed) = Len(loc)
        /\ pushed \in Seq(circuit.resolvers)
    BY GuideTypes DEF ClientInv
  <1>2. Items = 1 .. Len(loc)
    BY DEF Items
  <1>3. TrackedItems \subseteq Items /\ (~InGuide => TrackedItems = Items)
    BY <1>1, <1>2 DEF TrackedItems
  <1>4. InGuide => Items = TrackedItems \cup {Len(loc)} /\ Len(loc) \notin TrackedItems
    <2> SUFFICES ASSUME InGuide
                 PROVE  Items = TrackedItems \cup {Len(loc)} /\ Len(loc) \notin TrackedItems
      OBVIOUS
    <2>1. Len(loc) \in 1 .. Len(loc) /\ TrackedItems = 1 .. Len(loc) - 1
      BY <1>2 DEF ClientInv, TrackedItems
    <2> QED
      BY <1>1, <1>2, <2>1
  <1>5. \A t \in Items : loc[t] \in GuideLocs /\ pushed[t] \in circuit.resolvers
    BY <1>1, <1>2, ElementOfSeq
  <1>6. \A t \in Items : /\ pushed[t].ins \subseteq Places
                         /\ pushed[t].outs \subseteq Places \ circuit.set
    BY <1>5, CircuitFacts
  <1>7. ASSUME NEW s \in Items, NEW t \in Items, NEW p \in pushed[s].outs, p \in pushed[t].outs
        PROVE  s = t
    <2>1. pushed[s] = pushed[t]
      BY <1>5, <1>7, CircuitFacts
    <2> QED
      BY <2>1 DEF ClientInv
  <1> QED
    BY <1>1, <1>2, <1>3, <1>4, <1>5, <1>6, <1>7

(* The execution order holds items, each once, with some parallelism, and never the
   one whose outputs are not tracked yet: it is still in a span. *)
LEMMA OrderFacts ==
    ASSUME GuideInv, ClientInv
    PROVE  /\ order \in Seq(OrderInfos) /\ Len(order) \in Nat /\ Len(order) <= MaxItems
           /\ \A k \in 1 .. Len(order) :
                /\ order[k].item \in Items /\ order[k].item \in TrackedItems
                /\ order[k].parallelism \in Nat /\ order[k].parallelism > 0
           /\ \A j, k \in 1 .. Len(order) : order[j].item = order[k].item => j = k
  <1>1. /\ order \in Seq(OrderInfos) /\ Len(order) \in Nat /\ Len(order) <= MaxItems
        /\ \A k \in 1 .. Len(order) :
                /\ order[k].item \in Items
                /\ order[k].parallelism \in Nat /\ order[k].parallelism > 0
        /\ \A j, k \in 1 .. Len(order) : order[j].item = order[k].item => j = k
    BY OrderedItems
  <1>2. \A k \in 1 .. Len(order) :
            order[k].item \in Items /\ loc[order[k].item].id < first_id
    BY DEF GuideInv, Inv, Sorted, Items
  <1>3. \A k \in 1 .. Len(order) : order[k].item \in TrackedItems
    <2> SUFFICES ASSUME NEW k \in 1 .. Len(order), order[k].item \notin TrackedItems
                 PROVE  FALSE
      OBVIOUS
    <2>1. InGuide /\ order[k].item = Len(loc)
      BY <1>2, ItemFacts
    <2>2. loc[Len(loc)].id >= first_id
      BY <2>1 DEF ClientInv
    <2>3. loc[Len(loc)].id < first_id
      BY <1>2, <2>1
    <2>4. first_id \in Nat /\ loc[Len(loc)].id \in Nat
      <3>1. Len(loc) \in 1 .. Len(loc)
        BY <2>1, ItemFacts DEF ClientInv
      <3> QED
        BY <3>1, GuideTypes
    <2> QED
      BY <2>2, <2>3, <2>4
  <1> QED
    BY <1>1, <1>3

(* The resolver of a task: the item at that index of the order. *)
LEMMA TaskResolver ==
    ASSUME order \in Seq(OrderInfos), NEW t \in Nat, t < Len(order)
    PROVE  /\ RW!ResolverAt(t) = pushed[order[t + 1].item]
           /\ RW!OutsOf(t + 1) = pushed[order[t + 1].item].outs
  <1>1. t + 1 \in DOMAIN order
    BY LenProperties
  <1> QED
    BY <1>1 DEF RW!ResolverAt, RW!OutsOf

(* A task that ran, or that is in the batch, is one of the order. *)
LEMMA TaskFacts ==
    ASSUME GuideInv, ClientInv, WindowInv
    PROVE  /\ \A t \in ran \cup batch : /\ t \in Nat /\ t < Len(order)
                                        /\ t + 1 \in 1 .. Len(order)
                                        /\ order[t + 1].item \in Items
                                        /\ order[t + 1].item \in TrackedItems
           /\ batch # {} => bpc = "execute"
  <1>1. Len(order) \in Nat
    BY OrderFacts
  <1>2. ASSUME NEW t \in ran \cup batch PROVE t \in Nat /\ t < Len(order)
    <2>1. CASE t \in ran
      BY <1>1, <2>1 DEF WindowInv
    <2>2. CASE t \in batch
      <3>1. bpc = "execute"
        BY <2>2 DEF WindowInv
      <3>2. PICK last \in range_start .. range_end - 1 : batch = range_start .. last
        BY <3>1 DEF WindowInv
      <3>3. range_start \in Nat /\ range_end \in Nat /\ range_end <= Len(order)
        BY DEF WindowInv
      <3>4. last \in Int /\ last <= range_end - 1 /\ t \in Int /\ range_start <= t /\ t <= last
        BY <2>2, <3>2, <3>3
      <3> QED
        BY <1>1, <3>3, <3>4
    <2> QED
      BY <2>1, <2>2
  <1>3. \A t \in ran \cup batch : t + 1 \in 1 .. Len(order)
    BY <1>1, <1>2
  <1> QED
    BY <1>2, <1>3, OrderFacts DEF WindowInv

-----------------------------------------------------------------------------
(* What the invariant promises of every state *)

LEMMA ResolvedIsTracked ==
    ASSUME GuideInv, ClientInv, ValueInv, WindowInv
    PROVE  resolved \subseteq tracked
  <1> SUFFICES ASSUME NEW p \in resolved, p \notin Given PROVE p \in tracked
    BY DEF ValueInv
  <1>1. PICK t \in ran : p \in pushed[order[t + 1].item].outs
    BY DEF ValueInv
  <1>2. order[t + 1].item \in TrackedItems
    BY TaskFacts
  <1> QED
    BY <1>1, <1>2 DEF ValueInv

LEMMA ReleasedTracked ==
    ASSUME GuideInv, ClientInv, ValueInv
    PROVE  ReleasedIsTracked
  <1>1. ASSUME NEW k \in 1 .. Len(order) PROVE RW!OutsOf(k) \subseteq tracked
    <2>1. order \in Seq(OrderInfos) /\ order[k].item \in TrackedItems /\ Len(order) \in Nat
      BY OrderFacts
    <2>2. k - 1 \in Nat /\ k - 1 < Len(order) /\ (k - 1) + 1 = k
      BY <2>1
    <2>3. RW!OutsOf(k) = pushed[order[k].item].outs
      <3>1. RW!OutsOf((k - 1) + 1) = pushed[order[(k - 1) + 1].item].outs
        BY <2>1, <2>2, TaskResolver
      <3> QED
        BY <2>2, <3>1
    <2>4. pushed[order[k].item].outs \subseteq Places
      BY <2>1, ItemFacts
    <2> QED
      BY <2>1, <2>3, <2>4 DEF ValueInv
  <1>2. ASSUME InGuide PROVE cur.outs \cap tracked = {}
    <2> SUFFICES ASSUME NEW p \in cur.outs, p \in tracked PROVE FALSE
      OBVIOUS
    <2>1. Len(loc) \in Items /\ pushed[Len(loc)] = cur
      BY <1>2 DEF ClientInv
    <2>2. p \notin Given /\ p \in Places
      BY <2>1, ItemFacts, CircuitFacts
    <2>3. PICK s \in TrackedItems : p \in pushed[s].outs
      BY <2>2 DEF ValueInv
    <2>4. s = Len(loc)
      BY <2>1, <2>3, ItemFacts
    <2> QED
      BY <1>2, <2>4, ItemFacts
  <1> QED
    BY <1>1, <1>2 DEF ReleasedIsTracked, InGuide

(* A task of the batch finds its inputs resolved and its outputs not: what it was
   pushed after has been released before the batch, and so have its other inputs,
   which the guide placed no later. *)
LEMMA TaskReady ==
    ASSUME GuideInv, ClientInv, ValueInv, InputsInv, WindowInv, NEW t \in batch \ ran
    PROVE  /\ pushed[order[t + 1].item].ins \subseteq resolved
           /\ pushed[order[t + 1].item].outs \cap resolved = {}
  <1> DEFINE i == order[t + 1].item
             k == range_start + 1
             b == t + 1
  <1>1. t \in Nat /\ t < Len(order) /\ t + 1 \in 1 .. Len(order) /\ i \in Items /\ bpc = "execute"
    BY TaskFacts
  <1>2. /\ pushed[i] \in circuit.resolvers /\ pushed[i].ins \subseteq Places
        /\ pushed[i].outs \subseteq Places \ circuit.set
    BY <1>1, ItemFacts
  <1>3. /\ k \in 1 .. Len(order) /\ b \in k .. Len(order)
        /\ b < k + order[k].parallelism /\ range_start \in Nat
    <2>1. /\ range_start \in Nat /\ range_end \in Nat /\ range_end <= Len(order)
          /\ Len(order) \in Nat
      BY OrderFacts DEF WindowInv
    <2>2. PICK last \in range_start .. range_end - 1 :
                /\ last < range_start + order[range_start + 1].parallelism
                /\ batch = range_start .. last
      BY <1>1 DEF WindowInv
    <2>3. range_start + 1 \in 1 .. Len(order)
      BY <2>1, <2>2
    <2>4. order[range_start + 1].parallelism \in Nat
      BY <2>3, OrderFacts
    <2>5. range_start <= t /\ t <= last /\ last \in Int
      BY <2>1, <2>2
    <2>6. t + 1 < range_start + 1 + order[range_start + 1].parallelism
      BY <1>1, <2>1, <2>2, <2>4, <2>5
    <2> QED
      BY <1>1, <2>1, <2>3, <2>5, <2>6
  <1>4. ASSUME NEW p \in pushed[i].ins PROVE p \in resolved
    <2>1. CASE p \in Given
      BY <1>2, <2>1 DEF ValueInv
    <2>2. CASE p \notin Given
      <3>1. PICK s \in Items : /\ p \in pushed[s].outs /\ after[i] # 0
                               /\ ~Precedes(loc[after[i]], loc[s])
        BY <1>1, <1>4, <2>2 DEF InputsInv
      <3> DEFINE a == after[i]
      <3>2. PICK n \in 1 .. k - 1 : order[n].item = a
        BY <1>3, <3>1, WindowIndependent
      <3>3. n \in 1 .. Len(order) /\ n \in Nat /\ n <= range_start
        BY <1>3, OrderFacts
      <3>4. a \in Items /\ loc[a].id < first_id
        BY <3>2, <3>3 DEF GuideInv, Inv, Sorted, Items
      <3>5. /\ loc[a] \in GuideLocs /\ loc[s] \in GuideLocs
            /\ loc[a].id \in Nat /\ loc[s].id \in Nat /\ first_id \in Nat
        BY <3>4, ItemFacts, GuideTypes
      <3>6. loc[s].id < first_id
        BY <3>1, <3>4, <3>5 DEF Precedes
      <3>7. PICK j \in 1 .. Len(order) : order[j].item = s
        BY <3>6, ReleasedItem DEF Items
      <3>8. ~(n < j)
        <4>1. n < j => Precedes(loc[order[n].item], loc[order[j].item])
          BY <3>3 DEF GuideInv, Inv, Sorted
        <4> QED
          BY <3>1, <3>2, <3>7, <4>1
      <3>9. j - 1 \in 0 .. range_start - 1 /\ (j - 1) + 1 = j
        BY <1>3, <3>3, <3>8, OrderFacts
      <3>10. j - 1 \in ran
        BY <3>9 DEF WindowInv
      <3>11. p \in pushed[order[(j - 1) + 1].item].outs
        BY <3>1, <3>7, <3>9
      <3> QED
        BY <1>2, <3>10, <3>11 DEF ValueInv
    <2> QED
      BY <2>1, <2>2
  <1>5. ASSUME NEW p \in pushed[i].outs, p \in resolved PROVE FALSE
    <2>1. p \notin Given /\ p \in Places
      BY <1>2, CircuitFacts
    <2>2. PICK u \in ran : p \in pushed[order[u + 1].item].outs
      BY <1>5, <2>1 DEF ValueInv
    <2>3. u + 1 \in 1 .. Len(order) /\ order[u + 1].item \in Items /\ u \in Nat
      BY TaskFacts
    <2>4. order[u + 1].item = i
      BY <1>1, <2>2, <2>3, ItemFacts
    <2>5. u + 1 = t + 1
      BY <1>1, <2>3, <2>4, OrderFacts
    <2>6. u = t
      BY <1>1, <2>3, <2>5
    <2> QED
      BY <2>6
  <1> QED
    BY <1>4, <1>5

LEMMA BatchReady ==
    ASSUME GuideInv, ClientInv, ValueInv, InputsInv, WindowInv
    PROVE  /\ BatchTasksReady
           /\ \A t \in batch : RW!ResolverAt(t) = pushed[order[t + 1].item]
  <1>1. \A t \in batch : RW!ResolverAt(t) = pushed[order[t + 1].item]
    BY TaskFacts, TaskResolver, OrderFacts
  <1>2. ASSUME NEW t \in batch \ ran PROVE RW!InvokeAsserts(RW!ResolverAt(t))
    <2>1. resolved \subseteq tracked
      BY ResolvedIsTracked
    <2> QED
      BY <1>1, <2>1, TaskReady DEF RW!InvokeAsserts
  <1> QED
    BY <1>1, <1>2 DEF BatchTasksReady, RW!BatchReady

(* A location an awaiter compares is one of the guide. *)
LEMMA MaxResolvedFacts ==
    ASSUME GuideInv, ClientInv, WindowInv, Told
    PROVE  max_resolved \in GuideLocs
  <1>1. DefaultLoc \in GuideLocs
    BY DEF DefaultLoc, GuideLocs
  <1>2. ASSUME NEW m \in 1 .. notified PROVE loc[order[m].item] \in GuideLocs
    <2>1. m \in 1 .. Len(order)
      BY OrderFacts DEF WindowInv
    <2> QED
      BY <2>1, OrderFacts, ItemFacts
  <1> QED
    BY <1>1, <1>2 DEF Told

LEMMA TypesOK ==
    ASSUME MtInv
    PROVE  MtTypeOK
  <1>1. GuideTypeOK
    BY DEF MtInv, GuideInv, Inv, Typed, GuideTypeOK
  <1>2. resolved \subseteq tracked /\ max_resolved \in GuideLocs
    BY ResolvedIsTracked, MaxResolvedFacts DEF MtInv
  <1>3. cur \in work \cup {NoResolver}
    BY DEF MtInv, ClientInv
  <1>4. RW!TypeOK
    <2>1. Len(order) \in Nat /\ Len(order) <= MaxItems /\ order \in Seq(OrderInfos)
      BY OrderFacts DEF MtInv
    <2>2. Len([k \in DOMAIN order |-> [resolver |-> pushed[order[k].item],
                                       parallelism |-> order[k].parallelism]]) = Len(order)
      BY <2>1
    <2>3. batch \subseteq 0 .. MaxItems - 1 /\ ran \subseteq 0 .. MaxItems - 1
      <3>1. \A t \in ran \cup batch : t \in Nat /\ t < Len(order)
        BY TaskFacts DEF MtInv
      <3> QED
        BY <2>1, <3>1, GuideConstants
    <2>4. RW!Channel!TypeOK
      BY <2>3 DEF RW!Channel!TypeOK, RW!Channel!Tasks, MtInv, PanicInv
    <2>5. /\ hint \in 0 .. 1
          /\ {registration_complete, rw_panicked, rw_panic, complete_seen} \subseteq BOOLEAN
      BY DEF MtInv, PanicInv
    <2>6. /\ bpc \in RW!BrokerPcs /\ notified <= range_start /\ range_start <= range_end
          /\ range_end <= Len(order) /\ range_end - range_start <= BufferCapacity
      BY DEF MtInv, WindowInv
    <2>7. Len(order) <= Len([k \in DOMAIN order |-> [resolver |-> pushed[order[k].item],
                                       parallelism |-> order[k].parallelism]])
      BY <2>1, <2>2
    <2> QED
      BY <2>4, <2>5, <2>6, <2>7 DEF RW!TypeOK
  <1> QED
    BY <1>1, <1>2, <1>3, <1>4 DEF MtTypeOK, MtInv, ClientInv, ValueInv

-----------------------------------------------------------------------------
(* The inductive invariant holds initially *)

LEMMA InitMtInv == Init => MtInv
  <1> SUFFICES ASSUME Init PROVE MtInv
    OBVIOUS
  <1>1. GuideInv
    BY InitGuideInv DEF Init
  <1>2. /\ circuit \in Circuits /\ rpc = "idle" /\ todo = circuit.resolvers
        /\ unset = circuit.set /\ delayed = {} /\ work = {} /\ cur = NoResolver
        /\ pushed = << >> /\ awaits = 0 /\ awaiting = {} /\ track_id = DefaultLoc
        /\ unwinding = FALSE /\ tracked = {} /\ resolved = {}
        /\ tracker = [p \in Places |-> DefaultLoc]
        /\ loc = << >> /\ order = << >>
    BY DEF Init, GuideInit
  <1>3. /\ hint = 0 /\ registration_complete = FALSE /\ rw_panicked = FALSE
        /\ rw_panic = FALSE /\ bpc = "load" /\ complete_seen = FALSE
        /\ range_start = 0 /\ range_end = 0 /\ notified = 0 /\ max_resolved = DefaultLoc
        /\ batch = {} /\ ran = {} /\ failed = FALSE /\ stopped = FALSE
    BY DEF Init, RW!Init, RW!Channel!Init
  <1>4. /\ Len(loc) = 0 /\ Len(pushed) = 0 /\ Len(order) = 0 /\ Items = {}
        /\ ~InGuide /\ TrackedItems = {} /\ Given = {}
    BY <1>2 DEF Items, InGuide, TrackedItems, Given
  <1>5. DefaultLoc \in GuideLocs
    BY DEF DefaultLoc, GuideLocs
  <1>6. ClientInv
    <2>1. pushed \in Seq(circuit.resolvers)
      BY <1>2, EmptySeq
    <2>2. awaits \in 0 .. MaxAwaits
      BY <1>2, MaxAwaitsAssumption
    <2> QED
      BY <1>2, <1>4, <1>5, <2>1, <2>2 DEF ClientInv, RegistrationPcs
  <1>7. ValueInv
    BY <1>2, <1>3, <1>4, <1>5 DEF ValueInv
  <1>8. InputsInv
    BY <1>2, <1>4 DEF InputsInv
  <1>9. WindowInv
    BY <1>3, <1>4, CapacityAssumption DEF WindowInv, RW!BrokerPcs
  <1>10. PanicInv
    <2>1. /\ registration_complete \in BOOLEAN /\ complete_seen \in BOOLEAN
          /\ rw_panicked \in BOOLEAN /\ rw_panic \in BOOLEAN
          /\ failed \in BOOLEAN /\ stopped \in BOOLEAN
      BY <1>3
    <2>2. ~registration_complete /\ ~complete_seen /\ ~rw_panicked /\ ~failed
      BY <1>3
    <2>3. hint \in 0 .. 1 /\ rpc = "idle" /\ bpc = "load"
      BY <1>2, <1>3
    <2> QED
      BY <2>1, <2>2, <2>3 DEF PanicInv
  <1>11. Told /\ Awaited /\ FinalInv
    BY <1>2, <1>3 DEF Told, Awaited, FinalInv
  <1> QED
    BY <1>1, <1>6, <1>7, <1>8, <1>9, <1>10, <1>11 DEF MtInv

-----------------------------------------------------------------------------
(* What the registration thread leaves of the broker's part *)

LEMMA SameOrderGrows ==
    ASSUME GuideInv, ClientInv, UNCHANGED order
    PROVE  OrderGrows
  BY OrderFacts DEF OrderGrows

(* The order only grows, so the window and the tasks that ran keep their meaning. *)
LEMMA OrderKept ==
    ASSUME GuideInv, ClientInv, WindowInv, OrderGrows, UNCHANGED <<ran, batch>>
    PROVE  /\ \A t \in ran \cup batch : order'[t + 1] = order[t + 1]
           /\ \A k \in 1 .. Len(order) : k \in 1 .. Len(order') /\ order'[k] = order[k]
  <1>1. \A k \in 1 .. Len(order) : k \in 1 .. Len(order') /\ order'[k] = order[k]
    BY DEF OrderGrows
  <1>2. \A t \in ran \cup batch : t + 1 \in 1 .. Len(order)
    BY TaskFacts
  <1> QED
    BY <1>1, <1>2

LEMMA WindowGrows ==
    ASSUME GuideInv, ClientInv, WindowInv, OrderGrows,
           UNCHANGED <<bpc, range_start, range_end, notified, batch, ran, failed>>
    PROVE  WindowInv'
  <1>1. /\ Len(order) \in Nat /\ Len(order') \in Nat /\ Len(order) <= Len(order')
    BY DEF OrderGrows
  <1>2. range_end' <= Len(order')
    BY <1>1 DEF WindowInv
  <1>3. ran' \subseteq 0 .. Len(order') - 1
    BY <1>1 DEF WindowInv
  <1>4. ASSUME bpc' = "execute"
        PROVE  /\ \E last \in range_start' .. range_end' - 1 :
                      /\ last < range_start' + order'[range_start' + 1].parallelism
                      /\ batch' = range_start' .. last
               /\ ran' \subseteq (0 .. range_start' - 1) \cup batch'
    <2>1. PICK last \in range_start .. range_end - 1 :
                /\ last < range_start + order[range_start + 1].parallelism
                /\ batch = range_start .. last
      BY <1>4 DEF WindowInv
    <2>2. range_start \in Nat /\ range_end \in Nat /\ range_end <= Len(order)
      BY DEF WindowInv
    <2>3. range_start + 1 \in 1 .. Len(order)
      BY <1>1, <2>1, <2>2
    <2>4. order'[range_start + 1] = order[range_start + 1]
      BY <2>3 DEF OrderGrows
    <2>5. ran \subseteq (0 .. range_start - 1) \cup batch
      BY <1>4 DEF WindowInv
    <2>6. last < range_start' + order'[range_start' + 1].parallelism /\ batch' = range_start' .. last
      BY <2>1, <2>4
    <2> QED
      BY <2>1, <2>5, <2>6
  <1>5. /\ bpc' \in RW!BrokerPcs
        /\ notified' \in Nat /\ range_start' \in Nat /\ range_end' \in Nat
        /\ notified' <= range_start' /\ range_start' <= range_end'
        /\ range_end' - range_start' <= BufferCapacity
        /\ 0 .. range_start' - 1 \subseteq ran'
        /\ bpc' # "execute" => batch' = {}
        /\ bpc' # "execute" /\ ~failed' => ran' = 0 .. range_start' - 1
        /\ bpc' = "notify" => notified' < range_start'
    BY DEF WindowInv
  <1> QED
    BY <1>2, <1>3, <1>4, <1>5 DEF WindowInv

LEMMA ToldGrows ==
    ASSUME GuideInv, ClientInv, WindowInv, Told, OrderGrows,
           UNCHANGED <<notified, max_resolved>>, \A t \in Items : loc'[t] = loc[t]
    PROVE  Told'
  <1>1. ASSUME NEW m \in 1 .. notified PROVE loc'[order'[m].item] = loc[order[m].item]
    <2>1. m \in 1 .. Len(order)
      BY OrderFacts DEF WindowInv
    <2>2. order'[m] = order[m] /\ order[m].item \in Items
      BY <2>1, OrderFacts DEF OrderGrows
    <2> QED
      BY <2>2
  <1> QED
    BY <1>1 DEF Told

(* Nothing of a panic changes but where the registration thread is, not yet at the
   end of the registration, as long as the order grows. *)
LEMMA PanicKept ==
    ASSUME PanicInv, WindowInv, OrderGrows, rpc \notin {"join", "ended"},
           rpc' \notin {"ended"},
           UNCHANGED <<hint, registration_complete, rw_panicked, rw_panic, bpc, complete_seen,
                       range_start, failed, stopped, unwinding>>
    PROVE  PanicInv'
  <1>1. ~registration_complete /\ ~complete_seen
    BY DEF PanicInv
  <1> QED
    BY <1>1 DEF PanicInv

(* The values of a state in which the same items are tracked. *)
LEMMA ValuesGrow ==
    ASSUME GuideInv, ClientInv, ValueInv, WindowInv, OrderGrows,
           UNCHANGED <<tracked, resolved, tracker, ran, batch, circuit, unset>>,
           TrackedItems' = TrackedItems,
           \A t \in Items : loc'[t] = loc[t] /\ pushed'[t] = pushed[t]
    PROVE  ValueInv'
  <1>1. /\ TrackedItems \subseteq Items
        /\ \A s \in TrackedItems : loc'[s] = loc[s] /\ pushed'[s] = pushed[s]
    BY ItemFacts
  <1>2. \A t \in ran : /\ order'[t + 1] = order[t + 1]
                       /\ pushed'[order[t + 1].item] = pushed[order[t + 1].item]
    BY OrderKept, TaskFacts
  <1>3. Given' = Given
    BY DEF Given
  <1>4. tracked' \subseteq Places /\ resolved' \subseteq Places /\ tracker' \in [Places -> GuideLocs]
    BY DEF ValueInv
  <1>5. \A p \in Places : p \in tracked' <=>
            p \in Given' \/ \E s \in TrackedItems' : p \in pushed'[s].outs
    BY <1>1, <1>3 DEF ValueInv
  <1>6. \A p \in Places : p \in resolved' <=>
            p \in Given' \/ \E t \in ran' : p \in pushed'[order'[t + 1].item].outs
    BY <1>2, <1>3 DEF ValueInv
  <1>7. \A s \in TrackedItems' : \A p \in pushed'[s].outs : tracker'[p] = loc'[s]
    BY <1>1 DEF ValueInv
  <1>8. \A p \in Places :
            tracker'[p] = DefaultLoc \/ \E s \in TrackedItems' : tracker'[p] = loc'[s]
    BY <1>1 DEF ValueInv
  <1> QED
    BY <1>4, <1>5, <1>6, <1>7, <1>8 DEF ValueInv

-----------------------------------------------------------------------------
(* The steps of the registration thread preserve the invariant *)

LEMMA GuideKept ==
    ASSUME GuideInv, UNCHANGED guide_vars
    PROVE  /\ GuideInv' /\ Items' = Items
           /\ UNCHANGED <<first_id, spans, order, loc, after>>
  BY DEF guide_vars, GuideInv, Items

LEMMA SetValueInv ==
    ASSUME MtInv, NEW p \in unset, SetValue(p)
    PROVE  MtInv'
  <1>1. /\ rpc = "idle" /\ unset' = unset \ {p} /\ tracked' = tracked \cup {p}
        /\ resolved' = resolved \cup {p} /\ work' = Advanced(tracked')
        /\ delayed' = delayed \ work' /\ rpc' \in {"idle", "internalize"}
        /\ rpc' = "idle" => work' = {}
        /\ UNCHANGED <<circuit, todo, cur, pushed, awaits, awaiting, track_id, unwinding,
                       tracker, hint, registration_complete, rw_panicked, rw_panic,
                       bpc, complete_seen, range_start, range_end, notified, max_resolved,
                       batch, ran, failed, stopped>>
        /\ UNCHANGED guide_vars
    BY DEF SetValue, comm_vars, broker_vars, chan_vars
  <1>2. /\ GuideInv /\ ClientInv /\ ValueInv /\ InputsInv /\ WindowInv
        /\ PanicInv /\ Told /\ Awaited /\ FinalInv
    BY DEF MtInv
  <1>3. /\ GuideInv' /\ Items' = Items /\ OrderGrows
        /\ UNCHANGED <<first_id, spans, order, loc, after>>
    BY <1>1, <1>2, GuideKept, SameOrderGrows
  <1>4. /\ ~InGuide /\ ~InGuide' /\ TrackedItems = Items /\ TrackedItems' = Items
        /\ work = {} /\ Given' = Given \cup {p} /\ p \in Places
    <2>1. p \in circuit.set /\ work = {}
      BY <1>1, <1>2 DEF ClientInv
    <2> QED
      BY <1>1, <1>2, <1>3, <2>1, CircuitFacts DEF InGuide, TrackedItems, Given
  <1>5. work' \subseteq delayed /\ \A r \in work' : MaxIx(r.ins) <= MaxTracked(tracked')
    BY <1>1 DEF Advanced
  <1>6. ClientInv'
    <2>1. /\ unset' \subseteq circuit'.set /\ delayed' \subseteq circuit'.resolvers \ todo'
          /\ work' \subseteq circuit'.resolvers \ (todo' \cup delayed')
      BY <1>1, <1>2, <1>5 DEF ClientInv
    <2>2. \A t \in Items' : pushed'[t] \notin todo' \cup delayed' /\ pushed'[t] \notin work'
      BY <1>1, <1>2, <1>3, <1>5 DEF ClientInv
    <2>3. \A r \in circuit'.resolvers :
            r \in todo' \cup delayed' \cup work' \/ \E t \in Items' : pushed'[t] = r
      BY <1>1, <1>2, <1>3, <1>4, <1>5 DEF ClientInv
    <2> QED
      BY <1>1, <1>2, <1>3, <1>4, <2>1, <2>2, <2>3 DEF ClientInv, RegistrationPcs
  <1>7. ValueInv'
    <2>1. \A q \in Places : q \in tracked' <=>
            q \in Given' \/ \E s \in TrackedItems' : q \in pushed'[s].outs
      BY <1>1, <1>2, <1>4 DEF ValueInv
    <2>2. \A q \in Places : q \in resolved' <=>
            q \in Given' \/ \E t \in ran' : q \in pushed'[order'[t + 1].item].outs
      BY <1>1, <1>2, <1>3, <1>4 DEF ValueInv
    <2> QED
      BY <1>1, <1>2, <1>3, <1>4, <2>1, <2>2 DEF ValueInv
  <1>8. InputsInv'
    <2>1. tracked' \subseteq Places
      BY <1>7 DEF ValueInv
    <2>2. \A r \in delayed : r.ins \subseteq Places
      BY <1>2, CircuitFacts DEF ClientInv
    <2>3. \A r \in work' : r.ins \subseteq tracked'
      BY <1>5, <2>1, <2>2, UpToMaxTracked
    <2>4. \A r \in delayed' : MaxIx(r.ins) > MaxTracked(tracked')
      <3>1. \A r \in delayed' : r \in delayed /\ ~(MaxIx(r.ins) <= MaxTracked(tracked'))
        BY <1>1 DEF Advanced
      <3>2. MaxTracked(tracked') \in Int /\ \A r \in delayed : MaxIx(r.ins) \in Int
        BY <2>1, <2>2, MaxTrackedIsRun, MaxIxIsMax
      <3> QED
        BY <3>1, <3>2
    <2> QED
      BY <1>1, <1>2, <1>3, <1>4, <2>3, <2>4 DEF InputsInv
  <1>9. WindowInv'
    BY <1>1, <1>2, <1>3, WindowGrows
  <1>10. PanicInv'
    BY <1>1, <1>2, <1>3, PanicKept
  <1>11. Told'
    BY <1>1, <1>2, <1>3, ToldGrows
  <1>12. Awaited' /\ FinalInv'
    BY <1>1 DEF Awaited, FinalInv
  <1> QED
    BY <1>3, <1>6, <1>7, <1>8, <1>9, <1>10, <1>11, <1>12 DEF MtInv

LEMMA AddResolutionInv ==
    ASSUME MtInv, NEW r \in todo, AddResolution(r)
    PROVE  MtInv'
  <1>1. /\ rpc = "idle" /\ todo' = todo \ {r}
        /\ UNCHANGED <<circuit, unset, cur, pushed, awaits, awaiting, track_id, unwinding,
                       tracked, resolved, tracker, hint, registration_complete, rw_panicked,
                       rw_panic, bpc, complete_seen, range_start, range_end, notified,
                       max_resolved, batch, ran, failed, stopped>>
        /\ UNCHANGED guide_vars
    BY DEF AddResolution, value_vars, comm_vars, broker_vars, chan_vars
  <1>2. /\ GuideInv /\ ClientInv /\ ValueInv /\ InputsInv /\ WindowInv
        /\ PanicInv /\ Told /\ Awaited /\ FinalInv
    BY DEF MtInv
  <1>3. \/ /\ MaxIx(r.ins) <= MaxTracked(tracked)
           /\ work' = {r} /\ rpc' = "internalize" /\ delayed' = delayed
        \/ /\ ~(MaxIx(r.ins) <= MaxTracked(tracked))
           /\ delayed' = delayed \cup {r} /\ work' = work /\ rpc' = rpc
    BY DEF AddResolution, Accepted
  <1>4. /\ GuideInv' /\ Items' = Items /\ OrderGrows
        /\ UNCHANGED <<first_id, spans, order, loc, after>>
    BY <1>1, <1>2, GuideKept, SameOrderGrows
  <1>5. /\ ~InGuide /\ ~InGuide' /\ TrackedItems = Items /\ TrackedItems' = Items
        /\ work = {} /\ Given' = Given /\ rpc' \in {"idle", "internalize"}
    BY <1>1, <1>2, <1>3, <1>4 DEF InGuide, TrackedItems, Given, ClientInv
  <1>6. r \in circuit.resolvers /\ r.ins \subseteq Places /\ r \notin delayed
        /\ \A t \in Items : pushed[t] # r
    BY <1>2, CircuitFacts DEF ClientInv
  <1>7. ClientInv'
    <2>1. /\ delayed' \subseteq circuit'.resolvers \ todo'
          /\ work' \subseteq circuit'.resolvers \ (todo' \cup delayed')
      BY <1>1, <1>2, <1>3, <1>5, <1>6 DEF ClientInv
    <2>2. \A t \in Items' : pushed'[t] \notin todo' \cup delayed' /\ pushed'[t] \notin work'
      BY <1>1, <1>2, <1>3, <1>4, <1>5, <1>6 DEF ClientInv
    <2>3. \A q \in circuit'.resolvers :
            q \in todo' \cup delayed' \cup work' \/ \E t \in Items' : pushed'[t] = q
      BY <1>1, <1>2, <1>3, <1>4, <1>5 DEF ClientInv
    <2>4. rpc' \notin {"internalize", "hint", "track"} => work' = {}
      BY <1>3, <1>5
    <2> QED
      BY <1>1, <1>2, <1>4, <1>5, <2>1, <2>2, <2>3, <2>4 DEF ClientInv, RegistrationPcs
  <1>8. ValueInv'
    BY <1>1, <1>2, <1>4, <1>5, ValuesGrow
  <1>9. InputsInv'
    <2>1. tracked \subseteq Places
      BY <1>2 DEF ValueInv
    <2>2. \A q \in work' : q.ins \subseteq tracked'
      BY <1>1, <1>3, <1>5, <1>6, <2>1, UpToMaxTracked
    <2>3. MaxTracked(tracked) \in Int /\ MaxIx(r.ins) \in Int
      BY <1>6, <2>1, MaxTrackedIsRun, MaxIxIsMax
    <2>4. \A q \in delayed' : MaxIx(q.ins) > MaxTracked(tracked')
      BY <1>1, <1>2, <1>3, <2>3 DEF InputsInv
    <2> QED
      BY <1>1, <1>2, <1>4, <1>5, <2>2, <2>4 DEF InputsInv
  <1>10. WindowInv'
    BY <1>1, <1>2, <1>4, WindowGrows
  <1>11. PanicInv'
    BY <1>1, <1>2, <1>4, <1>5, PanicKept
  <1>12. Told'
    BY <1>1, <1>2, <1>4, ToldGrows
  <1>13. Awaited' /\ FinalInv'
    BY <1>5 DEF Awaited, FinalInv
  <1> QED
    BY <1>4, <1>7, <1>8, <1>9, <1>10, <1>11, <1>12, <1>13 DEF MtInv

LEMMA StoreHintInv ==
    ASSUME MtInv, StoreHint
    PROVE  MtInv'
  <1>1. /\ \/ rpc = "hint" /\ rpc' = "track"
           \/ rpc = "await_hint" /\ rpc' = "wait"
           \/ rpc = "final_hint" /\ rpc' = "complete"
        /\ hint' = 1
        /\ UNCHANGED <<circuit, todo, unset, delayed, work, cur, pushed, awaits, awaiting,
                       track_id, unwinding, tracked, resolved, tracker,
                       registration_complete, rw_panicked, rw_panic,
                       bpc, complete_seen, range_start, range_end, notified, max_resolved,
                       batch, ran, failed, stopped>>
        /\ UNCHANGED guide_vars
    BY DEF StoreHint, value_vars, broker_vars, chan_vars
  <1>2. /\ GuideInv /\ ClientInv /\ ValueInv /\ InputsInv /\ WindowInv
        /\ PanicInv /\ Told /\ Awaited /\ FinalInv
    BY DEF MtInv
  <1>3. /\ GuideInv' /\ Items' = Items /\ OrderGrows
        /\ UNCHANGED <<first_id, spans, order, loc, after>>
    BY <1>1, <1>2, GuideKept, SameOrderGrows
  <1>4. /\ InGuide' = InGuide /\ TrackedItems' = TrackedItems /\ Given' = Given
    BY <1>1, <1>3 DEF InGuide, TrackedItems, Given
  <1>5. ClientInv'
    BY <1>1, <1>2, <1>3, <1>4 DEF ClientInv, RegistrationPcs
  <1>6. ValueInv'
    BY <1>1, <1>2, <1>3, <1>4, ValuesGrow
  <1>7. InputsInv'
    BY <1>1, <1>2, <1>3, <1>4 DEF InputsInv
  <1>8. WindowInv'
    BY <1>1, <1>2, <1>3, WindowGrows
  <1>9. PanicInv'
    BY <1>1, <1>2, <1>3 DEF PanicInv
  <1>10. Told'
    BY <1>1, <1>2, <1>3, ToldGrows
  <1>11. Awaited' /\ FinalInv'
    BY <1>1, <1>2, <1>3 DEF Awaited, FinalInv
  <1> QED
    BY <1>3, <1>5, <1>6, <1>7, <1>8, <1>9, <1>10, <1>11 DEF MtInv

(* Waiting, completing and joining change nothing that is registered. *)
LEMMA FacadeFrame ==
    ASSUME MtInv, rpc \notin {"internalize", "hint", "track"},
           rpc' \in RegistrationPcs \ {"internalize", "hint", "track"},
           UNCHANGED <<circuit, todo, unset, delayed, work, cur, pushed, awaits, awaiting,
                       track_id, tracked, resolved, tracker, bpc, range_start, range_end,
                       notified, max_resolved, batch, ran, failed>>,
           unwinding' \in BOOLEAN,
           UNCHANGED guide_vars
    PROVE  /\ GuideInv' /\ ClientInv' /\ ValueInv' /\ InputsInv' /\ WindowInv' /\ Told'
           /\ UNCHANGED <<order, spans>>
  <1>1. GuideInv /\ ClientInv /\ ValueInv /\ InputsInv /\ WindowInv /\ Told
    BY DEF MtInv
  <1>2. /\ GuideInv' /\ Items' = Items /\ OrderGrows
        /\ UNCHANGED <<first_id, spans, order, loc, after>>
    BY <1>1, GuideKept, SameOrderGrows
  <1>3. /\ ~InGuide /\ ~InGuide' /\ TrackedItems = Items /\ TrackedItems' = Items
        /\ Given' = Given
    BY <1>2 DEF InGuide, TrackedItems, Given
  <1>4. ClientInv'
    BY <1>1, <1>2, <1>3 DEF ClientInv
  <1>5. ValueInv'
    BY <1>1, <1>2, <1>3, ValuesGrow
  <1>6. InputsInv'
    BY <1>1, <1>2, <1>3 DEF InputsInv
  <1>7. WindowInv' /\ Told'
    BY <1>1, <1>2, WindowGrows, ToldGrows
  <1> QED
    BY <1>2, <1>4, <1>5, <1>6, <1>7

LEMMA FacadeStepInv ==
    ASSUME MtInv, FacadeStep
    PROVE  MtInv'
  <1>1. /\ Facade!Step
        /\ UNCHANGED <<circuit, todo, unset, delayed, work, cur, pushed, awaits, awaiting,
                       tracked, resolved, tracker, hint, complete_seen, range_start,
                       range_end, notified, batch, ran, failed, stopped>>
        /\ UNCHANGED guide_vars
    BY DEF FacadeStep, value_vars, chan_vars
  <1>2. PanicInv /\ Awaited /\ FinalInv /\ unwinding \in BOOLEAN
    BY DEF MtInv, ClientInv
  <1>3. CASE Facade!AwaitCheck
    <2>1. /\ rpc = "wait" /\ rpc' \in {"wait_panic", "idle"}
          /\ UNCHANGED <<track_id, unwinding, registration_complete, rw_panicked, rw_panic,
                         bpc, max_resolved>>
      BY <1>3 DEF Facade!AwaitCheck
    <2>2. /\ GuideInv' /\ ClientInv' /\ ValueInv' /\ InputsInv' /\ WindowInv' /\ Told'
          /\ UNCHANGED <<order, spans>>
      BY <1>1, <1>2, <2>1, FacadeFrame DEF RegistrationPcs
    <2>3. PanicInv' /\ Awaited' /\ FinalInv'
      BY <1>1, <1>2, <2>1, <2>2 DEF PanicInv, Awaited, FinalInv
    <2> QED
      BY <2>2, <2>3 DEF MtInv
  <1>4. CASE Facade!AwaitCheckPanic
    <2>1. /\ rpc = "wait_panic" /\ rpc' \in {"wait", "idle"}
          /\ unwinding' = (unwinding \/ (rw_panicked /\ rw_panic))
          /\ rw_panic' = (rw_panic /\ ~rw_panicked)
          /\ UNCHANGED <<track_id, registration_complete, rw_panicked, bpc, max_resolved>>
      BY <1>4 DEF Facade!AwaitCheckPanic
    <2>2. /\ GuideInv' /\ ClientInv' /\ ValueInv' /\ InputsInv' /\ WindowInv' /\ Told'
          /\ UNCHANGED <<order, spans>>
      BY <1>1, <1>2, <2>1, FacadeFrame DEF RegistrationPcs, PanicInv
    <2>3. PanicInv'
      BY <1>1, <1>2, <2>1, <2>2 DEF PanicInv
    <2>4. Awaited' /\ FinalInv'
      BY <1>1, <1>2, <2>1, <2>2 DEF Awaited, FinalInv
    <2> QED
      BY <2>2, <2>3, <2>4 DEF MtInv
  <1>5. CASE Facade!Complete
    <2>1. /\ rpc = "complete" /\ rpc' = "join" /\ registration_complete' = TRUE
          /\ UNCHANGED <<track_id, unwinding, rw_panicked, rw_panic, bpc, max_resolved>>
      BY <1>5 DEF Facade!Complete
    <2>2. /\ GuideInv' /\ ClientInv' /\ ValueInv' /\ InputsInv' /\ WindowInv' /\ Told'
          /\ UNCHANGED <<order, spans>>
      BY <1>1, <1>2, <2>1, FacadeFrame DEF RegistrationPcs
    <2>3. PanicInv'
      BY <1>1, <1>2, <2>1, <2>2 DEF PanicInv
    <2>4. Awaited' /\ FinalInv'
      BY <1>1, <1>2, <2>1, <2>2 DEF Awaited, FinalInv
    <2> QED
      BY <2>2, <2>3, <2>4 DEF MtInv
  <1>6. CASE Facade!Join
    <2>1. /\ rpc = "join" /\ bpc = "ended" /\ rpc' = "ended"
          /\ unwinding' = (unwinding \/ (rw_panicked /\ rw_panic))
          /\ rw_panic' = (rw_panic /\ ~rw_panicked)
          /\ UNCHANGED <<track_id, registration_complete, rw_panicked, bpc, max_resolved>>
      BY <1>6 DEF Facade!Join
    <2>2. /\ GuideInv' /\ ClientInv' /\ ValueInv' /\ InputsInv' /\ WindowInv' /\ Told'
          /\ UNCHANGED <<order, spans>>
      BY <1>1, <1>2, <2>1, FacadeFrame DEF RegistrationPcs, PanicInv
    <2>3. PanicInv'
      BY <1>1, <1>2, <2>1, <2>2 DEF PanicInv
    <2>4. Awaited' /\ FinalInv'
      BY <1>1, <1>2, <2>1, <2>2 DEF Awaited, FinalInv
    <2> QED
      BY <2>2, <2>3, <2>4 DEF MtInv
  <1> QED
    BY <1>1, <1>3, <1>4, <1>5, <1>6 DEF Facade!Step

(* One of some places has the latest tracker. *)
LEMMA LatestTracker ==
    ASSUME GuideInv, ClientInv, ValueInv, NEW places, places \subseteq Places, places # {}
    PROVE  /\ \A p \in places : tracker[p] \in GuideLocs
           /\ \E p \in places : \A q \in places : ~Precedes(tracker[p], tracker[q])
  <1> DEFINE T == {s \in Items : \E p \in places : tracker[p] = loc[s]}
  <1>1. \A p \in places : tracker[p] \in GuideLocs
    BY DEF ValueInv
  <1>2. \A q \in places : tracker[q] = DefaultLoc \/ \E s \in T : tracker[q] = loc[s]
    BY ItemFacts DEF ValueInv
  <1>3. \A l \in GuideLocs : ~Precedes(l, DefaultLoc)
    <2> TAKE l \in GuideLocs
    <2>1. l.id \in Nat /\ l.pos \in Nat
      BY DEF GuideLocs
    <2> QED
      BY <2>1 DEF Precedes, DefaultLoc
  <1>4. CASE T = {}
    <2>1. \A q \in places : tracker[q] = DefaultLoc
      BY <1>2, <1>4
    <2> QED
      BY <1>1, <1>3, <2>1
  <1>5. CASE T # {}
    <2>1. PICK k \in T : \A t \in T : ~Precedes(loc[k], loc[t])
      <3>1. loc \in Seq(GuideLocs) /\ T \subseteq 1 .. Len(loc)
        BY GuideTypes, ItemFacts
      <3> HIDE DEF T
      <3> QED
        BY <1>5, <3>1, LatestItem
    <2>2. PICK p \in places : tracker[p] = loc[k]
      OBVIOUS
    <2> HIDE DEF T
    <2>3. \A q \in places : ~Precedes(tracker[p], tracker[q])
      BY <1>1, <1>2, <1>3, <2>1, <2>2
    <2> QED
      BY <1>1, <2>3
  <1> QED
    BY <1>4, <1>5

(* get_awaiter takes a tracker that no place it is asked for comes after. *)
LEMMA MaxTrackerIsLatest ==
    ASSUME GuideInv, ClientInv, ValueInv, NEW places, places \subseteq Places, places # {}
    PROVE  /\ MaxTracker(places) \in GuideLocs
           /\ \A p \in places : ~Precedes(MaxTracker(places), tracker[p])
  <1> DEFINE latest == CHOOSE p \in places : \A q \in places : ~Precedes(tracker[p], tracker[q])
  <1>1. latest \in places /\ \A q \in places : ~Precedes(tracker[latest], tracker[q])
    BY LatestTracker
  <1>2. MaxTracker(places) = tracker[latest]
    BY DEF MaxTracker
  <1> QED
    BY <1>1, <1>2, LatestTracker

(* A flush of an idle client only moves what the guide holds to the order. *)
LEMMA FlushFrame ==
    ASSUME MtInv, rpc = "idle", Flush,
           UNCHANGED <<circuit, todo, unset, delayed, work, cur, pushed, unwinding>>,
           UNCHANGED <<tracked, resolved, tracker>>,
           UNCHANGED <<hint, registration_complete, rw_panicked, rw_panic>>,
           UNCHANGED <<bpc, complete_seen, range_start, range_end, notified, max_resolved>>,
           UNCHANGED <<batch, ran, failed, stopped>>,
           rpc' \in {"await_hint", "wait", "final_hint", "complete"},
           awaits' \in 0 .. MaxAwaits, awaiting' \subseteq Places, track_id' \in GuideLocs
    PROVE  /\ GuideInv' /\ ClientInv' /\ ValueInv' /\ InputsInv' /\ WindowInv'
           /\ PanicInv' /\ Told'
  <1>1. /\ GuideInv /\ ClientInv /\ ValueInv /\ InputsInv /\ WindowInv /\ PanicInv /\ Told
    BY DEF MtInv
  <1>2. /\ GuideInv' /\ Items' = Items /\ OrderGrows /\ UNCHANGED <<loc, after>>
    BY <1>1, FlushInv, FlushGrows DEF Flush, Items
  <1>3. /\ ~InGuide /\ ~InGuide' /\ TrackedItems = Items /\ TrackedItems' = Items
        /\ Given' = Given
    BY <1>2 DEF InGuide, TrackedItems, Given
  <1>4. ClientInv'
    BY <1>1, <1>2, <1>3 DEF ClientInv, RegistrationPcs
  <1>5. ValueInv'
    BY <1>1, <1>2, <1>3, ValuesGrow
  <1>6. InputsInv'
    BY <1>1, <1>2, <1>3 DEF InputsInv
  <1>7. WindowInv' /\ Told' /\ PanicInv'
    BY <1>1, <1>2, WindowGrows, ToldGrows, PanicKept
  <1> QED
    BY <1>2, <1>4, <1>5, <1>6, <1>7

LEMMA GetAwaiterInv ==
    ASSUME MtInv, NEW places \in (SUBSET Places) \ {{}}, GetAwaiter(places)
    PROVE  MtInv'
  <1>1. /\ rpc = "idle" /\ awaits < MaxAwaits /\ MaxTracked(tracked) >= MaxIx(places)
        /\ awaits' = awaits + 1 /\ awaiting' = places /\ track_id' = MaxTracker(places)
        /\ Flush /\ rpc' \in {"await_hint", "wait"}
        /\ UNCHANGED <<circuit, todo, unset, delayed, work, cur, pushed, unwinding,
                       tracked, resolved, tracker, hint, registration_complete, rw_panicked,
                       rw_panic, bpc, complete_seen, range_start, range_end, notified,
                       max_resolved, batch, ran, failed, stopped>>
    BY DEF GetAwaiter, value_vars, comm_vars, broker_vars, chan_vars
  <1>2. places \subseteq Places /\ places # {}
    OBVIOUS
  <1>3. /\ track_id' \in GuideLocs /\ awaits' \in 0 .. MaxAwaits
        /\ \A p \in places : ~Precedes(track_id', tracker[p])
    <2>1. awaits \in 0 .. MaxAwaits
      BY DEF MtInv, ClientInv
    <2> QED
      BY <1>1, <1>2, <2>1, MaxTrackerIsLatest, MaxAwaitsAssumption DEF MtInv
  <1>4. places \subseteq tracked
    <2>1. tracked \subseteq Places
      BY DEF MtInv, ValueInv
    <2>2. MaxTracked(tracked) \in Int /\ MaxIx(places) \in Int
      BY <1>2, <2>1, MaxTrackedIsRun, MaxIxIsMax
    <2>3. MaxIx(places) <= MaxTracked(tracked)
      BY <1>1, <2>2
    <2> QED
      BY <1>2, <2>1, <2>3, UpToMaxTracked
  <1>5. /\ GuideInv' /\ ClientInv' /\ ValueInv' /\ InputsInv' /\ WindowInv'
        /\ PanicInv' /\ Told'
    BY <1>1, <1>2, <1>3, FlushFrame
  <1>6. Awaited' /\ FinalInv'
    BY <1>1, <1>3, <1>4 DEF Awaited, FinalInv
  <1> QED
    BY <1>5, <1>6 DEF MtInv

LEMMA FinalFlushInv ==
    ASSUME MtInv, FinalFlush
    PROVE  MtInv'
  <1>1. /\ rpc = "idle"
        /\ unwinding \/ (todo = {} /\ unset = {})
        /\ UNCHANGED <<circuit, todo, unset, delayed, work, cur, pushed, awaits, awaiting,
                       track_id, unwinding, tracked, resolved, tracker, hint,
                       registration_complete, rw_panicked, rw_panic, bpc, complete_seen,
                       range_start, range_end, notified, max_resolved, batch, ran, failed,
                       stopped>>
    BY DEF FinalFlush, value_vars, comm_vars, broker_vars, chan_vars
  <1>2. ClientInv /\ PanicInv /\ FinalInv
    BY DEF MtInv
  <1>3. CASE delayed = {}
    <2>1. Flush /\ rpc' \in {"final_hint", "complete"}
      BY <1>3 DEF FinalFlush
    <2>2. awaits' \in 0 .. MaxAwaits /\ awaiting' \subseteq Places /\ track_id' \in GuideLocs
      BY <1>1, <1>2 DEF ClientInv
    <2>3. /\ GuideInv' /\ ClientInv' /\ ValueInv' /\ InputsInv' /\ WindowInv'
          /\ PanicInv' /\ Told'
      BY <1>1, <2>1, <2>2, FlushFrame
    <2>4. \A i \in SpanIxs : spans'[i] = << >>
      BY <2>1, FlushEmpties
    <2>5. Awaited' /\ FinalInv'
      BY <1>1, <1>3, <2>1, <2>4 DEF Awaited, FinalInv
    <2> QED
      BY <2>3, <2>5 DEF MtInv
  <1>4. CASE delayed # {}
    <2>1. rpc' = "aborted" /\ UNCHANGED guide_vars
      BY <1>4 DEF FinalFlush
    <2>2. /\ GuideInv' /\ ClientInv' /\ ValueInv' /\ InputsInv' /\ WindowInv' /\ Told'
          /\ UNCHANGED <<order, spans>>
      BY <1>1, <1>2, <2>1, FacadeFrame DEF RegistrationPcs, ClientInv
    <2>3. PanicInv'
      BY <1>1, <1>2, <2>1, <2>2 DEF PanicInv
    <2>4. Awaited' /\ FinalInv'
      BY <2>1 DEF Awaited, FinalInv
    <2> QED
      BY <2>2, <2>3, <2>4 DEF MtInv
  <1> QED
    BY <1>3, <1>4

LEMMA TrackInv ==
    ASSUME MtInv, Track
    PROVE  MtInv'
  <1>1. /\ rpc = "track" /\ cur.outs \cap tracked = {}
        /\ tracked' = tracked \cup cur.outs /\ resolved' = resolved \ cur.outs
        /\ tracker' = [p \in Places |-> IF p \in cur.outs THEN loc[Len(loc)] ELSE tracker[p]]
        /\ work' = (work \ {cur}) \cup Advanced(tracked') /\ delayed' = delayed \ work'
        /\ cur' = NoResolver /\ rpc' \in {"idle", "internalize"}
        /\ rpc' = "idle" => work' = {}
        /\ UNCHANGED <<circuit, todo, unset, pushed, awaits, awaiting, track_id, unwinding,
                       hint, registration_complete, rw_panicked, rw_panic,
                       bpc, complete_seen, range_start, range_end, notified, max_resolved,
                       batch, ran, failed, stopped>>
        /\ UNCHANGED guide_vars
    BY DEF Track, comm_vars, broker_vars, chan_vars
  <1>2. /\ GuideInv /\ ClientInv /\ ValueInv /\ InputsInv /\ WindowInv
        /\ PanicInv /\ Told /\ Awaited /\ FinalInv
    BY DEF MtInv
  <1>3. /\ GuideInv' /\ Items' = Items /\ OrderGrows
        /\ UNCHANGED <<first_id, spans, order, loc, after>>
    BY <1>1, <1>2, GuideKept, SameOrderGrows
  <1> DEFINE here == Len(loc)
  <1>4. /\ InGuide /\ ~InGuide' /\ TrackedItems' = Items /\ Given' = Given
        /\ Items = TrackedItems \cup {here} /\ here \notin TrackedItems
    BY <1>1, <1>2, <1>3, ItemFacts DEF InGuide, TrackedItems, Given
  <1>5. /\ here \in Items /\ pushed[here] = cur /\ cur \in work /\ loc[here] \in GuideLocs
        /\ cur.outs \subseteq Places \ circuit.set
    BY <1>2, <1>4, ItemFacts DEF ClientInv
  <1> HIDE DEF here
  <1>6. resolved' = resolved
    <2>1. resolved \subseteq tracked
      BY <1>2, ResolvedIsTracked
    <2> QED
      BY <1>1, <2>1
  <1>7. Advanced(tracked') \subseteq delayed /\ delayed' = delayed \ Advanced(tracked')
    <2>1. Advanced(tracked') \subseteq delayed
      BY DEF Advanced
    <2>2. work \cap delayed = {}
      BY <1>2 DEF ClientInv
    <2> QED
      BY <1>1, <2>1, <2>2
  <1>8. ClientInv'
    <2>1. /\ delayed' \subseteq circuit'.resolvers \ todo'
          /\ work' \subseteq circuit'.resolvers \ (todo' \cup delayed')
      BY <1>1, <1>2, <1>7 DEF ClientInv
    <2>2. \A t \in Items' : pushed'[t] \notin todo' \cup delayed' /\ pushed'[t] \notin work'
      <3> SUFFICES ASSUME NEW t \in Items
                   PROVE  pushed[t] \notin todo \cup delayed' /\ pushed[t] \notin work'
        BY <1>1, <1>3
      <3>1. pushed[t] \notin todo \cup delayed
        BY <1>2 DEF ClientInv
      <3>2. pushed[t] \in work => pushed[t] = cur
        BY <1>2, <1>5 DEF ClientInv, here
      <3> QED
        BY <1>1, <1>7, <3>1, <3>2
    <2>3. \A r \in circuit'.resolvers :
            r \in todo' \cup delayed' \cup work' \/ \E t \in Items' : pushed'[t] = r
      <3> SUFFICES ASSUME NEW r \in circuit.resolvers
                   PROVE  r \in todo \cup delayed' \cup work' \/ \E t \in Items : pushed[t] = r
        BY <1>1, <1>3
      <3>1. r \in todo \cup delayed \cup work \/ \E t \in Items : pushed[t] = r
        BY <1>2 DEF ClientInv
      <3> QED
        BY <1>1, <1>5, <1>7, <3>1
    <2>4. rpc' \notin {"internalize", "hint", "track"} => work' = {}
      BY <1>1
    <2> QED
      BY ZenonT(30), <1>1, <1>2, <1>3, <1>4, <2>1, <2>2, <2>3, <2>4 DEF ClientInv, RegistrationPcs
  <1>9. ValueInv'
    <2>1. tracked' \subseteq Places /\ resolved' \subseteq Places /\ tracker' \in [Places -> GuideLocs]
      BY <1>1, <1>2, <1>5, <1>6 DEF ValueInv, here
    <2>2. \A p \in Places : p \in tracked' <=>
            p \in Given' \/ \E s \in TrackedItems' : p \in pushed'[s].outs
      BY <1>1, <1>2, <1>4, <1>5 DEF ValueInv
    <2>3. \A p \in Places : p \in resolved' <=>
            p \in Given' \/ \E t \in ran' : p \in pushed'[order'[t + 1].item].outs
      BY <1>1, <1>2, <1>3, <1>4, <1>6 DEF ValueInv
    <2>4. ASSUME NEW s \in Items, NEW p \in pushed[s].outs PROVE tracker'[p] = loc[s]
      <3>1. p \in Places
        BY <1>2, ItemFacts
      <3>2. CASE s = here
        BY <1>1, <1>5, <2>4, <3>1, <3>2 DEF here
      <3>3. CASE s # here
        <4>1. s \in TrackedItems
          BY <1>4, <3>3
        <4>2. p \in tracked /\ tracker[p] = loc[s]
          BY <1>2, <3>1, <4>1 DEF ValueInv
        <4> QED
          BY <1>1, <3>1, <4>2
      <3> QED
        BY <3>2, <3>3
    <2>5. \A p \in Places :
            tracker'[p] = DefaultLoc \/ \E s \in TrackedItems' : tracker'[p] = loc'[s]
      <3> SUFFICES ASSUME NEW p \in Places
                   PROVE  tracker'[p] = DefaultLoc \/ \E s \in Items : tracker'[p] = loc[s]
        BY <1>3, <1>4
      <3>1. CASE p \in cur.outs
        BY <1>1, <1>5, <3>1 DEF here
      <3>2. CASE p \notin cur.outs
        BY <1>1, <1>2, <1>4, <3>2 DEF ValueInv
      <3> QED
        BY <3>1, <3>2
    <2>6. \A s \in TrackedItems' : \A p \in pushed'[s].outs : tracker'[p] = loc'[s]
      BY <1>1, <1>3, <1>4, <2>4
    <2> QED
      BY <2>1, <2>2, <2>3, <2>5, <2>6 DEF ValueInv
  <1>10. InputsInv'
    <2>1. tracked' \subseteq Places /\ tracked \subseteq tracked'
      BY <1>1, <1>9 DEF ValueInv
    <2>2. \A r \in delayed : r.ins \subseteq Places
      BY <1>2, CircuitFacts DEF ClientInv
    <2>3. \A r \in Advanced(tracked') : r.ins \subseteq tracked'
      <3>1. \A r \in Advanced(tracked') : MaxIx(r.ins) <= MaxTracked(tracked')
        BY DEF Advanced
      <3> QED
        BY <1>7, <2>1, <2>2, <3>1, UpToMaxTracked
    <2>4. \A r \in work' : r.ins \subseteq tracked'
      BY <1>1, <1>2, <2>1, <2>3 DEF InputsInv
    <2>5. \A r \in delayed' : MaxIx(r.ins) > MaxTracked(tracked')
      <3>1. \A r \in delayed' : r \in delayed /\ ~(MaxIx(r.ins) <= MaxTracked(tracked'))
        BY <1>7 DEF Advanced
      <3>2. MaxTracked(tracked') \in Int /\ \A r \in delayed : MaxIx(r.ins) \in Int
        BY <2>1, <2>2, MaxTrackedIsRun, MaxIxIsMax
      <3> QED
        BY <3>1, <3>2
    <2> QED
      BY <1>1, <1>2, <1>3, <1>4, <2>4, <2>5 DEF InputsInv
  <1>11. WindowInv' /\ PanicInv' /\ Told'
    BY <1>1, <1>2, <1>3, WindowGrows, PanicKept, ToldGrows
  <1>12. Awaited' /\ FinalInv'
    BY <1>1 DEF Awaited, FinalInv
  <1> QED
    BY <1>3, <1>8, <1>9, <1>10, <1>11, <1>12 DEF MtInv

(* A resolver on the stack of internalize is not pushed yet, so there is room. *)
LEMMA RoomToPush ==
    ASSUME GuideInv, ClientInv, NEW r \in circuit.resolvers, \A t \in Items : pushed[t] # r
    PROVE  Len(loc) < MaxItems
  <1> DEFINE others == circuit.resolvers \ {r}
             f == [t \in 1 .. Len(loc) |-> pushed[t]]
  <1>1. Len(loc) \in Nat /\ Items = 1 .. Len(loc)
    BY ItemFacts
  <1>2. /\ IsFiniteSet(circuit.resolvers) /\ Cardinality(circuit.resolvers) \in Nat
        /\ Cardinality(circuit.resolvers) <= MaxItems
    BY CircuitFacts, FS_CardinalityType
  <1>3. IsFiniteSet(others) /\ Cardinality(others) = Cardinality(circuit.resolvers) - 1
    BY <1>2, FS_RemoveElement
  <1>4. f \in Injection(1 .. Len(loc), others)
    <2>1. f \in [1 .. Len(loc) -> others]
      BY <1>1, ItemFacts
    <2>2. \A s, t \in 1 .. Len(loc) : f[s] = f[t] => s = t
      BY <1>1 DEF ClientInv
    <2> HIDE DEF f, others
    <2> QED
      BY <2>1, <2>2 DEF Injection, IsInjective
  <1>5. Cardinality(1 .. Len(loc)) <= Cardinality(others)
    <2> HIDE DEF f, others
    <2> QED
      BY <1>3, <1>4, FS_Injection
  <1>6. Cardinality(1 .. Len(loc)) = Len(loc)
    <2>1. 1 \in Int /\ Len(loc) \in Int
      BY <1>1
    <2>2. Cardinality(1 .. Len(loc)) = IF 1 > Len(loc) THEN 0 ELSE Len(loc) - 1 + 1
      BY <2>1, FS_Interval
    <2> QED
      BY <1>1, <2>2
  <1> QED
    BY <1>1, <1>2, <1>3, <1>5, <1>6, GuideConstants

(* ItemAfter names an item, and one no input comes after if an input is the output of
   an item. *)
LEMMA AfterOfFacts ==
    ASSUME GuideInv, ClientInv, ValueInv, InputsInv, NEW r, r.ins \subseteq Places
    PROVE  /\ AfterOf(r) \in 0 .. Len(loc)
           /\ \A q \in r.ins : \A s \in Items : tracker[q] = loc[s] =>
                /\ AfterOf(r) # 0 /\ ~Precedes(loc[AfterOf(r)], loc[s])
  <1> DEFINE locs == {tracker[p] : p \in r.ins}
             last(k) == loc[k] \in locs /\ \A l \in locs : ~Precedes(loc[k], l)
  <1>1. AfterOf(r) = IF \E k \in Items : last(k) THEN CHOOSE k \in Items : last(k) ELSE 0
    BY DEF AfterOf, ItemAfter
  <1>2. Items = 1 .. Len(loc) /\ Len(loc) \in Nat
    BY ItemFacts
  <1>3. CASE \E k \in Items : last(k)
    <2>1. AfterOf(r) \in Items /\ last(AfterOf(r))
      BY <1>1, <1>3
    <2>2. AfterOf(r) \in 0 .. Len(loc) /\ AfterOf(r) # 0
      BY <1>2, <2>1
    <2>3. \A q \in r.ins : ~Precedes(loc[AfterOf(r)], tracker[q])
      BY <2>1
    <2> QED
      BY <2>2, <2>3
  <1>4. CASE ~ \E k \in Items : last(k)
    <2>1. AfterOf(r) = 0 /\ 0 \in 0 .. Len(loc)
      BY <1>1, <1>2, <1>4
    <2>2. ASSUME NEW q \in r.ins, NEW s \in Items, tracker[q] = loc[s] PROVE FALSE
      <3>1. PICK p \in r.ins : \A u \in r.ins : ~Precedes(tracker[p], tracker[u])
        BY <2>2, LatestTracker
      <3>2. CASE tracker[p] = DefaultLoc
        <4>1. ~Precedes(DefaultLoc, loc[s])
          BY <2>2, <3>1, <3>2
        <4>2. loc[s].id > 0
          BY <2>2 DEF InputsInv
        <4> QED
          BY <4>1, <4>2 DEF Precedes, DefaultLoc
      <3>3. ASSUME NEW k \in TrackedItems, tracker[p] = loc[k] PROVE FALSE
        <4>1. k \in Items
          BY ItemFacts
        <4>2. last(k)
          BY <3>1, <3>3
        <4> QED
          BY <1>4, <4>1, <4>2
      <3> QED
        BY <3>2, <3>3 DEF ValueInv
    <2> QED
      BY <2>1, <2>2
  <1> QED
    BY <1>3, <1>4

LEMMA InternalizeInv ==
    ASSUME MtInv, NEW r \in work, Internalize(r)
    PROVE  MtInv' /\ OrderGrows /\ \A t \in Items : pushed'[t] = pushed[t]
  <1>1. /\ rpc = "internalize" /\ Push(AfterOf(r)) /\ pushed' = Append(pushed, r) /\ cur' = r
        /\ rpc' \in {"hint", "track"}
        /\ UNCHANGED <<circuit, todo, unset, delayed, work, awaits, awaiting, track_id,
                       unwinding, tracked, resolved, tracker, hint, registration_complete,
                       rw_panicked, rw_panic, bpc, complete_seen, range_start, range_end,
                       notified, max_resolved, batch, ran, failed, stopped>>
    BY DEF Internalize, value_vars, comm_vars, broker_vars, chan_vars
  <1>2. /\ GuideInv /\ ClientInv /\ ValueInv /\ InputsInv /\ WindowInv
        /\ PanicInv /\ Told /\ Awaited /\ FinalInv
    BY DEF MtInv
  <1>3. /\ ~InGuide /\ InGuide' /\ TrackedItems = Items /\ Given' = Given
        /\ Items = 1 .. Len(loc) /\ Len(loc) \in Nat
    BY <1>1, <1>2, ItemFacts DEF InGuide, Given
  <1>4. /\ r \in circuit.resolvers /\ r.ins \subseteq Places /\ r.outs \subseteq Places
        /\ \A t \in Items : pushed[t] # r
    BY <1>2, <1>3, CircuitFacts DEF ClientInv
  <1> DEFINE a == AfterOf(r)
             here == Len(loc) + 1
  <1>5. /\ a \in 0 .. Len(loc)
        /\ \A q \in r.ins : \A s \in Items :
                tracker[q] = loc[s] => a # 0 /\ ~Precedes(loc[a], loc[s])
    BY <1>2, <1>4, AfterOfFacts
  <1> HIDE DEF a
  <1>6. Len(loc) < MaxItems
    BY <1>2, <1>4, RoomToPush
  <1>7. GuideInv'
    BY <1>1, <1>2, <1>5, <1>6, PushExistingInv, PushNewInv DEF Push, a
  <1>8. PICK l \in GuideLocs : loc' = Append(loc, l) /\ l.id >= first_id' /\ l.id > 0
    BY <1>1, <1>2, <1>5, <1>6, PushGrows DEF a
  <1>9. OrderGrows /\ after' = Append(after, a)
    BY <1>1, <1>2, <1>5, <1>6, PushGrows DEF a
  <1>10. /\ Len(loc') = here /\ loc'[here] = l /\ \A t \in Items : loc'[t] = loc[t]
         /\ pushed' \in Seq(circuit.resolvers) /\ Len(pushed') = here
         /\ pushed'[here] = r /\ \A t \in Items : pushed'[t] = pushed[t]
         /\ after'[here] = a /\ \A t \in Items : after'[t] = after[t]
    <2>1. /\ loc \in Seq(GuideLocs) /\ pushed \in Seq(circuit.resolvers)
          /\ Len(pushed) = Len(loc) /\ after \in Seq(0 .. MaxItems) /\ Len(after) = Len(loc)
      BY <1>2, GuideTypes DEF ClientInv
    <2>2. a \in 0 .. MaxItems
      BY <1>3, <1>5, <1>6, GuideConstants
    <2>3. Len(loc') = here /\ loc'[here] = l /\ \A t \in Items : loc'[t] = loc[t]
      BY <1>3, <1>8, <2>1, AppendByPosition
    <2>4. /\ pushed' \in Seq(circuit.resolvers) /\ Len(pushed') = here
          /\ pushed'[here] = r /\ \A t \in Items : pushed'[t] = pushed[t]
      BY <1>1, <1>3, <1>4, <2>1, AppendByPosition
    <2>5. after'[here] = a /\ \A t \in Items : after'[t] = after[t]
      BY <1>3, <1>9, <2>1, <2>2, AppendByPosition
    <2> QED
      BY <2>3, <2>4, <2>5
  <1>11. /\ Items' = Items \cup {here} /\ here \notin Items /\ here \in Items'
         /\ TrackedItems' = Items
    BY <1>3, <1>10 DEF Items, TrackedItems
  <1>12. Len(loc') = here
    BY <1>10
  <1> HIDE DEF here
  <1>13. ClientInv'
    <2>1. \A s, t \in Items' : s # t => pushed'[s] # pushed'[t]
      BY <1>2, <1>4, <1>10, <1>11 DEF ClientInv
    <2>2. \A t \in Items' : /\ pushed'[t] \notin todo' \cup delayed'
                            /\ pushed'[t] \in work' => InGuide' /\ t = Len(loc')
      <3>1. \A t \in Items : /\ pushed'[t] \notin todo' \cup delayed'
                             /\ pushed'[t] \notin work'
        BY <1>1, <1>2, <1>3, <1>10 DEF ClientInv
      <3>2. pushed'[here] \notin todo' \cup delayed'
        BY <1>1, <1>2, <1>10 DEF ClientInv
      <3> QED
        BY <1>3, <1>11, <1>12, <3>1, <3>2
    <2>3. \A q \in circuit'.resolvers :
            q \in todo' \cup delayed' \cup work' \/ \E t \in Items' : pushed'[t] = q
      <3>1. \A q \in circuit.resolvers :
                q \in todo \cup delayed \cup work \/ \E t \in Items : pushed[t] = q
        BY <1>2 DEF ClientInv
      <3>2. \A t \in Items : t \in Items' /\ pushed'[t] = pushed[t]
        BY <1>10, <1>11
      <3> QED
        BY <1>1, <3>1, <3>2
    <2>4. /\ Len(loc') \in Items' /\ pushed'[Len(loc')] = cur' /\ cur' \in work'
          /\ loc'[Len(loc')].id >= first_id'
      BY <1>1, <1>8, <1>10, <1>11, <1>12
    <2>5. pushed' \in Seq(circuit'.resolvers) /\ Len(pushed') = Len(loc')
      BY <1>1, <1>10
    <2>6. /\ circuit' \in Circuits /\ rpc' \in RegistrationPcs
          /\ todo' \subseteq circuit'.resolvers /\ unset' \subseteq circuit'.set
          /\ delayed' \subseteq circuit'.resolvers \ todo'
          /\ work' \subseteq circuit'.resolvers \ (todo' \cup delayed')
          /\ awaits' \in 0 .. MaxAwaits /\ awaiting' \subseteq Places
          /\ track_id' \in GuideLocs /\ unwinding' \in BOOLEAN
      BY <1>1, <1>2 DEF ClientInv, RegistrationPcs
    <2>7. rpc' \in {"internalize", "hint", "track"}
      BY <1>1
    <2> QED
      BY <1>3, <2>1, <2>2, <2>3, <2>4, <2>5, <2>6, <2>7 DEF ClientInv
  <1>14. ValueInv'
    BY <1>1, <1>2, <1>3, <1>9, <1>10, <1>11, ValuesGrow
  <1>15. InputsInv'
    <2>1. \A t \in Items' : loc'[t].id > 0
      BY <1>2, <1>8, <1>10, <1>11 DEF InputsInv
    <2>2. ASSUME NEW t \in Items', NEW p \in pushed'[t].ins, p \notin Given
          PROVE  \E s \in Items : /\ p \in pushed[s].outs /\ after'[t] # 0
                                  /\ ~Precedes(loc'[after'[t]], loc[s])
      <3>1. CASE t \in Items
        <4>1. pushed'[t] = pushed[t] /\ after'[t] = after[t]
          BY <1>10, <3>1
        <4>2. PICK s \in Items : /\ p \in pushed[s].outs /\ after[t] # 0
                                 /\ ~Precedes(loc[after[t]], loc[s])
          BY <1>2, <2>2, <3>1, <4>1 DEF InputsInv
        <4>3. after[t] \in Items
          BY <1>2, <1>3, <3>1, <4>2 DEF GuideInv, Depends
        <4> QED
          BY <1>10, <4>1, <4>2, <4>3
      <3>2. CASE t = here
        <4>1. p \in r.ins /\ after'[t] = a
          BY <1>10, <2>2, <3>2
        <4>2. p \in tracked /\ p \in Places
          BY <1>2, <1>4, <4>1 DEF InputsInv
        <4>3. PICK s \in Items : p \in pushed[s].outs
          BY <1>2, <1>3, <2>2, <4>2 DEF ValueInv
        <4>4. tracker[p] = loc[s]
          BY <1>2, <1>3, <4>3 DEF ValueInv
        <4>5. a # 0 /\ ~Precedes(loc[a], loc[s])
          BY <1>5, <4>1, <4>4
        <4>6. a \in Items
          BY <1>3, <1>5, <4>5
        <4> QED
          BY <1>10, <4>1, <4>3, <4>5, <4>6
      <3> QED
        BY <1>11, <3>1, <3>2
    <2>3. \A t \in Items' : \A p \in pushed'[t].ins :
            p \in Given' \/ \E s \in Items' : /\ p \in pushed'[s].outs /\ after'[t] # 0
                                              /\ ~Precedes(loc'[after'[t]], loc'[s])
      BY <1>3, <1>10, <1>11, <2>2
    <2>4. /\ \A q \in work' : q.ins \subseteq tracked'
          /\ \A q \in delayed' : MaxIx(q.ins) > MaxTracked(tracked')
      BY <1>1, <1>2 DEF InputsInv
    <2> QED
      BY <2>1, <2>3, <2>4 DEF InputsInv
  <1>16. WindowInv' /\ PanicInv' /\ Told'
    BY <1>1, <1>2, <1>9, <1>10, WindowGrows, PanicKept, ToldGrows
  <1>17. Awaited' /\ FinalInv'
    BY <1>1 DEF Awaited, FinalInv
  <1> QED
    BY <1>7, <1>9, <1>10, <1>13, <1>14, <1>15, <1>16, <1>17 DEF MtInv

-----------------------------------------------------------------------------
(* The steps of the broker and the workers preserve the invariant *)

(* Neither touches what is registered. *)
LEMMA RegistrationKept ==
    ASSUME GuideInv, ClientInv, UNCHANGED client_vars, UNCHANGED guide_vars
    PROVE  /\ GuideInv' /\ ClientInv' /\ Items' = Items /\ TrackedItems' = TrackedItems
           /\ Given' = Given /\ OrderGrows
           /\ UNCHANGED <<circuit, rpc, todo, unset, delayed, work, pushed, awaiting, track_id,
                          unwinding, first_id, spans, order, loc, after>>
  <1>1. UNCHANGED <<circuit, rpc, todo, unset, delayed, work, cur, pushed, awaits, awaiting,
                    track_id, unwinding>>
    BY DEF client_vars
  <1>2. GuideInv' /\ Items' = Items /\ UNCHANGED <<first_id, spans, order, loc, after>>
    BY GuideKept
  <1>3. InGuide' = InGuide /\ TrackedItems' = TrackedItems /\ Given' = Given
    BY <1>1, <1>2 DEF InGuide, TrackedItems, Given
  <1>4. ClientInv'
    BY <1>1, <1>2, <1>3 DEF ClientInv
  <1>5. OrderGrows
    BY <1>2, SameOrderGrows
  <1> QED
    BY <1>1, <1>2, <1>3, <1>4, <1>5

(* Nor does the broker touch what the workers do, but for the batch. *)
LEMMA BrokerFrame ==
    ASSUME MtInv, UNCHANGED client_vars, UNCHANGED guide_vars,
           UNCHANGED <<tracked, resolved, tracker, ran>>
    PROVE  /\ GuideInv' /\ ClientInv' /\ ValueInv' /\ InputsInv' /\ Awaited' /\ FinalInv'
           /\ OrderGrows /\ UNCHANGED <<order, loc, rpc, unwinding>>
  <1>1. GuideInv /\ ClientInv /\ ValueInv /\ InputsInv /\ Awaited /\ FinalInv
    BY DEF MtInv
  <1>2. /\ GuideInv' /\ ClientInv' /\ Items' = Items /\ TrackedItems' = TrackedItems
        /\ Given' = Given /\ OrderGrows
        /\ UNCHANGED <<circuit, rpc, todo, unset, delayed, work, pushed, awaiting, track_id,
                       unwinding, first_id, spans, order, loc, after>>
    BY <1>1, RegistrationKept
  <1>3. ValueInv'
    BY <1>1, <1>2 DEF ValueInv
  <1>4. InputsInv'
    BY <1>1, <1>2 DEF InputsInv
  <1>5. Awaited' /\ FinalInv'
    BY <1>1, <1>2 DEF Awaited, FinalInv
  <1> QED
    BY <1>2, <1>3, <1>4, <1>5

(* The steps that only move the broker between its turns. *)
LEMMA BrokerMoves ==
    ASSUME MtInv, UNCHANGED client_vars, UNCHANGED guide_vars,
           UNCHANGED <<tracked, resolved, tracker>>,
           UNCHANGED <<range_start, range_end, notified, max_resolved, batch, ran, failed>>,
           bpc' \in RW!BrokerPcs, bpc' \notin {"execute", "notify"}, bpc # "execute"
    PROVE  /\ GuideInv' /\ ClientInv' /\ ValueInv' /\ InputsInv' /\ Awaited' /\ FinalInv'
           /\ WindowInv' /\ Told' /\ UNCHANGED <<order, rpc, unwinding>>
  <1>1. /\ GuideInv' /\ ClientInv' /\ ValueInv' /\ InputsInv' /\ Awaited' /\ FinalInv'
        /\ OrderGrows /\ UNCHANGED <<order, loc, rpc, unwinding>>
    BY BrokerFrame
  <1>2. WindowInv'
    BY <1>1 DEF MtInv, WindowInv
  <1>3. Told'
    BY <1>1 DEF MtInv, Told
  <1> QED
    BY <1>1, <1>2, <1>3

LEMMA LoadInv ==
    ASSUME MtInv, RW!Load, UNCHANGED client_vars, UNCHANGED guide_vars
    PROVE  MtInv'
  <1>1. /\ bpc = "load" /\ complete_seen' = registration_complete /\ bpc' = "lock"
        /\ UNCHANGED <<tracked, resolved, tracker, hint, registration_complete, rw_panicked,
                       rw_panic, range_start, range_end, notified, max_resolved, batch, ran,
                       failed, stopped>>
    BY DEF RW!Load, RW!value_vars, RW!comm_vars, RW!chan_vars
  <1>2. /\ GuideInv' /\ ClientInv' /\ ValueInv' /\ InputsInv' /\ Awaited' /\ FinalInv'
        /\ WindowInv' /\ Told' /\ UNCHANGED <<order, rpc, unwinding>>
    BY <1>1, BrokerMoves DEF RW!BrokerPcs
  <1>3. PanicInv'
    BY <1>1, <1>2 DEF MtInv, PanicInv
  <1> QED
    BY <1>2, <1>3 DEF MtInv

(* Min is the same operator in the window's module. *)
LEMMA WindowMin ==
    ASSUME NEW S
    PROVE  RW!Min(S) = Min(S)
  BY DEF RW!Min, Min

LEMMA ExtendInv ==
    ASSUME MtInv, RW!Extend, UNCHANGED client_vars, UNCHANGED guide_vars
    PROVE  MtInv'
  <1> DEFINE new == Len(order) > range_end
             room == range_end + (BufferCapacity - (range_end - range_start))
  <1>1. /\ bpc = "lock"
        /\ range_end' = IF new THEN Min({Len(order), room}) ELSE range_end
        /\ bpc' = IF ~new /\ ~complete_seen THEN "hint"
                  ELSE IF ~new /\ range_end = range_start THEN "kill" ELSE "process"
        /\ UNCHANGED <<tracked, resolved, tracker, hint, registration_complete, rw_panicked,
                       rw_panic, complete_seen, range_start, notified, max_resolved, batch,
                       ran, failed, stopped>>
    BY WindowMin DEF RW!Extend, RW!value_vars, RW!comm_vars, RW!chan_vars
  <1>2. /\ GuideInv' /\ ClientInv' /\ ValueInv' /\ InputsInv' /\ Awaited' /\ FinalInv'
        /\ OrderGrows /\ UNCHANGED <<order, loc, rpc, unwinding>>
    BY <1>1, BrokerFrame
  <1>3. /\ range_start \in Nat /\ range_end \in Nat /\ Len(order) \in Nat
        /\ BufferCapacity \in Nat /\ range_start <= range_end /\ range_end <= Len(order)
        /\ range_end - range_start <= BufferCapacity
    BY OrderFacts, CapacityAssumption DEF MtInv, WindowInv
  <1>4. /\ range_end' \in Nat /\ range_start <= range_end' /\ range_end' <= Len(order)
        /\ range_end' - range_start <= BufferCapacity
    <2>1. room \in Int /\ room >= range_end /\ room - range_start = BufferCapacity
      BY <1>3
    <2> HIDE DEF room
    <2>2. Min({Len(order), room}) = IF Len(order) <= room THEN Len(order) ELSE room
      BY <1>3, <2>1, MinOfTwo
    <2> QED
      BY <1>1, <1>3, <2>1, <2>2
  <1>5. bpc' \in {"hint", "kill", "process"}
    BY <1>1
  <1>6. WindowInv'
    <2>1. /\ notified \in Nat /\ notified <= range_start
          /\ ran \subseteq 0 .. Len(order) - 1 /\ 0 .. range_start - 1 \subseteq ran
          /\ batch = {} /\ (~failed => ran = 0 .. range_start - 1)
      BY <1>1 DEF MtInv, WindowInv
    <2>2. bpc' \in RW!BrokerPcs /\ bpc' # "execute" /\ bpc' # "notify"
      BY <1>5 DEF RW!BrokerPcs
    <2> QED
      BY <1>1, <1>2, <1>3, <1>4, <2>1, <2>2 DEF WindowInv
  <1>7. Told'
    BY <1>1, <1>2 DEF MtInv, Told
  <1>8. bpc' = "kill" => complete_seen /\ range_start = Len(order)
    BY <1>1, <1>3
  <1>9. PanicInv'
    BY <1>1, <1>2, <1>5, <1>8 DEF MtInv, PanicInv
  <1> QED
    BY <1>2, <1>6, <1>7, <1>9 DEF MtInv

LEMMA HintInv ==
    ASSUME MtInv, RW!TakeHint \/ RW!SeeComplete, UNCHANGED client_vars, UNCHANGED guide_vars
    PROVE  MtInv'
  <1>1. /\ bpc = "hint" /\ hint' \in 0 .. 1 /\ bpc' = "load"
        /\ UNCHANGED <<tracked, resolved, tracker, registration_complete, rw_panicked,
                       rw_panic, complete_seen, range_start, range_end, notified,
                       max_resolved, batch, ran, failed, stopped>>
    BY DEF RW!TakeHint, RW!SeeComplete, RW!value_vars, RW!comm_vars, RW!chan_vars, MtInv, PanicInv
  <1>2. /\ GuideInv' /\ ClientInv' /\ ValueInv' /\ InputsInv' /\ Awaited' /\ FinalInv'
        /\ WindowInv' /\ Told' /\ UNCHANGED <<order, rpc, unwinding>>
    BY <1>1, BrokerMoves DEF RW!BrokerPcs
  <1>3. PanicInv'
    BY <1>1, <1>2 DEF MtInv, PanicInv
  <1> QED
    BY <1>2, <1>3 DEF MtInv

(* A batch starts where the window does and ends within the parallelism of its first
   task. *)
LEMMA SendBatchInv ==
    ASSUME MtInv, RW!SendBatch, UNCHANGED client_vars, UNCHANGED guide_vars
    PROVE  MtInv'
  <1> DEFINE last == range_start + RW!BatchSize - 1
  <1>1. /\ bpc = "process"
        /\ \/ /\ range_start < range_end /\ bpc' = "execute"
              /\ batch' = {t \in RW!Channel!Tasks : t \notin ran /\ t <= last}
           \/ ~(range_start < range_end) /\ bpc' = "load" /\ batch' = batch
        /\ UNCHANGED <<tracked, resolved, tracker, hint, registration_complete, rw_panicked,
                       rw_panic, complete_seen, range_start, range_end, notified,
                       max_resolved, ran, failed, stopped>>
    BY DEF RW!SendBatch, RW!Channel!Release, RW!value_vars, RW!comm_vars, RW!chan_vars
  <1>2. /\ GuideInv' /\ ClientInv' /\ ValueInv' /\ InputsInv' /\ Awaited' /\ FinalInv'
        /\ OrderGrows /\ UNCHANGED <<order, loc, rpc, unwinding>>
    BY <1>1, BrokerFrame
  <1>3. /\ notified \in Nat /\ notified <= range_start
        /\ range_start \in Nat /\ range_end \in Nat /\ range_start <= range_end
        /\ range_end <= Len(order) /\ range_end - range_start <= BufferCapacity
        /\ ran = 0 .. range_start - 1 /\ batch = {}
        /\ Len(order) \in Nat /\ Len(order) <= MaxItems
    BY <1>1, OrderFacts DEF MtInv, WindowInv, PanicInv
  <1>4. CASE range_start < range_end
    <2> DEFINE par == order[range_start + 1].parallelism
    <2>1. range_start + 1 \in 1 .. Len(order)
      BY <1>3, <1>4
    <2>2. par \in Nat /\ par > 0
      BY <2>1, OrderFacts DEF MtInv
    <2>3. RW!BatchSize = Min({par, ChannelCapacity, range_end - range_start})
      <3>1. range_start + 1 \in DOMAIN order
        BY <2>1, OrderFacts DEF MtInv
      <3> QED
        BY <3>1, WindowMin DEF RW!BatchSize
    <2> HIDE DEF par
    <2>4. /\ RW!BatchSize \in Nat /\ RW!BatchSize > 0 /\ RW!BatchSize <= par
          /\ RW!BatchSize <= range_end - range_start
      <3> DEFINE S == {par, ChannelCapacity, range_end - range_start}
      <3>1. S \subseteq Nat /\ S # {} /\ (\A s \in S : 1 <= s) /\ S \subseteq Int
        BY <1>3, <1>4, <2>2, CapacityAssumption
      <3>2. par \in S /\ range_end - range_start \in S /\ RW!BatchSize = Min(S)
        BY <2>3
      <3> HIDE DEF S
      <3>0. 1 \in Int
        OBVIOUS
      <3>3. Min(S) \in S /\ \A s \in S : Min(S) <= s
        <4>1. S \in SUBSET Int /\ S # {}
          BY <3>1
        <4>2. \A s \in S : 1 <= s
          BY <3>1
        <4> QED
          BY <3>0, <4>1, <4>2, MinOfBounded
      <3>4. Min(S) \in Nat /\ 1 <= Min(S)
        BY <3>1, <3>3
      <3> QED
        BY <3>2, <3>3, <3>4
    <2>5. last \in range_start .. range_end - 1 /\ last < range_start + par /\ last \in Nat
      BY <1>3, <2>2, <2>4
    <2> HIDE DEF last
    <2>6. batch' = range_start .. last
      <3>1. batch' = {t \in 0 .. MaxItems - 1 : t \notin 0 .. range_start - 1 /\ t <= last}
        BY <1>1, <1>3, <1>4 DEF RW!Channel!Tasks
      <3>2. last <= MaxItems - 1 /\ MaxItems \in Nat
        BY <1>3, <2>5, GuideConstants
      <3>3. \A t : t \in batch' <=> t \in range_start .. last
        BY <1>3, <2>5, <3>1, <3>2
      <3> QED
        BY <3>3
    <2>7. bpc' = "execute"
      BY <1>1, <1>4
    <2>8. /\ last \in range_start' .. range_end' - 1
          /\ last < range_start' + order'[range_start' + 1].parallelism
          /\ batch' = range_start' .. last
          /\ ran' \subseteq (0 .. range_start' - 1) \cup batch'
      BY <1>1, <1>2, <1>3, <2>5, <2>6 DEF par
    <2>9. /\ ran' \subseteq 0 .. Len(order') - 1 /\ 0 .. range_start' - 1 \subseteq ran'
      BY <1>1, <1>2, <1>3
    <2>10. WindowInv'
      BY <1>1, <1>2, <1>3, <2>7, <2>8, <2>9 DEF WindowInv, RW!BrokerPcs
    <2>11. PanicInv' /\ Told'
      BY <1>1, <1>2, <2>7 DEF MtInv, PanicInv, Told
    <2> QED
      BY <1>2, <2>10, <2>11 DEF MtInv
  <1>5. CASE ~(range_start < range_end)
    <2>1. bpc' = "load" /\ UNCHANGED batch
      BY <1>1, <1>5
    <2>2. WindowInv' /\ Told'
      BY <1>1, <2>1, BrokerMoves DEF RW!BrokerPcs
    <2>3. PanicInv'
      BY <1>1, <1>2, <2>1 DEF MtInv, PanicInv
    <2> QED
      BY <1>2, <2>2, <2>3 DEF MtInv
  <1> QED
    BY <1>4, <1>5

LEMMA WindowCardinality ==
    ASSUME NEW S
    PROVE  RW!Cardinality(S) = Cardinality(S)
  BY DEF RW!Cardinality, Cardinality

(* When a batch closes without a panic, all of it ran. *)
LEMMA BatchDoneInv ==
    ASSUME MtInv, RW!BatchDone, UNCHANGED client_vars, UNCHANGED guide_vars
    PROVE  MtInv'
  <1>1. /\ bpc = "execute" /\ batch # {} /\ batch' = {}
        /\ batch \subseteq ran \/ failed
        /\ \/ failed /\ bpc' = "panic" /\ range_start' = range_start
           \/ ~failed /\ bpc' = "notify" /\ range_start' = range_start + Cardinality(batch)
        /\ UNCHANGED <<tracked, resolved, tracker, hint, registration_complete, rw_panicked,
                       rw_panic, complete_seen, range_end, notified, max_resolved, ran,
                       failed, stopped>>
    BY WindowCardinality DEF RW!BatchDone, RW!Channel!Close, RW!value_vars, RW!comm_vars
  <1>2. /\ GuideInv' /\ ClientInv' /\ ValueInv' /\ InputsInv' /\ Awaited' /\ FinalInv'
        /\ OrderGrows /\ UNCHANGED <<order, loc, rpc, unwinding>>
    BY <1>1, BrokerFrame
  <1>3. /\ notified \in Nat /\ notified <= range_start
        /\ range_start \in Nat /\ range_end \in Nat /\ range_start <= range_end
        /\ range_end <= Len(order) /\ range_end - range_start <= BufferCapacity
        /\ ran \subseteq 0 .. Len(order) - 1 /\ 0 .. range_start - 1 \subseteq ran
        /\ ran \subseteq (0 .. range_start - 1) \cup batch
        /\ Len(order) \in Nat /\ BufferCapacity \in Nat
    BY <1>1, OrderFacts, CapacityAssumption DEF MtInv, WindowInv
  <1>4. PICK last \in range_start .. range_end - 1 : batch = range_start .. last
    BY <1>1 DEF MtInv, WindowInv
  <1>5. CASE failed
    <2>1. bpc' = "panic" /\ range_start' = range_start /\ failed'
      BY <1>1, <1>5
    <2>2. WindowInv'
      BY <1>1, <1>2, <1>3, <2>1 DEF WindowInv, RW!BrokerPcs
    <2>3. PanicInv' /\ Told'
      BY <1>1, <1>2, <2>1 DEF MtInv, PanicInv, Told
    <2> QED
      BY <1>2, <2>2, <2>3 DEF MtInv
  <1>6. CASE ~failed
    <2>1. bpc' = "notify" /\ range_start' = range_start + Cardinality(batch) /\ ~failed'
          /\ batch \subseteq ran
      BY <1>1, <1>6
    <2>2. Cardinality(batch) = last - range_start + 1
      <3>1. range_start \in Int /\ last \in Int /\ ~(range_start > last)
        BY <1>3, <1>4
      <3> QED
        BY <1>4, <3>1, FS_Interval
    <2>3. range_start' = last + 1 /\ last + 1 \in Nat /\ last + 1 <= range_end
          /\ range_start < last + 1
      BY <1>3, <1>4, <2>1, <2>2
    <2>4. ran = 0 .. last
      <3>1. \A t : t \in ran => t \in 0 .. last
        BY <1>3, <1>4
      <3>2. \A t \in 0 .. last : t \in 0 .. range_start - 1 \/ t \in batch
        BY <1>3, <1>4
      <3> QED
        BY <1>3, <2>1, <3>1, <3>2
    <2>5. ran' = 0 .. range_start' - 1
      BY <1>1, <1>3, <1>4, <2>3, <2>4
    <2>6. /\ range_start' \in Nat /\ range_end' \in Nat /\ notified' \in Nat
          /\ notified' < range_start' /\ notified' <= range_start'
          /\ range_start' <= range_end' /\ range_end' <= Len(order')
          /\ range_end' - range_start' <= BufferCapacity
      BY <1>1, <1>2, <1>3, <2>3
    <2>7. ran' \subseteq 0 .. Len(order') - 1 /\ 0 .. range_start' - 1 \subseteq ran'
      BY <1>1, <1>2, <1>3, <2>5
    <2>8. bpc' \in RW!BrokerPcs /\ bpc' # "execute" /\ batch' = {}
      BY <1>1, <2>1 DEF RW!BrokerPcs
    <2>9. WindowInv'
      BY <2>5, <2>6, <2>7, <2>8 DEF WindowInv
    <2>10. PanicInv' /\ Told'
      BY <1>1, <1>2, <2>1 DEF MtInv, PanicInv, Told
    <2> QED
      BY <1>2, <2>9, <2>10 DEF MtInv
  <1> QED
    BY <1>5, <1>6

(* The tracker the broker notifies with is the location of the task it drained. *)
LEMMA NotifyInv ==
    ASSUME MtInv, RW!Notify, UNCHANGED client_vars, UNCHANGED guide_vars
    PROVE  MtInv'
  <1>1. /\ bpc = "notify" /\ notified' = notified + 1
        /\ max_resolved' = IF RW!OutsOf(notified + 1) = {} THEN max_resolved
                           ELSE tracker[Min(RW!OutsOf(notified + 1))]
        /\ bpc' = IF notified' = range_start THEN "process" ELSE "notify"
        /\ UNCHANGED <<tracked, resolved, tracker, hint, registration_complete, rw_panicked,
                       rw_panic, complete_seen, range_start, range_end, batch, ran,
                       failed, stopped>>
    BY WindowMin DEF RW!Notify, RW!value_vars, RW!comm_vars, RW!chan_vars
  <1>2. /\ GuideInv' /\ ClientInv' /\ ValueInv' /\ InputsInv' /\ Awaited' /\ FinalInv'
        /\ OrderGrows /\ UNCHANGED <<order, loc, rpc, unwinding>>
    BY <1>1, BrokerFrame
  <1>3. /\ notified \in Nat /\ notified < range_start /\ range_start \in Nat
        /\ range_start <= range_end /\ range_end <= Len(order) /\ range_end \in Nat
        /\ Len(order) \in Nat /\ order \in Seq(OrderInfos)
    BY <1>1, OrderFacts DEF MtInv, WindowInv
  <1>4. bpc' \in {"process", "notify"} /\ (bpc' = "notify" => notified' # range_start)
    BY <1>1
  <1>5. WindowInv'
    <2>1. /\ range_end - range_start <= BufferCapacity /\ batch = {}
          /\ ran \subseteq 0 .. Len(order) - 1 /\ 0 .. range_start - 1 \subseteq ran
          /\ (~failed => ran = 0 .. range_start - 1)
      BY <1>1 DEF MtInv, WindowInv
    <2>2. notified' \in Nat /\ notified' <= range_start
      BY <1>1, <1>3
    <2>3. bpc' = "notify" => notified' < range_start
      BY <1>3, <1>4, <2>2
    <2> QED
      BY <1>1, <1>2, <1>3, <1>4, <2>1, <2>2, <2>3 DEF WindowInv, RW!BrokerPcs
  <1>6. Told'
    <2> DEFINE outs == RW!OutsOf(notified + 1)
    <2>0. notified + 1 \in 1 .. Len(order) /\ notified < Len(order)
      BY <1>3
    <2>1. outs = pushed[order[notified + 1].item].outs
      BY <1>3, <2>0, TaskResolver
    <2> HIDE DEF outs
    <2>2. CASE outs = {}
      <3>1. max_resolved' = max_resolved
        BY <1>1, <2>2 DEF outs
      <3>2. 1 .. notified \subseteq 1 .. notified'
        BY <1>1, <1>3
      <3> QED
        BY <1>2, <3>1, <3>2 DEF MtInv, Told
    <2>3. CASE outs # {}
      <3>1. order[notified + 1].item \in TrackedItems /\ order[notified + 1].item \in Items
        BY <2>0, OrderFacts DEF MtInv
      <3>2. outs \subseteq Places
        BY <2>1, <3>1, ItemFacts DEF MtInv
      <3>3. Min(outs) \in outs
        <4>1. outs \in SUBSET Int
          BY <3>2 DEF Places
        <4>2. \A p \in outs : 0 <= p
          BY <3>2 DEF Places
        <4>3. 0 \in Int
          OBVIOUS
        <4> QED
          BY <2>3, <4>1, <4>2, <4>3, MinOfBounded
      <3>4. tracker[Min(outs)] = loc[order[notified + 1].item]
        BY <2>1, <3>1, <3>3 DEF MtInv, ValueInv
      <3>5. max_resolved' = loc[order[notified'].item]
        BY <1>1, <2>3, <3>4 DEF outs
      <3>6. notified' \in 1 .. notified'
        BY <1>1, <1>3
      <3> QED
        BY <1>2, <3>5, <3>6 DEF Told
    <2> QED
      BY <2>2, <2>3
  <1>7. PanicInv'
    BY <1>1, <1>2, <1>4 DEF MtInv, PanicInv
  <1> QED
    BY <1>2, <1>5, <1>6, <1>7 DEF MtInv

LEMMA PanicStepsInv ==
    ASSUME MtInv, RW!StorePanic \/ RW!RaisePanicked \/ RW!KillPool,
           UNCHANGED client_vars, UNCHANGED guide_vars
    PROVE  MtInv'
  <1>1. CASE RW!StorePanic
    <2>1. /\ bpc = "panic" /\ rw_panic' = TRUE /\ bpc' = "panic_flag"
          /\ UNCHANGED <<tracked, resolved, tracker, hint, registration_complete, rw_panicked,
                         complete_seen, range_start, range_end, notified, max_resolved,
                         batch, ran, failed, stopped>>
      BY <1>1 DEF RW!StorePanic, RW!value_vars, RW!chan_vars
    <2>2. /\ GuideInv' /\ ClientInv' /\ ValueInv' /\ InputsInv' /\ Awaited' /\ FinalInv'
          /\ WindowInv' /\ Told' /\ UNCHANGED <<order, rpc, unwinding>>
      BY <2>1, BrokerMoves DEF RW!BrokerPcs
    <2>3. PanicInv'
      BY <2>1, <2>2 DEF MtInv, PanicInv
    <2> QED
      BY <2>2, <2>3 DEF MtInv
  <1>2. CASE RW!RaisePanicked
    <2>1. /\ bpc = "panic_flag" /\ rw_panicked' = TRUE /\ bpc' = "kill"
          /\ UNCHANGED <<tracked, resolved, tracker, hint, registration_complete, rw_panic,
                         complete_seen, range_start, range_end, notified, max_resolved,
                         batch, ran, failed, stopped>>
      BY <1>2 DEF RW!RaisePanicked, RW!value_vars, RW!chan_vars
    <2>2. /\ GuideInv' /\ ClientInv' /\ ValueInv' /\ InputsInv' /\ Awaited' /\ FinalInv'
          /\ WindowInv' /\ Told' /\ UNCHANGED <<order, rpc, unwinding>>
      BY <2>1, BrokerMoves DEF RW!BrokerPcs
    <2>3. PanicInv'
      BY <2>1, <2>2 DEF MtInv, PanicInv
    <2> QED
      BY <2>2, <2>3 DEF MtInv
  <1>3. CASE RW!KillPool
    <2>1. /\ bpc = "kill" /\ stopped' = TRUE /\ bpc' = "ended"
          /\ UNCHANGED <<tracked, resolved, tracker, hint, registration_complete, rw_panicked,
                         rw_panic, complete_seen, range_start, range_end, notified,
                         max_resolved, batch, ran, failed>>
      BY <1>3 DEF RW!KillPool, RW!Channel!Stop, RW!value_vars, RW!comm_vars
    <2>2. /\ GuideInv' /\ ClientInv' /\ ValueInv' /\ InputsInv' /\ Awaited' /\ FinalInv'
          /\ WindowInv' /\ Told' /\ UNCHANGED <<order, rpc, unwinding>>
      BY <2>1, BrokerMoves DEF RW!BrokerPcs
    <2>3. PanicInv'
      BY <2>1, <2>2 DEF MtInv, PanicInv
    <2> QED
      BY <2>2, <2>3 DEF MtInv
  <1> QED
    BY <1>1, <1>2, <1>3

(* The assertions of invoke hold of a task of the batch: it has its values resolved,
   or its closure panics. *)
LEMMA InvokeInv ==
    ASSUME MtInv, NEW t, RW!Invoke(t), UNCHANGED client_vars, UNCHANGED guide_vars
    PROVE  /\ MtInv' /\ t \in batch \ ran /\ ran' = ran \cup {t} /\ failed' = failed
           /\ resolved' = resolved \cup RW!ResolverAt(t).outs
  <1> DEFINE r == RW!ResolverAt(t)
  <1>1. GuideInv /\ ClientInv /\ ValueInv /\ InputsInv /\ WindowInv /\ Awaited /\ FinalInv
    BY DEF MtInv
  <1>2. t \in batch \ ran
    BY DEF RW!Invoke
  <1>3. /\ RW!InvokeAsserts(r) /\ r = pushed[order[t + 1].item]
    BY <1>1, <1>2, BatchReady DEF BatchTasksReady, RW!BatchReady
  <1> DEFINE item == order[t + 1].item
  <1>4. /\ bpc = "execute" /\ t \in Nat /\ t < Len(order) /\ t + 1 \in 1 .. Len(order)
        /\ item \in Items /\ item \in TrackedItems
    BY <1>1, <1>2, TaskFacts
  <1>5. /\ ran' = ran \cup {t} /\ resolved' = resolved \cup r.outs
        /\ tracked' = tracked \cup r.outs
        /\ UNCHANGED <<tracker, hint, registration_complete, rw_panicked, rw_panic, bpc,
                       complete_seen, range_start, range_end, notified, max_resolved, batch,
                       failed, stopped>>
    BY <1>3 DEF RW!Invoke, RW!Channel!Run, RW!comm_vars, RW!broker_vars
  <1> HIDE DEF r, item
  <1>6. r.outs \subseteq tracked /\ r.outs \subseteq Places /\ r = pushed[item]
    <2>1. r = pushed[item]
      BY <1>3 DEF item
    <2>2. r.outs \subseteq Places
      BY <1>1, <1>4, <2>1, ItemFacts
    <2> QED
      BY <1>1, <1>4, <2>1, <2>2 DEF ValueInv
  <1>7. tracked' = tracked
    BY <1>5, <1>6
  <1>8. /\ GuideInv' /\ ClientInv' /\ Items' = Items /\ TrackedItems' = TrackedItems
        /\ Given' = Given /\ OrderGrows
        /\ UNCHANGED <<circuit, rpc, todo, unset, delayed, work, pushed, awaiting, track_id,
                       unwinding, first_id, spans, order, loc, after>>
    BY <1>1, RegistrationKept
  <1>9. ValueInv'
    <2>1. \A p \in Places : p \in resolved' <=>
            p \in Given \/ \E s \in ran' : p \in pushed[order[s + 1].item].outs
      BY <1>1, <1>5, <1>6 DEF ValueInv, item
    <2>2. resolved' \subseteq Places /\ tracked' \subseteq Places
      BY <1>1, <1>5, <1>6, <1>7 DEF ValueInv
    <2>3. /\ tracker' \in [Places -> GuideLocs]
          /\ \A p \in Places : p \in tracked' <=>
                p \in Given' \/ \E s \in TrackedItems' : p \in pushed'[s].outs
          /\ \A s \in TrackedItems' : \A p \in pushed'[s].outs : tracker'[p] = loc'[s]
          /\ \A p \in Places : \/ tracker'[p] = DefaultLoc
                               \/ \E s \in TrackedItems' : tracker'[p] = loc'[s]
      BY <1>1, <1>5, <1>7, <1>8 DEF ValueInv
    <2>4. \A p \in Places : p \in resolved' <=>
            p \in Given' \/ \E s \in ran' : p \in pushed'[order'[s + 1].item].outs
      BY <1>8, <2>1
    <2> QED
      BY <2>2, <2>3, <2>4 DEF ValueInv
  <1>10. InputsInv'
    BY <1>1, <1>7, <1>8 DEF InputsInv
  <1>11. Awaited' /\ FinalInv'
    BY <1>1, <1>5, <1>7, <1>8 DEF Awaited, FinalInv
  <1>12. WindowInv'
    <2>1. /\ ran \subseteq 0 .. Len(order) - 1 /\ 0 .. range_start - 1 \subseteq ran
          /\ ran \subseteq (0 .. range_start - 1) \cup batch
          /\ Len(order) \in Nat
      BY <1>1, <1>4, OrderFacts DEF WindowInv
    <2>2. /\ ran' \subseteq 0 .. Len(order) - 1 /\ 0 .. range_start - 1 \subseteq ran'
          /\ ran' \subseteq (0 .. range_start - 1) \cup batch
      BY <1>2, <1>4, <1>5, <2>1
    <2> QED
      BY <1>1, <1>4, <1>5, <1>8, <2>2 DEF WindowInv
  <1>13. PanicInv' /\ Told'
    BY <1>5, <1>8 DEF MtInv, PanicInv, Told
  <1> QED
    BY <1>2, <1>5, <1>8, <1>9, <1>10, <1>11, <1>12, <1>13 DEF MtInv, r

LEMMA ClosurePanicsInv ==
    ASSUME MtInv, NEW t, RW!ClosurePanics(t), UNCHANGED client_vars, UNCHANGED guide_vars
    PROVE  /\ MtInv' /\ t \in batch \ ran /\ failed' = TRUE
           /\ UNCHANGED <<tracked, resolved, tracker, ran, batch, order>>
  <1>1. /\ t \in batch \ ran /\ failed' = TRUE
        /\ UNCHANGED <<tracked, resolved, tracker, hint, registration_complete, rw_panicked,
                       rw_panic, bpc, complete_seen, range_start, range_end, notified,
                       max_resolved, batch, ran, stopped>>
    BY DEF RW!ClosurePanics, RW!Channel!Fail, RW!value_vars, RW!comm_vars, RW!broker_vars
  <1>2. bpc = "execute"
    BY <1>1, TaskFacts DEF MtInv
  <1>3. /\ GuideInv' /\ ClientInv' /\ ValueInv' /\ InputsInv' /\ Awaited' /\ FinalInv'
        /\ OrderGrows /\ UNCHANGED <<order, loc, rpc, unwinding>>
    BY <1>1, BrokerFrame
  <1>4. WindowInv'
    BY <1>1, <1>2, <1>3 DEF MtInv, WindowInv
  <1>5. PanicInv' /\ Told'
    BY <1>1, <1>2, <1>3 DEF MtInv, PanicInv, Told
  <1> QED
    BY <1>1, <1>3, <1>4, <1>5 DEF MtInv

LEMMA BrokerInv ==
    ASSUME MtInv, Broker
    PROVE  MtInv'
  BY LoadInv, ExtendInv, HintInv, SendBatchInv, BatchDoneInv, NotifyInv, PanicStepsInv
  DEF Broker, RW!Broker

LEMMA StutterInv ==
    ASSUME MtInv, UNCHANGED vars
    PROVE  MtInv'
  <1>1. /\ UNCHANGED client_vars /\ UNCHANGED guide_vars
        /\ UNCHANGED <<tracked, resolved, tracker, hint, registration_complete, rw_panicked,
                       rw_panic, bpc, complete_seen, range_start, range_end, notified,
                       max_resolved, batch, ran, failed, stopped>>
    BY DEF vars, value_vars, comm_vars, broker_vars, chan_vars
  <1>2. /\ GuideInv' /\ ClientInv' /\ ValueInv' /\ InputsInv' /\ Awaited' /\ FinalInv'
        /\ OrderGrows /\ UNCHANGED <<order, loc, rpc, unwinding>>
    BY <1>1, BrokerFrame
  <1>3. WindowInv' /\ PanicInv' /\ Told'
    BY <1>1, <1>2 DEF MtInv, WindowInv, PanicInv, Told
  <1> QED
    BY <1>2, <1>3 DEF MtInv

(* Every step preserves the invariant. *)
LEMMA NextMtInv ==
    ASSUME MtInv, [Next]_vars
    PROVE  MtInv'
  <1>1. CASE Call
    BY <1>1, SetValueInv, AddResolutionInv, GetAwaiterInv DEF Call
  <1>2. CASE FinalFlush
    BY <1>2, FinalFlushInv
  <1>3. CASE InCall
    BY <1>3, InternalizeInv, StoreHintInv, TrackInv, FacadeStepInv DEF InCall
  <1>4. CASE Broker
    BY <1>4, BrokerInv
  <1>5. CASE Workers
    BY <1>5, InvokeInv, ClosurePanicsInv DEF Workers, RW!Workers
  <1>6. CASE Ended \/ UNCHANGED vars
    BY <1>6, StutterInv DEF Ended
  <1> QED
    BY <1>1, <1>2, <1>3, <1>4, <1>5, <1>6 DEF Next

LEMMA MtInvariance == Spec => []MtInv
  BY InitMtInv, NextMtInv, PTL DEF Spec

-----------------------------------------------------------------------------
(* Theorems *)

(* The state of all three kinds of threads keeps its types: nothing resolved is
   untracked, the window stays between what was drained and what was written and never
   outgrows the buffer, and what is released are tasks of the order. *)
THEOREM MtTypeCorrect == Spec => []MtTypeOK
  BY TypesOK, MtInvariance, PTL

(* The assertions of Worker::invoke hold of every task the broker releases, in
   whatever order the workers take the batch and whatever the registration thread does
   meanwhile: the inputs are tracked and resolved, the outputs are not. *)
THEOREM BatchesAreReady == Spec => []BatchTasksReady
  <1>1. MtInv => BatchTasksReady
    BY BatchReady DEF MtInv
  <1> QED
    BY <1>1, MtInvariance, PTL

(* What the registration thread wrote into the execution order has its metadata
   before a worker can mark it resolved, and track_values finds no output of the
   resolver it just pushed tracked already. *)
THEOREM ReleasedAreTracked == Spec => []ReleasedIsTracked
  <1>1. MtInv => ReleasedIsTracked
    BY ReleasedTracked DEF MtInv
  <1> QED
    BY <1>1, MtInvariance, PTL

(* The broker has drained the window up to max_resolved, so that a place whose tracker
   does not come later has its value. *)
LEMMA UpToMaxResolved ==
    ASSUME MtInv, NEW p \in tracked, ~Precedes(max_resolved, tracker[p])
    PROVE  p \in resolved
  <1>1. /\ GuideInv /\ ClientInv /\ ValueInv /\ WindowInv /\ Told
        /\ p \in Places /\ Len(order) \in Nat
    BY OrderFacts DEF MtInv, ValueInv
  <1>2. CASE p \in Given
    BY <1>1, <1>2 DEF ValueInv
  <1>3. ASSUME NEW s \in TrackedItems, p \in pushed[s].outs
        PROVE  p \in resolved
    <2>1. s \in 1 .. Len(loc) /\ loc[s] \in GuideLocs /\ loc[s].id > 0 /\ tracker[p] = loc[s]
      BY <1>1, <1>3, ItemFacts DEF MtInv, InputsInv, ValueInv
    <2>2. ~Precedes(max_resolved, loc[s])
      BY <2>1
    <2>3. max_resolved # DefaultLoc
      <3>1. loc[s].id \in Nat /\ DefaultLoc.id = 0
        BY <2>1 DEF GuideLocs, DefaultLoc
      <3>2. Precedes(DefaultLoc, loc[s])
        BY <2>1, <3>1 DEF Precedes
      <3> QED
        BY <2>2, <3>2
    <2>4. PICK m \in 1 .. notified : max_resolved = loc[order[m].item]
      BY <1>1, <2>3 DEF Told
    <2>5. /\ m \in 1 .. Len(order) /\ m <= range_start /\ range_start \in Nat /\ m \in Nat
          /\ 0 .. range_start - 1 \subseteq ran
      BY <1>1 DEF WindowInv
    <2> DEFINE lm == loc[order[m].item]
    <2>6. lm.id < first_id /\ lm \in GuideLocs /\ first_id \in Nat
      <3>1. order[m].item \in Items
        BY <1>1, <2>5, OrderFacts
      <3> QED
        BY <1>1, <2>5, <3>1, ItemFacts, GuideTypes DEF GuideInv, Inv, Sorted
    <2>7. loc[s].id < first_id
      <3>1. loc[s].id <= lm.id
        BY <2>1, <2>2, <2>4, <2>6 DEF Precedes, GuideLocs
      <3> QED
        BY <2>1, <2>6, <3>1 DEF GuideLocs
    <2>8. PICK k \in 1 .. Len(order) : order[k].item = s
      BY <1>1, <2>1, <2>7, ReleasedItem
    <2>9. k <= m
      <3>1. m < k => Precedes(lm, loc[s])
        BY <1>1, <2>5, <2>8 DEF GuideInv, Inv, Sorted
      <3> QED
        BY <1>1, <2>2, <2>4, <2>5, <3>1
    <2>10. k - 1 \in ran /\ order[(k - 1) + 1].item = s
      <3>1. k - 1 \in 0 .. range_start - 1 /\ (k - 1) + 1 = k
        BY <1>1, <2>5, <2>9
      <3> QED
        BY <2>5, <2>8, <3>1
    <2> QED
      BY <1>1, <1>3, <2>10 DEF ValueInv
  <1>4. p \in Given \/ \E s \in TrackedItems : p \in pushed[s].outs
    BY <1>1 DEF ValueInv
  <1> QED
    BY <1>2, <1>3, <1>4

(* Only the waiting thread ends a wait. *)
LEMMA WaitEnds ==
    ASSUME MtInv, [Next]_vars, rpc \in {"wait", "wait_panic"}, rpc' = "idle", ~unwinding'
    PROVE  awaiting \subseteq resolved
  <1>1. FacadeStep
    <2>1. rpc' # rpc
      OBVIOUS
    <2>2. ~Call /\ ~FinalFlush
      BY DEF Call, SetValue, AddResolution, GetAwaiter, FinalFlush
    <2>3. ~Broker /\ ~Workers /\ ~Ended /\ ~UNCHANGED vars
      BY <2>1 DEF Broker, Workers, Ended, vars, client_vars
    <2>4. InCall
      BY <2>2, <2>3 DEF Next
    <2> QED
      BY <2>4 DEF InCall, Internalize, StoreHint, Track
  <1>2. CASE Facade!AwaitCheck
    <2>1. ~Precedes(max_resolved, track_id)
      BY <1>2 DEF Facade!AwaitCheck
    <2>2. /\ GuideInv /\ ClientInv /\ ValueInv /\ WindowInv /\ Told
          /\ awaiting \subseteq tracked /\ \A p \in awaiting : ~Precedes(track_id, tracker[p])
          /\ track_id \in GuideLocs
      BY DEF MtInv, Awaited, ClientInv
    <2> SUFFICES ASSUME NEW p \in awaiting PROVE p \in resolved
      OBVIOUS
    <2>3. tracker[p] \in GuideLocs /\ p \in tracked
      BY <2>2 DEF ValueInv
    <2>4. ~Precedes(max_resolved, tracker[p])
      BY <2>1, <2>2, <2>3, MaxResolvedFacts, PrecedesOrder
    <2> QED
      BY <2>3, <2>4, UpToMaxResolved
  <1>3. CASE Facade!AwaitCheckPanic
    <2>1. rw_panicked /\ unwinding' = (unwinding \/ (rw_panicked /\ rw_panic))
      BY <1>3 DEF Facade!AwaitCheckPanic
    <2>2. rw_panicked => rw_panic \/ unwinding
      BY DEF MtInv, PanicInv
    <2> QED
      BY <2>1, <2>2
  <1>4. Facade!AwaitCheck \/ Facade!AwaitCheckPanic
    BY <1>1 DEF FacadeStep, Facade!Step, Facade!Complete, Facade!Join
  <1> QED
    BY <1>2, <1>3, <1>4

(* Awaiter::wait returns to values that are there, or unwinds: the largest tracker
   stands for all the awaited places, although the resolvers of one span complete in
   batches and the notification overtakes none of them; and a panic that is announced
   has its payload. *)
THEOREM AwaitedAreResolved == Spec => AwaitedResolved
  <1>1. MtInv /\ [Next]_vars =>
            [(rpc \in {"wait", "wait_panic"} /\ rpc' = "idle" /\ ~unwinding') =>
                awaiting \subseteq resolved]_vars
    BY WaitEnds
  <1> QED
    BY <1>1, MtInvariance, PTL DEF Spec, AwaitedResolved

(* When all calls are made, the first place that is not tracked is computed from places
   that are: its resolver is not delayed. *)
THEOREM NothingIsStuck ==
    ASSUME \A c \in Circuits : InComputationOrder(c)
    PROVE  Spec => []NoResolverStuck
  <1>1. MtInv => NoResolverStuck
    <2> SUFFICES ASSUME MtInv, rpc = "idle", todo = {}, unset = {}, delayed # {}
                 PROVE  FALSE
      BY DEF NoResolverStuck
    <2>1. /\ GuideInv /\ ClientInv /\ ValueInv /\ InputsInv
          /\ circuit \in Circuits /\ work = {} /\ tracked \subseteq Places
      BY DEF MtInv, ClientInv, ValueInv
    <2>2. TrackedItems = Items /\ Given = circuit.set
      BY <2>1 DEF InGuide, TrackedItems, Given
    <2> DEFINE p == MaxTracked(tracked) + 1
    <2>3. PICK r \in delayed : MaxIx(r.ins) > MaxTracked(tracked)
      BY <2>1 DEF InputsInv
    <2>4. r \in circuit.resolvers /\ r.ins \subseteq Places
      BY <2>1, CircuitFacts DEF ClientInv
    <2>5. p \in 0 .. MaxIx(r.ins) /\ p \notin tracked /\ p \in Places
      <3>1. /\ MaxTracked(tracked) \in Int /\ MaxTracked(tracked) >= -1 /\ p \notin tracked
            /\ MaxIx(r.ins) \in Int /\ MaxIx(r.ins) \in r.ins \cup {-1}
        BY <2>1, <2>4, MaxTrackedIsRun, MaxIxIsMax
      <3>2. MaxIx(r.ins) \in Places
        BY <2>3, <2>4, <3>1
      <3> QED
        BY <2>3, <3>1, <3>2, PlaceCntAssumption DEF Places
    <2>6. p \notin circuit.set
      BY <2>1, <2>2, <2>5 DEF ValueInv
    <2>7. PICK q \in circuit.resolvers : p \in q.outs /\ \A i \in q.ins : i < p
      BY <2>1, <2>4, <2>5, <2>6 DEF InComputationOrder
    <2>8. q \in delayed
      <3>1. ~ \E t \in Items : pushed[t] = q
        BY <2>1, <2>2, <2>5, <2>7 DEF ValueInv
      <3> QED
        BY <2>1, <3>1 DEF ClientInv
    <2>9. MaxIx(q.ins) > MaxTracked(tracked) /\ q.ins \subseteq Places
      BY <2>1, <2>7, <2>8, CircuitFacts DEF InputsInv
    <2>10. /\ MaxTracked(tracked) \in Int /\ MaxTracked(tracked) >= -1
           /\ MaxIx(q.ins) \in Int /\ MaxIx(q.ins) \in q.ins \cup {-1}
      BY <2>1, <2>9, MaxTrackedIsRun, MaxIxIsMax
    <2>11. MaxIx(q.ins) \in q.ins
      BY <2>9, <2>10
    <2>12. MaxIx(q.ins) < p
      BY <2>7, <2>11
    <2> QED
      BY <2>9, <2>10, <2>12
  <1> QED
    BY <1>1, MtInvariance, PTL

-----------------------------------------------------------------------------
(* The resolver implements WitnessDag *)

Known == circuit.resolvers \ todo
Applied == {RW!ResolverAt(t) : t \in ran}
Status == IF unwinding THEN "panicked" ELSE IF rpc = "ended" THEN "done" ELSE "open"

LEMMA DagState ==
    Dag!vars = <<Known, Applied, resolved, failed, Status>>
  BY DEF Dag!vars, Known, Applied, Status

(* What ran is what was pushed at its places of the order. *)
LEMMA AppliedFacts ==
    ASSUME MtInv
    PROVE  /\ \A t \in ran \cup batch : RW!ResolverAt(t) = pushed[order[t + 1].item]
           /\ Applied = {pushed[order[t + 1].item] : t \in ran}
  <1>1. /\ GuideInv /\ ClientInv /\ WindowInv /\ order \in Seq(OrderInfos)
    BY OrderFacts DEF MtInv
  <1>2. \A t \in ran \cup batch : RW!ResolverAt(t) = pushed[order[t + 1].item]
    BY <1>1, TaskFacts, TaskResolver
  <1> QED
    BY <1>2 DEF Applied

(* It does not change when the order and the record of what was pushed grow. *)
LEMMA AppliedKept ==
    ASSUME MtInv, MtInv', OrderGrows, UNCHANGED <<ran, batch>>,
           \A t \in Items : pushed'[t] = pushed[t]
    PROVE  Applied' = Applied
  <1>1. Applied = {pushed[order[t + 1].item] : t \in ran}
    BY AppliedFacts
  <1>2. Applied' = {pushed'[order'[t + 1].item] : t \in ran'}
    <2>1. order' \in Seq(OrderInfos) /\ DOMAIN order' = 1 .. Len(order')
      BY DEF MtInv, GuideInv, Inv, Typed
    <2>2. \A t \in ran' : t + 1 \in 1 .. Len(order')
      BY TaskFacts DEF MtInv, OrderGrows
    <2>3. \A t \in ran' : RW!ResolverAt(t)' = pushed'[order'[t + 1].item]
      BY <2>1, <2>2 DEF RW!ResolverAt
    <2> QED
      BY <2>3 DEF Applied
  <1>3. \A t \in ran : pushed'[order'[t + 1].item] = pushed[order[t + 1].item]
    <2>1. \A t \in ran : order'[t + 1] = order[t + 1]
      BY OrderKept DEF MtInv
    <2>2. \A t \in ran : order[t + 1].item \in Items
      BY TaskFacts DEF MtInv
    <2> QED
      BY <2>1, <2>2
  <1> QED
    BY <1>1, <1>2, <1>3

LEMMA AppliedSame ==
    ASSUME UNCHANGED <<order, pushed, ran>>
    PROVE  Applied' = Applied
  BY DEF Applied, RW!ResolverAt

(* What the registration thread does with its sorter is not seen. *)
LEMMA RegistrationStutters ==
    ASSUME MtInv, MtInv', OrderGrows, \A t \in Items : pushed'[t] = pushed[t],
           UNCHANGED <<circuit, todo, resolved, failed, unwinding, ran, batch>>,
           rpc # "ended", rpc' # "ended"
    PROVE  UNCHANGED Dag!vars
  <1>1. Applied' = Applied
    BY AppliedKept
  <1>2. Known' = Known /\ Status' = Status
    BY DEF Known, Status
  <1>3. Dag!vars' = <<Known', Applied', resolved', failed', Status'>>
    BY DEF Dag!vars, Known, Applied, Status
  <1> QED
    BY <1>1, <1>2, <1>3, DagState

LEMMA SetValueStep ==
    ASSUME MtInv, NEW p \in unset, SetValue(p), ~unwinding
    PROVE  Dag!Next
  <1>1. /\ GuideInv /\ ClientInv /\ ValueInv /\ WindowInv
    BY DEF MtInv
  <1>2. /\ rpc = "idle" /\ rpc' \in {"idle", "internalize"} /\ resolved' = resolved \cup {p}
        /\ UNCHANGED <<circuit, todo, pushed, unwinding, failed, ran, order>>
    BY DEF SetValue, chan_vars, guide_vars
  <1>3. p \in circuit.set /\ p \in Places /\ p \notin Given
    BY <1>1, CircuitFacts DEF ClientInv, Given
  <1>4. p \notin resolved
    <2>1. \A t \in ran : p \notin pushed[order[t + 1].item].outs
      BY <1>1, <1>3, TaskFacts, ItemFacts
    <2> QED
      BY <1>1, <1>3, <2>1 DEF ValueInv
  <1>5. Known' = Known /\ Applied' = Applied /\ Status' = Status
    BY <1>2, AppliedSame DEF Known, Status
  <1>6. Dag!SetValue(p)
    BY <1>2, <1>4, <1>5 DEF Dag!SetValue, Known, Applied, Status
  <1> QED
    BY <1>3, <1>6 DEF Dag!Next

LEMMA AddResolutionStep ==
    ASSUME MtInv, NEW r \in todo, AddResolution(r), ~unwinding
    PROVE  Dag!Next
  <1>1. /\ rpc = "idle" /\ todo' = todo \ {r}
        /\ UNCHANGED <<circuit, pushed, unwinding, failed, ran, order, resolved>>
    BY DEF AddResolution, chan_vars, guide_vars, value_vars
  <1>2. rpc' \in {"idle", "internalize"}
    BY <1>1 DEF AddResolution
  <1>3. r \in circuit.resolvers /\ circuit \in Circuits
    BY DEF MtInv, ClientInv
  <1>4. Known' = Known \cup {r} /\ r \notin Known
    BY <1>1, <1>3 DEF Known
  <1>5. Applied' = Applied /\ Status' = Status
    BY <1>1, <1>2, AppliedSame DEF Status
  <1>6. Dag!Register(r)
    BY <1>1, <1>4, <1>5 DEF Dag!Register, Known, Applied, Status
  <1>7. r \in UNION {c.resolvers : c \in Circuits}
    BY <1>3
  <1> QED
    BY <1>6, <1>7 DEF Dag!Next

(* A task of the batch that has not run is known and not applied. *)
LEMMA TaskKnown ==
    ASSUME MtInv, NEW t \in batch \ ran
    PROVE  /\ RW!ResolverAt(t) \in Known /\ RW!ResolverAt(t) \notin Applied
           /\ RW!ResolverAt(t).ins \subseteq resolved
           /\ RW!ResolverAt(t).outs \cap resolved = {}
  <1>1. /\ GuideInv /\ ClientInv /\ ValueInv /\ InputsInv /\ WindowInv
    BY DEF MtInv
  <1> DEFINE item == order[t + 1].item
  <1>2. /\ RW!ResolverAt(t) = pushed[item]
        /\ Applied = {pushed[order[s + 1].item] : s \in ran}
    BY AppliedFacts
  <1>3. /\ t \in Nat /\ t + 1 \in 1 .. Len(order) /\ item \in Items
    BY <1>1, TaskFacts
  <1>4. pushed[item] \in Known
    BY <1>1, <1>3, ItemFacts DEF ClientInv, Known
  <1>5. ASSUME NEW s \in ran, pushed[order[s + 1].item] = pushed[item]
        PROVE  FALSE
    <2>1. s \in Nat /\ s + 1 \in 1 .. Len(order) /\ order[s + 1].item \in Items
      BY <1>1, TaskFacts
    <2>2. order[s + 1].item = item
      BY <1>1, <1>3, <1>5, <2>1 DEF ClientInv
    <2>3. s + 1 = t + 1
      BY <1>1, <1>3, <2>1, <2>2, OrderFacts
    <2>4. s = t
      BY <1>3, <2>1, <2>3
    <2> QED
      BY <2>4
  <1> HIDE DEF item
  <1>6. pushed[item] \notin Applied
    BY <1>2, <1>5
  <1>7. pushed[item].ins \subseteq resolved /\ pushed[item].outs \cap resolved = {}
    BY <1>1, TaskReady DEF item
  <1> QED
    BY <1>2, <1>4, <1>6, <1>7

LEMMA WorkersStep ==
    ASSUME MtInv, Workers
    PROVE  Dag!Next
  <1>1. PICK t : RW!Invoke(t) \/ RW!ClosurePanics(t)
    BY DEF Workers, RW!Workers
  <1>2. UNCHANGED client_vars /\ UNCHANGED guide_vars
    BY DEF Workers
  <1>3. /\ UNCHANGED <<circuit, todo, pushed, unwinding, rpc, order>>
        /\ Known' = Known /\ Status' = Status
    BY <1>2 DEF client_vars, guide_vars, Known, Status
  <1>4. t \in batch \ ran
    BY <1>1 DEF RW!Invoke, RW!ClosurePanics
  <1> DEFINE r == RW!ResolverAt(t)
  <1>5. r \in Known \ Applied /\ r.ins \subseteq resolved /\ r.outs \cap resolved = {}
    BY <1>4, TaskKnown
  <1>6. CASE RW!Invoke(t)
    <2>1. ran' = ran \cup {t} /\ failed' = failed /\ resolved' = resolved \cup r.outs
      BY <1>2, <1>6, InvokeInv
    <2>2. Applied' = Applied \cup {r}
      <3>1. \A s : RW!ResolverAt(s)' = RW!ResolverAt(s)
        BY <1>3 DEF RW!ResolverAt
      <3> QED
        BY <2>1, <3>1 DEF Applied
    <2>3. Dag!Apply(r)
      BY <1>3, <1>5, <2>1, <2>2 DEF Dag!Apply, Dag!Ready, Known, Applied, Status
    <2> QED
      BY <1>5, <2>3 DEF Dag!Next, Known, Applied
  <1>7. CASE RW!ClosurePanics(t)
    <2>1. failed' = TRUE /\ UNCHANGED <<resolved, ran>>
      BY <1>2, <1>7, ClosurePanicsInv
    <2>2. Applied' = Applied
      BY <1>3, <2>1, AppliedSame
    <2>3. Dag!Fail(r)
      BY <1>3, <1>5, <2>1, <2>2 DEF Dag!Fail, Dag!Ready, Known, Applied, Status
    <2> QED
      BY <1>5, <2>3 DEF Dag!Next, Known, Applied
  <1> QED
    BY <1>1, <1>6, <1>7

(* When the registration thread joined the broker and no panic is left to resume, all
   resolvers of the circuit ran. *)
LEMMA JoinedIsDone ==
    ASSUME MtInv, rpc = "join", bpc = "ended", ~unwinding, ~(rw_panicked /\ rw_panic)
    PROVE  ~failed /\ Applied = Known
  <1>1. /\ GuideInv /\ ClientInv /\ WindowInv /\ PanicInv /\ FinalInv
    BY DEF MtInv
  <1>2. ~failed /\ range_start = Len(order)
    BY <1>1 DEF PanicInv
  <1>3. ran = 0 .. Len(order) - 1 /\ Len(order) \in Nat
    BY <1>1, <1>2, OrderFacts DEF WindowInv
  <1>4. /\ todo = {} /\ delayed = {} /\ work = {} /\ \A i \in SpanIxs : spans[i] = << >>
    BY <1>1 DEF FinalInv, ClientInv
  <1>5. Applied = {pushed[order[t + 1].item] : t \in ran}
    BY AppliedFacts
  <1>6. Applied \subseteq Known
    <2>1. \A t \in ran : pushed[order[t + 1].item] \in circuit.resolvers
      BY <1>1, TaskFacts, ItemFacts
    <2> QED
      BY <1>4, <1>5, <2>1 DEF Known
  <1>7. ASSUME NEW r \in Known
        PROVE  r \in Applied
    <2>1. PICK s \in Items : pushed[s] = r
      BY <1>1, <1>4 DEF ClientInv, Known
    <2>2. \A i \in SpanIxs : 1 .. Len(spans[i]) = {}
      BY <1>4
    <2>3. PICK k \in 1 .. Len(order) : order[k].item = s
      BY <1>1, <2>1, <2>2 DEF GuideInv, Inv, Complete, Items
    <2>4. k - 1 \in ran /\ (k - 1) + 1 = k
      BY <1>3
    <2> QED
      BY <1>5, <2>1, <2>3, <2>4
  <1> QED
    BY <1>2, <1>6, <1>7

LEMMA FacadeStepStep ==
    ASSUME MtInv, FacadeStep
    PROVE  Dag!Next \/ UNCHANGED Dag!vars
  <1>1. /\ UNCHANGED <<circuit, todo, pushed, resolved, failed, ran, order>>
    BY DEF FacadeStep, value_vars, chan_vars, guide_vars
  <1>2. Known' = Known /\ Applied' = Applied
    BY <1>1, AppliedSame DEF Known
  <1>3. Dag!vars' = <<Known', Applied', resolved', failed', Status'>>
    BY DEF Dag!vars, Known, Applied, Status
  <1>4. Status' = Status => UNCHANGED Dag!vars
    BY <1>1, <1>2, <1>3, DagState
  <1>5. PanicInv /\ unwinding \in BOOLEAN
    BY DEF MtInv, ClientInv
  <1>6. rw_panicked => failed = TRUE
    BY <1>5 DEF PanicInv
  <1>7. ASSUME Status = "open", failed = TRUE, Status' = "panicked"
        PROVE  Dag!Next
    <2>1. Dag!Panic
      BY <1>1, <1>2, <1>7 DEF Dag!Panic, Known, Applied, Status
    <2> QED
      BY <2>1 DEF Dag!Next
  <1>8. CASE Facade!AwaitCheck \/ Facade!Complete
    <2>1. rpc # "ended" /\ rpc' # "ended" /\ unwinding' = unwinding
      BY <1>8 DEF Facade!AwaitCheck, Facade!Complete
    <2> QED
      BY <1>4, <2>1 DEF Status
  <1>9. CASE Facade!AwaitCheckPanic
    <2>1. /\ rpc # "ended" /\ rpc' # "ended"
          /\ unwinding' = (unwinding \/ (rw_panicked /\ rw_panic))
      BY <1>9 DEF Facade!AwaitCheckPanic
    <2>2. CASE unwinding \/ ~(rw_panicked /\ rw_panic)
      <3>1. Status' = Status
        BY <2>1, <2>2 DEF Status
      <3> QED
        BY <1>4, <3>1
    <2>3. CASE ~unwinding /\ rw_panicked /\ rw_panic
      <3>1. Status = "open" /\ Status' = "panicked"
        BY <2>1, <2>3 DEF Status
      <3> QED
        BY <1>6, <1>7, <2>3, <3>1
    <2> QED
      BY <2>2, <2>3
  <1>10. CASE Facade!Join
    <2>1. /\ rpc = "join" /\ bpc = "ended" /\ rpc' = "ended"
          /\ unwinding' = (unwinding \/ (rw_panicked /\ rw_panic))
      BY <1>10 DEF Facade!Join
    <2>2. CASE unwinding
      <3>1. Status' = Status
        BY <2>1, <2>2 DEF Status
      <3> QED
        BY <1>4, <3>1
    <2>3. CASE ~unwinding /\ rw_panicked /\ rw_panic
      <3>1. Status = "open" /\ Status' = "panicked"
        BY <2>1, <2>3 DEF Status
      <3> QED
        BY <1>6, <1>7, <2>3, <3>1
    <2>4. CASE ~unwinding /\ ~(rw_panicked /\ rw_panic)
      <3>1. Status = "open" /\ Status' = "done"
        BY <2>1, <2>4 DEF Status
      <3>2. ~failed /\ Applied = Known
        BY <2>1, <2>4, JoinedIsDone
      <3>3. Dag!Done
        BY <1>1, <1>2, <3>1, <3>2 DEF Dag!Done, Known, Applied, Status
      <3> QED
        BY <3>3 DEF Dag!Next
    <2> QED
      BY <2>2, <2>3, <2>4
  <1> QED
    BY <1>8, <1>9, <1>10 DEF FacadeStep, Facade!Step

LEMMA BrokerStutters ==
    ASSUME MtInv, Broker
    PROVE  UNCHANGED Dag!vars
  <1>1. UNCHANGED <<circuit, todo, rpc, unwinding, pushed, order>>
    BY DEF Broker, client_vars, guide_vars
  <1>2. UNCHANGED <<resolved, ran, failed>>
    BY DEF Broker, RW!Broker, RW!Load, RW!Extend, RW!TakeHint, RW!SeeComplete, RW!SendBatch,
           RW!BatchDone, RW!Notify, RW!StorePanic, RW!RaisePanicked, RW!KillPool,
           RW!Channel!Release, RW!Channel!Close, RW!Channel!Stop, RW!value_vars, RW!chan_vars
  <1>3. Known' = Known /\ Applied' = Applied /\ Status' = Status
    BY <1>1, <1>2, AppliedSame DEF Known, Status
  <1>4. Dag!vars' = <<Known', Applied', resolved', failed', Status'>>
    BY DEF Dag!vars, Known, Applied, Status
  <1> QED
    BY <1>2, <1>3, <1>4, DagState

LEMMA InCallStep ==
    ASSUME MtInv, MtInv', InCall
    PROVE  Dag!Next \/ UNCHANGED Dag!vars
  <1>1. CASE \E r \in work : Internalize(r)
    <2>1. PICK r \in work : Internalize(r)
      BY <1>1
    <2>2. OrderGrows /\ \A t \in Items : pushed'[t] = pushed[t]
      BY <2>1, InternalizeInv
    <2>3. /\ rpc # "ended" /\ rpc' # "ended"
          /\ UNCHANGED <<circuit, todo, resolved, failed, unwinding, ran, batch>>
      BY <2>1 DEF Internalize, value_vars, chan_vars
    <2> QED
      BY <2>2, <2>3, RegistrationStutters
  <1>2. CASE StoreHint
    <2>1. /\ rpc # "ended" /\ rpc' # "ended"
          /\ UNCHANGED <<circuit, todo, resolved, failed, unwinding, ran, batch, pushed, order>>
      BY <1>2 DEF StoreHint, value_vars, chan_vars, guide_vars
    <2>2. OrderGrows
      BY <2>1, SameOrderGrows DEF MtInv
    <2> QED
      BY <2>1, <2>2, RegistrationStutters
  <1>3. CASE Track
    <2>1. /\ rpc # "ended" /\ rpc' # "ended" /\ cur.outs \cap tracked = {}
          /\ resolved' = resolved \ cur.outs
          /\ UNCHANGED <<circuit, todo, failed, unwinding, ran, batch, pushed, order>>
      BY <1>3 DEF Track, chan_vars, guide_vars
    <2>2. resolved' = resolved
      BY <2>1, ResolvedIsTracked DEF MtInv
    <2>3. OrderGrows
      BY <2>1, SameOrderGrows DEF MtInv
    <2> QED
      BY <2>1, <2>2, <2>3, RegistrationStutters
  <1>4. CASE FacadeStep
    BY <1>4, FacadeStepStep
  <1> QED
    BY <1>1, <1>2, <1>3, <1>4 DEF InCall

LEMMA FlushesStutter ==
    ASSUME MtInv, MtInv', FinalFlush \/ \E places \in (SUBSET Places) \ {{}} : GetAwaiter(places)
    PROVE  UNCHANGED Dag!vars
  <1>1. /\ rpc # "ended" /\ rpc' # "ended" /\ (Flush \/ UNCHANGED guide_vars)
        /\ UNCHANGED <<circuit, todo, resolved, failed, unwinding, ran, batch, pushed>>
    BY DEF FinalFlush, GetAwaiter, value_vars, chan_vars
  <1>2. OrderGrows
    BY <1>1, FlushGrows, SameOrderGrows DEF MtInv, guide_vars
  <1> QED
    BY <1>1, <1>2, RegistrationStutters

LEMMA StepImplements ==
    ASSUME MtInv, MtInv', [Next]_vars
    PROVE  [Dag!Next]_(Dag!vars)
  <1>1. CASE Call
    BY <1>1, SetValueStep, AddResolutionStep, FlushesStutter DEF Call
  <1>2. CASE FinalFlush
    BY <1>2, FlushesStutter
  <1>3. CASE InCall
    BY <1>3, InCallStep
  <1>4. CASE Broker
    BY <1>4, BrokerStutters
  <1>5. CASE Workers
    BY <1>5, WorkersStep
  <1>6. CASE Ended \/ UNCHANGED vars
    <2>1. UNCHANGED <<circuit, todo, rpc, unwinding, pushed, order, resolved, ran, failed>>
      BY <1>6 DEF Ended, vars, client_vars, value_vars, chan_vars, guide_vars
    <2>2. Known' = Known /\ Applied' = Applied /\ Status' = Status
      BY <2>1, AppliedSame DEF Known, Status
    <2>3. Dag!vars' = <<Known', Applied', resolved', failed', Status'>>
      BY DEF Dag!vars, Known, Applied, Status
    <2> QED
      BY <2>1, <2>2, <2>3, DagState
  <1> QED
    BY <1>1, <1>2, <1>3, <1>4, <1>5, <1>6 DEF Next

(* The multi-threaded resolver keeps the promises of CircuitResolver for every circuit
   and interleaving: what the registration thread, the broker and the workers do is a
   resolver running once, after its inputs, or nothing; wait_till_resolved ends
   normally only when all ran, and a closure's panic is resumed on the client. *)
THEOREM MtRefinesWitnessDag == Spec => ImplementsWitnessDag
  <1>1. Init => Dag!Init
    <2> SUFFICES ASSUME Init PROVE Dag!Init
      OBVIOUS
    <2>1. /\ todo = circuit.resolvers /\ resolved = {} /\ unwinding = FALSE /\ rpc = "idle"
          /\ ran = {} /\ failed = FALSE
      BY DEF Init, RW!Init, RW!Channel!Init
    <2>2. Known = {} /\ Applied = {} /\ Status = "open"
      BY <2>1 DEF Known, Applied, Status
    <2> QED
      BY <2>1, <2>2 DEF Dag!Init, Known, Applied, Status
  <1> QED
    BY <1>1, StepImplements, MtInvariance, PTL DEF Spec, ImplementsWitnessDag, Dag!Spec
=============================================================================
