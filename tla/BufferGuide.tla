---------------------------- MODULE BufferGuide ----------------------------
(***************************************************************************)
(* The buffer guide (boojum/src/dag/guide.rs): sorts resolvers into the    *)
(* execution order as they become known.  It keeps GUIDE_SIZE spans, puts  *)
(* a resolver some spans after the last of its inputs, and releases the    *)
(* front spans with, for every item, the number of items from it on that   *)
(* may run in parallel.                                                    *)
(*                                                                         *)
(* A resolver is its push number; what it waits for is `after`, an earlier *)
(* push or 0 when every input is known without running anything.           *)
(***************************************************************************)
EXTENDS Integers, Sequences, FiniteSets, FiniteSetsExt

CONSTANTS
    GUIDE_SIZE,
    Parallelism,    \* the desired parallelism: 2^12 unless configured
    MaxItems        \* bound: resolvers pushed in a behaviour

(* parallelism is kept as u16 and two span lengths are added up in it *)
ASSUME GuideSizeAssumption == GUIDE_SIZE \in Nat /\ GUIDE_SIZE >= 2
ASSUME ParallelismAssumption == Parallelism \in 1 .. 32766
ASSUME MaxItemsAssumption == MaxItems \in Nat

VARIABLES
    first_id,   \* spans[0].id; ids of the spans are consecutive
    spans,      \* the buffered items of every span
    order,      \* the execution order written so far
    loc,        \* history: the GuideLoc push returned for each item
    after       \* history: what each item was pushed after

guide_vars == <<first_id, spans, order, loc, after>>

SpanIxs == 0 .. GUIDE_SIZE - 1
Items == 1 .. Len(loc)
GuideLocs == [id : Nat, pos : Nat]
OrderInfos == [item : 1 .. MaxItems, parallelism : Nat]

(* GuideLoc derives its order from the fields: id, then pos. *)
Precedes(l, m) == l.id < m.id \/ (l.id = m.id /\ l.pos < m.pos)

GuideTypeOK ==
    /\ first_id \in Nat
    /\ spans \in [SpanIxs -> Seq(1 .. MaxItems)]
    /\ order \in Seq(OrderInfos)
    /\ loc \in Seq(GuideLocs) /\ Len(loc) <= MaxItems
    /\ after \in Seq(0 .. MaxItems) /\ Len(after) = Len(loc)

GuideInit ==
    /\ first_id = 0
    /\ spans = [i \in SpanIxs |-> << >>]
    /\ order = << >>
    /\ loc = << >>
    /\ after = << >>

-----------------------------------------------------------------------------
(* calculate_parallelism(i) for position x of span i, A the span and B the
   next one: both full; A full; B full; neither. *)
ParallelismOf(s, i, x) ==
    LET n == Len(s[i])
        m == IF i + 1 \in SpanIxs THEN Len(s[i + 1]) ELSE 0
    IN  IF i = GUIDE_SIZE - 1 THEN n - x
        ELSE IF n >= Parallelism
             THEN IF m >= Parallelism \/ x < m THEN Parallelism
                  ELSE Max({Parallelism + m - x, 1})
             ELSE IF m >= Parallelism THEN n
                  ELSE Min({n, m + n - x})

(* GuideOrder::write of the span: its items with their parallelism. *)
Written(s, i) ==
    [k \in 1 .. Len(s[i]) |->
        [item |-> s[i][k], parallelism |-> ParallelismOf(s, i, k - 1)]]

(* Mutant: expropriate_span clears the span it moves to the back too late,
   so that a carried item is lost with it. *)
Carry_Lost(s, item) == s

(* Drop of BufferGuideOrder: a carried item goes to the last span. *)
Carry(s, item) == [s EXCEPT ![GUIDE_SIZE - 1] = Append(@, item)]

(* expropriate_span, n times. *)
Expropriated(s, n) ==
    [i \in SpanIxs |-> IF i + n \in SpanIxs THEN s[i + n] ELSE << >>]

Release(s, n) ==
    /\ order' = order \o (IF n > 0 THEN Written(s, 0) ELSE << >>)
                      \o (IF n > 1 THEN Written(s, 1) ELSE << >>)
    /\ first_id' = first_id + n

-----------------------------------------------------------------------------
(* Mutants of push: the span right after the input's is taken whatever the
   distance; a full span is taken; *)
FreeSpans_TooClose(a) ==
    LET d == loc[a].id - first_id
    IN  {i \in d + 1 .. GUIDE_SIZE - 1 : Len(spans[i]) < Parallelism}

FreeSpans_Overfull(a) ==
    LET d == loc[a].id - first_id
        near == IF loc[a].pos > Len(spans[d + 1]) THEN d + 2 ELSE d + 1
    IN  {i \in near .. GUIDE_SIZE - 1 : Len(spans[i]) <= Parallelism}

(* The spans push considers after an item a of span d, d not the last one: not
   the next span while the item's push position there would be closer to its
   start than the input is to the start of its own. *)
FreeSpans(a) ==
    LET d == loc[a].id - first_id
        near == IF loc[a].pos > Len(spans[d + 1]) THEN d + 2 ELSE d + 1
    IN  {i \in near .. GUIDE_SIZE - 1 : Len(spans[i]) < Parallelism}

Before(a) == IF a = 0 THEN TRUE ELSE loc[a].id < first_id
InLast(a) == a # 0 /\ loc[a].id = first_id + GUIDE_SIZE - 1
Between(a) == ~Before(a) /\ ~InLast(a)

(* Mutant: the location is read off the span after the release moved it. *)
LocAt_AfterRelease(i) ==
    [id |-> first_id + i + (IF Len(spans[i]) + 1 >= Parallelism THEN 1 ELSE 0),
     pos |-> Len(spans[i])]

(* The item at the largest of the locations, the last one pushed: what a resolver
   with inputs at `locs` is pushed after.  The default location of a value set
   from outside lies in span 0 or before it and leads push to span 1 like no input
   at all. *)
ItemAfter(locs) ==
    LET last(k) == loc[k] \in locs /\ \A l \in locs : ~Precedes(loc[k], l)
    IN  IF \E k \in Items : last(k) THEN CHOOSE k \in Items : last(k) ELSE 0

(* The location of the next item of span i. *)
LocAt(i) == [id |-> first_id + i, pos |-> Len(spans[i])]

(* Mutant: the span that just filled up is released with the front span. *)
ReleasedBy_WithOwn(i) == IF Len(spans[i]) + 1 >= Parallelism THEN 2 ELSE 0

(* A push that fills span i releases span 0. *)
ReleasedBy(i) == IF Len(spans[i]) + 1 >= Parallelism THEN 1 ELSE 0

(* MatchedSpan::Existing: no input in the guide goes to span 1, else the first
   free span.  A span that fills up releases span 0. *)
PushExisting(a) ==
    /\ ~InLast(a)
    /\ Between(a) => FreeSpans(a) # {}
    /\ LET i == IF Before(a) THEN 1 ELSE Min(FreeSpans(a))
           item == Len(loc) + 1
           filled == [spans EXCEPT ![i] = Append(@, item)]
           n == ReleasedBy(i)
       IN  /\ Release(filled, n)
           /\ spans' = Expropriated(filled, n)
           /\ loc' = Append(loc, LocAt(i))
           /\ after' = Append(after, a)

(* MatchedSpan::New(n): the item is carried over to the n-th new span. *)
PushNew(a) ==
    /\ a # 0
    /\ InLast(a) \/ (Between(a) /\ FreeSpans(a) = {})
    /\ LET n == IF InLast(a) THEN 2 ELSE 1
           item == Len(loc) + 1
       IN  /\ Release(spans, n)
           /\ spans' = Carry(Expropriated(spans, n), item)
           /\ loc' = Append(loc, [id |-> first_id + GUIDE_SIZE - 1 + n, pos |-> 0])
           /\ after' = Append(after, a)

Push(a) == PushExisting(a) \/ PushNew(a)

(* What the first n spans write, one after the other. *)
written[n \in 0 .. GUIDE_SIZE] ==
    IF n = 0 THEN << >> ELSE written[n - 1] \o Written(spans, n - 1)

(* flush: every span is written and expropriated. *)
Flush ==
    /\ order' = order \o written[GUIDE_SIZE]
    /\ first_id' = first_id + GUIDE_SIZE
    /\ spans' = Expropriated(spans, GUIDE_SIZE)
    /\ UNCHANGED <<loc, after>>

GuideNext ==
    \/ Len(loc) < MaxItems /\ \E a \in 0 .. Len(loc) : Push(a)
    \/ \E i \in SpanIxs : spans[i] # << >> /\ Flush

GuideSpec == GuideInit /\ [][GuideNext]_guide_vars

-----------------------------------------------------------------------------
(* The capacity of a span, debug_assert_eq!(size, capacity) in BufferSpan::push:
   one item more than the parallelism, by an independent item pushed to a full
   span that became span 1, and never two. *)
SpanCapacity == \A i \in SpanIxs : Len(spans[i]) <= Parallelism + 1

(* Every pushed item is in exactly one place: released once, or buffered once;
   carried items and flushes lose nothing. *)
NothingLost ==
    LET released(t) == Cardinality({k \in 1 .. Len(order) : order[k].item = t})
        buffered(t) == Cardinality({p \in SpanIxs \X (1 .. MaxItems) :
                            p[2] \in 1 .. Len(spans[p[1]]) /\ spans[p[1]][p[2]] = t})
    IN  \A t \in Items : released(t) + buffered(t) = 1

(* "The GuideLoc can be used to compare relative order of two resolvers": the
   order is sorted by location, and what is still buffered comes later.  The
   awaiters compare nothing else. *)
OrderFollowsLoc ==
    /\ \A j, k \in 1 .. Len(order) :
            j < k => Precedes(loc[order[j].item], loc[order[k].item])
    /\ \A k \in 1 .. Len(order), i \in SpanIxs : \A x \in 1 .. Len(spans[i]) :
            Precedes(loc[order[k].item], loc[spans[i][x]])

(* What the resolution window relies on: it starts a batch at any k and runs
   order[k].parallelism items at once.  There is at least one, as process_buffer
   asserts, and an item of that window does not wait for an item that is not
   released yet or at or after k. *)
BatchesIndependent ==
    \A k \in 1 .. Len(order) :
        /\ order[k].parallelism > 0
        /\ \A b \in k .. Len(order) :
            LET a == after[order[b].item]
            IN  b < k + order[k].parallelism /\ a # 0 =>
                    \E i \in 1 .. k - 1 : order[i].item = a
=============================================================================
