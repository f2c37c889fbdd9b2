------------------------- MODULE BufferGuide_proofs -------------------------
(***************************************************************************)
(* Proofs about the buffer guide, for any number of spans, parallelism and *)
(* number of resolvers: no span overflows, nothing is lost, the order      *)
(* follows the locations, and the items the resolution window runs at once *)
(* do not depend on each other.                                            *)
(*                                                                         *)
(* The invariant is stated of an order o, the id f of the first span, the  *)
(* spans s and the locations l, since a push or a flush goes through       *)
(* several of these: it fills a span and releases the front spans one by   *)
(* one.                                                                    *)
(***************************************************************************)
EXTENDS BufferGuide, CommonFacts, FiniteSetTheorems, SequenceTheorems

Last == GUIDE_SIZE - 1

(* The number of items of span i, none beyond the last span. *)
SpanLen(s, i) == IF i \in SpanIxs THEN Len(s[i]) ELSE 0

-----------------------------------------------------------------------------
(* The inductive invariant *)

Typed(o, f, s, l) ==
    /\ f \in Nat
    /\ s \in [SpanIxs -> Seq(1 .. MaxItems)]
    /\ o \in Seq(OrderInfos)
    /\ l \in Seq(GuideLocs) /\ Len(l) <= MaxItems

(* A buffered item has the location of its place.  No span is longer than the
   number of items there are. *)
Placed(f, s, l) ==
    \A i \in SpanIxs : \A x \in 1 .. Len(s[i]) :
        /\ x <= s[i][x] /\ s[i][x] <= Len(l)
        /\ l[s[i][x]].id = f + i /\ l[s[i][x]].pos = x - 1

(* The order is sorted, by locations before the first span. *)
Sorted(o, f, l) ==
    /\ \A k \in 1 .. Len(o) : o[k].item \in 1 .. Len(l) /\ l[o[k].item].id < f
    /\ \A j, k \in 1 .. Len(o) : j < k => Precedes(l[o[j].item], l[o[k].item])

(* Every item is where its location says. *)
Complete(o, f, s, l) ==
    \A t \in 1 .. Len(l) :
        \/ l[t].id < f /\ \E k \in 1 .. Len(o) : o[k].item = t
        \/ \E i \in SpanIxs : \E x \in 1 .. Len(s[i]) : s[i][x] = t

(* Location l is in the span of m, or in the next one and closer to its start. *)
Near(l, m) == l.id = m.id \/ (l.id = m.id + 1 /\ l.pos < m.pos)

(* The window that starts at k holds items near its first one.  As far as it is not
   released yet it will be filled by items of the first span which are. *)
Window(o, f, s, l, k) ==
    LET end == k + o[k].parallelism - 1
    IN  /\ o[k].parallelism > 0
        /\ \A b \in k .. Len(o) : b <= end => Near(l[o[b].item], l[o[k].item])
        /\ end > Len(o) => /\ l[o[k].item].id + 1 = f
                           /\ end - Len(o) <= Len(s[0])
                           /\ end - Len(o) <= l[o[k].item].pos

Windows(o, f, s, l) == \A k \in 1 .. Len(o) : Window(o, f, s, l, k)

Inv(o, f, s, l) ==
    /\ Typed(o, f, s, l) /\ Placed(f, s, l) /\ Sorted(o, f, l)
    /\ Complete(o, f, s, l) /\ Windows(o, f, s, l)

(* An item comes in a later span than the one it was pushed after, and if that is
   the next span, not closer to its start. *)
Depends(l, a) ==
    \A t \in 1 .. Len(l) : a[t] # 0 =>
        /\ a[t] \in 1 .. Len(l)
        /\ l[a[t]].id < l[t].id
        /\ l[t].id = l[a[t]].id + 1 => l[a[t]].pos <= l[t].pos

(* Only the first span can hold one item too many. *)
Sizes(s) ==
    /\ Len(s[0]) <= Parallelism + 1
    /\ \A i \in SpanIxs \ {0} : Len(s[i]) <= Parallelism

GuideInv ==
    /\ after \in Seq(0 .. MaxItems) /\ Len(after) = Len(loc)
    /\ Inv(order, first_id, spans, loc)
    /\ Depends(loc, after)
    /\ Sizes(spans)

-----------------------------------------------------------------------------
(* The parallelism of an item *)

LEMMA GuideConstants ==
    /\ GUIDE_SIZE \in Nat /\ GUIDE_SIZE >= 2
    /\ Parallelism \in Nat /\ Parallelism > 0 /\ MaxItems \in Nat
    /\ 0 \in SpanIxs /\ 1 \in SpanIxs /\ Last \in SpanIxs
    /\ \A i \in SpanIxs : i \in Nat /\ i <= Last
  BY GuideSizeAssumption, ParallelismAssumption, MaxItemsAssumption DEF SpanIxs, Last

LEMMA MaxOfTwo ==
    ASSUME NEW a \in Int, NEW b \in Int
    PROVE  Max({a, b}) = IF a >= b THEN a ELSE b
  <1>1. Max({a, b}) \in {a, b} /\ \A s \in {a, b} : s <= Max({a, b})
    <2>1. \E b0 \in Int : \A s \in {a, b} : s <= b0
      BY a <= b \/ b <= a
    <2> QED
      BY <2>1, MaxOfBounded
  <1> QED
    BY <1>1

LEMMA MinOfTwo ==
    ASSUME NEW a \in Int, NEW b \in Int
    PROVE  Min({a, b}) = IF a <= b THEN a ELSE b
  <1>1. Min({a, b}) \in {a, b} /\ \A s \in {a, b} : Min({a, b}) <= s
    <2>1. \E b0 \in Int : \A s \in {a, b} : b0 <= s
      BY a <= b \/ b <= a
    <2> QED
      BY <2>1, MinOfBounded
  <1> QED
    BY <1>1

(* The parallelism p of the item at position x of a span of n items, with m items in
   the next: what goes beyond the span is there, and closer to the start than x. *)
Fits(n, m, x, p) ==
    /\ p \in Nat /\ p > 0
    /\ x + p > n => x + p - n <= m /\ x + p - n <= x

(* What calculate_parallelism returns fits, whichever of the two spans is full. *)
LEMMA ParallelismFits ==
    ASSUME NEW s \in [SpanIxs -> Seq(1 .. MaxItems)], NEW i \in SpanIxs,
           NEW x \in 0 .. Len(s[i]) - 1
    PROVE  Fits(Len(s[i]), SpanLen(s, i + 1), x, ParallelismOf(s, i, x))
  <1> DEFINE n == Len(s[i])
             m == SpanLen(s, i + 1)
  <1>1. n \in Nat /\ m \in Nat /\ x \in Nat /\ x < n
    BY DEF SpanLen
  <1>2. ParallelismOf(s, i, x) =
            IF i = GUIDE_SIZE - 1 THEN n - x
            ELSE IF n >= Parallelism
                 THEN IF m >= Parallelism \/ x < m THEN Parallelism
                      ELSE Max({Parallelism + m - x, 1})
                 ELSE IF m >= Parallelism THEN n ELSE Min({n, m + n - x})
    BY DEF ParallelismOf, SpanLen
  <1> HIDE DEF n, m
  <1>3. /\ Max({Parallelism + m - x, 1})
                = IF Parallelism + m - x >= 1 THEN Parallelism + m - x ELSE 1
        /\ Min({n, m + n - x}) = IF n <= m + n - x THEN n ELSE m + n - x
    <2>1. Parallelism + m - x \in Int /\ 1 \in Int /\ n \in Int /\ m + n - x \in Int
      BY <1>1, GuideConstants
    <2> QED
      BY <2>1, MaxOfTwo, MinOfTwo
  <1>4. ParallelismOf(s, i, x) =
            IF i = GUIDE_SIZE - 1 THEN n - x
            ELSE IF n >= Parallelism
                 THEN IF m >= Parallelism \/ x < m THEN Parallelism
                      ELSE IF Parallelism + m - x >= 1 THEN Parallelism + m - x ELSE 1
                 ELSE IF m >= Parallelism THEN n
                      ELSE IF n <= m + n - x THEN n ELSE m + n - x
    BY <1>2, <1>3
  <1>5. Parallelism \in Nat /\ Parallelism > 0
    BY GuideConstants
  <1>6. Fits(n, m, x, ParallelismOf(s, i, x))
    BY <1>1, <1>4, <1>5 DEF Fits
  <1> QED
    BY <1>6 DEF n, m

(* What a span writes: its items in their order, each with a parallelism that fits. *)
WritesSpan(w, s, i) ==
    /\ w \in Seq(OrderInfos) /\ Len(w) = Len(s[i])
    /\ \A k \in 1 .. Len(s[i]) :
            /\ w[k].item = s[i][k]
            /\ Fits(Len(s[i]), SpanLen(s, i + 1), k - 1, w[k].parallelism)

LEMMA WrittenWrites ==
    ASSUME NEW s \in [SpanIxs -> Seq(1 .. MaxItems)], NEW i \in SpanIxs
    PROVE  WritesSpan(Written(s, i), s, i)
  <1> DEFINE n == Len(s[i])
             e(k) == [item |-> s[i][k], parallelism |-> ParallelismOf(s, i, k - 1)]
  <1>1. n \in Nat /\ s[i] \in Seq(1 .. MaxItems)
    OBVIOUS
  <1>2. \A k \in 1 .. n : Fits(n, SpanLen(s, i + 1), k - 1, ParallelismOf(s, i, k - 1))
    <2> TAKE k \in 1 .. n
    <2>1. k - 1 \in 0 .. n - 1
      BY <1>1
    <2> QED
      BY <2>1, ParallelismFits
  <1>3. \A k \in 1 .. n : e(k) \in OrderInfos
    <2> TAKE k \in 1 .. n
    <2>1. s[i][k] \in 1 .. MaxItems
      BY <1>1, ElementOfSeq
    <2>2. ParallelismOf(s, i, k - 1) \in Nat
      BY <1>2 DEF Fits
    <2> QED
      BY <2>1, <2>2 DEF OrderInfos
  <1> HIDE DEF e
  <1>4. Written(s, i) = [k \in 1 .. n |-> e(k)]
    BY DEF Written, e
  <1>5. Written(s, i) \in [1 .. n -> OrderInfos] /\ \A k \in 1 .. n : Written(s, i)[k] = e(k)
    BY <1>3, <1>4
  <1>6. Written(s, i) \in Seq(OrderInfos) /\ Len(Written(s, i)) = n
    BY <1>1, <1>5
  <1> QED
    BY <1>2, <1>5, <1>6 DEF WritesSpan, e

-----------------------------------------------------------------------------
(* Releasing the first span *)

(* Taking a span off the front. *)
LEMMA ExpropriatedOne ==
    ASSUME NEW s \in [SpanIxs -> Seq(1 .. MaxItems)]
    PROVE  /\ Expropriated(s, 1) \in [SpanIxs -> Seq(1 .. MaxItems)]
           /\ \A i \in SpanIxs : i + 1 \in SpanIxs => Expropriated(s, 1)[i] = s[i + 1]
           /\ \A i \in SpanIxs : i + 1 \notin SpanIxs => Expropriated(s, 1)[i] = << >>
           /\ Expropriated(s, 1)[0] = s[1]
  <1> DEFINE e(i) == IF i + 1 \in SpanIxs THEN s[i + 1] ELSE << >>
  <1>1. \A i \in SpanIxs : e(i) \in Seq(1 .. MaxItems)
    <2>1. << >> \in Seq(1 .. MaxItems)
      BY EmptySeq
    <2> QED
      BY <2>1
  <1>2. Expropriated(s, 1) = [i \in SpanIxs |-> e(i)]
    BY DEF Expropriated
  <1>3. e(0) = s[1] /\ 0 \in SpanIxs
    BY GuideConstants
  <1> QED
    BY <1>1, <1>2, <1>3

(* The fields of a location. *)
LEMMA LocationFields ==
    ASSUME NEW l \in Seq(GuideLocs), NEW t \in 1 .. Len(l)
    PROVE  l[t].id \in Nat /\ l[t].pos \in Nat
  <1>1. l[t] \in GuideLocs
    BY ElementOfSeq
  <1> QED
    BY <1>1 DEF GuideLocs

LEMMA ReleaseTyped ==
    ASSUME NEW o, NEW f, NEW s, NEW l, Inv(o, f, s, l),
           NEW w, WritesSpan(w, s, 0)
    PROVE  /\ Typed(o \o w, f + 1, Expropriated(s, 1), l)
           /\ Len(o \o w) = Len(o) + Len(s[0])
           /\ \A k \in 1 .. Len(o) : (o \o w)[k] = o[k]
           /\ \A k \in 1 .. Len(s[0]) : (o \o w)[Len(o) + k] = w[k]
           /\ \A k \in 1 .. Len(o) + Len(s[0]) :
                    k \in 1 .. Len(o) \/ \E x \in 1 .. Len(s[0]) : k = Len(o) + x
  <1>1. o \in Seq(OrderInfos) /\ w \in Seq(OrderInfos) /\ Len(w) = Len(s[0])
    BY DEF Inv, Typed, WritesSpan
  <1>2. /\ o \o w \in Seq(OrderInfos) /\ Len(o \o w) = Len(o) + Len(w)
        /\ \A k \in 1 .. Len(o) + Len(w) :
                (o \o w)[k] = IF k <= Len(o) THEN o[k] ELSE w[k - Len(o)]
        /\ Len(o) \in Nat /\ Len(w) \in Nat
    <2>1. Len(o) \in Nat /\ Len(w) \in Nat
      BY <1>1, LenProperties
    <2> QED
      BY <1>1, <2>1, ConcatProperties
  <1>3. Expropriated(s, 1) \in [SpanIxs -> Seq(1 .. MaxItems)] /\ f + 1 \in Nat
    BY ExpropriatedOne DEF Inv, Typed
  <1>4. Typed(o \o w, f + 1, Expropriated(s, 1), l)
    BY <1>2, <1>3 DEF Inv, Typed
  <1>5. \A k \in 1 .. Len(o) : (o \o w)[k] = o[k]
    BY <1>2
  <1>6. \A k \in 1 .. Len(w) : (o \o w)[Len(o) + k] = w[k]
    BY <1>2
  <1>7. \A k \in 1 .. Len(o) + Len(w) :
            k \in 1 .. Len(o) \/ \E x \in 1 .. Len(w) : k = Len(o) + x
    <2> SUFFICES ASSUME NEW k \in 1 .. Len(o) + Len(w), k \notin 1 .. Len(o)
                 PROVE  \E x \in 1 .. Len(w) : k = Len(o) + x
      OBVIOUS
    <2>1. k - Len(o) \in 1 .. Len(w) /\ k = Len(o) + (k - Len(o))
      BY <1>2
    <2> QED
      BY <2>1
  <1> QED
    BY <1>1, <1>2, <1>4, <1>5, <1>6, <1>7

LEMMA ReleasePlaced ==
    ASSUME NEW o, NEW f, NEW s, NEW l, Inv(o, f, s, l)
    PROVE  Placed(f + 1, Expropriated(s, 1), l)
  <1> DEFINE e == Expropriated(s, 1)
  <1>1. s \in [SpanIxs -> Seq(1 .. MaxItems)] /\ f \in Nat
    BY DEF Inv, Typed
  <1>2. SUFFICES ASSUME NEW i \in SpanIxs, NEW x \in 1 .. Len(e[i])
                 PROVE  /\ x <= e[i][x] /\ e[i][x] <= Len(l)
                        /\ l[e[i][x]].id = f + 1 + i /\ l[e[i][x]].pos = x - 1
    BY DEF Placed
  <1>3. i + 1 \in SpanIxs /\ e[i] = s[i + 1]
    BY <1>1, <1>2, ExpropriatedOne
  <1>4. f + 1 + i = f + (i + 1)
    BY <1>1, GuideConstants
  <1> HIDE DEF e
  <1>5. x \in 1 .. Len(s[i + 1])
    BY <1>3
  <1> QED
    BY <1>3, <1>4, <1>5 DEF Inv, Placed

LEMMA ReleaseSorted ==
    ASSUME NEW o, NEW f, NEW s, NEW l, Inv(o, f, s, l),
           NEW w, WritesSpan(w, s, 0)
    PROVE  Sorted(o \o w, f + 1, l)
  <1> DEFINE v == o \o w
  <1>1. /\ s \in [SpanIxs -> Seq(1 .. MaxItems)] /\ f \in Nat
        /\ o \in Seq(OrderInfos) /\ l \in Seq(GuideLocs)
    BY DEF Inv, Typed
  <1>2. /\ Len(v) = Len(o) + Len(s[0])
        /\ \A k \in 1 .. Len(o) : v[k] = o[k]
        /\ \A k \in 1 .. Len(s[0]) : v[Len(o) + k] = w[k]
        /\ \A k \in 1 .. Len(o) + Len(s[0]) :
                k \in 1 .. Len(o) \/ \E x \in 1 .. Len(s[0]) : k = Len(o) + x
    BY ReleaseTyped
  <1>3. s[0] \in Seq(1 .. MaxItems) /\ Len(s[0]) \in Nat /\ Len(o) \in Nat /\ Len(l) \in Nat
    BY <1>1, GuideConstants
  <1> HIDE DEF v
  <1>4. \A x \in 1 .. Len(s[0]) :
            /\ v[Len(o) + x].item \in 1 .. Len(l)
            /\ l[v[Len(o) + x].item].id = f /\ l[v[Len(o) + x].item].pos = x - 1
    <2> TAKE x \in 1 .. Len(s[0])
    <2>1. v[Len(o) + x].item = s[0][x]
      BY <1>2 DEF WritesSpan
    <2>2. /\ x <= s[0][x] /\ s[0][x] <= Len(l) /\ s[0][x] \in Nat
          /\ l[s[0][x]].id = f + 0 /\ l[s[0][x]].pos = x - 1
      BY <1>3, GuideConstants DEF Inv, Placed
    <2> QED
      BY <1>1, <1>3, <2>1, <2>2
  <1>5. \A k \in 1 .. Len(o) : v[k].item \in 1 .. Len(l) /\ l[v[k].item].id < f
    BY <1>2 DEF Inv, Sorted
  <1>6. \A t \in 1 .. Len(l) : l[t].id \in Nat /\ l[t].pos \in Nat
    BY <1>1, LocationFields
  <1>7. \A k \in 1 .. Len(v) : v[k].item \in 1 .. Len(l) /\ l[v[k].item].id < f + 1
    <2> TAKE k \in 1 .. Len(v)
    <2>1. CASE k \in 1 .. Len(o)
      BY <1>1, <1>5, <1>6, <2>1
    <2>2. ASSUME NEW x \in 1 .. Len(s[0]), k = Len(o) + x
          PROVE  v[k].item \in 1 .. Len(l) /\ l[v[k].item].id < f + 1
      BY <1>1, <1>4, <2>2
    <2> QED
      BY <1>2, <2>1, <2>2
  <1>8. ASSUME NEW j \in 1 .. Len(v), NEW k \in 1 .. Len(v), j < k
        PROVE  Precedes(l[v[j].item], l[v[k].item])
    <2>1. CASE k \in 1 .. Len(o)
      <3>1. j \in 1 .. Len(o)
        BY <1>2, <1>3, <1>8, <2>1
      <3> QED
        BY <1>2, <1>8, <2>1, <3>1 DEF Inv, Sorted
    <2>2. ASSUME NEW x \in 1 .. Len(s[0]), k = Len(o) + x, j \in 1 .. Len(o)
          PROVE  Precedes(l[v[j].item], l[v[k].item])
      BY <1>4, <1>5, <2>2 DEF Precedes
    <2>3. ASSUME NEW x \in 1 .. Len(s[0]), k = Len(o) + x,
                 NEW y \in 1 .. Len(s[0]), j = Len(o) + y
          PROVE  Precedes(l[v[j].item], l[v[k].item])
      <3>1. y < x
        BY <1>3, <1>8, <2>3
      <3>2. /\ l[v[j].item].id = f /\ l[v[j].item].pos = y - 1
            /\ l[v[k].item].id = f /\ l[v[k].item].pos = x - 1
        BY <1>4, <2>3
      <3>3. y - 1 < x - 1
        BY <1>3, <3>1
      <3> QED
        BY <3>2, <3>3 DEF Precedes
    <2> QED
      BY <1>2, <2>1, <2>2, <2>3
  <1>9. Sorted(v, f + 1, l)
    BY <1>7, <1>8 DEF Sorted
  <1> QED
    BY <1>9 DEF v

LEMMA ReleaseComplete ==
    ASSUME NEW o, NEW f, NEW s, NEW l, Inv(o, f, s, l),
           NEW w, WritesSpan(w, s, 0)
    PROVE  Complete(o \o w, f + 1, Expropriated(s, 1), l)
  <1> DEFINE v == o \o w
             e == Expropriated(s, 1)
  <1>1. /\ s \in [SpanIxs -> Seq(1 .. MaxItems)] /\ f \in Nat
        /\ o \in Seq(OrderInfos) /\ l \in Seq(GuideLocs)
    BY DEF Inv, Typed
  <1>2. /\ Len(v) = Len(o) + Len(s[0])
        /\ \A k \in 1 .. Len(o) : v[k] = o[k]
        /\ \A k \in 1 .. Len(s[0]) : v[Len(o) + k] = w[k]
    BY ReleaseTyped
  <1>3. Len(s[0]) \in Nat /\ Len(o) \in Nat /\ Len(l) \in Nat
    BY <1>1, GuideConstants
  <1>4. \A i \in SpanIxs : i + 1 \in SpanIxs => e[i] = s[i + 1]
    BY <1>1, ExpropriatedOne
  <1> HIDE DEF v, e
  <1>5. SUFFICES ASSUME NEW t \in 1 .. Len(l)
                 PROVE  \/ l[t].id < f + 1 /\ \E k \in 1 .. Len(v) : v[k].item = t
                        \/ \E i \in SpanIxs : \E x \in 1 .. Len(e[i]) : e[i][x] = t
    BY DEF Complete, v, e
  <1>6. l[t].id \in Nat
    BY <1>1, LocationFields
  <1>7. CASE l[t].id < f /\ \E k \in 1 .. Len(o) : o[k].item = t
    <2>1. PICK k \in 1 .. Len(o) : o[k].item = t
      BY <1>7
    <2>2. k \in 1 .. Len(v) /\ v[k].item = t
      BY <1>2, <1>3, <2>1
    <2> QED
      BY <1>1, <1>6, <1>7, <2>2
  <1>8. ASSUME NEW x \in 1 .. Len(s[0]), s[0][x] = t
        PROVE  l[t].id < f + 1 /\ \E k \in 1 .. Len(v) : v[k].item = t
    <2>1. Len(o) + x \in 1 .. Len(v) /\ v[Len(o) + x].item = t
      BY <1>2, <1>3, <1>8 DEF WritesSpan
    <2>2. l[t].id = f + 0
      BY <1>8, GuideConstants DEF Inv, Placed
    <2> QED
      BY <1>1, <2>1, <2>2
  <1>9. ASSUME NEW i \in SpanIxs, i # 0, NEW x \in 1 .. Len(s[i]), s[i][x] = t
        PROVE  \E j \in SpanIxs : \E y \in 1 .. Len(e[j]) : e[j][y] = t
    <2>1. i - 1 \in SpanIxs /\ (i - 1) + 1 = i
      BY <1>9, GuideConstants DEF SpanIxs
    <2>2. e[i - 1] = s[i]
      BY <1>4, <2>1
    <2> QED
      BY <1>9, <2>1, <2>2
  <1> QED
    BY <1>7, <1>8, <1>9 DEF Inv, Complete

LEMMA ReleaseWindows ==
    ASSUME NEW o, NEW f, NEW s, NEW l, Inv(o, f, s, l),
           NEW w, WritesSpan(w, s, 0)
    PROVE  Windows(o \o w, f + 1, Expropriated(s, 1), l)
  <1> DEFINE v == o \o w
             e == Expropriated(s, 1)
             n == Len(s[0])
             m == Len(s[1])
  <1>1. /\ s \in [SpanIxs -> Seq(1 .. MaxItems)] /\ f \in Nat
        /\ o \in Seq(OrderInfos) /\ l \in Seq(GuideLocs)
    BY DEF Inv, Typed
  <1>2. /\ Len(v) = Len(o) + n
        /\ \A k \in 1 .. Len(o) : v[k] = o[k]
        /\ \A k \in 1 .. n : v[Len(o) + k] = w[k]
        /\ \A k \in 1 .. Len(o) + n : k \in 1 .. Len(o) \/ \E x \in 1 .. n : k = Len(o) + x
    BY ReleaseTyped
  <1>3. n \in Nat /\ m \in Nat /\ Len(o) \in Nat
    BY <1>1, GuideConstants
  <1>4. e[0] = s[1] /\ SpanLen(s, 0 + 1) = m
    <2>1. e[0] = s[1]
      BY <1>1, ExpropriatedOne
    <2>2. SpanLen(s, 1) = m
      BY GuideConstants DEF SpanLen
    <2> QED
      BY <2>1, <2>2
  <1>5. \A x \in 1 .. n : /\ l[w[x].item].id = f /\ l[w[x].item].pos = x - 1
                            /\ Fits(n, m, x - 1, w[x].parallelism)
    <2> TAKE x \in 1 .. n
    <2>1. w[x].item = s[0][x] /\ Fits(n, m, x - 1, w[x].parallelism)
      BY <1>4 DEF WritesSpan
    <2>2. l[s[0][x]].id = f + 0 /\ l[s[0][x]].pos = x - 1
      BY GuideConstants DEF Inv, Placed
    <2> QED
      BY <1>1, <2>1, <2>2
  <1> HIDE DEF v, e, n, m
  <1>6. ASSUME NEW k \in 1 .. Len(o) PROVE Window(v, f + 1, e, l, k)
    <2> DEFINE p == o[k].parallelism
               t == o[k].item
               end == k + p - 1
    <2>1. /\ p > 0
          /\ \A b \in k .. Len(o) : b <= end => Near(l[o[b].item], l[t])
          /\ end > Len(o) => /\ l[t].id + 1 = f
                              /\ end - Len(o) <= n
                              /\ end - Len(o) <= l[t].pos
      BY DEF Inv, Windows, Window, n
    <2>2. p \in Nat /\ t \in 1 .. Len(l)
      <3>1. o[k] \in OrderInfos
        BY <1>1, ElementOfSeq
      <3>2. t \in 1 .. Len(l)
        BY DEF Inv, Sorted
      <3> QED
        BY <3>1, <3>2 DEF OrderInfos
    <2>3. l[t].id \in Nat /\ l[t].pos \in Nat
      BY <1>1, <2>2, LocationFields
    <2>4. v[k] = o[k]
      BY <1>2
    <2> HIDE DEF p, t
    <2>5. ASSUME NEW b \in k .. Len(v), b <= end PROVE Near(l[v[b].item], l[t])
      <3>1. CASE b \in 1 .. Len(o)
        <4>1. b \in k .. Len(o) /\ v[b] = o[b]
          BY <1>2, <1>3, <3>1
        <4> QED
          BY <2>1, <2>5, <4>1
      <3>2. ASSUME NEW x \in 1 .. n, b = Len(o) + x PROVE Near(l[v[b].item], l[t])
        <4>1. end > Len(o) /\ x <= end - Len(o)
          BY <1>3, <2>2, <2>5, <3>2
        <4>2. l[t].id + 1 = f /\ x <= l[t].pos
          BY <1>3, <2>1, <2>2, <2>3, <4>1
        <4>3. l[v[b].item].id = f /\ l[v[b].item].pos = x - 1
          BY <1>2, <1>5, <3>2
        <4> QED
          BY <1>3, <2>3, <4>2, <4>3 DEF Near
      <3>3. b \in 1 .. Len(o) + n
        BY <1>2, <1>3
      <3> QED
        BY <1>2, <3>1, <3>2, <3>3
    <2>6. ~(end > Len(v))
      BY <1>2, <1>3, <2>1, <2>2
    <2> QED
      BY <2>1, <2>4, <2>5, <2>6 DEF Window, p, t
  <1>7. ASSUME NEW x \in 1 .. n PROVE Window(v, f + 1, e, l, Len(o) + x)
    <2> DEFINE p == w[x].parallelism
               t == w[x].item
               k == Len(o) + x
               end == k + p - 1
    <2>1. /\ l[t].id = f /\ l[t].pos = x - 1
          /\ p \in Nat /\ p > 0
          /\ x - 1 + p > n => x - 1 + p - n <= m /\ x - 1 + p - n <= x - 1
      BY <1>5 DEF Fits
    <2>2. v[k] = w[x]
      BY <1>2
    <2>3. ASSUME NEW b \in k .. Len(v) PROVE Near(l[v[b].item], l[t])
      <3>1. b \in 1 .. Len(o) + n /\ b \notin 1 .. Len(o)
        BY <1>2, <1>3
      <3>2. PICK y \in 1 .. n : b = Len(o) + y
        BY <1>2, <3>1
      <3>3. l[v[b].item].id = f
        BY <1>2, <1>5, <3>2
      <3> QED
        BY <2>1, <3>3 DEF Near
    <2> HIDE DEF p, t
    <2>4. end > Len(v) => /\ l[t].id + 1 = f + 1
                          /\ end - Len(v) <= m
                          /\ end - Len(v) <= l[t].pos
      BY <1>2, <1>3, <2>1
    <2>5. Len(e[0]) = m
      BY <1>4 DEF m
    <2> QED
      BY <2>1, <2>2, <2>3, <2>4, <2>5 DEF Window, p, t
  <1>8. Windows(v, f + 1, e, l)
    BY <1>2, <1>6, <1>7 DEF Windows
  <1> QED
    BY <1>8 DEF v, e

(* The invariant goes through the release of one span. *)
LEMMA ReleaseOne ==
    ASSUME NEW o, NEW f, NEW s, NEW l, Inv(o, f, s, l),
           NEW w, WritesSpan(w, s, 0)
    PROVE  Inv(o \o w, f + 1, Expropriated(s, 1), l)
  BY ReleaseTyped, ReleasePlaced, ReleaseSorted, ReleaseComplete, ReleaseWindows DEF Inv

(* Releasing span n after n others: what push writes of span 1, and flush of all. *)
LEMMA ReleaseNext ==
    ASSUME NEW o, NEW f \in Nat, NEW s, NEW l, NEW n \in SpanIxs,
           s \in [SpanIxs -> Seq(1 .. MaxItems)],
           Inv(o, f + n, Expropriated(s, n), l)
    PROVE  Inv(o \o Written(s, n), f + (n + 1), Expropriated(s, n + 1), l)
  <1> DEFINE e == Expropriated(s, n)
  <1>1. n \in Nat /\ 0 \in SpanIxs /\ 1 \in SpanIxs
    BY GuideConstants
  <1>2. e[0] = s[n]
    BY <1>1 DEF Expropriated
  <1>3. SpanLen(e, 0 + 1) = SpanLen(s, n + 1)
    <2>1. e[1] = IF n + 1 \in SpanIxs THEN s[n + 1] ELSE << >>
      BY <1>1 DEF Expropriated
    <2>2. Len(<< >>) = 0
      OBVIOUS
    <2> QED
      BY <1>1, <2>1, <2>2 DEF SpanLen
  <1>4. WritesSpan(Written(s, n), s, n)
    BY WrittenWrites
  <1>5. WritesSpan(Written(s, n), e, 0)
    BY <1>2, <1>3, <1>4 DEF WritesSpan
  <1>6. Expropriated(e, 1) = Expropriated(s, n + 1)
    <2>1. \A i \in SpanIxs : Expropriated(e, 1)[i] = Expropriated(s, n + 1)[i]
      <3> TAKE i \in SpanIxs
      <3>1. (i + 1) + n = i + (n + 1) /\ i \in Nat
        BY <1>1, GuideConstants
      <3>2. i + (n + 1) \in SpanIxs => i + 1 \in SpanIxs
        BY <1>1, <3>1, GuideConstants DEF SpanIxs
      <3> QED
        BY <3>1, <3>2 DEF Expropriated
    <2>2. /\ Expropriated(e, 1) = [i \in SpanIxs |-> Expropriated(e, 1)[i]]
          /\ Expropriated(s, n + 1) = [i \in SpanIxs |-> Expropriated(s, n + 1)[i]]
      BY DEF Expropriated
    <2> QED
      BY <2>1, <2>2
  <1>7. (f + n) + 1 = f + (n + 1)
    BY <1>1
  <1> HIDE DEF e
  <1>8. Inv(o \o Written(s, n), (f + n) + 1, Expropriated(e, 1), l)
    BY <1>5, ReleaseOne DEF e
  <1> QED
    BY <1>6, <1>7, <1>8

-----------------------------------------------------------------------------
(* Appending an item to a span *)

LEMMA AppendItem ==
    ASSUME NEW o, NEW f, NEW s, NEW l, Inv(o, f, s, l), Len(l) < MaxItems,
           NEW i \in SpanIxs
    PROVE  Inv(o, f, [s EXCEPT ![i] = Append(@, Len(l) + 1)],
               Append(l, [id |-> f + i, pos |-> Len(s[i])]))
  <1> DEFINE item == Len(l) + 1
             r == [s EXCEPT ![i] = Append(@, item)]
             here == [id |-> f + i, pos |-> Len(s[i])]
             g == Append(l, here)
             n == Len(s[i])
  <1>1. /\ s \in [SpanIxs -> Seq(1 .. MaxItems)] /\ f \in Nat /\ f + i \in Nat
        /\ o \in Seq(OrderInfos) /\ l \in Seq(GuideLocs)
        /\ s[i] \in Seq(1 .. MaxItems) /\ n \in Nat /\ Len(l) \in Nat
        /\ item \in 1 .. MaxItems /\ Len(o) \in Nat /\ Len(s[0]) \in Nat
    <2>1. /\ s \in [SpanIxs -> Seq(1 .. MaxItems)] /\ f \in Nat
          /\ o \in Seq(OrderInfos) /\ l \in Seq(GuideLocs)
      BY DEF Inv, Typed
    <2>2. s[i] \in Seq(1 .. MaxItems) /\ s[0] \in Seq(1 .. MaxItems)
      BY <2>1, GuideConstants
    <2>3. n \in Nat /\ Len(l) \in Nat /\ Len(o) \in Nat /\ Len(s[0]) \in Nat
      BY <2>1, <2>2, LenProperties
    <2> QED
      BY <2>1, <2>2, <2>3, GuideConstants
  <1>2. /\ r \in [SpanIxs -> Seq(1 .. MaxItems)]
        /\ Len(r[i]) = n + 1 /\ r[i][n + 1] = item
        /\ \A x \in 1 .. n : r[i][x] = s[i][x]
        /\ \A j \in SpanIxs \ {i} : r[j] = s[j]
    <2>1. /\ Append(s[i], item) \in Seq(1 .. MaxItems) /\ Len(Append(s[i], item)) = n + 1
          /\ \A x \in 1 .. n : Append(s[i], item)[x] = s[i][x]
          /\ Append(s[i], item)[n + 1] = item
      BY <1>1, AppendProperties
    <2> HIDE DEF item, n
    <2> QED
      BY <1>1, <2>1
  <1>3. /\ g \in Seq(GuideLocs) /\ Len(g) = item
        /\ \A t \in 1 .. Len(l) : g[t] = l[t]
        /\ g[item].id = f + i /\ g[item].pos = n
    <2>1. here \in GuideLocs
      BY <1>1 DEF GuideLocs
    <2>2. /\ g \in Seq(GuideLocs) /\ Len(g) = item /\ g[item] = here
          /\ \A t \in 1 .. Len(l) : g[t] = l[t]
      BY <1>1, <2>1, AppendProperties
    <2> QED
      BY <2>2
  <1>4. Len(s[0]) <= Len(r[0])
    BY <1>1, <1>2, GuideConstants
  <1> HIDE DEF r, g, here
  <1>5. Typed(o, f, r, g)
    BY <1>1, <1>2, <1>3 DEF Typed
  <1>6. Placed(f, r, g)
    <2>1. ASSUME NEW j \in SpanIxs, NEW x \in 1 .. Len(s[j])
          PROVE  /\ x <= s[j][x] /\ s[j][x] <= item /\ s[j][x] \in 1 .. Len(l)
                 /\ g[s[j][x]].id = f + j /\ g[s[j][x]].pos = x - 1
      <3>1. /\ x <= s[j][x] /\ s[j][x] <= Len(l)
            /\ l[s[j][x]].id = f + j /\ l[s[j][x]].pos = x - 1
        BY DEF Inv, Placed
      <3>2. s[j][x] \in Nat /\ x \in Nat /\ x >= 1
        <4>1. s[j] \in Seq(1 .. MaxItems)
          BY <1>1
        <4>2. s[j][x] \in 1 .. MaxItems
          BY <4>1, ElementOfSeq
        <4> QED
          BY <4>1, <4>2
      <3> QED
        BY <1>1, <1>3, <3>1, <3>2
    <2>2. n < item
      <3>1. CASE n = 0
        BY <1>1, <3>1
      <3>2. CASE n # 0
        <4>1. n \in 1 .. Len(s[i])
          BY <1>1, <3>2
        <4>2. n <= s[i][n] /\ s[i][n] \in 1 .. Len(l)
          BY <2>1, <4>1
        <4> QED
          BY <1>1, <4>2
      <3> QED
        BY <3>1, <3>2
    <2>3. ASSUME NEW j \in SpanIxs, NEW x \in 1 .. Len(r[j])
          PROVE  /\ x <= r[j][x] /\ r[j][x] <= Len(g)
                 /\ g[r[j][x]].id = f + j /\ g[r[j][x]].pos = x - 1
      <3>1. CASE j = i /\ x = n + 1
        BY <1>1, <1>2, <1>3, <2>2, <3>1
      <3>2. CASE ~(j = i /\ x = n + 1)
        <4>1. x \in 1 .. Len(s[j]) /\ r[j][x] = s[j][x]
          <5>1. CASE j = i
            BY <1>1, <1>2, <3>2, <5>1
          <5>2. CASE j # i
            <6>1. r[j] = s[j]
              BY <1>2, <5>2
            <6> QED
              BY <6>1
          <5> QED
            BY <5>1, <5>2
        <4> QED
          BY <1>3, <2>1, <4>1
      <3> QED
        BY <3>1, <3>2
    <2> QED
      BY <2>3 DEF Placed
  <1>7. \A k \in 1 .. Len(o) : o[k].item \in 1 .. Len(l) /\ g[o[k].item] = l[o[k].item]
    BY <1>3 DEF Inv, Sorted
  <1>8. Sorted(o, f, g)
    <2>1. \A k \in 1 .. Len(o) : o[k].item \in 1 .. Len(g) /\ g[o[k].item].id < f
      BY <1>1, <1>3, <1>7 DEF Inv, Sorted
    <2>2. \A j, k \in 1 .. Len(o) : j < k => Precedes(g[o[j].item], g[o[k].item])
      BY <1>7 DEF Inv, Sorted
    <2> QED
      BY <2>1, <2>2 DEF Sorted
  <1>9. Complete(o, f, r, g)
    <2> SUFFICES ASSUME NEW t \in 1 .. Len(g)
                 PROVE  \/ g[t].id < f /\ \E k \in 1 .. Len(o) : o[k].item = t
                        \/ \E j \in SpanIxs : \E x \in 1 .. Len(r[j]) : r[j][x] = t
      BY DEF Complete
    <2>1. CASE t = item
      <3>1. n + 1 \in 1 .. Len(r[i]) /\ r[i][n + 1] = t
        BY <1>1, <1>2, <2>1
      <3> QED
        BY <3>1
    <2>2. CASE t # item
      <3>1. t \in 1 .. Len(l) /\ g[t] = l[t]
        BY <1>1, <1>3, <2>2
      <3>2. ASSUME NEW j \in SpanIxs, NEW x \in 1 .. Len(s[j]), s[j][x] = t
            PROVE  \E y \in 1 .. Len(r[j]) : r[j][y] = t
        <4>1. x \in 1 .. Len(r[j]) /\ r[j][x] = t
          <5>1. CASE j = i
            BY <1>1, <1>2, <3>2, <5>1
          <5>2. CASE j # i
            <6>1. r[j] = s[j]
              BY <1>2, <5>2
            <6> QED
              BY <3>2, <6>1
          <5> QED
            BY <5>1, <5>2
        <4> QED
          BY <4>1
      <3> QED
        BY <3>1, <3>2 DEF Inv, Complete
    <2> QED
      BY <2>1, <2>2
  <1>10. Windows(o, f, r, g)
    <2> SUFFICES ASSUME NEW k \in 1 .. Len(o) PROVE Window(o, f, r, g, k)
      BY DEF Windows
    <2>1. Window(o, f, s, l, k)
      BY DEF Inv, Windows
    <2>2. \A b \in k .. Len(o) : g[o[b].item] = l[o[b].item]
      BY <1>1, <1>7
    <2>3. g[o[k].item] = l[o[k].item] /\ o[k].parallelism \in Nat
      <3>1. o[k] \in OrderInfos
        BY <1>1, ElementOfSeq
      <3> QED
        BY <1>7, <3>1 DEF OrderInfos
    <2>4. Len(r[0]) \in Nat
      BY <1>1, <1>2, GuideConstants
    <2> QED
      BY <1>1, <1>4, <2>1, <2>2, <2>3, <2>4, SMTT(60) DEF Window
  <1>11. Inv(o, f, r, g)
    BY <1>5, <1>6, <1>8, <1>9, <1>10 DEF Inv
  <1> QED
    BY <1>11 DEF r, g, here

-----------------------------------------------------------------------------
(* What flush writes *)

(* The recursive definition of written has a solution. *)
LEMMA WrittenDefined ==
    /\ written[0] = << >>
    /\ \A n \in SpanIxs : written[n + 1] = written[n] \o Written(spans, n)
  <1> DEFINE Solves(w, m) == w = [n \in 0 .. m |->
                    IF n = 0 THEN << >> ELSE w[n - 1] \o Written(spans, n - 1)]
             Solvable(m) == \E w : Solves(w, m)
             T == {m \in 0 .. GUIDE_SIZE : ~ Solvable(m)}
  <1>1. T = {}
    <2> HIDE DEF Solvable
    <2> SUFFICES ASSUME T # {} PROVE FALSE
      OBVIOUS
    <2>1. PICK m \in T : \A y \in T : m <= y
      <3>1. T \subseteq Nat
        OBVIOUS
      <3> QED
        BY <3>1, LeastNatural
    <2>2. CASE m = 0
      <3> DEFINE w == [n \in 0 .. 0 |-> << >>]
      <3>1. Solves(w, 0)
        OBVIOUS
      <3>2. Solvable(0)
        BY <3>1 DEF Solvable
      <3> QED
        BY <2>1, <2>2, <3>2
    <2>3. CASE m # 0
      <3>1. m \in Nat /\ m - 1 \in 0 .. GUIDE_SIZE /\ m - 1 \notin T
        <4>1. m \in 0 .. GUIDE_SIZE
          BY <2>1
        <4>2. m \in Nat /\ m - 1 \in 0 .. GUIDE_SIZE /\ ~(m <= m - 1)
          BY <2>3, <4>1, GuideConstants
        <4> QED
          BY <2>1, <4>2
      <3>2. Solvable(m - 1)
        BY <3>1
      <3>3. PICK v : Solves(v, m - 1)
        BY <3>2 DEF Solvable
      <3> DEFINE w == [n \in 0 .. m |->
                    IF n = m THEN v[m - 1] \o Written(spans, m - 1) ELSE v[n]]
      <3>4. ASSUME NEW n \in 0 .. m
            PROVE  w[n] = IF n = 0 THEN << >> ELSE w[n - 1] \o Written(spans, n - 1)
        <4>1. CASE n = m
          <5>1. w[n - 1] = v[m - 1] /\ n # 0
            BY <2>3, <3>1, <4>1
          <5> QED
            BY <4>1, <5>1
        <4>2. CASE n # m
          <5>1. n \in 0 .. m - 1 /\ w[n] = v[n] /\ (n # 0 => w[n - 1] = v[n - 1])
            BY <3>1, <4>2
          <5>2. v[n] = IF n = 0 THEN << >> ELSE v[n - 1] \o Written(spans, n - 1)
            BY <3>3, <5>1
          <5> QED
            BY <5>1, <5>2
        <4> QED
          BY <4>1, <4>2
      <3>5. Solves(w, m)
        <4>1. w = [n \in 0 .. m |-> w[n]]
          OBVIOUS
        <4> HIDE DEF w
        <4> QED
          BY <3>4, <4>1
      <3>6. Solvable(m)
        BY <3>5 DEF Solvable
      <3> QED
        BY <2>1, <3>6
    <2> QED
      BY <2>2, <2>3
  <1>2. \E w : Solves(w, GUIDE_SIZE)
    <2>1. Solvable(GUIDE_SIZE)
      <3> HIDE DEF Solvable
      <3>1. GUIDE_SIZE \in 0 .. GUIDE_SIZE
        BY GuideConstants
      <3> QED
        BY <1>1, <3>1
    <2> QED
      BY <2>1
  <1>3. Solves(written, GUIDE_SIZE)
    BY <1>2 DEF written
  <1>4. \A n \in SpanIxs : /\ n + 1 \in 0 .. GUIDE_SIZE /\ n + 1 # 0 /\ (n + 1) - 1 = n
    BY GuideConstants DEF SpanIxs
  <1>5. \A n \in 0 .. GUIDE_SIZE :
            written[n] = IF n = 0 THEN << >> ELSE written[n - 1] \o Written(spans, n - 1)
    BY <1>3
  <1>6. 0 \in 0 .. GUIDE_SIZE
    BY GuideConstants
  <1> QED
    BY <1>4, <1>5, <1>6

-----------------------------------------------------------------------------
(* The invariant is inductive *)

LEMMA InitGuideInv == GuideInit => GuideInv
  <1> SUFFICES ASSUME GuideInit PROVE GuideInv
    OBVIOUS
  <1>1. /\ first_id = 0 /\ order = << >> /\ loc = << >> /\ after = << >>
        /\ spans = [i \in SpanIxs |-> << >>]
    BY DEF GuideInit
  <1>2. \A i \in SpanIxs : spans[i] = << >>
    BY <1>1
  <1>3. Len(order) = 0 /\ Len(loc) = 0 /\ Len(after) = 0 /\ \A i \in SpanIxs : Len(spans[i]) = 0
    BY <1>1, <1>2
  <1>4. /\ spans \in [SpanIxs -> Seq(1 .. MaxItems)] /\ order \in Seq(OrderInfos)
        /\ loc \in Seq(GuideLocs) /\ after \in Seq(0 .. MaxItems)
    BY <1>1, EmptySeq
  <1>5. Typed(order, first_id, spans, loc)
    BY <1>1, <1>3, <1>4, GuideConstants DEF Typed
  <1>6. Inv(order, first_id, spans, loc)
    BY <1>3, <1>5 DEF Inv, Placed, Sorted, Complete, Windows
  <1> QED
    BY <1>3, <1>4, <1>6, GuideConstants DEF GuideInv, Depends, Sizes

(* The front spans a push releases. *)
LEMMA ReleaseUpToTwo ==
    ASSUME NEW o, NEW f, NEW s, NEW l, Inv(o, f, s, l), NEW n \in 0 .. 2
    PROVE  Inv(o \o (IF n > 0 THEN Written(s, 0) ELSE << >>)
                 \o (IF n > 1 THEN Written(s, 1) ELSE << >>),
               f + n, Expropriated(s, n), l)
  <1>1. /\ s \in [SpanIxs -> Seq(1 .. MaxItems)] /\ f \in Nat /\ o \in Seq(OrderInfos)
        /\ 0 \in SpanIxs /\ 1 \in SpanIxs
    BY GuideConstants DEF Inv, Typed
  <1>2. Expropriated(s, 0) = s /\ f + 0 = f
    <2>1. Expropriated(s, 0) = [i \in SpanIxs |-> s[i]]
      BY GuideConstants DEF Expropriated
    <2> QED
      BY <1>1, <2>1
  <1>3. Inv(o \o Written(s, 0), f + 1, Expropriated(s, 1), l)
    <2>1. Inv(o, f + 0, Expropriated(s, 0), l)
      BY <1>2
    <2>2. 0 + 1 = 1
      OBVIOUS
    <2>3. Inv(o \o Written(s, 0), f + (0 + 1), Expropriated(s, 0 + 1), l)
      BY <1>1, <2>1, ReleaseNext
    <2> QED
      BY <2>2, <2>3
  <1>4. Inv((o \o Written(s, 0)) \o Written(s, 1), f + 2, Expropriated(s, 2), l)
    <2>1. 1 + 1 = 2
      OBVIOUS
    <2>2. Inv((o \o Written(s, 0)) \o Written(s, 1), f + (1 + 1), Expropriated(s, 1 + 1), l)
      BY <1>1, <1>3, ReleaseNext
    <2> QED
      BY <2>1, <2>2
  <1>5. o \o << >> = o /\ (o \o Written(s, 0)) \o << >> = o \o Written(s, 0)
    <2>1. o \o Written(s, 0) \in Seq(OrderInfos)
      BY <1>3 DEF Inv, Typed
    <2> QED
      BY <1>1, <2>1, ConcatEmptySeq
  <1>6. CASE n = 0
    BY <1>2, <1>5, <1>6
  <1>7. CASE n = 1
    BY <1>3, <1>5, <1>7
  <1>8. CASE n = 2
    BY <1>4, <1>8
  <1> QED
    BY <1>6, <1>7, <1>8

(* A new item that comes late enough after the one it was pushed after. *)
LEMMA DependsAppend ==
    ASSUME NEW l \in Seq(GuideLocs), NEW a \in Seq(0 .. MaxItems), Len(a) = Len(l),
           Depends(l, a), NEW here \in GuideLocs, NEW b \in 0 .. Len(l), Len(l) < MaxItems,
           b # 0 => /\ l[b].id < here.id
                    /\ here.id = l[b].id + 1 => l[b].pos <= here.pos
    PROVE  /\ Depends(Append(l, here), Append(a, b))
           /\ Append(a, b) \in Seq(0 .. MaxItems)
           /\ Len(Append(a, b)) = Len(Append(l, here))
  <1>1. Len(l) \in Nat /\ b \in 0 .. MaxItems
    BY GuideConstants
  <1>2. /\ Len(Append(l, here)) = Len(l) + 1
        /\ Append(l, here)[Len(l) + 1] = here
        /\ \A t \in 1 .. Len(l) : Append(l, here)[t] = l[t]
    BY AppendProperties
  <1>3. /\ Append(a, b) \in Seq(0 .. MaxItems)
        /\ Len(Append(a, b)) = Len(l) + 1
        /\ Append(a, b)[Len(l) + 1] = b
        /\ \A t \in 1 .. Len(l) : Append(a, b)[t] = a[t]
    BY <1>1, AppendProperties
  <1> DEFINE g == Append(l, here)
             c == Append(a, b)
  <1> HIDE DEF g, c
  <1>4. ASSUME NEW t \in 1 .. Len(l) + 1, c[t] # 0
        PROVE  /\ c[t] \in 1 .. Len(l) + 1
               /\ g[c[t]].id < g[t].id
               /\ g[t].id = g[c[t]].id + 1 => g[c[t]].pos <= g[t].pos
    <2>1. CASE t = Len(l) + 1
      <3>1. c[t] = b /\ g[t] = here /\ b \in 1 .. Len(l)
        BY <1>1, <1>2, <1>3, <1>4, <2>1 DEF g, c
      <3>2. g[b] = l[b]
        BY <1>2, <3>1 DEF g
      <3> QED
        BY <1>1, <3>1, <3>2
    <2>2. CASE t # Len(l) + 1
      <3>1. t \in 1 .. Len(l)
        BY <1>1, <2>2
      <3>2. c[t] = a[t] /\ g[t] = l[t]
        BY <1>2, <1>3, <3>1 DEF g, c
      <3>3. /\ a[t] \in 1 .. Len(l) /\ l[a[t]].id < l[t].id
            /\ l[t].id = l[a[t]].id + 1 => l[a[t]].pos <= l[t].pos
        BY <1>4, <3>1, <3>2 DEF Depends
      <3>4. g[a[t]] = l[a[t]]
        BY <1>2, <3>3 DEF g
      <3> QED
        BY <1>1, <3>2, <3>3, <3>4
    <2> QED
      BY <2>1, <2>2
  <1>5. Depends(g, c)
    BY <1>2, <1>4 DEF Depends, g
  <1> QED
    BY <1>2, <1>3, <1>5 DEF g, c

(* What the steps use of the invariant's types. *)
LEMMA GuideTypes ==
    ASSUME GuideInv
    PROVE  /\ first_id \in Nat /\ spans \in [SpanIxs -> Seq(1 .. MaxItems)]
           /\ order \in Seq(OrderInfos) /\ loc \in Seq(GuideLocs) /\ Len(loc) \in Nat
           /\ after \in Seq(0 .. MaxItems) /\ Len(after) = Len(loc)
           /\ \A i \in SpanIxs : Len(spans[i]) \in Nat
           /\ \A t \in 1 .. Len(loc) : loc[t].id \in Nat /\ loc[t].pos \in Nat
  <1>1. /\ first_id \in Nat /\ spans \in [SpanIxs -> Seq(1 .. MaxItems)]
        /\ order \in Seq(OrderInfos) /\ loc \in Seq(GuideLocs)
        /\ after \in Seq(0 .. MaxItems) /\ Len(after) = Len(loc)
    BY DEF GuideInv, Inv, Typed
  <1>2. Len(loc) \in Nat /\ \A i \in SpanIxs : Len(spans[i]) \in Nat
    BY <1>1
  <1> QED
    BY <1>1, <1>2, LocationFields

(* The span MatchedSpan::Existing names: the second one for a resolver that waits for
   nothing in the guide, else the first free one. *)
LEMMA ExistingSpan ==
    ASSUME GuideInv, NEW a \in 0 .. Len(loc), PushExisting(a)
    PROVE  LET i == IF Before(a) THEN 1 ELSE Min(FreeSpans(a))
               d == loc[a].id - first_id
               near == IF loc[a].pos > Len(spans[d + 1]) THEN d + 2 ELSE d + 1
           IN  /\ i \in SpanIxs /\ i \in Nat /\ i >= 1
               /\ ~Before(a) => /\ a \in 1 .. Len(loc) /\ d \in Nat
                                /\ i \in near .. GUIDE_SIZE - 1
                                /\ Len(spans[i]) < Parallelism
  <1> DEFINE i == IF Before(a) THEN 1 ELSE Min(FreeSpans(a))
             d == loc[a].id - first_id
             near == IF loc[a].pos > Len(spans[d + 1]) THEN d + 2 ELSE d + 1
  <1>1. ~Before(a) => a \in 1 .. Len(loc) /\ d \in Nat
    BY GuideTypes DEF Before
  <1>2. ~Before(a) => i \in near .. GUIDE_SIZE - 1 /\ Len(spans[i]) < Parallelism
    <2> SUFFICES ASSUME ~Before(a)
                 PROVE  i \in FreeSpans(a)
      BY DEF FreeSpans
    <2>1. FreeSpans(a) # {}
      BY DEF PushExisting, Between
    <2>2. FreeSpans(a) \subseteq Int /\ \A j \in FreeSpans(a) : 0 <= j
      BY <1>1, GuideConstants DEF FreeSpans
    <2>3. Min(FreeSpans(a)) \in FreeSpans(a)
      BY <2>1, <2>2, MinOfBounded
    <2> QED
      BY <2>3
  <1>3. i \in SpanIxs /\ i \in Nat /\ i >= 1
    BY <1>1, <1>2, GuideConstants DEF SpanIxs
  <1> QED
    BY <1>1, <1>2, <1>3

LEMMA PushExistingInv ==
    ASSUME GuideInv, Len(loc) < MaxItems, NEW a \in 0 .. Len(loc), PushExisting(a)
    PROVE  GuideInv'
  <1> DEFINE i == IF Before(a) THEN 1 ELSE Min(FreeSpans(a))
             filled == [spans EXCEPT ![i] = Append(@, Len(loc) + 1)]
             n == ReleasedBy(i)
             d == loc[a].id - first_id
             near == IF loc[a].pos > Len(spans[d + 1]) THEN d + 2 ELSE d + 1
  <1>1. /\ order' = order \o (IF n > 0 THEN Written(filled, 0) ELSE << >>)
                           \o (IF n > 1 THEN Written(filled, 1) ELSE << >>)
        /\ first_id' = first_id + n
        /\ spans' = Expropriated(filled, n)
        /\ loc' = Append(loc, LocAt(i))
        /\ after' = Append(after, a)
    BY DEF PushExisting, Release
  <1>2. ~Before(a) => a \in 1 .. Len(loc) /\ d \in Nat
    BY ExistingSpan
  <1>3. ~Before(a) => i \in near .. GUIDE_SIZE - 1 /\ Len(spans[i]) < Parallelism
    BY ExistingSpan
  <1>4. i \in SpanIxs /\ i \in Nat /\ i >= 1
    BY ExistingSpan
  <1>5. n \in 0 .. 1 /\ (n = 0 => Len(spans[i]) + 1 < Parallelism)
    BY <1>4, GuideTypes, GuideConstants DEF ReleasedBy
  <1> HIDE DEF i, n
  <1>6. Inv(order, first_id, filled, loc')
    BY <1>1, <1>4, AppendItem DEF GuideInv, LocAt
  <1>7. filled \in [SpanIxs -> Seq(1 .. MaxItems)]
    BY <1>6 DEF Inv, Typed
  <1>8. /\ Len(filled[i]) = Len(spans[i]) + 1
        /\ \A j \in SpanIxs \ {i} : filled[j] = spans[j]
    BY <1>4, GuideTypes
  <1> HIDE DEF filled
  <1>9. Inv(order', first_id', spans', loc')
    <2>1. n \in 0 .. 2
      BY <1>5
    <2>2. Inv(order \o (IF n > 0 THEN Written(filled, 0) ELSE << >>)
                    \o (IF n > 1 THEN Written(filled, 1) ELSE << >>),
              first_id + n, Expropriated(filled, n), loc')
      BY <1>6, <2>1, ReleaseUpToTwo
    <2> QED
      BY <1>1, <2>2
  <1>10. LocAt(i) \in GuideLocs
    BY <1>4, GuideTypes DEF LocAt, GuideLocs
  <1>11. a # 0 => /\ loc[a].id < first_id + i
                  /\ first_id + i = loc[a].id + 1 => loc[a].pos <= Len(spans[i])
    <2>1. CASE Before(a)
      <3>1. i = 1
        BY <2>1 DEF i
      <3> QED
        BY <2>1, <3>1, GuideTypes DEF Before
    <2>2. CASE ~Before(a)
      <3>1. near \in {d + 1, d + 2} /\ near <= i
        BY <1>2, <1>3, <1>4, <2>2
      <3>2. i = d + 1 => loc[a].pos <= Len(spans[i])
        BY <1>2, <1>3, <1>4, <2>2, GuideTypes
      <3> QED
        BY <1>2, <1>4, <2>2, <3>1, <3>2, GuideTypes, SMTT(60)
    <2> QED
      BY <2>1, <2>2
  <1>12. /\ Depends(loc', after') /\ after' \in Seq(0 .. MaxItems) /\ Len(after') = Len(loc')
    <2>1. LocAt(i).id = first_id + i /\ LocAt(i).pos = Len(spans[i])
      BY DEF LocAt
    <2>2. Depends(loc, after)
      BY DEF GuideInv
    <2> QED
      BY <1>1, <1>10, <1>11, <2>1, <2>2, GuideTypes, DependsAppend
  <1>13. Sizes(spans')
    <2>1. /\ \A j \in SpanIxs \ {i} : Len(filled[j]) = Len(spans[j])
          /\ Len(spans[0]) <= Parallelism + 1
          /\ \A j \in SpanIxs \ {0} : Len(spans[j]) <= Parallelism
          /\ \A j \in SpanIxs : Len(spans[j]) \in Nat
      <3>1. \A j \in SpanIxs \ {i} : Len(filled[j]) = Len(spans[j])
        BY <1>8
      <3>2. /\ Len(spans[0]) <= Parallelism + 1
            /\ \A j \in SpanIxs \ {0} : Len(spans[j]) <= Parallelism
        BY DEF GuideInv, Sizes
      <3> QED
        BY <3>1, <3>2, GuideTypes
    <2>2. i = 1 \/ Len(spans[i]) < Parallelism
      BY <1>3 DEF i
    <2>3. Parallelism \in Nat /\ Parallelism > 0 /\ 0 \in SpanIxs /\ 1 \in SpanIxs
      BY GuideConstants
    <2>4. CASE n = 0
      <3>1. spans' = filled
        <4>1. spans' = [j \in SpanIxs |-> filled[j]]
          BY <1>1, <2>4, GuideConstants DEF Expropriated
        <4> QED
          BY <1>7, <4>1
      <3>2. Len(spans[i]) + 1 < Parallelism
        BY <1>5, <2>4
      <3>3. Len(filled[0]) <= Parallelism + 1
        <4>1. 0 \in SpanIxs \ {i}
          BY <1>4, <2>3
        <4>2. Len(filled[0]) = Len(spans[0])
          BY <2>1, <4>1
        <4> QED
          BY <2>1, <4>2
      <3>4. ASSUME NEW j \in SpanIxs \ {0} PROVE Len(filled[j]) <= Parallelism
        <4>1. CASE j = i
          <5>1. Len(filled[j]) = Len(spans[i]) + 1 /\ Len(spans[i]) \in Nat
            BY <1>4, <1>8, <2>1, <4>1
          <5> QED
            BY <2>3, <3>2, <5>1
        <4>2. CASE j # i
          <5>1. Len(filled[j]) = Len(spans[j])
            BY <2>1, <4>2
          <5> QED
            BY <2>1, <5>1
        <4> QED
          BY <4>1, <4>2
      <3> QED
        BY <3>1, <3>3, <3>4 DEF Sizes
    <2>5. CASE n = 1
      <3>1. /\ spans'[0] = filled[1]
            /\ \A j \in SpanIxs : j + 1 \in SpanIxs => spans'[j] = filled[j + 1]
            /\ \A j \in SpanIxs : j + 1 \notin SpanIxs => spans'[j] = << >>
        BY <1>1, <1>7, <2>5, ExpropriatedOne
      <3>2. Len(spans'[0]) <= Parallelism + 1
        <4>1. Len(spans[1]) <= Parallelism /\ Len(spans[1]) \in Nat
          BY <2>1, <2>3
        <4>2. Len(filled[1]) = Len(spans[1]) \/ Len(filled[1]) = Len(spans[1]) + 1
          <5>1. CASE i = 1
            BY <1>8, <5>1
          <5>2. CASE i # 1
            BY <2>1, <2>3, <5>2
          <5> QED
            BY <5>1, <5>2
        <4>3. Len(filled[1]) <= Parallelism + 1
          BY <2>3, <4>1, <4>2
        <4> QED
          BY <3>1, <4>3
      <3>3. ASSUME NEW j \in SpanIxs \ {0} PROVE Len(spans'[j]) <= Parallelism
        <4>1. CASE j + 1 \in SpanIxs
          <5>1. j + 1 # 0 /\ j + 1 # 1
            BY GuideConstants
          <5>2. Len(filled[j + 1]) <= Parallelism
            <6>1. CASE j + 1 = i
              <7>1. Len(spans[i]) < Parallelism /\ Len(spans[i]) \in Nat
                BY <1>4, <2>1, <2>2, <5>1, <6>1
              <7>2. Len(filled[j + 1]) = Len(spans[i]) + 1
                BY <1>8, <6>1
              <7> QED
                BY <2>3, <7>1, <7>2
            <6>2. CASE j + 1 # i
              <7>1. Len(filled[j + 1]) = Len(spans[j + 1])
                BY <2>1, <4>1, <6>2
              <7>2. Len(spans[j + 1]) <= Parallelism
                BY <2>1, <4>1, <5>1
              <7> QED
                BY <7>1, <7>2
            <6> QED
              BY <6>1, <6>2
          <5> QED
            BY <3>1, <4>1, <5>2
        <4>2. CASE j + 1 \notin SpanIxs
          <5>1. spans'[j] = << >>
            BY <3>1, <4>2
          <5> QED
            BY <2>3, <5>1
        <4> QED
          BY <4>1, <4>2
      <3> QED
        BY <3>2, <3>3 DEF Sizes
    <2> QED
      BY <1>5, <2>4, <2>5
  <1> QED
    BY <1>9, <1>12, <1>13 DEF GuideInv

(* In the guide the locations end with the last span. *)
LEMMA LocationsEnd ==
    ASSUME GuideInv, NEW a \in 1 .. Len(loc), ~(loc[a].id < first_id)
    PROVE  loc[a].id <= first_id + Last
  <1>1. PICK i \in SpanIxs : \E x \in 1 .. Len(spans[i]) : spans[i][x] = a
    BY DEF GuideInv, Inv, Complete
  <1>2. loc[a].id = first_id + i
    BY <1>1 DEF GuideInv, Inv, Placed
  <1> QED
    BY <1>2, GuideTypes, GuideConstants

LEMMA PushNewInv ==
    ASSUME GuideInv, Len(loc) < MaxItems, NEW a \in 0 .. Len(loc), PushNew(a)
    PROVE  GuideInv'
  <1> DEFINE n == IF InLast(a) THEN 2 ELSE 1
             e == Expropriated(spans, n)
             here == [id |-> first_id + GUIDE_SIZE - 1 + n, pos |-> 0]
  <1>1. /\ order' = order \o (IF n > 0 THEN Written(spans, 0) ELSE << >>)
                           \o (IF n > 1 THEN Written(spans, 1) ELSE << >>)
        /\ first_id' = first_id + n
        /\ spans' = [e EXCEPT ![Last] = Append(@, Len(loc) + 1)]
        /\ loc' = Append(loc, here)
        /\ after' = Append(after, a)
    BY DEF PushNew, Release, Carry, Last
  <1>2. a \in 1 .. Len(loc) /\ (InLast(a) \/ Between(a))
    BY GuideTypes DEF PushNew
  <1>3. n \in 1 .. 2 /\ (n = 2 <=> InLast(a))
    OBVIOUS
  <1> HIDE DEF n
  <1>4. Inv(order', first_id + n, e, loc)
    <2>1. n \in 0 .. 2
      BY <1>3
    <2> QED
      BY <1>1, <2>1, ReleaseUpToTwo DEF GuideInv
  <1>5. e[Last] = << >> /\ Len(e[Last]) = 0
    <2>1. Last \in SpanIxs /\ Last + n \notin SpanIxs
      BY <1>3, GuideConstants DEF Last, SpanIxs
    <2> QED
      BY <2>1 DEF Expropriated
  <1>6. here = [id |-> (first_id + n) + Last, pos |-> Len(e[Last])]
    <2>1. first_id + GUIDE_SIZE - 1 + n = (first_id + n) + Last
      BY <1>3, GuideTypes, GuideConstants DEF Last
    <2> QED
      BY <1>5, <2>1
  <1> HIDE DEF e
  <1>7. Inv(order', first_id', spans', loc')
    <2>1. Inv(order', first_id + n, [e EXCEPT ![Last] = Append(@, Len(loc) + 1)],
              Append(loc, [id |-> (first_id + n) + Last, pos |-> Len(e[Last])]))
      BY <1>4, AppendItem, GuideConstants
    <2> QED
      BY <1>1, <1>6, <2>1
  <1>8. here \in GuideLocs /\ here.id = (first_id + n) + Last /\ here.pos = 0
    <2>1. first_id + GUIDE_SIZE - 1 + n \in Nat
      BY <1>3, GuideTypes, GuideConstants
    <2> QED
      BY <1>5, <1>6, <2>1 DEF GuideLocs
  <1> HIDE DEF here
  <1>8a. /\ loc[a].id \in Nat /\ first_id \in Nat /\ n \in Nat /\ n >= 1
        /\ Last \in Nat /\ (InLast(a) => n = 2)
    BY <1>2, <1>3, GuideTypes, GuideConstants DEF Last
  <1>9. loc[a].id + 1 < here.id
    <2>1. CASE InLast(a)
      <3>1. loc[a].id = first_id + Last
        BY <1>8a, <2>1, GuideConstants DEF InLast, Last
      <3> QED
        BY <1>8, <1>8a, <2>1, <3>1
    <2>2. CASE ~InLast(a)
      <3>1. ~(loc[a].id < first_id)
        BY <1>2, <2>2 DEF Between, Before
      <3>2. loc[a].id # first_id + Last
        BY <1>2, <2>2, GuideTypes, GuideConstants DEF InLast, Last
      <3>3. loc[a].id <= first_id + Last
        BY <1>2, <3>1, LocationsEnd
      <3> QED
        BY <1>8, <1>8a, <3>2, <3>3
    <2> QED
      BY <2>1, <2>2
  <1>10. /\ Depends(loc', after') /\ after' \in Seq(0 .. MaxItems) /\ Len(after') = Len(loc')
    <2>1. here.id \in Nat /\ loc[a].id \in Nat
      BY <1>2, <1>8, GuideTypes DEF GuideLocs
    <2>2. Depends(loc, after) /\ loc[a].id < here.id /\ here.id # loc[a].id + 1
      BY <1>9, <2>1 DEF GuideInv
    <2> QED
      BY <1>1, <1>8, <2>2, GuideTypes, DependsAppend
  <1>11. Sizes(spans')
    <2>1. /\ e \in [SpanIxs -> Seq(1 .. MaxItems)]
          /\ \A j \in SpanIxs : Len(e[j]) <= Parallelism
      <3>1. e \in [SpanIxs -> Seq(1 .. MaxItems)]
        BY <1>4 DEF Inv, Typed
      <3>2. ASSUME NEW j \in SpanIxs PROVE Len(e[j]) <= Parallelism
        <4>1. CASE j + n \in SpanIxs
          <5>1. e[j] = spans[j + n] /\ j + n # 0
            BY <1>3, <4>1, GuideConstants DEF e, Expropriated
          <5> QED
            BY <4>1, <5>1 DEF GuideInv, Sizes
        <4>2. CASE j + n \notin SpanIxs
          <5>1. e[j] = << >>
            BY <4>2 DEF e, Expropriated
          <5> QED
            BY <5>1, GuideConstants
        <4> QED
          BY <4>1, <4>2
      <3> QED
        BY <3>1, <3>2
    <2>2. \A j \in SpanIxs \ {Last} : spans'[j] = e[j]
      BY <1>1, <2>1
    <2>3. Len(spans'[Last]) = 1
      <3>1. spans'[Last] = Append(<< >>, Len(loc) + 1)
        BY <1>1, <1>5, <2>1, GuideConstants
      <3> QED
        BY <3>1
    <2>4. ASSUME NEW j \in SpanIxs PROVE Len(spans'[j]) <= Parallelism
      <3>1. CASE j = Last
        <4>1. Len(spans'[j]) = 1
          BY <2>3, <3>1
        <4>2. 1 <= Parallelism
          BY GuideConstants
        <4> QED
          BY <4>1, <4>2
      <3>2. CASE j # Last
        BY <2>1, <2>2, <3>2
      <3> QED
        BY <3>1, <3>2
    <2>5. Len(spans'[0]) <= Parallelism + 1
      <3>1. Len(spans'[0]) <= Parallelism /\ Len(spans'[0]) \in Int
        <4>1. 0 \in SpanIxs
          BY GuideConstants
        <4>2. spans'[0] \in Seq(1 .. MaxItems)
          BY <1>7, <4>1 DEF Inv, Typed
        <4> QED
          BY <2>4, <4>1, <4>2
      <3> QED
        BY <3>1, GuideConstants
    <2> QED
      BY <2>4, <2>5 DEF Sizes
  <1> QED
    BY <1>7, <1>10, <1>11 DEF GuideInv

(* Appending the spans one by one appends what is written of all of them. *)
LEMMA AppendWritten ==
    ASSUME NEW o \in Seq(OrderInfos), NEW v \in Seq(OrderInfos), NEW w \in Seq(OrderInfos)
    PROVE  (o \o v) \o w = o \o (v \o w)
  BY ConcatAssociative

LEMMA WrittenInv ==
    ASSUME GuideInv
    PROVE  /\ written[GUIDE_SIZE] \in Seq(OrderInfos)
           /\ Inv(order \o written[GUIDE_SIZE], first_id + GUIDE_SIZE,
                  Expropriated(spans, GUIDE_SIZE), loc)
  <1> DEFINE Holds(n) == /\ written[n] \in Seq(OrderInfos)
                         /\ Inv(order \o written[n], first_id + n, Expropriated(spans, n), loc)
             T == {n \in 0 .. GUIDE_SIZE : ~ Holds(n)}
  <1>1. Holds(0)
    <2>1. Expropriated(spans, 0) = spans
      <3>1. Expropriated(spans, 0) = [i \in SpanIxs |-> spans[i]]
        BY GuideConstants DEF Expropriated
      <3> QED
        BY <3>1, GuideTypes
    <2>2. first_id + 0 = first_id /\ order \o << >> = order
      BY GuideTypes, ConcatEmptySeq
    <2>3. written[0] = << >> /\ << >> \in Seq(OrderInfos)
      BY WrittenDefined, EmptySeq
    <2> QED
      BY <2>1, <2>2, <2>3 DEF GuideInv
  <1>2. ASSUME NEW n \in SpanIxs, Holds(n) PROVE Holds(n + 1)
    <2>1. written[n + 1] = written[n] \o Written(spans, n)
      BY WrittenDefined
    <2>2. Written(spans, n) \in Seq(OrderInfos)
      BY GuideTypes, WrittenWrites DEF WritesSpan
    <2>3. written[n + 1] \in Seq(OrderInfos)
      BY <1>2, <2>1, <2>2, ConcatProperties
    <2>4. Inv((order \o written[n]) \o Written(spans, n), first_id + (n + 1),
              Expropriated(spans, n + 1), loc)
      BY <1>2, GuideTypes, ReleaseNext
    <2>5. (order \o written[n]) \o Written(spans, n) = order \o written[n + 1]
      <3>1. order \in Seq(OrderInfos) /\ written[n] \in Seq(OrderInfos)
        BY <1>2, GuideTypes
      <3>2. (order \o written[n]) \o Written(spans, n)
                = order \o (written[n] \o Written(spans, n))
        BY <2>2, <3>1, AppendWritten
      <3> QED
        BY <2>1, <3>2
    <2> QED
      BY <2>3, <2>4, <2>5
  <1> HIDE DEF Holds
  <1>3. T = {}
    <2> SUFFICES ASSUME T # {} PROVE FALSE
      OBVIOUS
    <2>1. T \subseteq Nat
      OBVIOUS
    <2>2. PICK m \in T : \A y \in T : m <= y
      BY <2>1, LeastNatural
    <2>3. m \in 0 .. GUIDE_SIZE /\ m # 0 /\ ~Holds(m)
      BY <1>1, <2>2
    <2>4. m - 1 \in SpanIxs /\ m - 1 \in 0 .. GUIDE_SIZE /\ (m - 1) + 1 = m /\ ~(m <= m - 1)
      BY <2>3, GuideConstants DEF SpanIxs
    <2>5. Holds(m - 1)
      BY <2>2, <2>4
    <2>6. Holds((m - 1) + 1)
      BY <1>2, <2>4, <2>5
    <2> QED
      BY <2>3, <2>4, <2>6
  <1>4. Holds(GUIDE_SIZE)
    <2>1. GUIDE_SIZE \in 0 .. GUIDE_SIZE
      BY GuideConstants
    <2> QED
      BY <1>3, <2>1
  <1> QED
    BY <1>4 DEF Holds

(* flush leaves every span empty. *)
LEMMA FlushEmpties ==
    ASSUME Flush, NEW j \in SpanIxs
    PROVE  spans'[j] = << >>
  <1>1. j + GUIDE_SIZE \notin SpanIxs
    BY GuideConstants DEF SpanIxs
  <1> QED
    BY <1>1 DEF Flush, Expropriated

LEMMA FlushInv == GuideInv /\ Flush => GuideInv'
  <1> SUFFICES ASSUME GuideInv, Flush PROVE GuideInv'
    OBVIOUS
  <1>1. Inv(order', first_id', spans', loc')
    BY WrittenInv DEF Flush
  <1>2. Sizes(spans')
    BY FlushEmpties, GuideConstants DEF Sizes
  <1> QED
    BY <1>1, <1>2 DEF GuideInv, Flush

(* What is in the execution order stays there, at its index. *)
OrderGrows ==
    /\ Len(order) \in Nat /\ Len(order') \in Nat /\ Len(order) <= Len(order')
    /\ \A k \in 1 .. Len(order) : order'[k] = order[k]

LEMMA AppendGrows ==
    ASSUME order \in Seq(OrderInfos), NEW w \in Seq(OrderInfos), order' = order \o w
    PROVE  OrderGrows
  <1>1. /\ Len(order) \in Nat /\ Len(w) \in Nat
        /\ Len(order \o w) = Len(order) + Len(w)
        /\ \A k \in 1 .. Len(order) + Len(w) :
                (order \o w)[k] = IF k <= Len(order) THEN order[k] ELSE w[k - Len(order)]
    BY LenProperties, ConcatProperties
  <1>2. \A k \in 1 .. Len(order) : k \in 1 .. Len(order) + Len(w) /\ k <= Len(order)
    BY <1>1
  <1> QED
    BY <1>1, <1>2 DEF OrderGrows

LEMMA FlushGrows ==
    ASSUME GuideInv, Flush
    PROVE  OrderGrows
  BY WrittenInv, AppendGrows, GuideTypes DEF Flush

(* A release of up to two spans. *)
LEMMA ReleaseGrows ==
    ASSUME order \in Seq(OrderInfos), NEW s \in [SpanIxs -> Seq(1 .. MaxItems)],
           NEW n \in Nat, Release(s, n)
    PROVE  OrderGrows
  <1> DEFINE v == IF n > 0 THEN Written(s, 0) ELSE << >>
             w == IF n > 1 THEN Written(s, 1) ELSE << >>
  <1>1. Written(s, 0) \in Seq(OrderInfos) /\ Written(s, 1) \in Seq(OrderInfos)
    BY WrittenWrites, GuideConstants DEF WritesSpan
  <1>2. v \in Seq(OrderInfos) /\ w \in Seq(OrderInfos)
    BY <1>1, EmptySeq
  <1>3. order' = order \o v \o w
    BY DEF Release
  <1> HIDE DEF v, w
  <1>4. order' = order \o (v \o w) /\ v \o w \in Seq(OrderInfos)
    BY <1>2, <1>3, AppendWritten, ConcatProperties
  <1> QED
    BY <1>4, AppendGrows

(* A push appends to what it returned before, and returns a location that is not
   released with it and not in the first span the guide ever had. *)
LEMMA PushGrows ==
    ASSUME GuideInv, Len(loc) < MaxItems, NEW a \in 0 .. Len(loc), Push(a)
    PROVE  /\ OrderGrows
           /\ after' = Append(after, a)
           /\ \E l \in GuideLocs : loc' = Append(loc, l) /\ l.id >= first_id' /\ l.id > 0
  <1>1. CASE PushExisting(a)
    <2> DEFINE i == IF Before(a) THEN 1 ELSE Min(FreeSpans(a))
               filled == [spans EXCEPT ![i] = Append(@, Len(loc) + 1)]
               n == ReleasedBy(i)
               d == loc[a].id - first_id
    <2>1. /\ Release(filled, n) /\ loc' = Append(loc, LocAt(i)) /\ after' = Append(after, a)
      BY <1>1 DEF PushExisting
    <2>2. i \in SpanIxs /\ i >= 1
      BY <1>1, ExistingSpan
    <2>3. n \in 0 .. 1 /\ first_id' = first_id + n
      BY <2>1 DEF ReleasedBy, Release
    <2>4. filled \in [SpanIxs -> Seq(1 .. MaxItems)]
      <3>1. Len(loc) + 1 \in 1 .. MaxItems
        BY GuideTypes, GuideConstants
      <3>2. Append(spans[i], Len(loc) + 1) \in Seq(1 .. MaxItems)
        BY <2>2, <3>1, GuideTypes, AppendProperties
      <3> QED
        BY <2>2, <3>2, GuideTypes
    <2> HIDE DEF i, filled, n
    <2>5. OrderGrows
      <3>1. n \in Nat /\ order \in Seq(OrderInfos)
        BY <2>3, GuideTypes
      <3> QED
        BY <2>1, <2>4, <3>1, ReleaseGrows
    <2>6. LocAt(i) \in GuideLocs /\ LocAt(i).id >= first_id' /\ LocAt(i).id > 0
      <3>1. first_id \in Nat /\ i \in Nat /\ Len(spans[i]) \in Nat
        BY <2>2, GuideTypes, GuideConstants
      <3> QED
        BY <2>2, <2>3, <3>1 DEF LocAt, GuideLocs
    <2> QED
      BY <2>1, <2>5, <2>6
  <1>2. CASE PushNew(a)
    <2> DEFINE n == IF InLast(a) THEN 2 ELSE 1
               l == [id |-> first_id + GUIDE_SIZE - 1 + n, pos |-> 0]
    <2>1. Release(spans, n) /\ loc' = Append(loc, l) /\ after' = Append(after, a)
      BY <1>2 DEF PushNew
    <2>2. first_id' = first_id + n /\ n \in 1 .. 2
      BY <2>1 DEF Release
    <2> HIDE DEF n
    <2>3. OrderGrows
      <3>1. n \in Nat /\ order \in Seq(OrderInfos) /\ spans \in [SpanIxs -> Seq(1 .. MaxItems)]
        BY <2>2, GuideTypes
      <3> QED
        BY <2>1, <3>1, ReleaseGrows
    <2>4. l \in GuideLocs /\ l.id >= first_id' /\ l.id > 0
      <3> DEFINE d == first_id + GUIDE_SIZE - 1 + n
      <3>1. d \in Nat /\ d >= first_id + n /\ d > 0
        BY SMTT(30), <2>2, GuideTypes, GuideConstants
      <3>2. l = [id |-> d, pos |-> 0]
        OBVIOUS
      <3> HIDE DEF d, l
      <3> QED
        BY <2>2, <3>1, <3>2 DEF GuideLocs
    <2> QED
      BY <2>1, <2>3, <2>4
  <1> QED
    BY <1>1, <1>2 DEF Push

LEMMA NextGuideInv == GuideInv /\ [GuideNext]_guide_vars => GuideInv'
  <1> SUFFICES ASSUME GuideInv, [GuideNext]_guide_vars PROVE GuideInv'
    OBVIOUS
  <1>1. ASSUME Len(loc) < MaxItems, NEW a \in 0 .. Len(loc), Push(a) PROVE GuideInv'
    BY <1>1, PushExistingInv, PushNewInv DEF Push
  <1>2. CASE Flush
    BY <1>2, FlushInv
  <1>3. CASE UNCHANGED guide_vars
    BY <1>3 DEF guide_vars, GuideInv
  <1> QED
    BY <1>1, <1>2, <1>3 DEF GuideNext

LEMMA GuideInvariance == GuideSpec => []GuideInv
  BY InitGuideInv, NextGuideInv, PTL DEF GuideSpec

-----------------------------------------------------------------------------
(* Locations, and the items of the order *)

(* Locations are compared like numbers. *)
LEMMA PrecedesOrder ==
    ASSUME NEW k \in GuideLocs, NEW l \in GuideLocs, NEW m \in GuideLocs
    PROVE  /\ Precedes(k, l) /\ Precedes(l, m) => Precedes(k, m)
           /\ ~Precedes(k, l) /\ ~Precedes(l, m) => ~Precedes(k, m)
           /\ ~Precedes(k, k)
           /\ k = l \/ Precedes(k, l) \/ Precedes(l, k)
           /\ Precedes(k, l) => ~Precedes(l, k)
  <1>1. /\ k.id \in Nat /\ k.pos \in Nat /\ l.id \in Nat /\ l.pos \in Nat
        /\ m.id \in Nat /\ m.pos \in Nat
    BY DEF GuideLocs
  <1>2. k.id = l.id /\ k.pos = l.pos => k = l
    BY DEF GuideLocs
  <1> QED
    BY <1>1, <1>2 DEF Precedes

(* Among some of the items, one has the latest location. *)
LEMMA LatestItem ==
    ASSUME NEW l \in Seq(GuideLocs), NEW T, T \subseteq 1 .. Len(l), T # {}
    PROVE  \E k \in T : \A t \in T : ~Precedes(l[k], l[t])
  <1> DEFINE Latest(n) == T \cap (1 .. n) # {} =>
                    \E k \in T \cap (1 .. n) : \A t \in T \cap (1 .. n) : ~Precedes(l[k], l[t])
             Bad == {n \in 0 .. Len(l) : ~Latest(n)}
  <1>1. Len(l) \in Nat /\ \A t \in 1 .. Len(l) : l[t] \in GuideLocs
    BY LenProperties, ElementOfSeq
  <1>2. Latest(0)
    OBVIOUS
  <1>3. ASSUME NEW n \in 0 .. Len(l), n # Len(l), Latest(n) PROVE Latest(n + 1)
    <2>0. n \in Nat /\ n + 1 \in 1 .. Len(l) /\ T \cap (1 .. n) \subseteq T \cap (1 .. n + 1)
      BY <1>1, <1>3
    <2>1. \A t \in T \cap (1 .. n + 1) : t \in T \cap (1 .. n) \/ t = n + 1
      BY <2>0
    <2>2. CASE n + 1 \notin T
      <3>1. T \cap (1 .. n + 1) = T \cap (1 .. n)
        BY <2>0, <2>1, <2>2
      <3> QED
        BY <1>3, <3>1
    <2>3. CASE n + 1 \in T /\ T \cap (1 .. n) = {}
      <3>1. \A t \in T \cap (1 .. n + 1) : t = n + 1
        BY <2>1, <2>3
      <3>2. ~Precedes(l[n + 1], l[n + 1])
        BY <1>1, <2>0, PrecedesOrder
      <3>3. n + 1 \in T \cap (1 .. n + 1)
        BY <2>0, <2>3
      <3> QED
        BY <3>1, <3>2, <3>3
    <2>4. CASE n + 1 \in T /\ T \cap (1 .. n) # {}
      <3>1. PICK k \in T \cap (1 .. n) : \A t \in T \cap (1 .. n) : ~Precedes(l[k], l[t])
        BY <1>3, <2>4
      <3>2. l[k] \in GuideLocs /\ l[n + 1] \in GuideLocs
            /\ \A t \in T : l[t] \in GuideLocs
        BY <1>1, <2>0
      <3>3. k \in T \cap (1 .. n + 1) /\ n + 1 \in T \cap (1 .. n + 1)
        BY <2>0, <2>4
      <3>4. CASE Precedes(l[k], l[n + 1])
        <4>1. \A t \in T \cap (1 .. n + 1) : ~Precedes(l[n + 1], l[t])
          <5> TAKE t \in T \cap (1 .. n + 1)
          <5>1. ~Precedes(l[n + 1], l[k])
            BY <3>2, <3>4, PrecedesOrder
          <5>2. CASE t = n + 1
            BY <3>2, <5>2, PrecedesOrder
          <5>3. CASE t # n + 1
            <6>1. ~Precedes(l[k], l[t])
              BY <2>1, <3>1, <5>3
            <6> QED
              BY <3>2, <5>1, <6>1, PrecedesOrder
          <5> QED
            BY <5>2, <5>3
        <4> QED
          BY <3>3, <4>1
      <3>5. CASE ~Precedes(l[k], l[n + 1])
        <4>1. \A t \in T \cap (1 .. n + 1) : ~Precedes(l[k], l[t])
          BY <2>1, <3>1, <3>5
        <4> QED
          BY <3>3, <4>1
      <3> QED
        BY <3>4, <3>5
    <2> QED
      BY <2>2, <2>3, <2>4
  <1> HIDE DEF Latest
  <1>4. Bad = {}
    <2> SUFFICES ASSUME Bad # {} PROVE FALSE
      OBVIOUS
    <2>1. Bad \subseteq Nat
      BY <1>1
    <2>2. PICK n \in Bad : \A m \in Bad : n <= m
      BY <2>1, LeastNatural
    <2>3. n \in 0 .. Len(l) /\ n # 0 /\ ~Latest(n)
      BY <1>2, <2>2
    <2>4. n - 1 \in 0 .. Len(l) /\ n - 1 # Len(l) /\ (n - 1) + 1 = n /\ ~(n <= n - 1)
      BY <1>1, <2>3
    <2>5. Latest(n - 1)
      BY <2>2, <2>4
    <2>6. Latest((n - 1) + 1)
      BY <1>3, <2>4, <2>5
    <2> QED
      BY <2>3, <2>4, <2>6
  <1>5. Latest(Len(l))
    <2>1. Len(l) \in 0 .. Len(l)
      BY <1>1
    <2> QED
      BY <1>4, <2>1
  <1>6. T \cap (1 .. Len(l)) = T
    OBVIOUS
  <1> QED
    BY <1>5, <1>6 DEF Latest

(* The execution order holds items, each once, with some parallelism. *)
LEMMA ItemsInOrder ==
    ASSUME NEW o, NEW f, NEW s, NEW l, Inv(o, f, s, l)
    PROVE  /\ o \in Seq(OrderInfos) /\ Len(o) \in Nat /\ Len(o) <= MaxItems
           /\ \A k \in 1 .. Len(o) :
                /\ o[k].item \in 1 .. Len(l)
                /\ o[k].parallelism \in Nat /\ o[k].parallelism > 0
           /\ \A j, k \in 1 .. Len(o) : o[j].item = o[k].item => j = k
  <1>1. /\ o \in Seq(OrderInfos) /\ Len(o) \in Nat
        /\ \A k \in 1 .. Len(o) : o[k] \in OrderInfos
    <2>1. o \in Seq(OrderInfos)
      BY DEF Inv, Typed
    <2> QED
      BY <2>1, LenProperties, ElementOfSeq
  <1>2. \A k \in 1 .. Len(o) :
            o[k].item \in 1 .. Len(l) /\ l[o[k].item] \in GuideLocs
    <2>1. l \in Seq(GuideLocs)
      BY DEF Inv, Typed
    <2> QED
      BY <2>1, ElementOfSeq DEF Inv, Sorted
  <1>3. \A k \in 1 .. Len(o) :
            o[k].parallelism \in Nat /\ o[k].parallelism > 0
    BY <1>1 DEF Inv, Windows, Window, OrderInfos
  <1>4. ASSUME NEW j \in 1 .. Len(o), NEW k \in 1 .. Len(o),
               o[j].item = o[k].item
        PROVE  j = k
    <2>1. \A i, n \in 1 .. Len(o) :
            i < n => Precedes(l[o[i].item], l[o[n].item])
      BY DEF Inv, Sorted
    <2>2. ~Precedes(l[o[k].item], l[o[k].item])
      BY <1>2, PrecedesOrder
    <2>3. ~(j < k) /\ ~(k < j)
      BY <1>4, <2>1, <2>2
    <2> QED
      BY <1>1, <2>3
  <1>5. Len(o) <= MaxItems
    <2> DEFINE itemAt == [k \in 1 .. Len(o) |-> o[k].item]
    <2>1. itemAt \in Injection(1 .. Len(o), 1 .. MaxItems)
      <3>1. itemAt \in [1 .. Len(o) -> 1 .. MaxItems]
        BY <1>1 DEF OrderInfos
      <3>2. \A j, k \in 1 .. Len(o) : itemAt[j] = itemAt[k] => j = k
        BY <1>4
      <3> HIDE DEF itemAt
      <3> QED
        BY <3>1, <3>2 DEF Injection, IsInjective
    <2>2. /\ IsFiniteSet(1 .. MaxItems) /\ Cardinality(1 .. MaxItems) <= MaxItems
          /\ Cardinality(1 .. Len(o)) = Len(o)
      <3>1. 1 \in Int /\ MaxItems \in Int /\ Len(o) \in Int /\ MaxItems \in Nat
        BY <1>1, GuideConstants
      <3>2. /\ IsFiniteSet(1 .. MaxItems)
            /\ Cardinality(1 .. MaxItems) = IF 1 > MaxItems THEN 0 ELSE MaxItems - 1 + 1
            /\ Cardinality(1 .. Len(o)) = IF 1 > Len(o) THEN 0 ELSE Len(o) - 1 + 1
        BY <3>1, FS_Interval
      <3> QED
        BY <1>1, <3>1, <3>2
    <2>3. Cardinality(1 .. Len(o)) <= Cardinality(1 .. MaxItems)
      BY <2>1, <2>2, FS_Injection
    <2>4. Cardinality(1 .. MaxItems) \in Nat
      BY <2>2, FS_CardinalityType
    <2> QED
      BY <1>1, <2>2, <2>3, <2>4, GuideConstants
  <1> QED
    BY <1>1, <1>2, <1>3, <1>4, <1>5

LEMMA OrderedItems ==
    ASSUME GuideInv
    PROVE  /\ order \in Seq(OrderInfos) /\ Len(order) \in Nat /\ Len(order) <= MaxItems
           /\ \A k \in 1 .. Len(order) :
                /\ order[k].item \in Items
                /\ order[k].parallelism \in Nat /\ order[k].parallelism > 0
           /\ \A j, k \in 1 .. Len(order) : order[j].item = order[k].item => j = k
  BY ItemsInOrder DEF GuideInv, Items

-----------------------------------------------------------------------------
(* What the guide promises *)

(* The state of BufferSpans is typed: what push reads of a span or of a location is
   a number, the items it holds are resolvers. *)
THEOREM GuideTypeCorrect == GuideSpec => []GuideTypeOK
  <1>1. GuideInv => GuideTypeOK
    BY DEF GuideInv, Inv, Typed, GuideTypeOK
  <1> QED
    BY <1>1, GuideInvariance, PTL

(* No sequence of pushes and flushes overflows the buffer of a span: the capacity
   that BufferSpan::push asserts. *)
THEOREM SpansKeepCapacity == GuideSpec => []SpanCapacity
  <1>1. GuideInv => SpanCapacity
    <2> SUFFICES ASSUME GuideInv, NEW i \in SpanIxs PROVE Len(spans[i]) <= Parallelism + 1
      BY DEF SpanCapacity
    <2>1. CASE i = 0
      BY <2>1 DEF GuideInv, Sizes
    <2>2. CASE i # 0
      <3>1. Len(spans[i]) <= Parallelism /\ Len(spans[i]) \in Nat
        BY <2>2, GuideTypes DEF GuideInv, Sizes
      <3> QED
        BY <3>1, GuideConstants
    <2> QED
      BY <2>1, <2>2
  <1> QED
    BY <1>1, GuideInvariance, PTL

(* The execution order is sorted by the locations push returned, which is all the
   awaiters compare. *)
THEOREM OrderIsSorted == GuideSpec => []OrderFollowsLoc
  <1>1. GuideInv => OrderFollowsLoc
    <2> SUFFICES ASSUME GuideInv PROVE OrderFollowsLoc
      OBVIOUS
    <2>1. /\ \A k \in 1 .. Len(order) : /\ order[k].item \in 1 .. Len(loc)
                                        /\ loc[order[k].item].id < first_id
          /\ \A j, k \in 1 .. Len(order) :
                j < k => Precedes(loc[order[j].item], loc[order[k].item])
      BY DEF GuideInv, Inv, Sorted
    <2>2. ASSUME NEW k \in 1 .. Len(order), NEW i \in SpanIxs, NEW x \in 1 .. Len(spans[i])
          PROVE  Precedes(loc[order[k].item], loc[spans[i][x]])
      <3>1. loc[spans[i][x]].id = first_id + i
        BY DEF GuideInv, Inv, Placed
      <3>2. loc[order[k].item].id < first_id /\ loc[order[k].item].id \in Nat
        BY <2>1, GuideTypes
      <3>3. first_id \in Nat /\ i \in Nat
        BY GuideTypes, GuideConstants
      <3>4. loc[order[k].item].id < loc[spans[i][x]].id
        BY <3>1, <3>2, <3>3
      <3> QED
        BY <3>4 DEF Precedes
    <2> QED
      BY <2>1, <2>2 DEF OrderFollowsLoc
  <1> QED
    BY <1>1, GuideInvariance, PTL

(* A pushed item is in the order once or buffered once: it is where its location
   says, and the locations are distinct. *)
LEMMA HeldOnce ==
    ASSUME GuideInv, NEW t \in Items
    PROVE  Cardinality({k \in 1 .. Len(order) : order[k].item = t})
           + Cardinality({p \in SpanIxs \X (1 .. MaxItems) :
                p[2] \in 1 .. Len(spans[p[1]]) /\ spans[p[1]][p[2]] = t}) = 1
  <1> DEFINE R == {k \in 1 .. Len(order) : order[k].item = t}
             B == {p \in SpanIxs \X (1 .. MaxItems) :
                      p[2] \in 1 .. Len(spans[p[1]]) /\ spans[p[1]][p[2]] = t}
  <1>1. t \in 1 .. Len(loc) /\ loc[t].id \in Nat /\ loc[t].pos \in Nat /\ Len(order) \in Nat
    BY GuideTypes DEF Items
  <1>2. ASSUME NEW k \in R PROVE k \in Nat /\ loc[t].id < first_id
    BY <1>1 DEF GuideInv, Inv, Sorted
  <1>3. ASSUME NEW i \in SpanIxs, NEW x \in 1 .. Len(spans[i]), spans[i][x] = t
        PROVE  /\ loc[t].id = first_id + i /\ loc[t].pos = x - 1
               /\ x \in 1 .. MaxItems
    <2>1. x <= t /\ loc[t].id = first_id + i /\ loc[t].pos = x - 1
      BY <1>3 DEF GuideInv, Inv, Placed
    <2>2. Len(loc) <= MaxItems
      BY DEF GuideInv, Inv, Typed
    <2> QED
      BY <1>1, <2>1, <2>2, GuideTypes, GuideConstants
  <1>4. CASE loc[t].id < first_id
    <2>1. B = {}
      <3> SUFFICES ASSUME NEW p \in B PROVE FALSE
        OBVIOUS
      <3>1. loc[t].id = first_id + p[1] /\ p[1] \in SpanIxs
        BY <1>3
      <3> QED
        BY <1>1, <1>4, <3>1, GuideTypes, GuideConstants
    <2>2. PICK k \in 1 .. Len(order) : order[k].item = t
      <3>1. ~ \E i \in SpanIxs : \E x \in 1 .. Len(spans[i]) : spans[i][x] = t
        <4> SUFFICES ASSUME NEW i \in SpanIxs, NEW x \in 1 .. Len(spans[i]), spans[i][x] = t
                     PROVE  FALSE
          OBVIOUS
        <4>1. loc[t].id = first_id + i
          BY <1>3
        <4> QED
          BY <1>1, <1>4, <4>1, GuideTypes, GuideConstants
      <3> QED
        BY <1>1, <3>1 DEF GuideInv, Inv, Complete
    <2>3. ASSUME NEW j \in R PROVE j = k
      <3>1. ~ Precedes(loc[t], loc[t])
        BY <1>1 DEF Precedes
      <3>2. \A i, n \in 1 .. Len(order) :
              i < n => Precedes(loc[order[i].item], loc[order[n].item])
        BY DEF GuideInv, Inv, Sorted
      <3>3. j \in 1 .. Len(order) /\ order[j].item = t
        OBVIOUS
      <3>4. ~(j < k) /\ ~(k < j)
        BY <2>2, <3>1, <3>2, <3>3
      <3> QED
        BY <1>1, <3>3, <3>4
    <2>4. R = {k}
      BY <2>2, <2>3
    <2>5. Cardinality(R) = 1 /\ Cardinality(B) = 0
      BY <2>1, <2>4, FS_EmptySet, FS_Singleton
    <2> HIDE DEF R, B
    <2>6. Cardinality(R) + Cardinality(B) = 1
      BY <2>5
    <2> QED
      BY <2>6 DEF R, B
  <1>5. CASE ~(loc[t].id < first_id)
    <2>1. R = {}
      BY <1>2, <1>5
    <2>2. PICK i \in SpanIxs : \E x \in 1 .. Len(spans[i]) : spans[i][x] = t
      BY <1>1, <1>5 DEF GuideInv, Inv, Complete
    <2>3. PICK x \in 1 .. Len(spans[i]) : spans[i][x] = t
      BY <2>2
    <2>4. loc[t].id = first_id + i /\ loc[t].pos = x - 1 /\ x \in 1 .. MaxItems
      BY <1>3, <2>3
    <2>5. <<i, x>> \in B
      BY <2>3, <2>4
    <2>6. ASSUME NEW p \in B PROVE p = <<i, x>>
      <3>1. /\ p[1] \in SpanIxs /\ p[2] \in 1 .. Len(spans[p[1]]) /\ p = <<p[1], p[2]>>
            /\ loc[t].id = first_id + p[1] /\ loc[t].pos = p[2] - 1
        BY <1>3
      <3>2. p[1] = i /\ p[2] = x
        <4>1. first_id \in Nat /\ i \in Nat /\ p[1] \in Nat /\ x \in Nat /\ p[2] \in Int
          BY <3>1, GuideTypes, GuideConstants
        <4> QED
          BY <2>4, <3>1, <4>1
      <3> QED
        BY <3>1, <3>2
    <2>7. B = {<<i, x>>}
      BY <2>5, <2>6
    <2>8. Cardinality(R) = 0 /\ Cardinality(B) = 1
      BY <2>1, <2>7, FS_EmptySet, FS_Singleton
    <2> HIDE DEF R, B
    <2>9. Cardinality(R) + Cardinality(B) = 1
      BY <2>8
    <2> QED
      BY <2>9 DEF R, B
  <1> QED
    BY <1>4, <1>5

(* An item is in the order once, or in one span once: no carry and no flush loses a
   resolver or releases it twice. *)
THEOREM NothingIsLost == GuideSpec => []NothingLost
  <1>1. GuideInv => NothingLost
    BY HeldOnce DEF NothingLost
  <1> QED
    BY <1>1, GuideInvariance, PTL

(* A location that comes a span or more before one near m, and not closer to the
   start of its span if it is the next, comes before m. *)
LEMMA BeforeNear ==
    ASSUME NEW la \in GuideLocs, NEW lb \in GuideLocs, NEW m \in GuideLocs, la.id < lb.id,
           lb.id = la.id + 1 => la.pos <= lb.pos, Near(lb, m)
    PROVE  Precedes(la, m)
  <1>1. /\ la.id \in Nat /\ la.pos \in Nat /\ lb.id \in Nat /\ lb.pos \in Nat
        /\ m.id \in Nat /\ m.pos \in Nat
    BY DEF GuideLocs
  <1>2. CASE lb.id = m.id
    BY <1>2 DEF Precedes
  <1>3. CASE lb.id = m.id + 1 /\ lb.pos < m.pos
    <2>1. la.id < m.id \/ la.id = m.id
      BY <1>1, <1>3
    <2>2. la.id = m.id => la.pos <= lb.pos
      BY <1>1, <1>3
    <2>3. la.id = m.id => la.pos < m.pos
      BY <1>1, <1>3, <2>2
    <2> QED
      BY <2>1, <2>3 DEF Precedes
  <1> QED
    BY <1>2, <1>3 DEF Near

(* An item whose location is before the first span is in the order. *)
LEMMA ReleasedItem ==
    ASSUME GuideInv, NEW a \in 1 .. Len(loc), loc[a].id < first_id
    PROVE  \E i \in 1 .. Len(order) : order[i].item = a
  <1>1. ~ \E j \in SpanIxs : \E x \in 1 .. Len(spans[j]) : spans[j][x] = a
    <2> SUFFICES ASSUME NEW j \in SpanIxs, NEW x \in 1 .. Len(spans[j]), spans[j][x] = a
                 PROVE  FALSE
      OBVIOUS
    <2>1. loc[a].id = first_id + j
      BY DEF GuideInv, Inv, Placed
    <2> QED
      BY <2>1, GuideTypes, GuideConstants
  <1> QED
    BY <1>1 DEF GuideInv, Inv, Complete

(* What an item b of the window that starts at k was pushed after, if anything, is
   in the order before k. *)
LEMMA WindowIndependent ==
    ASSUME GuideInv, NEW k \in 1 .. Len(order), NEW b \in k .. Len(order),
           b < k + order[k].parallelism, after[order[b].item] # 0
    PROVE  \E i \in 1 .. k - 1 : order[i].item = after[order[b].item]
  <1> DEFINE t == order[b].item
             a == after[order[b].item]
             lk == loc[order[k].item]
  <1>1. /\ Len(order) \in Nat /\ b \in 1 .. Len(order)
        /\ order[k].parallelism \in Nat
    <2>1. order \in Seq(OrderInfos)
      BY GuideTypes
    <2>2. order[k] \in OrderInfos
      BY <2>1
    <2> QED
      BY <2>1, <2>2 DEF OrderInfos
  <1>2. Near(loc[t], lk)
    <2>1. Window(order, first_id, spans, loc, k)
      BY DEF GuideInv, Inv, Windows
    <2>2. b <= k + order[k].parallelism - 1
      BY <1>1
    <2> QED
      BY <2>1, <2>2 DEF Window
  <1>3. /\ t \in 1 .. Len(loc) /\ loc[t].id < first_id
        /\ order[k].item \in 1 .. Len(loc)
    BY <1>1 DEF GuideInv, Inv, Sorted
  <1>4. /\ a \in 1 .. Len(loc) /\ loc[a].id < loc[t].id
        /\ loc[t].id = loc[a].id + 1 => loc[a].pos <= loc[t].pos
    BY <1>3 DEF GuideInv, Depends
  <1> HIDE DEF t, a, lk
  <1>5. /\ loc[t].id \in Nat /\ loc[t].pos \in Nat /\ loc[a].id \in Nat
        /\ loc[a].pos \in Nat /\ lk.id \in Nat /\ lk.pos \in Nat /\ first_id \in Nat
    BY <1>3, <1>4, GuideTypes DEF lk
  <1>6. Precedes(loc[a], lk)
    <2>1. \A u \in 1 .. Len(loc) : loc[u] \in GuideLocs
      BY GuideTypes
    <2>2. loc[a] \in GuideLocs /\ loc[t] \in GuideLocs /\ lk \in GuideLocs
      <3>1. a \in 1 .. Len(loc) /\ t \in 1 .. Len(loc) /\ order[k].item \in 1 .. Len(loc)
        BY <1>3, <1>4
      <3> QED
        BY <2>1, <3>1 DEF lk
    <2> QED
      BY <1>2, <1>4, <2>2, BeforeNear
  <1>7. loc[a].id < first_id
    BY SMTT(30), <1>3, <1>4, <1>5
  <1>8. PICK i \in 1 .. Len(order) : order[i].item = a
    BY <1>4, <1>7, ReleasedItem
  <1>9. i < k
    <2>1. ~ Precedes(lk, loc[a])
      BY <1>5, <1>6 DEF Precedes
    <2>2. k < i => Precedes(lk, loc[a])
      BY <1>8 DEF GuideInv, Inv, Sorted, lk
    <2>3. i # k
      <3>1. ~ Precedes(lk, lk)
        BY <1>5 DEF Precedes
      <3> QED
        BY <1>6, <1>8, <3>1 DEF lk
    <2> QED
      BY <1>1, <2>1, <2>2, <2>3
  <1> QED
    BY <1>8, <1>9 DEF a

(* A batch of the resolution window holds no two items of which one waits for the
   other, and waits for nothing that is not released yet. *)
THEOREM BatchesAreIndependent == GuideSpec => []BatchesIndependent
  <1>1. ASSUME GuideInv, NEW k \in 1 .. Len(order) PROVE order[k].parallelism > 0
    BY <1>1 DEF GuideInv, Inv, Windows, Window
  <1>2. GuideInv => BatchesIndependent
    BY <1>1, WindowIndependent DEF BatchesIndependent
  <1> QED
    BY <1>2, GuideInvariance, PTL
=============================================================================
