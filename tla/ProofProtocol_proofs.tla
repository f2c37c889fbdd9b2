------------------------- MODULE ProofProtocol_proofs -------------------------
(***************************************************************************)
(* Proofs about the proof protocol and its FRI schedule, for every         *)
(* configuration: what compute_fri_schedule promises of the queries, the   *)
(* proof of work and the folds (cs/implementations/prover.rs); that the    *)
(* verifiers retrace the steps of the prover; and that every challenge     *)
(* depends on all that came before, and none on what was drawn before      *)
(* (cs/implementations/transcript.rs).                                     *)
(***************************************************************************)
EXTENDS ProofProtocol, CommonFacts, SequenceTheorems

-----------------------------------------------------------------------------
(* The schedule: queries and proof of work *)

(* Division with remainder, the one fact the rounding rests on. *)
LEMMA DivisionRemainder ==
    ASSUME NEW a \in Nat, NEW b \in Nat \ {0}
    PROVE  /\ a \div b \in Nat
           /\ a % b \in 0 .. b - 1
           /\ a = b * (a \div b) + (a % b)
OBVIOUS

(* The next multiple. *)
LEMMA NextMultiple ==
    ASSUME NEW b \in Nat \ {0}, NEW k \in Nat
    PROVE  /\ b * k \in Nat /\ k + 1 \in Nat
           /\ b * (k + 1) = b * k + b /\ (k + 1) * b = b * k + b
           /\ (b * (k + 1)) % b = 0
<1>1. b * k \in Nat /\ k + 1 \in Nat
  OBVIOUS
<1>2. b * (k + 1) = b * k + b /\ (k + 1) * b = b * k + b
  OBVIOUS
<1>3. (b * (k + 1)) % b = 0
  OBVIOUS
<1> QED
  BY <1>1, <1>2, <1>3

(* Rounding up: b times the result covers a, and one less does not. *)
LEMMA RoundedUp ==
    ASSUME NEW a \in Nat, NEW b \in Nat \ {0}
    PROVE  LET q == (a + b - 1) \div b
           IN  /\ q \in Nat
               /\ q * b >= a
               /\ q * b < a + b
<1> DEFINE q == (a + b - 1) \div b
           r == (a + b - 1) % b
<1>1. a + b - 1 \in Nat
  OBVIOUS
<1>2. q \in Nat /\ r \in 0 .. b - 1 /\ a + b - 1 = b * q + r
  BY <1>1, DivisionRemainder
<1>3. q * b = b * q
  BY <1>2
<1>4. b * q \in Int
  BY <1>2
<1> HIDE DEF q, r
<1>5. b * q >= a /\ b * q < a + b
  BY <1>2, <1>4
<1> QED
  BY <1>2, <1>3, <1>5 DEF q

(* Multiples of b are told apart by b. *)
LEMMA SameMultiple ==
    ASSUME NEW b \in Nat \ {0}, NEW p \in Nat, NEW q \in Nat,
           p * b < q * b + b, q * b < p * b + b
    PROVE  p = q
<1>1. CASE p < q
  <2>1. q = p + 1 + (q - p - 1) /\ q - p - 1 \in Nat
    BY <1>1
  <2>2. PICK k \in Nat : q = p + 1 + k
    BY <2>1
  <2>3. q * b = p * b + b + k * b /\ k * b \in Nat
    BY <2>2
  <2> QED
    BY <2>3
<1>2. CASE q < p
  <2>1. p = q + 1 + (p - q - 1) /\ p - q - 1 \in Nat
    BY <1>2
  <2>2. PICK k \in Nat : p = q + 1 + k
    BY <2>1
  <2>3. p * b = q * b + b + k * b /\ k * b \in Nat
    BY <2>2
  <2> QED
    BY <2>3
<1> QED
  BY <1>1, <1>2

\* What compute_fri_schedule asserts of its arguments, and the prover of the
\* LDE factor.
Schedulable(c) ==
    /\ c.rate \in Nat \ {0}
    /\ c.security \in Nat /\ c.pow \in Nat /\ c.security > c.pow

(* The bits of work are only ever lowered, and where they are, the queries of
   the schedule make up for it without a remainder. *)
THEOREM PowBitsLowered ==
    ASSUME NEW c, Schedulable(c)
    PROVE  /\ PowBits(c) \in 0 .. c.pow
           /\ PowBits(c) # c.pow => (c.security - PowBits(c)) % c.rate = 0
<1> DEFINE raw  == c.security - c.pow
           over == raw % c.rate
           k    == raw \div c.rate
<1>1. raw \in Nat /\ c.rate \in Nat \ {0} /\ c.pow \in Nat
  BY DEF Schedulable
<1>2. over \in 0 .. c.rate - 1 /\ k \in Nat /\ raw = c.rate * k + over
  BY <1>1, DivisionRemainder
<1>3. CASE over # 0 /\ c.pow >= c.rate - over
  <2>1. PowBits(c) = c.pow - (c.rate - over)
    BY <1>3 DEF PowBits
  <2>2. over \in Int /\ c.rate \in Int /\ c.security \in Int /\ c.pow \in Int
    BY SMTT(30), <1>1, <1>2 DEF Schedulable
  <2> HIDE DEF over, k
  <2>3. c.security - PowBits(c) = raw + (c.rate - over)
    BY <2>1, <2>2
  <2>4. /\ c.rate * k \in Nat /\ c.rate * (k + 1) = c.rate * k + c.rate
        /\ (c.rate * (k + 1)) % c.rate = 0
    BY <1>1, <1>2, NextMultiple
  <2> HIDE DEF raw
  <2>5. c.security - PowBits(c) = c.rate * (k + 1)
    BY <1>1, <1>2, <2>2, <2>3, <2>4
  <2>6. PowBits(c) \in 0 .. c.pow
    BY <1>1, <1>2, <1>3, <2>1, <2>2
  <2> QED
    BY <2>4, <2>5, <2>6
<1>4. CASE ~(over # 0 /\ c.pow >= c.rate - over)
  <2>1. PowBits(c) = c.pow
    BY <1>4 DEF PowBits
  <2> QED
    BY <1>1, <2>1
<1> QED
  BY <1>3, <1>4

(* The queries and the work together reach the security level, and one query
   less would not. *)
THEOREM SecurityReached ==
    ASSUME NEW c, Schedulable(c)
    PROVE  /\ NumQueries(c) * c.rate + PowBits(c) >= c.security
           /\ (NumQueries(c) - 1) * c.rate + PowBits(c) < c.security
<1> DEFINE need == c.security - PowBits(c)
           q    == NumQueries(c)
<1>1. /\ c.rate \in Nat \ {0} /\ c.security \in Nat
      /\ PowBits(c) \in Nat /\ need \in Nat
  BY PowBitsLowered DEF Schedulable
<1>2. q = (need + c.rate - 1) \div c.rate
  BY DEF NumQueries
<1>3. q \in Nat /\ q * c.rate >= need /\ q * c.rate < need + c.rate
  <2> HIDE DEF need, q
  <2> QED
    BY <1>1, <1>2, RoundedUp
<1>4. (q - 1) * c.rate = q * c.rate - c.rate /\ q * c.rate \in Int
  <2> HIDE DEF need, q
  <2> QED
    BY <1>1, <1>3
<1> QED
  BY <1>1, <1>3, <1>4

(* Lowering the bits of work costs no query: as many are made as the bits of
   the configuration would have asked for. *)
THEOREM LoweringIsFree ==
    ASSUME NEW c, Schedulable(c)
    PROVE  NumQueries(c) = (c.security - c.pow + c.rate - 1) \div c.rate
<1> DEFINE raw  == c.security - c.pow
           over == raw % c.rate
           k    == raw \div c.rate
           n    == (raw + c.rate - 1) \div c.rate
           need == c.security - PowBits(c)
           q    == NumQueries(c)
<1>1. raw \in Nat /\ c.rate \in Nat \ {0} /\ c.pow \in Nat /\ c.security \in Nat
  BY DEF Schedulable
<1>2. over \in 0 .. c.rate - 1 /\ k \in Nat /\ raw = c.rate * k + over
  BY <1>1, DivisionRemainder
<1>3. CASE over # 0 /\ c.pow >= c.rate - over
  <2>1. need = raw + (c.rate - over)
    <3>1. PowBits(c) = c.pow - (c.rate - over)
      BY <1>3 DEF PowBits
    <3>2. over \in Int /\ c.rate \in Int
      BY <1>1, <1>2
    <3> HIDE DEF over
    <3> QED
      BY <1>1, <3>1, <3>2
  <2>2. need \in Nat /\ need > raw /\ need < raw + c.rate
    <3> HIDE DEF need, raw, over
    <3> QED
      BY <1>1, <1>2, <1>3, <2>1
  <2>3. q = (need + c.rate - 1) \div c.rate
    BY DEF NumQueries
  <2>4. c.rate * k \in Int /\ (k + 1) * c.rate = c.rate * k + c.rate /\ k + 1 \in Nat
    <3> HIDE DEF k
    <3> QED
      BY <1>1, <1>2, NextMultiple
  <2>5. need = (k + 1) * c.rate
    <3> HIDE DEF need, raw, over, k
    <3> QED
      BY <1>1, <1>2, <2>1, <2>4
  <2>6. q \in Nat /\ q * c.rate >= need /\ q * c.rate < need + c.rate
    <3> HIDE DEF need, q
    <3> QED
      BY <1>1, <2>2, <2>3, RoundedUp
  <2>7. n \in Nat /\ n * c.rate >= raw /\ n * c.rate < raw + c.rate
    <3> HIDE DEF raw
    <3> QED
      BY <1>1, RoundedUp
  <2> HIDE DEF need, raw, over, k, n, q
  <2>8. q * c.rate \in Int /\ n * c.rate \in Int /\ (k + 1) * c.rate \in Int
    BY <1>1, <1>2, <2>6, <2>7
  <2>9. q = k + 1
    <3>1. q * c.rate < (k + 1) * c.rate + c.rate /\ (k + 1) * c.rate < q * c.rate + c.rate
      BY <1>1, <2>5, <2>6, <2>8
    <3> QED
      BY <1>1, <2>4, <2>6, <3>1, SameMultiple
  <2>10. n = k + 1
    <3>1. n * c.rate < (k + 1) * c.rate + c.rate /\ (k + 1) * c.rate < n * c.rate + c.rate
      BY <1>1, <2>2, <2>5, <2>7, <2>8
    <3> QED
      BY <1>1, <2>4, <2>7, <3>1, SameMultiple
  <2> QED
    BY <2>9, <2>10 DEF q, n, raw
<1>4. CASE ~(over # 0 /\ c.pow >= c.rate - over)
  <2>1. PowBits(c) = c.pow
    BY <1>4 DEF PowBits
  <2> QED
    BY <2>1 DEF NumQueries
<1> QED
  BY <1>3, <1>4

-----------------------------------------------------------------------------
(* The schedule: the folds *)

Fold(c, d) == IF d - StopLog(c) >= 3 THEN 3 ELSE d - StopLog(c)
AtStop(c, d) == d <= StopLog(c) \/ d + c.rate <= c.cap

(* The recursion of Folds, up to degree n. *)
FoldsUpTo(c, n, g) ==
    g = [d \in 0 .. n |-> IF AtStop(c, d) THEN << >> ELSE << Fold(c, d) >> \o g[d - Fold(c, d)]]

(* What is left of a degree after each of the folds. *)
Remaining(folds, d, r) ==
    /\ folds \in Seq(1 .. 3) /\ r \in [0 .. Len(folds) -> Nat]
    /\ r[0] = d
    /\ \A i \in 1 .. Len(folds) : r[i] = r[i - 1] - folds[i]
    /\ \A i \in 0 .. Len(folds) : r[i] <= d /\ r[Len(folds)] <= r[i]

Sizes(c) == c.domain \in Nat /\ c.rate \in Nat /\ c.cap \in Nat

(* A degree of one is not folded; a fold takes a logarithm of at least one off a larger one. *)
LEMMA FoldOne ==
    ASSUME NEW c, Sizes(c), NEW d \in Nat
    PROVE  /\ AtStop(c, 0)
           /\ ~AtStop(c, d) => Fold(c, d) \in 1 .. 3 /\ d - Fold(c, d) \in 0 .. d - 1
  <1>1. StopLog(c) \in Nat
    BY DEF StopLog, Sizes
  <1> QED
    BY <1>1 DEF AtStop, Fold

(* The function that the schedule defines by recursion exists: a least degree without it would
   have it. *)
LEMMA FoldsRecursion ==
    ASSUME NEW c, Sizes(c), NEW m \in Nat
    PROVE  \E g : FoldsUpTo(c, m, g)
  <1> DEFINE T == {n \in Nat : ~ \E g : FoldsUpTo(c, n, g)}
  <1> SUFFICES ASSUME T # {} PROVE FALSE
    OBVIOUS
  <1>1. PICK n \in T : \A k \in T : n <= k
    <2> HIDE DEF T
    <2>1. T \subseteq Nat
      BY DEF T
    <2> QED
      BY <2>1, LeastNatural
  <1>2. CASE n = 0
    <2> DEFINE h == [d \in 0 .. 0 |-> << >>]
    <2>1. \A d \in 0 .. 0 : AtStop(c, d)
      BY FoldOne
    <2>2. h = [d \in 0 .. 0 |-> IF AtStop(c, d) THEN << >>
                                ELSE << Fold(c, d) >> \o h[d - Fold(c, d)]]
      BY <2>1
    <2> QED
      BY <1>2, <2>2 DEF FoldsUpTo
  <1>3. CASE n # 0
    <2>1. n - 1 \in Nat /\ n \in Nat /\ n - 1 \notin T
      BY <1>1, <1>3
    <2>2. PICK g : FoldsUpTo(c, n - 1, g)
      BY <2>1
    <2> DEFINE S(f, d) == IF AtStop(c, d) THEN << >> ELSE << Fold(c, d) >> \o f[d - Fold(c, d)]
               h == [d \in 0 .. n |-> S(g, d)]
    <2>3. \A d \in 0 .. n - 1 : g[d] = S(g, d)
      BY <2>2 DEF FoldsUpTo
    <2>4. \A d \in 0 .. n - 1 : h[d] = g[d]
      BY <2>1, <2>3
    <2>5. \A d \in 0 .. n : ~AtStop(c, d) => d - Fold(c, d) \in 0 .. n - 1
      BY <2>1, FoldOne
    <2>6. \A d \in 0 .. n : S(h, d) = S(g, d)
      <3> HIDE DEF h
      <3> QED
        BY <2>4, <2>5
    <2>7. h = [d \in 0 .. n |-> S(h, d)]
      <3> HIDE DEF S
      <3> QED
        BY <2>6
    <2>8. FoldsUpTo(c, n, h)
      <3> HIDE DEF h
      <3> QED
        BY <2>7 DEF FoldsUpTo
    <2> HIDE DEF h
    <2> QED
      BY <1>1, <2>8
  <1> QED
    BY <1>2, <1>3

(* A fold in front of the others. *)
LEMMA OneFoldMore ==
    ASSUME NEW folds, NEW r, NEW d \in Nat, NEW f \in 1 .. 3, d - f \in Nat,
           Remaining(folds, d - f, r)
    PROVE  \E q : Remaining(<< f >> \o folds, d, q)
  <1> DEFINE len == Len(folds)
             all == << f >> \o folds
             q == [i \in 0 .. len + 1 |-> IF i = 0 THEN d ELSE r[i - 1]]
  <1>1. /\ folds \in Seq(1 .. 3) /\ r \in [0 .. len -> Nat] /\ r[0] = d - f
        /\ \A i \in 1 .. len : r[i] = r[i - 1] - folds[i]
        /\ \A i \in 0 .. len : r[i] <= d - f /\ r[len] <= r[i]
    BY DEF Remaining
  <1>2. len \in Nat
    BY <1>1, LenProperties
  <1>3. /\ all \in Seq(1 .. 3) /\ Len(all) = len + 1 /\ all[1] = f
        /\ \A i \in 2 .. len + 1 : all[i] = folds[i - 1]
    <2>1. << f >> \in Seq(1 .. 3) /\ Len(<< f >>) = 1 /\ << f >>[1] = f
      OBVIOUS
    <2>2. /\ all \in Seq(1 .. 3) /\ Len(all) = Len(<< f >>) + len
          /\ \A i \in 1 .. Len(<< f >>) + len :
                all[i] = IF i <= Len(<< f >>) THEN << f >>[i] ELSE folds[i - Len(<< f >>)]
      BY <1>1, <2>1, ConcatProperties
    <2> HIDE DEF all, len
    <2> QED
      BY <1>2, <2>1, <2>2
  <1> HIDE DEF all, len
  <1>4. \A i \in 1 .. len + 1 : i - 1 \in 0 .. len
    BY <1>2
  <1>5. q \in [0 .. len + 1 -> Nat] /\ q[0] = d /\ \A i \in 1 .. len + 1 : q[i] = r[i - 1]
    BY <1>1, <1>2, <1>4
  <1> HIDE DEF q
  <1>6. \A i \in 1 .. len + 1 : q[i] = q[i - 1] - all[i]
    <2> TAKE i \in 1 .. len + 1
    <2>1. CASE i = 1
      <3>1. q[1] = d - f /\ q[0] = d /\ all[1] = f
        <4>1. 1 \in 1 .. len + 1 /\ 1 - 1 = 0
          BY <1>2
        <4> QED
          BY <1>1, <1>3, <1>5, <4>1
      <3> QED
        BY <2>1, <3>1
    <2>2. CASE i # 1
      <3>1. i - 1 \in 1 .. len /\ i - 1 \in 1 .. len + 1 /\ i \in 2 .. len + 1
        BY <1>2, <2>2
      <3>2. q[i] = r[i - 1] /\ q[i - 1] = r[(i - 1) - 1]
        BY <1>5, <3>1
      <3>3. r[i - 1] = r[(i - 1) - 1] - folds[i - 1]
        BY <1>1, <3>1
      <3> QED
        BY <1>3, <3>1, <3>2, <3>3
    <2> QED
      BY <2>1, <2>2
  <1>7. \A i \in 0 .. len + 1 : q[i] <= d /\ q[len + 1] <= q[i]
    <2> TAKE i \in 0 .. len + 1
    <2>1. len + 1 \in 1 .. len + 1 /\ (len + 1) - 1 = len /\ len \in 0 .. len
      BY <1>2
    <2>2. q[len + 1] = r[len] /\ r[len] \in Nat /\ r[len] <= d - f
      BY <1>1, <1>5, <2>1
    <2>3. CASE i = 0
      BY <1>5, <2>2, <2>3
    <2>4. CASE i # 0
      <3>1. i \in 1 .. len + 1 /\ i - 1 \in 0 .. len
        BY <1>2, <2>4
      <3>2. q[i] = r[i - 1] /\ r[i - 1] \in Nat /\ r[i - 1] <= d - f /\ r[len] <= r[i - 1]
        BY <1>1, <1>5, <3>1
      <3> QED
        BY <2>2, <3>2
    <2> QED
      BY <2>3, <2>4
  <1>8. Remaining(all, d, q)
    BY <1>3, <1>5, <1>6, <1>7 DEF Remaining
  <1> QED
    BY <1>8 DEF all

(* What the folds from some degree on leave of it. *)
LEMMA FoldsRemain ==
    ASSUME NEW c, Sizes(c)
    PROVE  \E r : Remaining(Folds(c), c.domain, r)
  <1> DEFINE max == c.domain
  <1>1. max \in Nat
    BY DEF Sizes
  <1>2. PICK g : FoldsUpTo(c, max, g) /\ Folds(c) = g[max]
    <2>1. PICK f : FoldsUpTo(c, max, f)
      BY <1>1, FoldsRecursion
    <2> QED
      BY <2>1 DEF FoldsUpTo, Folds, AtStop, Fold
  <1>3. \A d \in 0 .. max : g[d] = IF AtStop(c, d) THEN << >>
                                   ELSE << Fold(c, d) >> \o g[d - Fold(c, d)]
    BY <1>2 DEF FoldsUpTo
  <1> HIDE DEF max
  <1> DEFINE T == {d \in 0 .. max : ~ \E r : Remaining(g[d], d, r)}
  <1>4. ASSUME T # {} PROVE FALSE
    <2>1. PICK d \in T : \A k \in T : d <= k
      <3>1. T \subseteq Nat
        BY <1>1
      <3> HIDE DEF T
      <3> QED
        BY <1>4, <3>1, LeastNatural
    <2>2. d \in 0 .. max /\ d \in Nat
      BY <1>1
    <2>3. CASE AtStop(c, d)
      <3>1. g[d] = << >>
        BY <1>3, <2>2, <2>3
      <3>2. Remaining(<< >>, d, [i \in 0 .. 0 |-> d])
        BY <2>2 DEF Remaining
      <3> QED
        BY <3>1, <3>2
    <2>4. CASE ~AtStop(c, d)
      <3> DEFINE f == Fold(c, d)
      <3>1. f \in 1 .. 3 /\ d - f \in 0 .. d - 1
        BY <2>2, <2>4, FoldOne
      <3>2. g[d] = << f >> \o g[d - f]
        BY <1>3, <2>2, <2>4
      <3> HIDE DEF f
      <3>3. d - f \in 0 .. max /\ d - f \in Nat /\ ~(d <= d - f)
        BY <1>1, <2>2, <3>1
      <3>4. PICK r : Remaining(g[d - f], d - f, r)
        BY <2>1, <3>3
      <3>5. \E q : Remaining(<< f >> \o g[d - f], d, q)
        BY <2>2, <3>1, <3>3, <3>4, OneFoldMore
      <3> QED
        BY <3>2, <3>5
    <2> QED
      BY <2>3, <2>4
  <1>5. max \in 0 .. max
    BY <1>1
  <1> QED
    BY <1>2, <1>4, <1>5 DEF max

(* DegreeLog is what is left after the folds. *)
LEMMA DegreeLogIs ==
    ASSUME NEW c, NEW r, Sizes(c), Remaining(Folds(c), c.domain, r), NEW n \in 0 .. Len(Folds(c))
    PROVE  DegreeLog(c, n) = r[n]
  <1> DEFINE folds == Folds(c)
             Log(g) == g = [i \in 0 .. n |-> IF i = 0 THEN c.domain ELSE g[i - 1] - folds[i]]
             h == [i \in 0 .. n |-> r[i]]
  <1>1. /\ folds \in Seq(1 .. 3) /\ r[0] = c.domain
        /\ \A i \in 1 .. Len(folds) : r[i] = r[i - 1] - folds[i]
    BY DEF Remaining
  <1>2. Len(folds) \in Nat /\ n \in Nat /\ n <= Len(folds)
    BY <1>1, LenProperties
  <1>3. \A i \in 0 .. n : i # 0 => i - 1 \in 0 .. n /\ i \in 1 .. Len(folds)
    BY <1>2
  <1>4. Log(h)
    <2> HIDE DEF folds
    <2> QED
      BY <1>1, <1>3
  <1>5. PICK g : Log(g) /\ DegreeLog(c, n) = g[n]
    <2> HIDE DEF h
    <2> QED
      BY <1>4 DEF DegreeLog
  <1>6. \A i \in 0 .. n : g[i] = IF i = 0 THEN c.domain ELSE g[i - 1] - folds[i]
    BY <1>5
  <1> DEFINE T == {i \in 0 .. n : g[i] # r[i]}
  <1>7. ASSUME T # {} PROVE FALSE
    <2>1. PICK i \in T : \A k \in T : i <= k
      <3>1. T \subseteq Nat
        BY <1>2
      <3> HIDE DEF T
      <3> QED
        BY <1>7, <3>1, LeastNatural
    <2>2. i \in 0 .. n /\ i \in Nat /\ g[i] # r[i]
      BY <1>2
    <2>3. i # 0
      BY <1>1, <1>6, <2>2
    <2>4. i - 1 \in 0 .. n /\ i \in 1 .. Len(folds) /\ ~(i <= i - 1)
      BY <1>3, <2>2, <2>3
    <2>5. g[i - 1] = r[i - 1]
      BY <2>1, <2>4
    <2> HIDE DEF folds
    <2> QED
      BY <1>1, <1>6, <2>2, <2>3, <2>4, <2>5
  <1>8. n \in 0 .. n
    BY <1>2
  <1> QED
    BY <1>5, <1>7, <1>8

(* Whatever the rate and the cap, the folds of compute_fri_schedule take the degree down
   step by step and never below 0, by 2, 4 or 8 at a time; the last degree is the
   smallest. *)
THEOREM FoldsAddUp ==
    ASSUME NEW c, c.domain \in Nat, c.rate \in Nat, c.cap \in Nat
    PROVE  /\ Folds(c) \in Seq(1 .. 3)
           /\ DegreeLog(c, 0) = c.domain
           /\ \A i \in 1 .. Len(Folds(c)) :
                DegreeLog(c, i) = DegreeLog(c, i - 1) - Folds(c)[i]
           /\ \A i \in 0 .. Len(Folds(c)) :
                DegreeLog(c, i) \in 0 .. c.domain /\ FinalLog(c) <= DegreeLog(c, i)
  <1>1. Sizes(c)
    BY DEF Sizes
  <1>2. PICK r : Remaining(Folds(c), c.domain, r)
    BY <1>1, FoldsRemain
  <1> DEFINE len == Len(Folds(c))
  <1>3. /\ Folds(c) \in Seq(1 .. 3) /\ r \in [0 .. len -> Nat] /\ r[0] = c.domain
        /\ \A i \in 1 .. len : r[i] = r[i - 1] - Folds(c)[i]
        /\ \A i \in 0 .. len : r[i] <= c.domain /\ r[len] <= r[i]
    BY <1>2 DEF Remaining
  <1>4. len \in Nat
    BY <1>3, LenProperties
  <1>5. \A n \in 0 .. len : DegreeLog(c, n) = r[n]
    BY <1>1, <1>2, DegreeLogIs
  <1>6. FinalLog(c) = r[len]
    BY <1>4, <1>5 DEF FinalLog
  <1> HIDE DEF len
  <1>7. DegreeLog(c, 0) = c.domain
    BY <1>3, <1>4, <1>5
  <1>8. \A i \in 1 .. len : DegreeLog(c, i) = DegreeLog(c, i - 1) - Folds(c)[i]
    <2> TAKE i \in 1 .. len
    <2>1. i \in 0 .. len /\ i - 1 \in 0 .. len
      BY <1>4
    <2> QED
      BY <1>3, <1>5, <2>1
  <1>9. \A i \in 0 .. len : DegreeLog(c, i) \in 0 .. c.domain /\ FinalLog(c) <= DegreeLog(c, i)
    <2> TAKE i \in 0 .. len
    <2>1. r[i] \in Nat /\ r[i] <= c.domain /\ r[len] <= r[i]
      BY <1>3
    <2> QED
      BY <1>5, <1>6, <2>1
  <1> QED
    BY <1>3, <1>7, <1>8, <1>9 DEF len

-----------------------------------------------------------------------------
(* The index of a query *)

(* A list without its first elements, by positions; and these elements. *)
LEMMA DropByPosition ==
    ASSUME NEW S, NEW s \in Seq(S), NEW n \in 0 .. Len(s)
    PROVE  /\ Drop(s, n) \in Seq(S) /\ Len(Drop(s, n)) = Len(s) - n
           /\ \A i \in 1 .. Len(s) - n : Drop(s, n)[i] = s[n + i]
  <1>1. Len(s) \in Nat /\ n \in Int /\ n + 1 \in Int /\ n <= Len(s) /\ n >= 0
    BY LenProperties
  <1>2. \A i \in n + 1 .. Len(s) : s[i] \in S
    BY <1>1, ElementOfSeq
  <1>3. /\ SubSeq(s, n + 1, Len(s)) \in Seq(S)
        /\ Len(SubSeq(s, n + 1, Len(s))) = IF n + 1 <= Len(s) THEN Len(s) - (n + 1) + 1 ELSE 0
        /\ \A i \in 1 .. Len(s) - (n + 1) + 1 :
              SubSeq(s, n + 1, Len(s))[i] = s[(n + 1) + i - 1]
    BY <1>1, <1>2, SubSeqProperties
  <1>4. \A i \in 1 .. Len(s) - n : i \in 1 .. Len(s) - (n + 1) + 1 /\ (n + 1) + i - 1 = n + i
    BY <1>1
  <1>5. (IF n + 1 <= Len(s) THEN Len(s) - (n + 1) + 1 ELSE 0) = Len(s) - n
    BY <1>1
  <1> QED
    BY <1>3, <1>4, <1>5 DEF Drop

(* What is taken, position by position. *)
LEMMA TakeByPosition ==
    ASSUME NEW S, NEW s \in Seq(S), NEW n \in 0 .. Len(s)
    PROVE  /\ Take(s, n) \in Seq(S) /\ Len(Take(s, n)) = n
           /\ \A i \in 1 .. n : Take(s, n)[i] = s[i]
  <1>1. Len(s) \in Nat /\ n \in Int /\ n <= Len(s) /\ n >= 0
    BY LenProperties
  <1>2. \A i \in 1 .. n : s[i] \in S
    BY <1>1, ElementOfSeq
  <1>3. /\ SubSeq(s, 1, n) \in Seq(S)
        /\ Len(SubSeq(s, 1, n)) = IF 1 <= n THEN n - 1 + 1 ELSE 0
        /\ \A i \in 1 .. n - 1 + 1 : SubSeq(s, 1, n)[i] = s[1 + i - 1]
    BY <1>1, <1>2, SubSeqProperties
  <1>4. \A i \in 1 .. n : i \in 1 .. n - 1 + 1 /\ 1 + i - 1 = i
    BY <1>1
  <1>5. (IF 1 <= n THEN n - 1 + 1 ELSE 0) = n
    BY <1>1
  <1> QED
    BY <1>3, <1>4, <1>5 DEF Take

(* Taking a list apart and putting it together again. *)
LEMMA TakeAndDrop ==
    ASSUME NEW S, NEW s \in Seq(S), NEW n \in 0 .. Len(s)
    PROVE  Take(s, n) \o Drop(s, n) = s
  <1> DEFINE t == Take(s, n)
             d == Drop(s, n)
             all == t \o d
  <1>1. Len(s) \in Nat /\ n \in Nat /\ n <= Len(s)
    BY LenProperties
  <1>2. t \in Seq(S) /\ Len(t) = n /\ \A i \in 1 .. n : t[i] = s[i]
    BY TakeByPosition
  <1>3. d \in Seq(S) /\ Len(d) = Len(s) - n /\ \A i \in 1 .. Len(s) - n : d[i] = s[n + i]
    BY DropByPosition
  <1> HIDE DEF t, d
  <1>4. /\ all \in Seq(S) /\ Len(all) = Len(t) + Len(d)
        /\ \A i \in 1 .. Len(t) + Len(d) : all[i] = IF i <= Len(t) THEN t[i] ELSE d[i - Len(t)]
    BY <1>2, <1>3, ConcatProperties
  <1>5. Len(t) + Len(d) = Len(s)
    BY <1>1, <1>2, <1>3
  <1> HIDE DEF all
  <1>6. \A i \in 1 .. Len(s) : all[i] = s[i]
    <2> TAKE i \in 1 .. Len(s)
    <2>1. all[i] = IF i <= n THEN t[i] ELSE d[i - n]
      BY <1>2, <1>4, <1>5
    <2>2. CASE i <= n
      BY <1>2, <2>1, <2>2
    <2>3. CASE ~(i <= n)
      <3>1. i - n \in 1 .. Len(s) - n /\ n + (i - n) = i
        BY <1>1, <2>3
      <3>2. d[i - n] = s[i]
        BY <1>3, <3>1
      <3> QED
        BY <2>1, <2>3, <3>2
    <2> QED
      BY <2>2, <2>3
  <1>7. all = s
    BY <1>4, <1>5, <1>6, SeqEqual
  <1> QED
    BY <1>7 DEF all, t, d

(* Dropping twice; and dropping from the front of a list that is taken apart further on. *)
LEMMA DropTwice ==
    ASSUME NEW S, NEW s \in Seq(S), NEW a \in Nat, NEW b \in Nat, a + b <= Len(s)
    PROVE  Drop(Drop(s, a), b) = Drop(s, a + b)
  <1> DEFINE d == Drop(s, a)
             e == Drop(d, b)
             f == Drop(s, a + b)
  <1>1. Len(s) \in Nat /\ a \in 0 .. Len(s) /\ a + b \in 0 .. Len(s) /\ b \in 0 .. Len(s) - a
    BY LenProperties
  <1>2. d \in Seq(S) /\ Len(d) = Len(s) - a /\ \A i \in 1 .. Len(s) - a : d[i] = s[a + i]
    BY <1>1, DropByPosition
  <1>3. f \in Seq(S) /\ Len(f) = Len(s) - (a + b)
        /\ \A i \in 1 .. Len(s) - (a + b) : f[i] = s[(a + b) + i]
    BY <1>1, DropByPosition
  <1> HIDE DEF d, f
  <1>4. b \in 0 .. Len(d)
    BY <1>1, <1>2
  <1>5. e \in Seq(S) /\ Len(e) = Len(d) - b /\ \A i \in 1 .. Len(d) - b : e[i] = d[b + i]
    <2>1. PICK x : x = d
      OBVIOUS
    <2>2. x \in Seq(S) /\ b \in 0 .. Len(x)
      BY <1>2, <1>4, <2>1
    <2>3. /\ Drop(x, b) \in Seq(S) /\ Len(Drop(x, b)) = Len(x) - b
          /\ \A i \in 1 .. Len(x) - b : Drop(x, b)[i] = x[b + i]
      BY <2>2, DropByPosition
    <2> QED
      BY <2>1, <2>3
  <1> HIDE DEF e
  <1>6. Len(e) = Len(f) /\ Len(d) - b = Len(f)
    BY <1>1, <1>2, <1>3, <1>5
  <1>7. \A i \in 1 .. Len(f) : /\ b + i \in 1 .. Len(s) - a /\ a + (b + i) = (a + b) + i
                               /\ i \in 1 .. Len(s) - (a + b)
    BY <1>1, <1>3
  <1>8. \A i \in 1 .. Len(f) : e[i] = f[i]
    <2> TAKE i \in 1 .. Len(f)
    <2>1. e[i] = d[b + i]
      BY <1>5, <1>6
    <2>2. d[b + i] = s[(a + b) + i]
      BY <1>2, <1>7
    <2>3. f[i] = s[(a + b) + i]
      BY <1>3, <1>7
    <2> QED
      BY <2>1, <2>2, <2>3
  <1>9. e = f
    BY <1>3, <1>5, <1>6, <1>8, SeqEqual
  <1> QED
    BY <1>9 DEF d, e, f

(* Dropping from the front of a list leaves its end alone. *)
LEMMA DropFromTaken ==
    ASSUME NEW S, NEW s \in Seq(S), NEW n \in 0 .. Len(s), NEW k \in 0 .. n
    PROVE  Drop(Take(s, n), k) \o Drop(s, n) = Drop(s, k)
  <1> DEFINE t == Take(s, n)
             u == Drop(t, k)
             d == Drop(s, n)
             f == Drop(s, k)
             all == u \o d
  <1>1. Len(s) \in Nat /\ n \in Nat /\ n <= Len(s) /\ k \in Nat /\ k <= n /\ k \in 0 .. Len(s)
    BY LenProperties
  <1>2. t \in Seq(S) /\ Len(t) = n /\ \A i \in 1 .. n : t[i] = s[i]
    BY TakeByPosition
  <1>3. d \in Seq(S) /\ Len(d) = Len(s) - n /\ \A i \in 1 .. Len(s) - n : d[i] = s[n + i]
    BY DropByPosition
  <1>4. f \in Seq(S) /\ Len(f) = Len(s) - k /\ \A i \in 1 .. Len(s) - k : f[i] = s[k + i]
    BY <1>1, DropByPosition
  <1> HIDE DEF t, d, f
  <1>5. u \in Seq(S) /\ Len(u) = n - k /\ \A i \in 1 .. n - k : u[i] = t[k + i]
    BY <1>2, DropByPosition
  <1> HIDE DEF u
  <1>6. /\ all \in Seq(S) /\ Len(all) = Len(u) + Len(d)
        /\ \A i \in 1 .. Len(u) + Len(d) : all[i] = IF i <= Len(u) THEN u[i] ELSE d[i - Len(u)]
    BY <1>3, <1>5, ConcatProperties
  <1>7. Len(u) + Len(d) = Len(f)
    BY <1>1, <1>3, <1>4, <1>5
  <1> HIDE DEF all
  <1>8. \A i \in 1 .. Len(f) : all[i] = f[i]
    <2> TAKE i \in 1 .. Len(f)
    <2>1. all[i] = IF i <= n - k THEN u[i] ELSE d[i - (n - k)]
      BY <1>5, <1>6, <1>7
    <2>2. f[i] = s[k + i]
      BY <1>4
    <2>3. CASE i <= n - k
      <3>1. i \in 1 .. n - k /\ k + i \in 1 .. n
        BY <1>1, <2>3
      <3> QED
        BY <1>2, <1>5, <2>1, <2>2, <2>3, <3>1
    <2>4. CASE ~(i <= n - k)
      <3>1. i - (n - k) \in 1 .. Len(s) - n /\ n + (i - (n - k)) = k + i
        BY <1>1, <1>4, <2>4
      <3>2. d[i - (n - k)] = s[k + i]
        BY <1>3, <3>1
      <3> QED
        BY <2>1, <2>2, <2>4, <3>2
    <2> QED
      BY <2>3, <2>4
  <1>9. all = f
    BY <1>4, <1>6, <1>7, <1>8, SeqEqual
  <1> QED
    BY <1>9 DEF all, u, t, d, f

(* A configuration the prover takes: the assertions of the schedule, and of the sizes. *)
Scheduled ==
    /\ config.domain \in Nat /\ config.rate \in Nat /\ config.cap \in Nat
    /\ config.domain + config.rate >= config.cap
    /\ ScheduleAsserts(config)

(* How far the folds shift an index, and that a path is never shorter than nothing. *)
LEMMA ShiftsAddUp ==
    ASSUME Scheduled
    PROVE  /\ Len(Folds(config)) \in Nat
           /\ Shift(0) = 0
           /\ \A i \in 0 .. Len(Folds(config)) :
                /\ Shift(i) \in 0 .. config.domain
                /\ TreeLog(config, i) - config.cap = BaseOracleDepth - Shift(i)
                /\ BaseOracleDepth - Shift(i) \in Nat
           /\ \A i \in 1 .. Len(Folds(config)) :
                /\ Folds(config)[i] \in Nat
                /\ Shift(i) = Shift(i - 1) + Folds(config)[i]
  <1> DEFINE D(i) == DegreeLog(config, i)
             len == Len(Folds(config))
  <1>1. config.domain \in Nat /\ config.rate \in Nat /\ config.cap \in Nat
        /\ config.domain + config.rate >= config.cap
    BY DEF Scheduled
  <1>2. /\ Folds(config) \in Seq(1 .. 3) /\ D(0) = config.domain
        /\ \A i \in 1 .. len : D(i) = D(i - 1) - Folds(config)[i]
        /\ \A i \in 0 .. len : D(i) \in 0 .. config.domain /\ FinalLog(config) <= D(i)
    BY <1>1, FoldsAddUp
  <1>3. len \in Nat
    BY <1>2, LenProperties
  <1>4. \A i \in 1 .. len : Folds(config)[i] \in 1 .. 3
    BY <1>2, ElementOfSeq
  <1>5. \A i : Shift(i) = config.domain - D(i) /\ TreeLog(config, i) = D(i) + config.rate
    BY DEF Shift, TreeLog
  <1>6. FinalLog(config) = D(len)
    BY DEF FinalLog
  <1>7. D(len) + config.rate >= config.cap
    BY <1>6 DEF Scheduled, ScheduleAsserts
  <1>8. BaseOracleDepth = config.domain + config.rate - config.cap
    BY DEF BaseOracleDepth
  <1> HIDE DEF D, len
  <1>9. Shift(0) = 0
    BY <1>1, <1>2, <1>5
  <1>10. \A i \in 0 .. len :
            /\ Shift(i) \in 0 .. config.domain
            /\ TreeLog(config, i) - config.cap = BaseOracleDepth - Shift(i)
            /\ BaseOracleDepth - Shift(i) \in Nat
    <2> TAKE i \in 0 .. len
    <2>1. D(i) \in 0 .. config.domain /\ D(len) <= D(i) /\ D(len) \in Nat
      <3>1. len \in 0 .. len
        BY <1>3
      <3> QED
        BY <1>2, <1>6, <3>1
    <2> QED
      BY <1>1, <1>5, <1>7, <1>8, <2>1
  <1>11. \A i \in 1 .. len : /\ Folds(config)[i] \in Nat
                             /\ Shift(i) = Shift(i - 1) + Folds(config)[i]
    <2> TAKE i \in 1 .. len
    <2>1. i \in 0 .. len /\ i - 1 \in 0 .. len
      BY <1>3
    <2>2. D(i) \in Int /\ D(i - 1) \in Int
      BY <1>1, <1>2, <2>1
    <2>3. Folds(config)[i] \in Nat
      BY <1>4
    <2>4. PICK x, y, g : x = D(i) /\ y = D(i - 1) /\ g = Folds(config)[i]
      OBVIOUS
    <2>5. x = y - g
      BY <1>2, <2>4
    <2>6. Shift(i) = config.domain - x /\ Shift(i - 1) = config.domain - y
      BY <1>5, <2>4
    <2>7. x \in Int /\ y \in Int /\ g \in Int
      BY <2>2, <2>3, <2>4
    <2>8. config.domain - x = (config.domain - y) + g
      BY <1>1, <2>5, <2>7
    <2> QED
      BY <2>3, <2>4, <2>6, <2>8
  <1> QED
    BY <1>3, <1>9, <1>10, <1>11 DEF len

(* An index that is drawn has a bit for every layer of the largest tree. *)
LEMMA IndexDrawn ==
    ASSUME NEW p, config.domain \in Nat, config.rate \in Nat
    PROVE  \E S : DrawIndex(p).index \in Seq(S) /\ Len(DrawIndex(p).index) = MaxNeededBits
  <1> DEFINE n == MaxNeededBits
             bits == p.bits \o BitsOf(GetChallenges(p.t,
                                        WordsNeeded(n - Len(p.bits), BitsPerWord(p.t, n))).words,
                                      BitsPerWord(p.t, n))
             S == {bits[i] : i \in 1 .. n}
  <1>1. n \in Nat
    BY DEF MaxNeededBits
  <1>2. DrawIndex(p).index = SubSeq(bits, 1, n)
    BY DEF DrawIndex, WithIndex, GetBits, GiveBits
  <1> HIDE DEF bits, n
  <1>3. \A i \in 1 .. n : bits[i] \in S
    OBVIOUS
  <1> HIDE DEF S
  <1>4. /\ SubSeq(bits, 1, n) \in Seq(S)
        /\ Len(SubSeq(bits, 1, n)) = IF 1 <= n THEN n - 1 + 1 ELSE 0
    BY <1>1, <1>3, SubSeqProperties
  <1>5. (IF 1 <= n THEN n - 1 + 1 ELSE 0) = n
    BY <1>1
  <1> QED
    BY <1>2, <1>4, <1>5 DEF n

(* The leaf the prover opens for an index is the one both verifiers look for, in the tree
   of the base oracle and in that of every fold, and by a path of the expected length. *)
LEMMA LeavesAgree ==
    ASSUME Scheduled, NEW S, NEW index \in Seq(S), Len(index) = MaxNeededBits
    PROVE  LET inner == Take(index, config.domain)
               coset == Drop(index, config.domain)
               Rest(i) == Drop(index, Shift(i))
               query(i) == OracleQuery(inner, coset, i)
           IN  /\ inner \o coset = index
               /\ query(0).leaf = index /\ query(0).path = BaseOracleDepth
               /\ \A i \in 1 .. Len(Folds(config)) :
                    /\ query(i).leaf = Rest(i)
                    /\ query(i).path = BaseOracleDepth - Shift(i)
                    /\ Drop(Rest(i - 1), Folds(config)[i]) = Rest(i)
                    /\ Take(Rest(i - 1), Folds(config)[i]) \o Rest(i) = Rest(i - 1)
               /\ \A i \in 0 .. Len(Folds(config)) :
                    /\ Len(Rest(i)) >= BaseOracleDepth - Shift(i)
                    /\ Len(Drop(Rest(i), BaseOracleDepth - Shift(i))) = config.cap
  <1> DEFINE dom == config.domain
             len == Len(Folds(config))
             inner == Take(index, dom)
             coset == Drop(index, dom)
             Rest(i) == Drop(index, Shift(i))
             query(i) == OracleQuery(inner, coset, i)
             depth == BaseOracleDepth
  <1>1. /\ dom \in Nat /\ config.rate \in Nat /\ config.cap \in Nat
        /\ MaxNeededBits = dom + config.rate
        /\ depth = dom + config.rate - config.cap
    BY DEF Scheduled, MaxNeededBits, BaseOracleDepth
  <1>2. /\ len \in Nat /\ Shift(0) = 0
        /\ \A i \in 0 .. len : /\ Shift(i) \in 0 .. dom
                               /\ TreeLog(config, i) - config.cap = depth - Shift(i)
                               /\ depth - Shift(i) \in Nat
        /\ \A i \in 1 .. len : /\ Folds(config)[i] \in Nat
                               /\ Shift(i) = Shift(i - 1) + Folds(config)[i]
    BY ShiftsAddUp
  <1> HIDE DEF dom, len, depth
  <1>3. Len(index) = dom + config.rate /\ dom \in 0 .. Len(index)
    BY <1>1
  <1>4. inner \o coset = index
    BY <1>3, TakeAndDrop
  <1>5. \A i \in 0 .. len : query(i).leaf = Rest(i) /\ query(i).path = depth - Shift(i)
    <2> TAKE i \in 0 .. len
    <2>1. Drop(inner, Shift(i)) \o coset = Rest(i)
      BY <1>2, <1>3, DropFromTaken
    <2> HIDE DEF inner, coset, Rest
    <2> QED
      BY <1>2, <2>1 DEF OracleQuery
  <1>6. \A i \in 0 .. len : /\ Rest(i) \in Seq(S)
                            /\ Len(Rest(i)) = dom + config.rate - Shift(i)
    <2> TAKE i \in 0 .. len
    <2>1. Shift(i) \in 0 .. Len(index)
      BY <1>1, <1>2, <1>3
    <2>2. PICK a : a = Shift(i)
      OBVIOUS
    <2>3. Drop(index, a) \in Seq(S) /\ Len(Drop(index, a)) = Len(index) - a
      BY <2>1, <2>2, DropByPosition
    <2>4. Rest(i) = Drop(index, a)
      BY <2>2
    <2>5. PICK all : all = Len(index)
      OBVIOUS
    <2>6. all = dom + config.rate /\ a \in Int
      BY <1>1, <1>2, <1>3, <2>2, <2>5
    <2>7. Len(Rest(i)) = all - a
      BY <2>3, <2>4, <2>5, Zenon
    <2> HIDE DEF Rest
    <2>8. Len(Rest(i)) = dom + config.rate - a
      <3>1. all - a = dom + config.rate - a
        BY <1>1, <2>6
      <3> QED
        BY <2>7, <3>1, Zenon
    <2> QED
      BY <2>2, <2>3, <2>4, <2>8, Zenon
  <1>7. Rest(0) = index
    <2>1. Rest(0) = SubSeq(index, 1, Len(index))
      BY <1>2 DEF Drop
    <2> QED
      BY <2>1, SubSeqFull
  <1>8. \A i \in 1 .. len : /\ Drop(Rest(i - 1), Folds(config)[i]) = Rest(i)
                            /\ Take(Rest(i - 1), Folds(config)[i]) \o Rest(i) = Rest(i - 1)
    <2> TAKE i \in 1 .. len
    <2> DEFINE a == Shift(i - 1)
               b == Folds(config)[i]
               r == Rest(i - 1)
    <2>1. i \in 0 .. len /\ i - 1 \in 0 .. len
      BY <1>2
    <2>2. a \in Nat /\ b \in Nat /\ a + b = Shift(i) /\ a + b <= dom
      BY <1>1, <1>2, <2>1
    <2>3. r \in Seq(S) /\ Len(r) = dom + config.rate - a
      BY <1>6, <2>1
    <2> HIDE DEF a, b
    <2>4. a + b <= Len(index) /\ b \in 0 .. Len(r)
      <3>1. PICK len2, all : len2 = Len(r) /\ all = Len(index)
        OBVIOUS
      <3>2. all = dom + config.rate /\ len2 = dom + config.rate - a /\ dom \in Nat
            /\ config.rate \in Nat
        BY <1>1, <1>2, <1>3, <2>3, <3>1
      <3>3. a + b <= all /\ b \in 0 .. len2
        BY <2>2, <3>2
      <3> QED
        BY <3>1, <3>3
    <2>5. Drop(Drop(index, a), b) = Drop(index, a + b)
      BY <2>2, <2>4, DropTwice
    <2>6. r = Drop(index, a)
      BY DEF a
    <2> HIDE DEF r
    <2>7. Take(r, b) \o Drop(r, b) = r
      BY <2>3, <2>4, TakeAndDrop
    <2> QED
      BY <2>2, <2>5, <2>6, <2>7 DEF a, b, r
  <1>9. \A i \in 0 .. len : /\ Len(Rest(i)) >= depth - Shift(i)
                            /\ Len(Drop(Rest(i), depth - Shift(i))) = config.cap
    <2> TAKE i \in 0 .. len
    <2>1. Rest(i) \in Seq(S) /\ Len(Rest(i)) = dom + config.rate - Shift(i)
      BY <1>6
    <2> DEFINE r == Rest(i)
               shift == Shift(i)
               n == depth - shift
    <2>2. shift \in Nat /\ n \in Nat /\ Len(r) = dom + config.rate - shift /\ r \in Seq(S)
      BY <1>1, <1>2, <2>1
    <2> HIDE DEF r, shift
    <2> DEFINE rate == config.rate
               cap == config.cap
               l == Len(r)
    <2>3. /\ dom \in Nat /\ rate \in Nat /\ cap \in Nat /\ shift \in Nat
          /\ depth = dom + rate - cap /\ l = dom + rate - shift
          /\ n \in Nat
      BY <1>1, <2>2
    <2> HIDE DEF rate, cap, l
    <2>4. l - n = cap /\ n \in 0 .. l /\ l >= n
      BY <2>3
    <2> HIDE DEF n
    <2>5. Len(Drop(r, n)) = Len(r) - n
      BY <2>2, <2>4, DropByPosition DEF l
    <2> QED
      BY <2>4, <2>5 DEF r, n, shift, l, cap
  <1>10. 0 \in 0 .. len /\ depth - Shift(0) = depth
    BY <1>1, <1>2
  <1>11. \A i \in 1 .. len : i \in 0 .. len
    BY <1>2
  <1>12. query(0).leaf = index /\ query(0).path = depth
    BY <1>5, <1>7, <1>10
  <1>13. \A i \in 1 .. len : query(i).leaf = Rest(i) /\ query(i).path = depth - Shift(i)
    BY <1>5, <1>11
  <1> HIDE DEF inner, coset, Rest, query
  <1> QED
    BY <1>4, <1>8, <1>9, <1>12, <1>13 DEF inner, coset, Rest, query, dom, len, depth

(* So both verifiers find what they look for. *)
LEMMA QueriesFound ==
    ASSUME Scheduled, NEW S, NEW index \in Seq(S), Len(index) = MaxNeededBits, NEW under
    PROVE  LET inner == Take(index, config.domain)
               coset == Drop(index, config.domain)
               query == Query(inner, coset, under)
               Rest(i) == Drop(index, Shift(i))
           IN  /\ query.under = under
               /\ Included(query.base, inner \o coset, BaseOracleDepth)
               /\ FriQueriesValid(query.fri, inner \o coset)
               /\ query.base.leaf = index
               /\ \A i \in 1 .. Len(Folds(config)) :
                    Take(Rest(i - 1), Folds(config)[i]) \o query.fri[i].leaf = Rest(i - 1)
               /\ config.cap > 0 =>
                    /\ Path(query.base, index, BaseOracleDepth)
                    /\ \A i \in 1 .. Len(Folds(config)) :
                         Path(query.fri[i], Rest(i), BaseOracleDepth - Shift(i))
  <1> DEFINE dom == config.domain
             len == Len(Folds(config))
             inner == Take(index, dom)
             coset == Drop(index, dom)
             Rest(i) == Drop(index, Shift(i))
             Opened(i) == OracleQuery(inner, coset, i)
             query == Query(inner, coset, under)
             depth == BaseOracleDepth
  <1>1. /\ inner \o coset = index
        /\ Opened(0).leaf = index /\ Opened(0).path = depth
        /\ \A i \in 1 .. len :
             /\ Opened(i).leaf = Rest(i)
             /\ Opened(i).path = depth - Shift(i)
             /\ Drop(Rest(i - 1), Folds(config)[i]) = Rest(i)
             /\ Take(Rest(i - 1), Folds(config)[i]) \o Rest(i) = Rest(i - 1)
        /\ \A i \in 0 .. len :
             /\ Len(Rest(i)) >= depth - Shift(i)
             /\ Len(Drop(Rest(i), depth - Shift(i))) = config.cap
    BY LeavesAgree
  <1>2. len \in Nat /\ Shift(0) = 0 /\ \A i \in 1 .. len : i \in 0 .. len
    BY ShiftsAddUp
  <1>3. Rest(0) = index
    <2>1. Rest(0) = SubSeq(index, 1, Len(index))
      BY <1>2 DEF Drop
    <2> QED
      BY <2>1, SubSeqFull
  <1>4. /\ query.under = under /\ query.base = Opened(0)
        /\ query.fri = [i \in 1 .. len |-> Opened(i)]
    BY DEF Query
  <1>5. depth - Shift(0) = depth
    <2>1. depth \in Int
      BY DEF Scheduled, BaseOracleDepth
    <2> QED
      BY <1>2, <2>1
  <1> HIDE DEF len, query, Opened, inner, coset, depth
  <1>6. Len(query.fri) = len /\ \A i \in 1 .. len : query.fri[i] = Opened(i)
    BY <1>2, <1>4
  <1>7. Included(query.base, index, depth)
    BY <1>1, <1>4 DEF Included
  <1>8. FriQueriesValid(query.fri, index)
    <2> HIDE DEF Rest
    <2>1. \A i \in 1 .. len : /\ Take(Rest(i - 1), Folds(config)[i]) \o query.fri[i].leaf = Rest(i - 1)
                              /\ Included(query.fri[i], Drop(Rest(i - 1), Folds(config)[i]),
                                          depth - Shift(i))
      BY <1>1, <1>6 DEF Included
    <2> QED
      BY <1>6, <2>1 DEF FriQueriesValid, Rest, len, depth
  <1>9. \A i \in 1 .. len :
            Take(Rest(i - 1), Folds(config)[i]) \o query.fri[i].leaf = Rest(i - 1)
    <2> HIDE DEF Rest
    <2> QED
      BY <1>1, <1>6
  <1>10. ASSUME config.cap > 0
         PROVE  /\ Path(query.base, index, depth)
                /\ \A i \in 1 .. len : Path(query.fri[i], Rest(i), depth - Shift(i))
    <2> HIDE DEF Rest
    <2>1. 0 \in 0 .. len
      BY <1>2
    <2>2. Len(index) >= depth /\ Len(Drop(index, depth)) = config.cap
      BY <1>1, <1>3, <1>5, <2>1
    <2>3. Path(query.base, index, depth)
      BY <1>1, <1>4, <1>10, <2>2 DEF Path
    <2>4. \A i \in 1 .. len : Path(query.fri[i], Rest(i), depth - Shift(i))
      BY <1>1, <1>2, <1>6, <1>10 DEF Path
    <2> QED
      BY <2>3, <2>4
  <1> HIDE DEF Rest
  <1> QED
    BY <1>1, <1>4, <1>7, <1>8, <1>9, <1>10 DEF len, query, inner, coset, depth, Opened, Rest

-----------------------------------------------------------------------------
(* Parties *)

\* A party with all its fields that has checked no query and failed no check, as the prover
\* is all along.
PartyFields == {"at", "t", "bits", "folds", "checked", "valid", "drawn", "sent"}

IsParty(p) ==
    /\ DOMAIN p = PartyFields /\ p = [field \in PartyFields |-> p[field]]
    /\ p.checked = 0 /\ p.valid = TRUE

\* A party after p, where p is and with as many folds.
Follows(p, q) == IsParty(q) /\ q.at = p.at /\ q.folds = p.folds

(* What the moves of a party change, and what they leave alone. *)
LEMMA Going ==
    ASSUME NEW p, IsParty(p), NEW at
    PROVE  /\ IsParty(Go(p, at)) /\ Go(p, at).at = at
           /\ Go(p, at).folds = p.folds /\ Go(p, at).t = p.t /\ Go(p, at).sent = p.sent
  BY DEF IsParty, PartyFields, Go

LEMMA Witnessing ==
    ASSUME NEW p, IsParty(p), NEW e
    PROVE  /\ Follows(p, Witness(p, e))
           /\ Witness(p, e).t = WitnessElements(p.t, e) /\ Witness(p, e).sent = p.sent \o e
  BY DEF IsParty, PartyFields, Follows, Witness

LEMMA DrawingWords ==
    ASSUME NEW p, IsParty(p), NEW name, NEW got
    PROVE  /\ Follows(p, Drawn(p, name, got))
           /\ Drawn(p, name, got).t = got.t /\ Drawn(p, name, got).sent = p.sent
  BY DEF IsParty, PartyFields, Follows, Drawn

LEMMA Drawing ==
    ASSUME NEW p, IsParty(p), NEW name, NEW n
    PROVE  /\ Follows(p, Draw(p, name, n))
           /\ Draw(p, name, n).t = GetChallenges(p.t, n).t /\ Draw(p, name, n).sent = p.sent
  BY DrawingWords DEF Draw

LEMMA FollowsTransitive ==
    ASSUME NEW p, NEW q, NEW r, Follows(p, q), Follows(q, r)
    PROVE  Follows(p, r)
  BY DEF Follows

LEMMA DrawingTwo ==
    ASSUME NEW p, IsParty(p), NEW name1, NEW name2
    PROVE  /\ Follows(p, DrawTwo(p, name1, name2))
           /\ DrawTwo(p, name1, name2).t = GetChallenges(GetChallenges(p.t, 2).t, 2).t
           /\ DrawTwo(p, name1, name2).sent = p.sent
  <1> DEFINE q == Draw(p, name1, 2)
  <1>1. Follows(p, q) /\ q.t = GetChallenges(p.t, 2).t /\ q.sent = p.sent
    BY Drawing
  <1>2. IsParty(q)
    BY <1>1 DEF Follows
  <1> HIDE DEF q
  <1>3. /\ Follows(q, Draw(q, name2, 2)) /\ Draw(q, name2, 2).t = GetChallenges(q.t, 2).t
        /\ Draw(q, name2, 2).sent = q.sent
    BY <1>2, Drawing
  <1>4. DrawTwo(p, name1, name2) = Draw(q, name2, 2)
    BY DEF DrawTwo, q
  <1> QED
    BY <1>1, <1>3, <1>4, FollowsTransitive

\* The party that has drawn an index.
Queried(p) == DrawIndex(p).party

LEMMA Querying ==
    ASSUME NEW p, IsParty(p)
    PROVE  Follows(p, Queried(p))
  <1> DEFINE got == GetBits(p.t, p.bits, MaxNeededBits, MaxNeededBits)
             q == Drawn(p, "query", got)
  <1>1. Queried(p) = [q EXCEPT !.bits = got.left]
    BY DEF Queried, DrawIndex, WithIndex
  <1>2. Follows(p, q)
    BY DrawingWords
  <1> HIDE DEF got, q
  <1>3. Follows(q, [q EXCEPT !.bits = got.left])
    BY <1>2 DEF Follows, IsParty, PartyFields
  <1> QED
    BY <1>1, <1>2, <1>3, FollowsTransitive

\* A verifier that has checked n queries where the prover had made them.
Checked(p, n) == [p EXCEPT !.checked = n]

(* What a verifier has checked makes no difference to what it draws. *)
LEMMA QueryingChecked ==
    ASSUME NEW p, IsParty(p), NEW n
    PROVE  /\ DrawIndex(Checked(p, n)).index = DrawIndex(p).index
           /\ DrawIndex(Checked(p, n)).party = Checked(Queried(p), n)
           /\ DrawIndex(Checked(p, n)).party.t = Queried(p).t
           /\ Checked(p, n).checked = n /\ Checked(p, n).at = p.at /\ Checked(p, n).valid
           /\ Checked(p, n).folds = p.folds
           /\ \A m : Checked(Checked(p, n), m) = Checked(p, m)
  <1> DEFINE got == GetBits(p.t, p.bits, MaxNeededBits, MaxNeededBits)
             q == Checked(p, n)
  <1>1. /\ q.t = p.t /\ q.bits = p.bits /\ q.sent = p.sent /\ q.drawn = p.drawn
        /\ q.checked = n /\ q.at = p.at /\ q.valid = TRUE /\ q.folds = p.folds
        /\ \A m : Checked(q, m) = Checked(p, m)
    BY DEF Checked, IsParty, PartyFields
  <1>2. DrawIndex(q) = WithIndex(q, got) /\ DrawIndex(p) = WithIndex(p, got)
    BY <1>1 DEF DrawIndex
  <1> HIDE DEF got
  <1>3. WithIndex(q, got).index = got.bits /\ WithIndex(p, got).index = got.bits
    BY DEF WithIndex
  <1>4. WithIndex(q, got).party = Checked(WithIndex(p, got).party, n)
    BY DEF WithIndex, Drawn, Checked, IsParty, PartyFields
  <1>5. Checked(WithIndex(p, got).party, n).t = WithIndex(p, got).party.t
    BY DEF WithIndex, Drawn, Checked, IsParty, PartyFields
  <1> HIDE DEF q
  <1> QED
    BY <1>1, <1>2, <1>3, <1>4, <1>5 DEF q, Queried

-----------------------------------------------------------------------------
(* Transcripts *)

TranscriptFields == {"kind", "buffer", "available", "chain"}

IsTranscript(t) == DOMAIN t = TranscriptFields /\ t = [field \in TranscriptFields |-> t[field]]

(* A word is squeezed only out of a state that has taken in all messages. *)
LEMMA ChallengeEmptiesBuffer ==
    ASSUME NEW got, IsTranscript(got.t)
    PROVE  IsTranscript(GetChallenge(got).t) /\ GetChallenge(got).t.buffer = << >>
  <1> DEFINE t == got.t
             full == Refilled(t)
  <1>1. \A chain : IsTranscript(Squeezed(t, chain)) /\ Squeezed(t, chain).buffer = << >>
    <2> HIDE DEF t
    <2>1. IsTranscript(t)
      BY DEF t
    <2> QED
      BY <2>1 DEF IsTranscript, TranscriptFields, Squeezed
  <1>2. IsTranscript(full) /\ full.buffer = << >>
    BY <1>1 DEF Refilled
  <1>3. GetChallenge(got).t = [full EXCEPT !.available = Tail(full.available)]
    BY DEF GetChallenge, TakeWord
  <1> HIDE DEF full
  <1> QED
    BY <1>2, <1>3 DEF IsTranscript, TranscriptFields

(* Two challenges, one after the other. *)
LEMMA TwoChallenges ==
    ASSUME NEW t
    PROVE  GetChallenges(t, 2) = GetChallenge(GetChallenge([t |-> t, words |-> << >>]))
  <1> DEFINE g0 == [t |-> t, words |-> << >>]
             g1 == GetChallenge(g0)
             g2 == GetChallenge(g1)
             h == [i \in 0 .. 2 |-> IF i = 0 THEN g0 ELSE IF i = 1 THEN g1 ELSE g2]
             Draws(g) == g = [i \in 0 .. 2 |-> IF i = 0 THEN g0 ELSE GetChallenge(g[i - 1])]
  <1> HIDE DEF g0
  <1>1. Draws(h)
    <2>1. \A i \in 0 .. 2 : (IF i = 0 THEN g0 ELSE IF i = 1 THEN g1 ELSE g2)
                            = (IF i = 0 THEN g0 ELSE GetChallenge(h[i - 1]))
      <3>1. h[0] = g0 /\ h[1] = g1
        <4> HIDE DEF g1, g2
        <4> QED
          OBVIOUS
      <3> HIDE DEF h
      <3>2. GetChallenge(h[0]) = g1 /\ GetChallenge(h[1]) = g2
        BY <3>1
      <3> HIDE DEF g1, g2
      <3> TAKE i \in 0 .. 2
      <3>3. i = 0 \/ (i = 1 /\ i - 1 = 0) \/ (i = 2 /\ i - 1 = 1)
        OBVIOUS
      <3> QED
        BY <3>2, <3>3
    <2> QED
      BY <2>1
  <1>2. PICK g : Draws(g) /\ GetChallenges(t, 2) = g[2]
    <2> HIDE DEF h
    <2> QED
      BY <1>1 DEF GetChallenges, g0
  <1>3. \A i \in 0 .. 2 : g[i] = IF i = 0 THEN g0 ELSE GetChallenge(g[i - 1])
    BY <1>2
  <1>4. g[0] = g0 /\ g[1] = GetChallenge(g[0]) /\ g[2] = GetChallenge(g[1])
    <2>1. \A i \in 1 .. 2 : i # 0 /\ i \in 0 .. 2
      OBVIOUS
    <2>2. 1 \in 1 .. 2 /\ 2 \in 1 .. 2 /\ 1 - 1 = 0 /\ 2 - 1 = 1 /\ 0 \in 0 .. 2
      OBVIOUS
    <2>3. g[0] = g0
      BY <1>3, <2>2
    <2>4. g[1] = GetChallenge(g[1 - 1]) /\ g[2] = GetChallenge(g[2 - 1])
      BY <1>3, <2>1, <2>2
    <2> QED
      BY <2>2, <2>3, <2>4
  <1> QED
    BY <1>2, <1>4 DEF g0

(* Whoever draws absorbs all that was buffered. *)
LEMMA TwoChallengesEmptyBuffer ==
    ASSUME NEW t, IsTranscript(t)
    PROVE  IsTranscript(GetChallenges(t, 2).t) /\ GetChallenges(t, 2).t.buffer = << >>
  <1> DEFINE g0 == [t |-> t, words |-> << >>]
             g1 == GetChallenge(g0)
  <1>1. g0.t = t
    OBVIOUS
  <1> HIDE DEF g0
  <1>2. IsTranscript(g1.t)
    BY <1>1, ChallengeEmptiesBuffer
  <1> HIDE DEF g1
  <1>3. IsTranscript(GetChallenge(g1).t) /\ GetChallenge(g1).t.buffer = << >>
    BY <1>2, ChallengeEmptiesBuffer
  <1>4. GetChallenges(t, 2) = GetChallenge(g1)
    BY TwoChallenges DEF g0, g1
  <1> QED
    BY <1>3, <1>4

(* Transcripts stay transcripts. *)
LEMMA WitnessedTranscript ==
    ASSUME NEW t, IsTranscript(t), NEW e
    PROVE  IsTranscript(WitnessElements(t, e))
  BY DEF IsTranscript, TranscriptFields, WitnessElements

(* A new one is a transcript. *)
LEMMA NewTranscriptIs ==
    ASSUME NEW kind
    PROVE  IsTranscript(NewTranscript(kind))
  BY DEF IsTranscript, TranscriptFields, NewTranscript

\* What is witnessed.
Names == {"setup", "public_input", "witness", "stage_2", "quotient", "at_z", "at_z_omega",
          "at_0", "fri", "monomial", "nonce"}
Sent == {Element(name, i, j) : name \in Names, i \in Nat, j \in Nat}

(* As many elements as are asked for. *)
LEMMA ElementsByLength ==
    ASSUME NEW name \in Names, NEW i \in Nat, NEW n \in Nat
    PROVE  Elements(name, i, n) \in Seq(Sent) /\ Len(Elements(name, i, n)) = n
  <1>1. \A j \in 1 .. n : Element(name, i, j) \in Sent
    BY DEF Sent
  <1> DEFINE f == [j \in 1 .. n |-> Element(name, i, j)]
  <1>2. f \in [1 .. n -> Sent]
    BY <1>1
  <1>3. Elements(name, i, n) = f
    BY DEF Elements
  <1> HIDE DEF f
  <1>4. f \in Seq(Sent) /\ Len(f) = n
    BY <1>2
  <1> QED
    BY <1>3, <1>4

(* Appending to what was sent. *)
LEMMA SentTogether ==
    \A u, v, w \in Seq(Sent) : (u \o v) \o w = u \o (v \o w)
  BY SMTT(30), ConcatAssociative

(* Three lists witnessed one after the other are witnessed as one. *)
LEMMA WitnessedTogether ==
    ASSUME NEW p, IsParty(p), IsTranscript(p.t), p.t.buffer = << >>, p.sent \in Seq(Sent),
           NEW a \in Seq(Sent), NEW b \in Seq(Sent), NEW c \in Seq(Sent)
    PROVE  Witness(Witness(Witness(p, a), b), c) = Witness(p, a \o b \o c)
  <1> DEFINE Buffered(t, e) == [t EXCEPT !.buffer = e]
             Sending(s, t) == [p EXCEPT !.t = t, !.sent = s]
  <1>1. \A t, e : IsTranscript(t) => WitnessElements(t, e) = Buffered(t, t.buffer \o e)
    BY DEF WitnessElements
  <1>2. \A t, d, e : IsTranscript(t) => /\ Buffered(t, d).buffer = d
                                        /\ IsTranscript(Buffered(t, d))
                                        /\ Buffered(Buffered(t, d), e) = Buffered(t, e)
    BY DEF IsTranscript, TranscriptFields
  <1>3. \A s, t, u, v : /\ Sending(s, t).t = t /\ Sending(s, t).sent = s
                        /\ [Sending(s, t) EXCEPT !.t = u, !.sent = v] = Sending(v, u)
    BY ZenonT(40) DEF IsParty, PartyFields
  <1> HIDE DEF Buffered
  <1> DEFINE ab == a \o b
             abc == ab \o c
  <1>4. ab \in Seq(Sent) /\ abc \in Seq(Sent)
    BY ConcatProperties
  <1>5. (p.sent \o a) \o b = p.sent \o ab /\ (p.sent \o ab) \o c = p.sent \o abc
    <2>1. \A u, v, w \in Seq(Sent) : (u \o v) \o w = u \o (v \o w)
      BY SentTogether
    <2>2. (p.sent \o a) \o b = p.sent \o ab
      BY <2>1
    <2> HIDE DEF ab
    <2>3. (p.sent \o ab) \o c = p.sent \o abc
      BY <1>4, <2>1, ZenonT(40)
    <2> QED
      BY <2>2, <2>3
  <1>16. << >> \o a = a /\ << >> \o abc = abc
    BY <1>4, ConcatEmptySeq
  <1>6. WitnessElements(p.t, a) = Buffered(p.t, a)
    <2>1. WitnessElements(p.t, a) = Buffered(p.t, p.t.buffer \o a)
      BY <1>1
    <2> QED
      BY <2>1, <1>16
  <1>7. WitnessElements(Buffered(p.t, a), b) = Buffered(p.t, ab)
    BY <1>1, <1>2
  <1>8. WitnessElements(Buffered(p.t, ab), c) = Buffered(p.t, abc)
    BY <1>1, <1>2
  <1> HIDE DEF ab, abc
  <1>9. WitnessElements(p.t, abc) = Buffered(p.t, abc)
    <2>1. WitnessElements(p.t, abc) = Buffered(p.t, p.t.buffer \o abc)
      BY <1>1
    <2> QED
      BY <2>1, <1>16
  <1>10. Witness(p, a) = Sending(p.sent \o a, Buffered(p.t, a))
    BY <1>6 DEF Witness, IsParty, PartyFields
  <1>11. \A s, t, e : Witness(Sending(s, t), e) = Sending(s \o e, WitnessElements(t, e))
    BY ZenonT(40) DEF Witness, IsParty, PartyFields
  <1>12. Witness(p, abc) = Sending(p.sent \o abc, Buffered(p.t, abc))
    BY <1>9 DEF Witness, IsParty, PartyFields
  <1> HIDE DEF Sending
  <1>13. Witness(Witness(p, a), b) = Sending(p.sent \o ab, Buffered(p.t, ab))
    <2>1. Witness(Witness(p, a), b) = Sending((p.sent \o a) \o b, Buffered(p.t, ab))
      BY <1>7, <1>10, <1>11
    <2> QED
      BY <2>1, <1>5
  <1>15. Witness(Witness(Witness(p, a), b), c) = Sending((p.sent \o ab) \o c, Buffered(p.t, abc))
    BY <1>8, <1>11, <1>13
  <1> QED
    BY <1>5, <1>12, <1>15 DEF ab, abc

-----------------------------------------------------------------------------
(* What the prover is and has put into the proof after each of its steps *)

\* p is the prover after all folds in AfterMonomials and in what comes after it.

Inputs   == Elements("public_input", 0, config.inputs)
AtZ      == Elements("at_z", 0, 2 * NumAtZ)
AtZOmega == Elements("at_z_omega", 0, 2)
At0      == Elements("at_0", 0, 2 * NumAt0)
Monomials(i) == Elements("monomial", i, 2^FinalLog(config))
Nonce    == Elements("nonce", 0, 2)
NumFolds == Len(Folds(config))

AfterSetup    == Go(Witness(Witness(NewParty(config.kind), Cap("setup", 0)), Inputs), "witness")
AfterWitness  == Go(DrawLookup(DrawTwo(Witness(AfterSetup, Cap("witness", 0)), "beta", "gamma")),
                    "stage_2")
AfterStage2   == Go(Draw(Witness(AfterWitness, Cap("stage_2", 0)), "alpha", 2), "quotient")
AfterQuotient == Go(Draw(Witness(AfterStage2, Cap("quotient", 0)), "z", 2), "openings")
AfterOpenings == Go(Draw(Witness(AfterQuotient, AtZ \o AtZOmega \o At0), "deep", 2), "fri_base")
AfterFriBase  == [Go(Draw(Witness(AfterOpenings, Cap("fri", 0)), "fri", 2), "fri")
                     EXCEPT !.folds = 1]
AfterFold(p, i)   == [Draw(Witness(p, Cap("fri", i)), "fri", 2) EXCEPT !.folds = @ + 1]
AfterMonomials(p) == Go(Witness(Witness(p, Monomials(0)), Monomials(1)), "pow")
Seeded(p)         == Draw(AfterMonomials(p), "pow", PowSeedWords)
AfterPow(p) ==
    IF PowBits(config) = 0 THEN Go(AfterMonomials(p), "queries")
    ELSE Go(Witness(Seeded(p), Nonce), "queries")

QueryOf(p) ==
    Query(Take(DrawIndex(p).index, config.domain), Drop(DrawIndex(p).index, config.domain),
          Queried(p).t.chain)

ProofOfSetup    == [EmptyProof EXCEPT !.public_inputs = Inputs]
ProofOfWitness  == [ProofOfSetup EXCEPT !.witness_oracle_cap = Cap("witness", 0)]
ProofOfStage2   == [ProofOfWitness EXCEPT !.stage_2_oracle_cap = Cap("stage_2", 0)]
ProofOfQuotient == [ProofOfStage2 EXCEPT !.quotient_oracle_cap = Cap("quotient", 0)]
ProofOfOpenings == [ProofOfQuotient EXCEPT !.values_at_z = AtZ, !.values_at_z_omega = AtZOmega,
                                           !.values_at_0 = At0,
                                           !.opened_under = Seen(AfterQuotient)]
ProofOfFriBase  == [ProofOfOpenings EXCEPT !.fri_base_oracle_cap = Cap("fri", 0)]
ProofOfFolds(n) == [ProofOfFriBase EXCEPT
                       !.fri_intermediate_oracles_caps = [i \in 1 .. n - 1 |-> Cap("fri", i)]]
ProofOfMonomials(p) ==
    [ProofOfFolds(NumFolds) EXCEPT !.final_fri_monomials = << Monomials(0), Monomials(1) >>,
                                   !.folded_under = Seen(p)]
ProofOfPow(p) ==
    IF PowBits(config) = 0 THEN ProofOfMonomials(p)
    ELSE [ProofOfMonomials(p) EXCEPT
             !.pow = << [seed |-> Seen(Seeded(p)), bits |-> PowBits(config)] >>]
ProofOfQueries(p, q, m) ==
    [ProofOfPow(p) EXCEPT !.queries = [i \in 1 .. m |-> QueryOf(q[i - 1])]]

(* All of it depends on the configuration only. *)
LEMMA StepsFixed ==
    ASSUME config' = config
    PROVE  /\ NumFolds' = NumFolds /\ Scheduled' = Scheduled
           /\ AfterSetup' = AfterSetup /\ AfterWitness' = AfterWitness
           /\ AfterStage2' = AfterStage2 /\ AfterQuotient' = AfterQuotient
           /\ AfterOpenings' = AfterOpenings /\ AfterFriBase' = AfterFriBase
           /\ \A p, i : AfterFold(p, i)' = AfterFold(p, i)
           /\ \A p : AfterMonomials(p)' = AfterMonomials(p)
           /\ \A p : AfterPow(p)' = AfterPow(p)
           /\ \A p : Queried(p)' = Queried(p)
           /\ ProofOfSetup' = ProofOfSetup /\ ProofOfWitness' = ProofOfWitness
           /\ ProofOfStage2' = ProofOfStage2 /\ ProofOfQuotient' = ProofOfQuotient
           /\ ProofOfOpenings' = ProofOfOpenings
           /\ \A n : ProofOfFolds(n)' = ProofOfFolds(n)
           /\ \A p : ProofOfMonomials(p)' = ProofOfMonomials(p)
           /\ \A p : ProofOfPow(p)' = ProofOfPow(p)
           /\ \A p, q, m : ProofOfQueries(p, q, m)' = ProofOfQueries(p, q, m)
  <1>1. \A name, i : Cap(name, i)' = Cap(name, i)
    BY DEF Cap, CapLen
  <1>2. NumFolds' = NumFolds /\ Inputs' = Inputs /\ At0' = At0
    BY DEF NumFolds, Inputs, At0, NumAt0
  <1>3. \A i : Monomials(i)' = Monomials(i)
    BY DEF Monomials
  <1>4. AfterSetup' = AfterSetup
    BY <1>1, <1>2 DEF AfterSetup
  <1>5. AfterWitness' = AfterWitness
    BY <1>1, <1>4 DEF AfterWitness, DrawLookup
  <1>6. AfterStage2' = AfterStage2
    BY <1>1, <1>5 DEF AfterStage2
  <1>7. AfterQuotient' = AfterQuotient
    BY <1>1, <1>6 DEF AfterQuotient
  <1>8. AfterOpenings' = AfterOpenings
    BY <1>2, <1>7 DEF AfterOpenings, AtZ, AtZOmega
  <1>9. AfterFriBase' = AfterFriBase
    BY <1>1, <1>8 DEF AfterFriBase
  <1>10. \A p, i : AfterFold(p, i)' = AfterFold(p, i)
    BY <1>1 DEF AfterFold
  <1>11. \A p : AfterMonomials(p)' = AfterMonomials(p)
    BY <1>3 DEF AfterMonomials
  <1>12. \A p : AfterPow(p)' = AfterPow(p)
    BY <1>11 DEF AfterPow, Nonce, Seeded
  <1>13. \A p : Queried(p)' = Queried(p) /\ DrawIndex(p)' = DrawIndex(p)
    BY DEF Queried, DrawIndex, MaxNeededBits
  <1>14. \A inner, coset, under : Query(inner, coset, under)' = Query(inner, coset, under)
    BY DEF Query, OracleQuery, Shift, TreeLog
  <1>15. \A p : QueryOf(p)' = QueryOf(p)
    BY <1>13, <1>14 DEF QueryOf
  <1>16. ProofOfSetup' = ProofOfSetup
    BY <1>2 DEF ProofOfSetup
  <1>17. ProofOfWitness' = ProofOfWitness
    BY <1>1, <1>16 DEF ProofOfWitness
  <1>18. ProofOfStage2' = ProofOfStage2
    BY <1>1, <1>17 DEF ProofOfStage2
  <1>19. ProofOfQuotient' = ProofOfQuotient
    BY <1>1, <1>18 DEF ProofOfQuotient
  <1>20. ProofOfOpenings' = ProofOfOpenings
    BY <1>2, <1>7, <1>19 DEF ProofOfOpenings, AtZ, AtZOmega
  <1>21. ProofOfFriBase' = ProofOfFriBase
    BY <1>1, <1>20 DEF ProofOfFriBase
  <1>22. \A n : ProofOfFolds(n)' = ProofOfFolds(n)
    BY <1>1, <1>21 DEF ProofOfFolds
  <1>23. \A p : ProofOfMonomials(p)' = ProofOfMonomials(p)
    BY <1>2, <1>3, <1>22 DEF ProofOfMonomials
  <1>24. \A p : ProofOfPow(p)' = ProofOfPow(p)
    BY <1>11, <1>23 DEF ProofOfPow, Seeded
  <1>25. \A p, q, m : ProofOfQueries(p, q, m)' = ProofOfQueries(p, q, m)
    BY <1>15, <1>24 DEF ProofOfQueries
  <1>26. Scheduled' = Scheduled
    BY DEF Scheduled, ScheduleAsserts
  <1> QED
    BY <1>2, <1>3, <1>4, <1>5, <1>6, <1>7, <1>8, <1>9, <1>10, <1>11, <1>12, <1>13,
       <1>15, <1>16, <1>17, <1>18, <1>19, <1>20, <1>22, <1>23, <1>24, <1>25, <1>26

LEMMA Lookup ==
    ASSUME NEW p, IsParty(p)
    PROVE  Follows(p, DrawLookup(p))
  <1>1. Follows(p, p)
    BY DEF Follows
  <1> QED
    BY <1>1, DrawingTwo DEF DrawLookup

(* All of them are parties, each at the next step. *)
LEMMA StepsInOrder ==
    /\ IsParty(NewParty(config.kind)) /\ NewParty(config.kind).at = "setup"
    /\ IsParty(AfterSetup) /\ AfterSetup.at = "witness"
    /\ IsParty(AfterWitness) /\ AfterWitness.at = "stage_2"
    /\ IsParty(AfterStage2) /\ AfterStage2.at = "quotient"
    /\ IsParty(AfterQuotient) /\ AfterQuotient.at = "openings"
    /\ IsParty(AfterOpenings) /\ AfterOpenings.at = "fri_base"
    /\ IsParty(AfterFriBase) /\ AfterFriBase.at = "fri" /\ AfterFriBase.folds = 1
  <1>1. IsParty(NewParty(config.kind)) /\ NewParty(config.kind).at = "setup"
    BY DEF NewParty, IsParty, PartyFields
  <1>2. IsParty(AfterSetup) /\ AfterSetup.at = "witness"
    BY <1>1, Witnessing, Going DEF AfterSetup, Follows
  <1>3. IsParty(AfterWitness) /\ AfterWitness.at = "stage_2"
    BY <1>2, Witnessing, DrawingTwo, Lookup, Going DEF AfterWitness, Follows
  <1>4. IsParty(AfterStage2) /\ AfterStage2.at = "quotient"
    BY <1>3, Witnessing, Drawing, Going DEF AfterStage2, Follows
  <1>5. IsParty(AfterQuotient) /\ AfterQuotient.at = "openings"
    BY <1>4, Witnessing, Drawing, Going DEF AfterQuotient, Follows
  <1>6. IsParty(AfterOpenings) /\ AfterOpenings.at = "fri_base"
    BY <1>5, Witnessing, Drawing, Going DEF AfterOpenings, Follows
  <1>7. IsParty(AfterFriBase) /\ AfterFriBase.at = "fri" /\ AfterFriBase.folds = 1
    <2> DEFINE p == Go(Draw(Witness(AfterOpenings, Cap("fri", 0)), "fri", 2), "fri")
    <2>1. IsParty(p) /\ p.at = "fri"
      BY <1>6, Witnessing, Drawing, Going DEF Follows
    <2>2. AfterFriBase = [p EXCEPT !.folds = 1]
      BY DEF AfterFriBase
    <2> HIDE DEF p
    <2> QED
      BY <2>1, <2>2 DEF IsParty, PartyFields
  <1> QED
    BY <1>1, <1>2, <1>3, <1>4, <1>5, <1>6, <1>7

(* A fold leads from a party in FRI to one with a fold more. *)
LEMMA FoldsInOrder ==
    ASSUME NEW p, IsParty(p), NEW i
    PROVE  IsParty(AfterFold(p, i)) /\ AfterFold(p, i).at = p.at
           /\ AfterFold(p, i).folds = p.folds + 1
  <1> DEFINE q == Draw(Witness(p, Cap("fri", i)), "fri", 2)
  <1>1. IsParty(q) /\ q.at = p.at /\ q.folds = p.folds
    BY Witnessing, Drawing DEF Follows
  <1>2. AfterFold(p, i) = [q EXCEPT !.folds = q.folds + 1]
    BY DEF AfterFold
  <1> HIDE DEF q
  <1> QED
    BY <1>1, <1>2 DEF IsParty, PartyFields

(* So do the steps after the folds, each to the next. *)
LEMMA PowInOrder ==
    ASSUME NEW p, IsParty(p)
    PROVE  /\ IsParty(AfterMonomials(p)) /\ AfterMonomials(p).at = "pow"
           /\ IsParty(Seeded(p)) /\ Seeded(p).at = "pow"
           /\ IsParty(AfterPow(p)) /\ AfterPow(p).at = "queries"
  <1>1. IsParty(AfterMonomials(p)) /\ AfterMonomials(p).at = "pow"
    BY Witnessing, Going DEF AfterMonomials, Follows
  <1>2. IsParty(Seeded(p)) /\ Seeded(p).at = "pow"
    BY <1>1, Drawing DEF Seeded, Follows
  <1>3. IsParty(AfterPow(p)) /\ AfterPow(p).at = "queries"
    BY <1>1, <1>2, Witnessing, Going DEF AfterPow, Follows
  <1> QED
    BY <1>1, <1>2, <1>3

(* The sizes in a configuration, and the lengths that depend on them. *)
LEMMA LengthsAre ==
    ASSUME config \in Configs
    PROVE  /\ \A name \in Names, i \in Nat : /\ Cap(name, i) \in Seq(Sent)
                                              /\ Len(Cap(name, i)) = CapLen
           /\ Inputs \in Seq(Sent) /\ Len(Inputs) = config.inputs
           /\ AtZ \in Seq(Sent) /\ Len(AtZ) = 2 * NumAtZ
           /\ AtZOmega \in Seq(Sent) /\ Len(AtZOmega) = 2
           /\ At0 \in Seq(Sent) /\ Len(At0) = 2 * NumAt0
           /\ \A i \in 0 .. 1 : Len(Monomials(i)) = 2^FinalLog(config)
  <1>1. /\ NumAtZ \in Nat /\ LookupTerms \in Nat /\ CW \in Nat
        /\ config.rate \in Nat /\ config.cap \in Nat /\ config.domain \in Nat
        /\ config.inputs \in Nat
        /\ \A n \in 0 .. config.domain + config.cap : 2^n \in Nat
    BY ConfigAssumption, TranscriptAssumption
  <1>2. CapLen \in Nat
    <2>1. 2^(config.cap) \in Nat
      BY <1>1
    <2> DEFINE size == 2^(config.cap)
    <2> HIDE DEF size
    <2>2. CW * size \in Nat
      BY <1>1, <2>1 DEF size
    <2> QED
      BY <2>2 DEF CapLen, size
  <1>3. 2^FinalLog(config) \in Nat
    <2>1. FinalLog(config) \in 0 .. config.domain
      <3>1. /\ Folds(config) \in Seq(1 .. 3)
            /\ \A i \in 0 .. Len(Folds(config)) : DegreeLog(config, i) \in 0 .. config.domain
        BY <1>1, FoldsAddUp
      <3>2. Len(Folds(config)) \in 0 .. Len(Folds(config))
        BY <3>1, LenProperties
      <3> QED
        BY <3>1, <3>2 DEF FinalLog
    <2>2. FinalLog(config) \in 0 .. config.domain + config.cap
      BY <1>1, <2>1
    <2> QED
      BY <1>1, <2>2
  <1>4. NumAt0 \in Nat
    BY <1>1 DEF NumAt0
  <1>5. 2 * NumAtZ \in Nat /\ 2 * NumAt0 \in Nat /\ 2 \in Nat /\ 0 \in Nat
    BY <1>1, <1>4
  <1>6. \A name \in Names, i \in Nat : Cap(name, i) \in Seq(Sent) /\ Len(Cap(name, i)) = CapLen
    BY <1>2, ElementsByLength DEF Cap
  <1>12. /\ "public_input" \in Names /\ "at_z" \in Names /\ "at_z_omega" \in Names
         /\ "at_0" \in Names /\ "monomial" \in Names
    BY DEF Names
  <1>13. \A name \in Names, i \in Nat, n \in Nat :
            Elements(name, i, n) \in Seq(Sent) /\ Len(Elements(name, i, n)) = n
    BY ElementsByLength
  <1>7. Inputs \in Seq(Sent) /\ Len(Inputs) = config.inputs
    BY <1>1, <1>5, <1>12, <1>13 DEF Inputs
  <1>8. AtZ \in Seq(Sent) /\ Len(AtZ) = 2 * NumAtZ
    BY <1>5, <1>12, <1>13 DEF AtZ
  <1>9. AtZOmega \in Seq(Sent) /\ Len(AtZOmega) = 2
    BY <1>5, <1>12, <1>13 DEF AtZOmega
  <1>10. At0 \in Seq(Sent) /\ Len(At0) = 2 * NumAt0
    BY <1>5, <1>12, <1>13 DEF At0
  <1>11. \A i \in 0 .. 1 : Len(Monomials(i)) = 2^FinalLog(config)
    <2> TAKE i \in 0 .. 1
    <2>1. i \in Nat
      OBVIOUS
    <2> DEFINE size == 2^FinalLog(config)
    <2>2. size \in Nat
      BY <1>3
    <2> HIDE DEF size
    <2>3. Len(Elements("monomial", i, size)) = size
      BY <1>12, <1>13, <2>1, <2>2
    <2> QED
      BY <2>3 DEF Monomials, size
  <1> QED
    BY <1>6, <1>7, <1>8, <1>9, <1>10, <1>11

(* Nothing is left to absorb when the openings are witnessed, so that it is all the same
   whether they are at once or, by the circuit, in three parts. *)
LEMMA OpeningsTogether ==
    ASSUME config \in Configs
    PROVE  Witness(Witness(Witness(AfterQuotient, AtZ), AtZOmega), At0)
           = Witness(AfterQuotient, AtZ \o AtZOmega \o At0)
  <1> DEFINE Tracked(p) == IsParty(p) /\ IsTranscript(p.t) /\ p.sent \in Seq(Sent)
  <1>1. ASSUME NEW p, Tracked(p), NEW e \in Seq(Sent)
        PROVE  Tracked(Witness(p, e))
    <2>1. p.sent \o e \in Seq(Sent)
      BY <1>1, ConcatProperties
    <2> QED
      BY <1>1, <2>1, Witnessing, WitnessedTranscript DEF Follows
  <1>2. ASSUME NEW p, Tracked(p), NEW name
        PROVE  Tracked(Draw(p, name, 2)) /\ Draw(p, name, 2).t.buffer = << >>
    BY <1>2, Drawing, TwoChallengesEmptyBuffer DEF Follows
  <1>3. ASSUME NEW p, Tracked(p), NEW at
        PROVE  Tracked(Go(p, at)) /\ Go(p, at).t = p.t
    BY <1>3, Going
  <1>4. /\ Cap("setup", 0) \in Seq(Sent) /\ Cap("witness", 0) \in Seq(Sent)
        /\ Cap("stage_2", 0) \in Seq(Sent) /\ Cap("quotient", 0) \in Seq(Sent)
    <2>1. \A name \in Names : Cap(name, 0) \in Seq(Sent)
      BY LengthsAre
    <2>2. /\ "setup" \in Names /\ "witness" \in Names
          /\ "stage_2" \in Names /\ "quotient" \in Names
      BY DEF Names
    <2> QED
      BY <2>1, <2>2
  <1>5. Inputs \in Seq(Sent) /\ AtZ \in Seq(Sent) /\ AtZOmega \in Seq(Sent) /\ At0 \in Seq(Sent)
    BY LengthsAre
  <1>6. Tracked(NewParty(config.kind))
    <2>1. NewParty(config.kind).t = NewTranscript(config.kind) /\ NewParty(config.kind).sent = << >>
      BY DEF NewParty
    <2>2. << >> \in Seq(Sent)
      BY EmptySeq
    <2> QED
      BY <2>1, <2>2, StepsInOrder, NewTranscriptIs
  <1> HIDE DEF Tracked
  <1>7. Tracked(AfterSetup)
    BY <1>1, <1>3, <1>4, <1>5, <1>6 DEF AfterSetup
  <1>8. Tracked(AfterWitness)
    BY <1>1, <1>2, <1>3, <1>4, <1>7 DEF AfterWitness, DrawLookup, DrawTwo
  <1>9. Tracked(AfterStage2)
    BY <1>1, <1>2, <1>3, <1>4, <1>8 DEF AfterStage2
  <1>10. Tracked(AfterQuotient) /\ AfterQuotient.t.buffer = << >>
    BY <1>1, <1>2, <1>3, <1>4, <1>9 DEF AfterQuotient
  <1> QED
    BY <1>5, <1>10, WitnessedTogether DEF Tracked

\* What the finished proof holds.
Holds(parts, p, q, m) ==
    /\ parts.public_inputs = Inputs
    /\ parts.witness_oracle_cap = Cap("witness", 0)
    /\ parts.stage_2_oracle_cap = Cap("stage_2", 0)
    /\ parts.quotient_oracle_cap = Cap("quotient", 0)
    /\ parts.values_at_z = AtZ /\ parts.values_at_z_omega = AtZOmega
    /\ parts.values_at_0 = At0 /\ parts.opened_under = Seen(AfterQuotient)
    /\ parts.fri_base_oracle_cap = Cap("fri", 0)
    /\ parts.fri_intermediate_oracles_caps = [i \in 1 .. NumFolds - 1 |-> Cap("fri", i)]
    /\ parts.final_fri_monomials = << Monomials(0), Monomials(1) >>
    /\ parts.folded_under = Seen(p)
    /\ PowBits(config) # 0 =>
         parts.pow = << [seed |-> Seen(Seeded(p)), bits |-> PowBits(config)] >>
    /\ parts.queries = [i \in 1 .. m |-> QueryOf(q[i - 1])]

(* No step of the prover overwrites what an earlier one put in. *)
LEMMA ProofHolds ==
    ASSUME NEW parts, NEW p, NEW q, NEW m, parts = ProofOfQueries(p, q, m)
    PROVE  Holds(parts, p, q, m)
  <1> DEFINE Fields == {"public_inputs", "witness_oracle_cap", "stage_2_oracle_cap",
                        "quotient_oracle_cap", "values_at_z", "values_at_z_omega", "values_at_0",
                        "opened_under", "fri_base_oracle_cap", "fri_intermediate_oracles_caps",
                        "final_fri_monomials", "folded_under", "pow", "queries"}
             Opened(x) ==
                 /\ x.public_inputs = Inputs
                 /\ x.witness_oracle_cap = Cap("witness", 0)
                 /\ x.stage_2_oracle_cap = Cap("stage_2", 0)
                 /\ x.quotient_oracle_cap = Cap("quotient", 0)
                 /\ x.values_at_z = AtZ /\ x.values_at_z_omega = AtZOmega
                 /\ x.values_at_0 = At0 /\ x.opened_under = Seen(AfterQuotient)
             Folded(x) ==
                 /\ x.fri_base_oracle_cap = Cap("fri", 0)
                 /\ x.fri_intermediate_oracles_caps = [i \in 1 .. NumFolds - 1 |-> Cap("fri", i)]
                 /\ x.final_fri_monomials = << Monomials(0), Monomials(1) >>
                 /\ x.folded_under = Seen(p)
  <1>1. DOMAIN EmptyProof = Fields
    BY DEF EmptyProof
  <1>2. DOMAIN ProofOfOpenings = Fields /\ Opened(ProofOfOpenings)
    <2> HIDE DEF Fields
    <2>1. DOMAIN ProofOfSetup = Fields
      BY <1>1 DEF ProofOfSetup
    <2>2. DOMAIN ProofOfWitness = Fields
      BY <2>1 DEF ProofOfWitness
    <2>3. DOMAIN ProofOfStage2 = Fields
      BY <2>2 DEF ProofOfStage2
    <2>4. DOMAIN ProofOfQuotient = Fields
      BY <2>3 DEF ProofOfQuotient
    <2>5. DOMAIN ProofOfOpenings = Fields
      BY <2>4 DEF ProofOfOpenings
    <2>6. ProofOfSetup.public_inputs = Inputs
      BY <1>1 DEF ProofOfSetup, Fields
    <2>7. /\ ProofOfWitness.public_inputs = Inputs
          /\ ProofOfWitness.witness_oracle_cap = Cap("witness", 0)
      BY <2>1, <2>6 DEF ProofOfWitness, Fields
    <2>8. /\ ProofOfStage2.public_inputs = Inputs
          /\ ProofOfStage2.witness_oracle_cap = Cap("witness", 0)
          /\ ProofOfStage2.stage_2_oracle_cap = Cap("stage_2", 0)
      BY <2>2, <2>7 DEF ProofOfStage2, Fields
    <2>9. /\ ProofOfQuotient.public_inputs = Inputs
          /\ ProofOfQuotient.witness_oracle_cap = Cap("witness", 0)
          /\ ProofOfQuotient.stage_2_oracle_cap = Cap("stage_2", 0)
          /\ ProofOfQuotient.quotient_oracle_cap = Cap("quotient", 0)
      BY <2>3, <2>8 DEF ProofOfQuotient, Fields
    <2>10. Opened(ProofOfOpenings)
      BY <2>4, <2>9 DEF ProofOfOpenings, Fields
    <2> QED
      BY <2>5, <2>10
  <1>3. /\ DOMAIN ProofOfMonomials(p) = Fields
        /\ Opened(ProofOfMonomials(p)) /\ Folded(ProofOfMonomials(p))
    <2> DEFINE x == ProofOfFolds(NumFolds)
    <2>1. /\ DOMAIN ProofOfFriBase = Fields /\ Opened(ProofOfFriBase)
          /\ ProofOfFriBase.fri_base_oracle_cap = Cap("fri", 0)
      BY <1>2 DEF ProofOfFriBase
    <2>2. /\ DOMAIN x = Fields /\ Opened(x)
          /\ x.fri_base_oracle_cap = Cap("fri", 0)
          /\ x.fri_intermediate_oracles_caps = [i \in 1 .. NumFolds - 1 |-> Cap("fri", i)]
      BY <2>1 DEF ProofOfFolds
    <2>3. ProofOfMonomials(p)
          = [x EXCEPT !.final_fri_monomials = << Monomials(0), Monomials(1) >>,
                      !.folded_under = Seen(p)]
      BY DEF ProofOfMonomials
    <2> HIDE DEF x
    <2> QED
      BY <2>2, <2>3
  <1>4. /\ DOMAIN ProofOfPow(p) = Fields
        /\ Opened(ProofOfPow(p)) /\ Folded(ProofOfPow(p))
        /\ PowBits(config) # 0 =>
             ProofOfPow(p).pow = << [seed |-> Seen(Seeded(p)), bits |-> PowBits(config)] >>
    BY <1>3 DEF ProofOfPow
  <1> DEFINE asked == [i \in 1 .. m |-> QueryOf(q[i - 1])]
  <1>5. parts = [ProofOfPow(p) EXCEPT !.queries = asked]
    BY DEF ProofOfQueries
  <1> HIDE DEF asked
  <1>6. /\ Opened(parts) /\ Folded(parts) /\ parts.pow = ProofOfPow(p).pow
        /\ parts.queries = asked
    BY <1>4, <1>5
  <1> QED
    BY <1>4, <1>6 DEF Holds, asked

-----------------------------------------------------------------------------
(* The invariant *)

\* f is the prover after each of the first k folds, and q after each of the first m queries
\* where p is the prover after all of the folds.
Folding(f, k) ==
    \A i \in 1 .. k :
        /\ IsParty(f[i]) /\ f[i].at = "fri" /\ f[i].folds = i
        /\ f[i] = IF i = 1 THEN AfterFriBase ELSE AfterFold(f[i - 1], i - 1)

Asking(q, p, m) ==
    \A i \in 0 .. m :
        /\ IsParty(q[i]) /\ q[i].at = "queries"
        /\ q[i] = IF i = 0 THEN AfterPow(p) ELSE Queried(q[i - 1])

\* The prover is where its steps take it, the k-th fold and the m-th query if it is there.
Proving(n, k, m, f, q) ==
    /\ prover.at = "setup" => prover = NewParty(config.kind) /\ proof = EmptyProof
    /\ prover.at = "witness" => prover = AfterSetup /\ proof = ProofOfSetup
    /\ prover.at = "stage_2" => prover = AfterWitness /\ proof = ProofOfWitness
    /\ prover.at = "quotient" => prover = AfterStage2 /\ proof = ProofOfStage2
    /\ prover.at = "openings" => prover = AfterQuotient /\ proof = ProofOfQuotient
    /\ prover.at = "fri_base" => prover = AfterOpenings /\ proof = ProofOfOpenings
    /\ prover.at = "fri" =>
          /\ Scheduled /\ k \in 1 .. n /\ Folding(f, k)
          /\ prover = f[k] /\ proof = ProofOfFolds(k)
    /\ prover.at = "pow" =>
          /\ Scheduled /\ n >= 1 /\ Folding(f, n)
          /\ prover = AfterMonomials(f[n]) /\ proof = ProofOfMonomials(f[n])
    /\ prover.at \in {"queries", "done"} =>
          /\ Scheduled /\ n >= 1 /\ Folding(f, n) /\ Asking(q, f[n], m)
          /\ proof = ProofOfQueries(f[n], q, m)
    /\ prover.at = "queries" => prover = q[m]
    /\ prover.at = "done" => m = NumQueries(config)

\* A verifier is where the prover has been.
Retracing(v, n, m, f, q) ==
    /\ v.at = "setup" => v = NewParty(config.kind)
    /\ v.at = "witness" => v = AfterSetup
    /\ v.at = "stage_2" => v = AfterWitness
    /\ v.at = "quotient" => v = AfterStage2
    /\ v.at = "openings" => v = AfterQuotient
    /\ v.at = "fri_base" => v = AfterOpenings
    /\ v.at = "fri" => v.folds \in 1 .. n /\ v = f[v.folds]
    /\ v.at = "pow" => v = AfterMonomials(f[n])
    /\ v.at = "queries" => v.checked \in 0 .. m /\ v = Checked(q[v.checked], v.checked)
    /\ v.at \notin {"rejected", "panicked"} /\ v.valid

Verifying(v, n, m, f, q) ==
    IF prover.at = "done" THEN Retracing(v, n, m, f, q) ELSE v = NewParty(config.kind)

Retraced(n, k, m, f, q) ==
    /\ config \in Configs
    /\ n = NumFolds /\ n \in Nat /\ k \in Nat /\ m \in Nat
    /\ Proving(n, k, m, f, q)
    /\ Verifying(verifier, n, m, f, q) /\ Verifying(recursive, n, m, f, q)

StepsRetraced == \E n, k, m, f, q : Retraced(n, k, m, f, q)

(* At the start nobody has moved. *)
LEMMA InitRetraced == Init => StepsRetraced
  <1> SUFFICES ASSUME Init PROVE StepsRetraced
    OBVIOUS
  <1> DEFINE n == NumFolds
             start == NewParty(config.kind)
  <1>1. n \in Nat
    <2>1. Folds(config) \in Seq(1 .. 3)
      BY ConfigAssumption, FoldsAddUp DEF Init
    <2> QED
      BY <2>1, LenProperties DEF NumFolds
  <1>2. start.at = "setup" /\ start.valid
    BY StepsInOrder DEF IsParty
  <1>3. prover = start /\ verifier = start /\ recursive = start /\ proof = EmptyProof
    BY DEF Init
  <1> HIDE DEF start
  <1>4. \A f, q : Proving(n, 0, 0, f, q)
    BY <1>2, <1>3 DEF Proving, start
  <1>5. \A f, q : Verifying(verifier, n, 0, f, q) /\ Verifying(recursive, n, 0, f, q)
    BY <1>2, <1>3 DEF Verifying, start
  <1> HIDE DEF n
  <1>6. \A f, q : Retraced(n, 0, 0, f, q)
    BY <1>1, <1>4, <1>5 DEF Retraced, Init, n
  <1>7. PICK c : c = n
    OBVIOUS
  <1>8. \A f, q : Retraced(c, 0, 0, f, q)
    BY <1>6, <1>7
  <1> QED
    BY <1>8 DEF StepsRetraced

(* What a step leaves alone. *)
LEMMA TraceFixed ==
    ASSUME config' = config, NEW f, NEW q, NEW k, NEW m, NEW p
    PROVE  Folding(f, k)' = Folding(f, k) /\ Asking(q, p, m)' = Asking(q, p, m)
  BY StepsFixed DEF Folding, Asking

LEMMA ProvingFixed ==
    ASSUME config' = config, prover' = prover, proof' = proof,
           NEW n, NEW k, NEW m, NEW f, NEW q, Proving(n, k, m, f, q)
    PROVE  Proving(n, k, m, f, q)'
  BY StepsFixed, TraceFixed DEF Proving

LEMMA RetracingFixed ==
    ASSUME config' = config, NEW v, NEW n, NEW m, NEW f, NEW q, Retracing(v, n, m, f, q)
    PROVE  Retracing(v, n, m, f, q)'
  BY StepsFixed DEF Retracing

LEMMA VerifierFixed ==
    ASSUME config' = config, prover' = prover, verifier' = verifier,
           NEW n, NEW m, NEW f, NEW q, Verifying(verifier, n, m, f, q)
    PROVE  Verifying(verifier, n, m, f, q)'
  BY StepsFixed DEF Verifying, Retracing

LEMMA RecursiveFixed ==
    ASSUME config' = config, prover' = prover, recursive' = recursive,
           NEW n, NEW m, NEW f, NEW q, Verifying(recursive, n, m, f, q)
    PROVE  Verifying(recursive, n, m, f, q)'
  BY StepsFixed DEF Verifying, Retracing

LEMMA BothStart ==
    ASSUME config' = config, prover.at # "done", verifier' = verifier, recursive' = recursive,
           NEW n, NEW m, NEW f, NEW q, NEW m2, NEW f2, NEW q2,
           Verifying(verifier, n, m, f, q), Verifying(recursive, n, m, f, q)
    PROVE  Verifying(verifier, n, m2, f2, q2)' /\ Verifying(recursive, n, m2, f2, q2)'
  <1> DEFINE start == NewParty(config.kind)
  <1>1. verifier = start /\ recursive = start /\ start' = start
    BY DEF Verifying
  <1>2. start.at = "setup" /\ start.valid
    BY StepsInOrder DEF IsParty
  <1>3. verifier' = start' /\ recursive' = start'
    BY <1>1
  <1> HIDE DEF start
  <1>4. Retracing(verifier, n, m2, f2, q2)' /\ Retracing(recursive, n, m2, f2, q2)'
    BY <1>1, <1>2, <1>3 DEF Retracing, start
  <1> QED
    BY <1>3, <1>4 DEF Verifying, start

(* Every step of the prover takes it to the next of its parties and of its proofs. *)
LEMMA RoundsProved ==
    ASSUME NEW n, NEW k, NEW m, NEW f, NEW q, Proving(n, k, m, f, q),
           \/ ProveSetup \/ ProveWitness \/ ProveStage2 \/ ProveQuotient \/ ProveOpenings
    PROVE  Proving(n, k, m, f, q)'
  <1>1. CASE ProveSetup
    <2>1. prover.at = "setup" /\ config' = config
      BY <1>1 DEF ProveSetup, Prove
    <2>2. prover = NewParty(config.kind) /\ proof = EmptyProof
      BY <2>1 DEF Proving
    <2>3. prover' = AfterSetup /\ proof' = ProofOfSetup
      BY <1>1, <2>2 DEF ProveSetup, Prove, AfterSetup, ProofOfSetup, Inputs
    <2>4. prover'.at = "witness"
      BY <2>3, StepsInOrder
    <2>5. prover' = AfterSetup' /\ proof' = ProofOfSetup'
      BY <2>1, <2>3, StepsFixed
    <2> QED
      BY <2>4, <2>5 DEF Proving
  <1>2. CASE ProveWitness
    <2>1. prover.at = "witness" /\ config' = config
      BY <1>2 DEF ProveWitness, Prove
    <2>2. prover = AfterSetup /\ proof = ProofOfSetup
      BY <2>1 DEF Proving
    <2>3. prover' = AfterWitness /\ proof' = ProofOfWitness
      BY <1>2, <2>2 DEF ProveWitness, Prove, AfterWitness, ProofOfWitness
    <2>4. prover'.at = "stage_2"
      BY <2>3, StepsInOrder
    <2>5. prover' = AfterWitness' /\ proof' = ProofOfWitness'
      BY <2>1, <2>3, StepsFixed
    <2> QED
      BY <2>4, <2>5 DEF Proving
  <1>3. CASE ProveStage2
    <2>1. prover.at = "stage_2" /\ config' = config
      BY <1>3 DEF ProveStage2, Prove
    <2>2. prover = AfterWitness /\ proof = ProofOfWitness
      BY <2>1 DEF Proving
    <2>3. prover' = AfterStage2 /\ proof' = ProofOfStage2
      BY <1>3, <2>2 DEF ProveStage2, Prove, AfterStage2, ProofOfStage2
    <2>4. prover'.at = "quotient"
      BY <2>3, StepsInOrder
    <2>5. prover' = AfterStage2' /\ proof' = ProofOfStage2'
      BY <2>1, <2>3, StepsFixed
    <2> QED
      BY <2>4, <2>5 DEF Proving
  <1>4. CASE ProveQuotient
    <2>1. prover.at = "quotient" /\ config' = config
      BY <1>4 DEF ProveQuotient, Prove
    <2>2. prover = AfterStage2 /\ proof = ProofOfStage2
      BY <2>1 DEF Proving
    <2>3. prover' = AfterQuotient /\ proof' = ProofOfQuotient
      BY <1>4, <2>2 DEF ProveQuotient, Prove, AfterQuotient, ProofOfQuotient
    <2>4. prover'.at = "openings"
      BY <2>3, StepsInOrder
    <2>5. prover' = AfterQuotient' /\ proof' = ProofOfQuotient'
      BY <2>1, <2>3, StepsFixed
    <2> QED
      BY <2>4, <2>5 DEF Proving
  <1>5. CASE ProveOpenings
    <2>1. prover.at = "openings" /\ config' = config
      BY <1>5 DEF ProveOpenings, Prove
    <2>2. prover = AfterQuotient /\ proof = ProofOfQuotient
      BY <2>1 DEF Proving
    <2>3. prover' = AfterOpenings /\ proof' = ProofOfOpenings
      BY <1>5, <2>2 DEF ProveOpenings, Prove, AfterOpenings, ProofOfOpenings, AtZ, AtZOmega, At0
    <2>4. prover'.at = "fri_base"
      BY <2>3, StepsInOrder
    <2>5. prover' = AfterOpenings' /\ proof' = ProofOfOpenings'
      BY <2>1, <2>3, StepsFixed
    <2> QED
      BY <2>4, <2>5 DEF Proving
  <1> QED
    BY <1>1, <1>2, <1>3, <1>4, <1>5

(* What is not put into the proof yet is empty. *)
LEMMA StillEmpty ==
    /\ "fri_intermediate_oracles_caps" \in DOMAIN ProofOfFriBase
    /\ ProofOfFriBase.fri_intermediate_oracles_caps = << >>
    /\ \A p : /\ "queries" \in DOMAIN ProofOfPow(p) /\ ProofOfPow(p).queries = << >>
  <1> DEFINE Blank(x) ==
                 /\ "fri_intermediate_oracles_caps" \in DOMAIN x
                 /\ x.fri_intermediate_oracles_caps = << >>
             Unasked(x) == "queries" \in DOMAIN x /\ x.queries = << >>
  <1>1. Blank(EmptyProof) /\ Unasked(EmptyProof)
    BY DEF EmptyProof
  <1>2. Blank(ProofOfSetup) /\ Unasked(ProofOfSetup)
    BY <1>1 DEF ProofOfSetup
  <1>3. Blank(ProofOfWitness) /\ Unasked(ProofOfWitness)
    BY <1>2 DEF ProofOfWitness
  <1>4. Blank(ProofOfStage2) /\ Unasked(ProofOfStage2)
    BY <1>3 DEF ProofOfStage2
  <1>5. Blank(ProofOfQuotient) /\ Unasked(ProofOfQuotient)
    BY <1>4 DEF ProofOfQuotient
  <1>6. Blank(ProofOfOpenings) /\ Unasked(ProofOfOpenings)
    BY <1>5 DEF ProofOfOpenings
  <1>7. Blank(ProofOfFriBase) /\ Unasked(ProofOfFriBase)
    BY <1>6 DEF ProofOfFriBase
  <1>8. \A i : Unasked(ProofOfFolds(i))
    BY <1>7 DEF ProofOfFolds
  <1>9. \A p : Unasked(ProofOfMonomials(p))
    BY <1>8 DEF ProofOfMonomials
  <1>10. \A p : Unasked(ProofOfPow(p))
    BY <1>9 DEF ProofOfPow
  <1> QED
    BY <1>7, <1>10

(* The first oracle of FRI begins the trace of the folds, where the schedule is asserted. *)
LEMMA FriBaseProved ==
    ASSUME NEW n, NEW k, NEW m, NEW f, NEW q, Proving(n, k, m, f, q), ProveFriBase,
           config \in Configs, n = NumFolds, n \in Nat
    PROVE  \E f2 : Proving(n, 1, m, f2, q)'
  <1>1. prover.at = "fri_base" /\ config' = config
    BY DEF ProveFriBase, Prove
  <1>2. prover = AfterOpenings /\ proof = ProofOfOpenings
    BY <1>1 DEF Proving
  <1> DEFINE fits == /\ ScheduleAsserts(config)
                     /\ Folds(config) # <<>>
                     /\ TreeLog(config, 1) > config.cap
  <1>3. CASE ~fits
    <2>1. prover'.at = "panicked"
      BY <1>2, <1>3, StepsInOrder, Going DEF ProveFriBase, Prove
    <2> QED
      BY <2>1 DEF Proving
  <1>4. CASE fits
    <2>1. prover' = AfterFriBase
      BY <1>2, <1>4 DEF ProveFriBase, Prove, AfterFriBase
    <2>2. proof' = ProofOfFolds(1)
      <3>1. proof' = ProofOfFriBase
        BY <1>2, <1>4 DEF ProveFriBase, Prove, ProofOfFriBase
      <3>2. ProofOfFolds(1) = [ProofOfFriBase EXCEPT
                                  !.fri_intermediate_oracles_caps = << >>]
        BY DEF ProofOfFolds
      <3>3. ProofOfFriBase = [ProofOfFriBase EXCEPT !.fri_intermediate_oracles_caps = << >>]
        BY StillEmpty DEF ProofOfFriBase
      <3> QED
        BY <3>1, <3>2, <3>3
    <2>3. Scheduled
      <3>1. /\ config.rate \in Nat /\ config.cap \in Nat /\ config.domain \in Nat
            /\ config.domain + config.rate > config.cap
        BY ConfigAssumption
      <3> QED
        BY <1>4, <3>1 DEF Scheduled
    <2>4. n >= 1 /\ 1 \in 1 .. n
      <3>1. Folds(config) \in Seq(1 .. 3)
        BY ConfigAssumption, FoldsAddUp
      <3>2. n # 0
        BY <1>4, <3>1, EmptySeq DEF NumFolds
      <3> QED
        BY <3>2
    <2> DEFINE f2 == [i \in 1 .. 1 |-> AfterFriBase]
    <2>5. f2[1] = AfterFriBase
      OBVIOUS
    <2> HIDE DEF f2
    <2>6. PICK g : g = f2
      OBVIOUS
    <2>7. Folding(g, 1)
      BY <2>5, <2>6, StepsInOrder DEF Folding
    <2>8. Folding(g, 1)' /\ Scheduled'
      BY <1>1, <2>3, <2>7, StepsFixed, TraceFixed
    <2>9. prover'.at = "fri" /\ prover' = g[1] /\ proof' = ProofOfFolds(1)'
      BY <1>1, <2>1, <2>2, <2>5, <2>6, StepsInOrder, StepsFixed
    <2>10. Proving(n, 1, m, g, q)'
      BY <2>4, <2>8, <2>9 DEF Proving
    <2> QED
      BY <2>10
  <1> QED
    BY <1>3, <1>4

(* A fold extends the trace by the prover after it. *)
LEMMA FriFoldProved ==
    ASSUME NEW n, NEW k, NEW m, NEW f, NEW q, Proving(n, k, m, f, q), ProveFriFold,
           n = NumFolds, n \in Nat, k \in Nat
    PROVE  \E f2 : Proving(n, k + 1, m, f2, q)'
  <1>1. prover.at = "fri" /\ config' = config
    BY DEF ProveFriFold, Prove
  <1>2. Scheduled /\ k \in 1 .. n /\ Folding(f, k) /\ prover = f[k] /\ proof = ProofOfFolds(k)
    BY <1>1 DEF Proving
  <1>3. prover.folds = k /\ IsParty(f[k]) /\ f[k].at = "fri"
    BY <1>2 DEF Folding
  <1>4. k < n
    BY <1>3 DEF ProveFriFold, NumFolds
  <1> DEFINE cap == Cap("fri", k)
             next == AfterFold(f[k], k)
             f2 == [i \in 1 .. k + 1 |-> IF i = k + 1 THEN next ELSE f[i]]
  <1>5. prover' = next
    BY <1>2, <1>3 DEF ProveFriFold, Prove, AfterFold
  <1>6. IsParty(next) /\ next.at = "fri" /\ next.folds = k + 1
    BY <1>2, <1>3, FoldsInOrder
  <1>7. proof' = ProofOfFolds(k + 1)
    <2> DEFINE caps(i) == [j \in 1 .. i - 1 |-> Cap("fri", j)]
    <2>1. proof' = [proof EXCEPT !.fri_intermediate_oracles_caps = Append(@, cap)]
      BY <1>3 DEF ProveFriFold, Prove
    <2>2. proof = [ProofOfFriBase EXCEPT !.fri_intermediate_oracles_caps = caps(k)]
      BY <1>2 DEF ProofOfFolds
    <2>3. "fri_intermediate_oracles_caps" \in DOMAIN ProofOfFriBase
      BY StillEmpty
    <2>4. Append(caps(k), cap) = caps(k + 1)
      <3> DEFINE S == {Cap("fri", j) : j \in 1 .. k}
                 old == caps(k)
                 new == caps(k + 1)
      <3>1. k \in Nat /\ k - 1 \in Nat /\ (k + 1) - 1 = k /\ k \in 1 .. k
        BY <1>2
      <3>2. \A j \in 1 .. k : Cap("fri", j) \in S
        OBVIOUS
      <3>3. new \in [1 .. k -> S] /\ \A j \in 1 .. k : new[j] = Cap("fri", j)
        BY <3>1, <3>2
      <3>4. old \in [1 .. k - 1 -> S] /\ \A j \in 1 .. k - 1 : old[j] = Cap("fri", j)
        BY <3>1, <3>2
      <3>5. cap \in S
        BY <3>1, <3>2
      <3> HIDE DEF old, new, S
      <3>6. old \in Seq(S) /\ Len(old) = k - 1 /\ new \in Seq(S) /\ Len(new) = k
        BY <3>1, <3>3, <3>4
      <3>7. /\ Append(old, cap) \in Seq(S) /\ Len(Append(old, cap)) = (k - 1) + 1
            /\ \A j \in 1 .. k - 1 : Append(old, cap)[j] = old[j]
            /\ Append(old, cap)[(k - 1) + 1] = cap
        BY <3>5, <3>6, AppendProperties
      <3>8. (k - 1) + 1 = k /\ \A j \in 1 .. k : j = k \/ j \in 1 .. k - 1
        BY <3>1
      <3>9. \A j \in 1 .. k : Append(old, cap)[j] = new[j]
        BY <3>3, <3>4, <3>7, <3>8
      <3>10. Append(old, cap) = new
        BY <3>6, <3>7, <3>8, <3>9, SeqEqual
      <3> QED
        BY <3>10 DEF old, new
    <2> HIDE DEF caps, cap
    <2>5. proof' = [ProofOfFriBase EXCEPT !.fri_intermediate_oracles_caps = caps(k + 1)]
      BY <2>1, <2>2, <2>3, <2>4
    <2> QED
      BY <2>5 DEF ProofOfFolds, caps
  <1>8. f2[k + 1] = next /\ \A i \in 1 .. k : f2[i] = f[i]
    BY <1>2
  <1> HIDE DEF next, f2
  <1>9. PICK g : g = f2
    OBVIOUS
  <1>10. Folding(g, k + 1)
    <2> SUFFICES ASSUME NEW i \in 1 .. k + 1
                 PROVE  /\ IsParty(g[i]) /\ g[i].at = "fri" /\ g[i].folds = i
                        /\ g[i] = IF i = 1 THEN AfterFriBase ELSE AfterFold(g[i - 1], i - 1)
      BY DEF Folding
    <2>1. CASE i = k + 1
      <3>1. g[i] = next /\ i - 1 = k /\ k \in 1 .. k /\ i # 1
        BY <1>2, <1>8, <1>9, <2>1
      <3>2. g[i - 1] = f[k]
        BY <1>8, <1>9, <3>1
      <3> QED
        BY <1>6, <2>1, <3>1, <3>2 DEF next
    <2>2. CASE i # k + 1
      <3>1. i \in 1 .. k /\ (i # 1 => i - 1 \in 1 .. k)
        BY <1>2, <2>2
      <3>2. g[i] = f[i] /\ (i # 1 => g[i - 1] = f[i - 1])
        BY <1>8, <1>9, <3>1
      <3> QED
        BY <1>2, <3>1, <3>2 DEF Folding
    <2> QED
      BY <2>1, <2>2
  <1>11. Folding(g, k + 1)' /\ Scheduled'
    BY <1>1, <1>2, <1>10, StepsFixed, TraceFixed
  <1>12. prover'.at = "fri" /\ prover' = g[k + 1] /\ proof' = ProofOfFolds(k + 1)'
    BY <1>1, <1>5, <1>6, <1>7, <1>8, <1>9, StepsFixed
  <1>13. k + 1 \in 1 .. n
    BY <1>2, <1>4
  <1>14. Proving(n, k + 1, m, g, q)'
    BY <1>11, <1>12, <1>13 DEF Proving
  <1> QED
    BY <1>14

(* The monomials come after the last fold. *)
LEMMA MonomialsProved ==
    ASSUME NEW n, NEW k, NEW m, NEW f, NEW q, Proving(n, k, m, f, q), ProveMonomials,
           n = NumFolds, n \in Nat
    PROVE  Proving(n, k, m, f, q)'
  <1>1. prover.at = "fri" /\ config' = config
    BY DEF ProveMonomials, Prove
  <1>2. Scheduled /\ k \in 1 .. n /\ Folding(f, k) /\ prover = f[k] /\ proof = ProofOfFolds(k)
    BY <1>1 DEF Proving
  <1>3. prover.folds = k /\ IsParty(f[k])
    BY <1>2 DEF Folding
  <1>4. k = n
    BY <1>3 DEF ProveMonomials, NumFolds
  <1>5. prover' = AfterMonomials(f[n])
    BY <1>2, <1>4 DEF ProveMonomials, Prove, AfterMonomials, Monomials
  <1>6. proof' = ProofOfMonomials(f[n])
    <2>1. proof = ProofOfFolds(NumFolds)
      BY <1>2, <1>4
    <2> QED
      BY <1>2, <1>4, <2>1 DEF ProveMonomials, Prove, ProofOfMonomials, Monomials
  <1>7. prover'.at = "pow"
    BY <1>3, <1>4, <1>5, PowInOrder
  <1>8. prover' = AfterMonomials(f[n])' /\ proof' = ProofOfMonomials(f[n])'
    BY <1>1, <1>5, <1>6, StepsFixed
  <1>9. Folding(f, n)' /\ Scheduled'
    BY <1>1, <1>2, <1>4, StepsFixed, TraceFixed
  <1>10. n >= 1
    BY <1>2, <1>4
  <1> QED
    BY <1>7, <1>8, <1>9, <1>10 DEF Proving

(* The proof of work begins the trace of the queries. *)
LEMMA PowProved ==
    ASSUME NEW n, NEW k, NEW m, NEW f, NEW q, Proving(n, k, m, f, q), ProvePow, n \in Nat
    PROVE  \E q2 : Proving(n, k, 0, f, q2)'
  <1>1. prover.at = "pow" /\ config' = config
    BY DEF ProvePow, ProveSeeded, Prove
  <1>2. /\ Scheduled /\ n >= 1 /\ Folding(f, n)
        /\ prover = AfterMonomials(f[n]) /\ proof = ProofOfMonomials(f[n])
    BY <1>1 DEF Proving
  <1> DEFINE p == f[n]
             q2 == [i \in 0 .. 0 |-> AfterPow(p)]
  <1>3. IsParty(p)
    BY <1>2 DEF Folding
  <1> HIDE DEF p
  <1>4. prover' = AfterPow(p)
    BY <1>2 DEF ProvePow, ProveSeeded, Prove, AfterPow, Seeded, Nonce, p
  <1>5. proof' = ProofOfPow(p)
    BY <1>2 DEF ProvePow, ProveSeeded, Prove, ProofOfPow, Seeded, p
  <1>6. ProofOfPow(p) = [ProofOfPow(p) EXCEPT !.queries = << >>]
    BY StillEmpty DEF ProofOfPow, ProofOfMonomials
  <1>7. \A g : ProofOfQueries(p, g, 0) = ProofOfPow(p)
    <2>1. \A g : [i \in 1 .. 0 |-> QueryOf(g[i - 1])] = << >>
      OBVIOUS
    <2> QED
      BY <1>6, <2>1 DEF ProofOfQueries
  <1>8. IsParty(AfterPow(p)) /\ AfterPow(p).at = "queries"
    BY <1>3, PowInOrder
  <1>9. q2[0] = AfterPow(p)
    OBVIOUS
  <1> HIDE DEF q2
  <1>10. PICK g : g = q2
    OBVIOUS
  <1>11. Asking(g, p, 0)
    BY <1>8, <1>9, <1>10 DEF Asking
  <1>12. Asking(g, p, 0)' /\ Folding(f, n)' /\ Scheduled'
    BY <1>1, <1>2, <1>11, StepsFixed, TraceFixed DEF p
  <1>13. prover'.at = "queries" /\ prover' = g[0]
    BY <1>4, <1>8, <1>9, <1>10
  <1>14. proof' = ProofOfQueries(p, g, 0)'
    <2>1. ProofOfQueries(p, g, 0)' = ProofOfQueries(p, g, 0)
      BY <1>1, StepsFixed DEF p
    <2> QED
      BY <1>5, <1>7, <2>1
  <1>15. Proving(n, k, 0, f, g)'
    BY <1>2, <1>12, <1>13, <1>14 DEF Proving, p
  <1> QED
    BY <1>15

(* A query extends it. *)
LEMMA QueryProved ==
    ASSUME NEW n, NEW k, NEW m, NEW f, NEW q, Proving(n, k, m, f, q), ProveQuery, m \in Nat
    PROVE  \E q2 : Proving(n, k, m + 1, f, q2)'
  <1>1. prover.at = "queries" /\ config' = config
    BY DEF ProveQuery, ProveIndex, Prove
  <1>2. /\ Scheduled /\ n >= 1 /\ Folding(f, n) /\ Asking(q, f[n], m)
        /\ proof = ProofOfQueries(f[n], q, m) /\ prover = q[m]
    BY <1>1 DEF Proving
  <1> DEFINE p == f[n]
             next == Queried(q[m])
             q2 == [i \in 0 .. m + 1 |-> IF i = m + 1 THEN next ELSE q[i]]
  <1> HIDE DEF p
  <1>3. IsParty(q[m]) /\ q[m].at = "queries"
    <2>1. m \in 0 .. m
      OBVIOUS
    <2> QED
      BY <1>2, <2>1 DEF Asking
  <1>4. prover' = next
    BY <1>2 DEF ProveQuery, ProveIndex, Prove, Queried
  <1>5. IsParty(next) /\ next.at = "queries"
    BY <1>3, Querying DEF Follows
  <1>6. q2[m + 1] = next /\ \A i \in 0 .. m : q2[i] = q[i]
    OBVIOUS
  <1>7. proof' = ProofOfQueries(p, q2, m + 1)
    <2> DEFINE old == [i \in 1 .. m |-> QueryOf(q[i - 1])]
               new == [i \in 1 .. m + 1 |-> QueryOf(q2[i - 1])]
               S == {QueryOf(q[i]) : i \in 0 .. m}
    <2>1. proof' = [proof EXCEPT !.queries = Append(@, QueryOf(q[m]))]
      BY <1>2 DEF ProveQuery, ProveIndex, Prove, QueryOf, Queried
    <2>2. proof = [ProofOfPow(p) EXCEPT !.queries = old]
      BY <1>2 DEF ProofOfQueries, p
    <2>3. /\ \A i \in 1 .. m : i - 1 \in 0 .. m
          /\ \A i \in 1 .. m + 1 : i - 1 \in 0 .. m /\ q2[i - 1] = q[i - 1]
      BY <1>6
    <2>4. \A i \in 0 .. m : QueryOf(q[i]) \in S
      OBVIOUS
    <2> HIDE DEF q2, S
    <2>5. old \in [1 .. m -> S] /\ \A i \in 1 .. m : old[i] = QueryOf(q[i - 1])
      BY <2>3, <2>4
    <2>6. new \in [1 .. m + 1 -> S] /\ \A i \in 1 .. m + 1 : new[i] = QueryOf(q[i - 1])
      BY <2>3, <2>4
    <2>7. QueryOf(q[m]) \in S /\ (m + 1) - 1 = m /\ m + 1 \in 1 .. m + 1 /\ m + 1 \in Nat
      BY <2>4
    <2> HIDE DEF old, new
    <2>8. old \in Seq(S) /\ Len(old) = m /\ new \in Seq(S) /\ Len(new) = m + 1
      BY <2>5, <2>6, <2>7
    <2> DEFINE last == QueryOf(q[m])
    <2>9. new[m + 1] = last
      BY <2>6, <2>7
    <2>14. last \in S
      BY <2>7
    <2> HIDE DEF last
    <2>10. /\ Append(old, last) \in Seq(S) /\ Len(Append(old, last)) = m + 1
           /\ \A i \in 1 .. m : Append(old, last)[i] = old[i]
           /\ Append(old, last)[m + 1] = last
      BY <2>8, <2>14, AppendProperties
    <2>11. \A i \in 1 .. m + 1 : Append(old, last)[i] = new[i]
      <3>1. \A i \in 1 .. m + 1 : i = m + 1 \/ i \in 1 .. m
        OBVIOUS
      <3> QED
        BY <2>5, <2>6, <2>9, <2>10, <3>1
    <2>12. Append(old, last) = new
      BY <2>8, <2>10, <2>11, SeqEqual
    <2>13. proof' = [ProofOfPow(p) EXCEPT !.queries = new]
      BY <2>1, <2>2, <2>12, StillEmpty DEF last
    <2> QED
      BY <2>13 DEF ProofOfQueries, new
  <1> HIDE DEF next, q2
  <1>8. PICK g : g = q2
    OBVIOUS
  <1>9. Asking(g, p, m + 1)
    <2> SUFFICES ASSUME NEW i \in 0 .. m + 1
                 PROVE  /\ IsParty(g[i]) /\ g[i].at = "queries"
                        /\ g[i] = IF i = 0 THEN AfterPow(p) ELSE Queried(g[i - 1])
      BY DEF Asking
    <2>1. CASE i = m + 1
      <3>1. g[i] = next /\ i - 1 = m /\ m \in 0 .. m /\ i # 0
        BY <1>6, <1>8, <2>1
      <3>2. g[i - 1] = q[m]
        BY <1>6, <1>8, <3>1
      <3> QED
        BY <1>5, <3>1, <3>2 DEF next
    <2>2. CASE i # m + 1
      <3>1. i \in 0 .. m /\ (i # 0 => i - 1 \in 0 .. m)
        BY <2>2
      <3>2. g[i] = q[i] /\ (i # 0 => g[i - 1] = q[i - 1])
        BY <1>6, <1>8, <3>1
      <3> QED
        BY <1>2, <3>1, <3>2 DEF Asking, p
    <2> QED
      BY <2>1, <2>2
  <1>10. Asking(g, p, m + 1)' /\ Folding(f, n)' /\ Scheduled'
    BY <1>1, <1>2, <1>9, StepsFixed, TraceFixed DEF p
  <1>11. prover'.at = "queries" /\ prover' = g[m + 1]
    BY <1>4, <1>5, <1>6, <1>8
  <1>12. proof' = ProofOfQueries(p, g, m + 1)'
    <2>1. ProofOfQueries(p, g, m + 1)' = ProofOfQueries(p, g, m + 1)
      BY <1>1, StepsFixed DEF p
    <2> QED
      BY <1>7, <1>8, <2>1
  <1>13. Proving(n, k, m + 1, f, g)'
    BY <1>2, <1>10, <1>11, <1>12 DEF Proving, p
  <1> QED
    BY <1>13

(* The prover ends with as many queries as the schedule has. *)
LEMMA EndProved ==
    ASSUME NEW n, NEW k, NEW m, NEW f, NEW q, Proving(n, k, m, f, q), ProveEnd, m \in Nat
    PROVE  Proving(n, k, m, f, q)'
  <1>1. prover.at = "queries" /\ config' = config /\ proof' = proof
    BY DEF ProveEnd, Prove
  <1>2. /\ Scheduled /\ n >= 1 /\ Folding(f, n) /\ Asking(q, f[n], m)
        /\ proof = ProofOfQueries(f[n], q, m) /\ prover = q[m]
    BY <1>1 DEF Proving
  <1>3. IsParty(q[m])
    <2>1. m \in 0 .. m
      OBVIOUS
    <2> QED
      BY <1>2, <2>1 DEF Asking
  <1>4. prover'.at = "done"
    BY <1>2, <1>3, Going DEF ProveEnd, Prove
  <1>5. m = NumQueries(config)
    <2> DEFINE asked == [i \in 1 .. m |-> QueryOf(q[i - 1])]
    <2>1. proof.queries = asked
      BY <1>2, StillEmpty DEF ProofOfQueries
    <2>2. Len(asked) = m
      OBVIOUS
    <2>3. Len(proof.queries) = NumQueries(config)
      BY DEF ProveEnd
    <2> QED
      BY <2>1, <2>2, <2>3
  <1>6. Asking(q, f[n], m)' /\ Folding(f, n)' /\ Scheduled'
    BY <1>1, <1>2, StepsFixed, TraceFixed
  <1>7. proof' = ProofOfQueries(f[n], q, m)'
    BY <1>1, <1>2, StepsFixed
  <1>8. m = NumQueries(config)'
    BY <1>1, <1>5
  <1> QED
    BY <1>2, <1>4, <1>6, <1>7, <1>8 DEF Proving

(* What the prover does, it does while the verifiers have not started. *)
LEMMA ProverRetraced ==
    ASSUME NEW n, NEW k, NEW m, NEW f, NEW q, Retraced(n, k, m, f, q), ProverStep
    PROVE  StepsRetraced'
  <1>1. /\ config \in Configs /\ n = NumFolds /\ n \in Nat /\ k \in Nat /\ m \in Nat
        /\ Proving(n, k, m, f, q)
        /\ Verifying(verifier, n, m, f, q) /\ Verifying(recursive, n, m, f, q)
    BY DEF Retraced
  <1>2. \E k2, m2, f2, q2 : k2 \in Nat /\ m2 \in Nat /\ Proving(n, k2, m2, f2, q2)'
    <2>1. CASE ProveSetup \/ ProveWitness \/ ProveStage2 \/ ProveQuotient \/ ProveOpenings
      BY <1>1, <2>1, RoundsProved
    <2>2. CASE ProveFriBase
      <3>1. \E f2 : Proving(n, 1, m, f2, q)'
        BY <1>1, <2>2, FriBaseProved
      <3> QED
        BY <1>1, <3>1
    <2>3. CASE ProveFriFold
      <3>1. \E f2 : Proving(n, k + 1, m, f2, q)'
        BY <1>1, <2>3, FriFoldProved
      <3>2. k + 1 \in Nat
        BY <1>1
      <3> QED
        BY <1>1, <3>1, <3>2
    <2>4. CASE ProveMonomials
      BY <1>1, <2>4, MonomialsProved
    <2>5. CASE ProvePow
      <3>1. \E q2 : Proving(n, k, 0, f, q2)'
        BY <1>1, <2>5, PowProved
      <3> QED
        BY <1>1, <3>1
    <2>6. CASE ProveQuery
      <3>1. \E q2 : Proving(n, k, m + 1, f, q2)'
        BY <1>1, <2>6, QueryProved
      <3>2. m + 1 \in Nat
        BY <1>1
      <3> QED
        BY <1>1, <3>1, <3>2
    <2>7. CASE ProveEnd
      BY <1>1, <2>7, EndProved
    <2> QED
      BY <2>1, <2>2, <2>3, <2>4, <2>5, <2>6, <2>7 DEF ProverStep
  <1>3. PICK k2, m2, f2, q2 : k2 \in Nat /\ m2 \in Nat /\ Proving(n, k2, m2, f2, q2)'
    BY <1>2
  <1>4. /\ config' = config /\ prover.at # "done"
        /\ verifier' = verifier /\ recursive' = recursive
    BY DEF ProverStep, ProveSetup, ProveWitness, ProveStage2, ProveQuotient, ProveOpenings,
           ProveFriBase, ProveFriFold, ProveMonomials, ProvePow, ProveSeeded, ProveQuery,
           ProveIndex, ProveEnd, Prove
  <1>5. Verifying(verifier, n, m2, f2, q2)' /\ Verifying(recursive, n, m2, f2, q2)'
    BY <1>1, <1>4, BothStart
  <1>6. config' \in Configs /\ n = NumFolds'
    BY <1>1, <1>4, StepsFixed
  <1>7. Retraced(n, k2, m2, f2, q2)'
    BY <1>1, <1>3, <1>5, <1>6 DEF Retraced
  <1> QED
    BY <1>7 DEF StepsRetraced

-----------------------------------------------------------------------------
(* The verifiers *)

\* The configurations whose proof of work the schedule leaves as it is, and where there is a
\* circuit the cap of a tree has more than one element.
Accepting(c) == PowBits(c) = c.pow /\ (HasCircuit(c) => c.cap > 0)

\* What a verifier has before it: all steps of the prover, and the proof.
Made(n, m, f, q) ==
    /\ config \in Configs /\ n = NumFolds /\ n \in Nat /\ m \in Nat /\ n >= 1
    /\ Scheduled /\ m = NumQueries(config)
    /\ Folding(f, n) /\ Asking(q, f[n], m)
    /\ proof = ProofOfQueries(f[n], q, m)

\* A party that is one of them, or has accepted.
Met(w, n, m, f, q) ==
    \/ w = AfterSetup \/ w = AfterWitness \/ w = AfterStage2 \/ w = AfterQuotient
    \/ w = AfterOpenings
    \/ \E i \in 1 .. n : w = f[i]
    \/ w = AfterMonomials(f[n])
    \/ \E i \in 0 .. m : w = Checked(q[i], i)
    \/ w.at = "accepted" /\ w.valid

(* It is where the prover has been. *)
LEMMA MetRetraces ==
    ASSUME NEW n, NEW m, NEW f, NEW q, NEW w, Made(n, m, f, q), Met(w, n, m, f, q)
    PROVE  Retracing(w, n, m, f, q)
  <1>1. n \in Nat /\ n >= 1 /\ m \in Nat /\ Folding(f, n) /\ Asking(q, f[n], m)
    BY DEF Made
  <1>2. CASE \/ w = AfterSetup \/ w = AfterWitness \/ w = AfterStage2 \/ w = AfterQuotient
             \/ w = AfterOpenings
    BY <1>2, StepsInOrder DEF Retracing, IsParty
  <1>3. ASSUME NEW i \in 1 .. n, w = f[i] PROVE Retracing(w, n, m, f, q)
    <2>1. IsParty(w) /\ w.at = "fri" /\ w.folds = i
      BY <1>1, <1>3 DEF Folding
    <2> QED
      BY <1>3, <2>1 DEF Retracing, IsParty
  <1>4. CASE w = AfterMonomials(f[n])
    <2>1. n \in 1 .. n
      BY <1>1
    <2>2. IsParty(f[n])
      BY <1>1, <2>1 DEF Folding
    <2>3. IsParty(w) /\ w.at = "pow"
      BY <1>4, <2>2, PowInOrder
    <2> QED
      BY <1>4, <2>3 DEF Retracing, IsParty
  <1>5. ASSUME NEW i \in 0 .. m, w = Checked(q[i], i) PROVE Retracing(w, n, m, f, q)
    <2>1. IsParty(q[i]) /\ q[i].at = "queries"
      BY <1>1 DEF Asking
    <2>2. w.checked = i /\ w.at = "queries" /\ w.valid
      BY <1>5, <2>1, QueryingChecked
    <2> QED
      BY <1>5, <2>2 DEF Retracing
  <1>6. CASE w.at = "accepted" /\ w.valid
    BY <1>6 DEF Retracing
  <1> QED
    BY <1>2, <1>3, <1>4, <1>5, <1>6 DEF Met

(* Its proof is the whole one. *)
LEMMA MadeHolds ==
    ASSUME NEW n, NEW m, NEW f, NEW q, Made(n, m, f, q)
    PROVE  Holds(proof, f[n], q, m)
  <1>1. PICK parts : parts = proof
    OBVIOUS
  <1>2. Holds(parts, f[n], q, m)
    BY <1>1, ProofHolds DEF Made
  <1> QED
    BY <1>1, <1>2

\* What a verifier v finds in the proof at each of its steps.
SetupAgrees(v) ==
    /\ Len(proof.public_inputs) = config.inputs
    /\ Go(Witness(Witness(v, Cap("setup", 0)), proof.public_inputs), "witness") = AfterSetup

WitnessAgrees(v) ==
    /\ Len(proof.witness_oracle_cap) = CapLen
    /\ Go(DrawLookup(DrawTwo(Witness(v, proof.witness_oracle_cap), "beta", "gamma")), "stage_2")
       = AfterWitness

Stage2Agrees(v) ==
    /\ Len(proof.stage_2_oracle_cap) = CapLen
    /\ Go(Draw(Witness(v, proof.stage_2_oracle_cap), "alpha", 2), "quotient") = AfterStage2

QuotientAgrees(v) ==
    /\ Len(proof.quotient_oracle_cap) = CapLen
    /\ Go(Draw(Witness(v, proof.quotient_oracle_cap), "z", 2), "openings") = AfterQuotient

OpeningsAgree(v) ==
    LET values == proof.values_at_z \o proof.values_at_z_omega \o proof.values_at_0
    IN  /\ Len(proof.values_at_z) = 2 * NumAtZ
        /\ Len(proof.values_at_z_omega) = 2
        /\ Len(proof.values_at_0) = 2 * NumAt0
        /\ proof.opened_under = Seen(v)
        /\ Witness(Witness(Witness(v, proof.values_at_z), proof.values_at_z_omega),
                   proof.values_at_0) = Witness(v, values)
        /\ Go(Draw(Witness(v, values), "deep", 2), "fri_base") = AfterOpenings

FriBaseAgrees(v, f) ==
    /\ Len(proof.fri_base_oracle_cap) = CapLen
    /\ Len(proof.fri_intermediate_oracles_caps) = Len(Folds(config)) - 1
    /\ [Go(Draw(Witness(v, proof.fri_base_oracle_cap), "fri", 2), "fri") EXCEPT !.folds = 1]
       = f[1]

FoldAgrees(v, n, f) ==
    LET caps == proof.fri_intermediate_oracles_caps
    IN  /\ Len(caps[v.folds]) = CapLen
        /\ v.folds + 1 \in 1 .. n
        /\ [Draw(Witness(v, caps[v.folds]), "fri", 2) EXCEPT !.folds = @ + 1] = f[v.folds + 1]

MonomialsAgree(v, n, f) ==
    LET monomials == proof.final_fri_monomials
    IN  /\ \A i \in 1 .. 2 : Len(monomials[i]) = 2^DegreeLog(config, v.folds)
        /\ proof.folded_under = Seen(v)
        /\ Go(Witness(Witness(v, monomials[1]), monomials[2]), "pow") = AfterMonomials(f[n])

(* The steps up to the folds, which both verifiers take from the same parts of the proof. *)
LEMMA RoundsRetraced ==
    ASSUME NEW n, NEW m, NEW f, NEW q, NEW v, Made(n, m, f, q), Retracing(v, n, m, f, q)
    PROVE  /\ v.at = "setup" => SetupAgrees(v)
           /\ v.at = "witness" => WitnessAgrees(v)
           /\ v.at = "stage_2" => Stage2Agrees(v)
           /\ v.at = "quotient" => QuotientAgrees(v)
           /\ v.at = "openings" => OpeningsAgree(v)
           /\ v.at = "fri_base" => FriBaseAgrees(v, f)
  <1>1. config \in Configs /\ proof = ProofOfQueries(f[n], q, m)
    BY DEF Made
  <1>2. /\ proof.public_inputs = Inputs
        /\ proof.witness_oracle_cap = Cap("witness", 0)
        /\ proof.stage_2_oracle_cap = Cap("stage_2", 0)
        /\ proof.quotient_oracle_cap = Cap("quotient", 0)
        /\ proof.values_at_z = AtZ /\ proof.values_at_z_omega = AtZOmega
        /\ proof.values_at_0 = At0 /\ proof.opened_under = Seen(AfterQuotient)
        /\ proof.fri_base_oracle_cap = Cap("fri", 0)
    BY MadeHolds DEF Holds
  <1>3. /\ Len(Cap("witness", 0)) = CapLen /\ Len(Cap("stage_2", 0)) = CapLen
        /\ Len(Cap("quotient", 0)) = CapLen /\ Len(Cap("fri", 0)) = CapLen
    <2>1. \A name \in Names : Len(Cap(name, 0)) = CapLen
      BY <1>1, LengthsAre
    <2> QED
      BY <2>1 DEF Names
  <1>4. /\ Len(Inputs) = config.inputs /\ Len(AtZ) = 2 * NumAtZ /\ Len(AtZOmega) = 2
        /\ Len(At0) = 2 * NumAt0
    BY <1>1, LengthsAre
  <1>5. ASSUME v.at = "setup"
        PROVE  Go(Witness(Witness(v, Cap("setup", 0)), Inputs), "witness") = AfterSetup
    BY <1>5 DEF Retracing, AfterSetup
  <1>6. ASSUME v.at = "witness"
        PROVE  Go(DrawLookup(DrawTwo(Witness(v, Cap("witness", 0)), "beta", "gamma")),
                  "stage_2") = AfterWitness
    BY <1>6 DEF Retracing, AfterWitness
  <1>7. ASSUME v.at = "stage_2"
        PROVE  Go(Draw(Witness(v, Cap("stage_2", 0)), "alpha", 2), "quotient") = AfterStage2
    BY <1>7 DEF Retracing, AfterStage2
  <1>8. ASSUME v.at = "quotient"
        PROVE  Go(Draw(Witness(v, Cap("quotient", 0)), "z", 2), "openings") = AfterQuotient
    BY <1>8 DEF Retracing, AfterQuotient
  <1>9. ASSUME v.at = "openings"
        PROVE  /\ v = AfterQuotient
               /\ Witness(Witness(Witness(v, AtZ), AtZOmega), At0)
                  = Witness(v, AtZ \o AtZOmega \o At0)
               /\ Go(Draw(Witness(v, AtZ \o AtZOmega \o At0), "deep", 2), "fri_base")
                  = AfterOpenings
    <2>1. v = AfterQuotient
      BY <1>9 DEF Retracing
    <2> QED
      BY <1>1, <2>1, OpeningsTogether DEF AfterOpenings
  <1>10. ASSUME v.at = "fri_base"
         PROVE  [Go(Draw(Witness(v, Cap("fri", 0)), "fri", 2), "fri") EXCEPT !.folds = 1] = f[1]
    <2>1. v = AfterOpenings
      BY <1>10 DEF Retracing
    <2>2. f[1] = AfterFriBase
      <3>1. n \in Nat /\ n >= 1 /\ Folding(f, n)
        BY DEF Made
      <3>2. 1 \in 1 .. n
        BY <3>1
      <3> QED
        BY <3>1, <3>2 DEF Folding
    <2> QED
      BY <2>1, <2>2 DEF AfterFriBase
  <1>11. v.at = "setup" => SetupAgrees(v)
    BY <1>2, <1>4, <1>5 DEF SetupAgrees
  <1>12. v.at = "witness" => WitnessAgrees(v)
    BY <1>2, <1>3, <1>6 DEF WitnessAgrees
  <1>13. v.at = "stage_2" => Stage2Agrees(v)
    BY <1>2, <1>3, <1>7 DEF Stage2Agrees
  <1>14. v.at = "quotient" => QuotientAgrees(v)
    BY <1>2, <1>3, <1>8 DEF QuotientAgrees
  <1>15. ASSUME v.at = "openings" PROVE OpeningsAgree(v)
    BY <1>2, <1>4, <1>9, <1>15 DEF OpeningsAgree
  <1>16. Len(proof.fri_intermediate_oracles_caps) = Len(Folds(config)) - 1
    <2> DEFINE caps == proof.fri_intermediate_oracles_caps
    <2>1. caps = [i \in 1 .. NumFolds - 1 |-> Cap("fri", i)]
      BY MadeHolds DEF Holds
    <2>2. NumFolds \in Nat /\ NumFolds >= 1
      BY DEF Made
    <2> HIDE DEF caps
    <2>3. Len(caps) = NumFolds - 1
      BY <2>1, <2>2
    <2> QED
      BY <2>3 DEF caps, NumFolds
  <1>17. v.at = "fri_base" => FriBaseAgrees(v, f)
    BY <1>2, <1>3, <1>10, <1>16 DEF FriBaseAgrees
  <1> QED
    BY <1>11, <1>12, <1>13, <1>14, <1>15, <1>17

(* A fold, and the monomials after the last one. *)
LEMMA FoldsRetraced ==
    ASSUME NEW n, NEW m, NEW f, NEW q, NEW v, Made(n, m, f, q), Retracing(v, n, m, f, q),
           v.at = "fri"
    PROVE  /\ v.folds < NumFolds => FoldAgrees(v, n, f)
           /\ v.folds = NumFolds => MonomialsAgree(v, n, f)
  <1> DEFINE caps == proof.fri_intermediate_oracles_caps
             monomials == proof.final_fri_monomials
             i == v.folds
  <1>1. /\ config \in Configs /\ proof = ProofOfQueries(f[n], q, m)
        /\ n = NumFolds /\ n \in Nat /\ Folding(f, n)
    BY DEF Made
  <1>2. i \in 1 .. n /\ v = f[i]
    BY DEF Retracing
  <1>3. /\ caps = [j \in 1 .. n - 1 |-> Cap("fri", j)]
        /\ monomials = << Monomials(0), Monomials(1) >> /\ proof.folded_under = Seen(f[n])
    <2>1. Holds(proof, f[n], q, m)
      BY MadeHolds
    <2>2. /\ caps = [j \in 1 .. NumFolds - 1 |-> Cap("fri", j)]
          /\ monomials = << Monomials(0), Monomials(1) >> /\ proof.folded_under = Seen(f[n])
      BY <2>1 DEF Holds
    <2> HIDE DEF caps, monomials
    <2> QED
      BY <1>1, <2>2
  <1> HIDE DEF caps, monomials
  <1>4. ASSUME i < n
        PROVE  /\ Len(caps[i]) = CapLen /\ i + 1 \in 1 .. n
               /\ [Draw(Witness(v, caps[i]), "fri", 2) EXCEPT !.folds = @ + 1] = f[i + 1]
    <2>1. /\ i \in Nat /\ i \in 1 .. n - 1 /\ i + 1 \in 1 .. n /\ i + 1 # 1 /\ (i + 1) - 1 = i
          /\ n - 1 \in Nat
      BY <1>1, <1>2, <1>4
    <2>2. caps[i] = Cap("fri", i)
      BY <1>3, <2>1
    <2>4. Len(Cap("fri", i)) = CapLen
      <3>1. \A name \in Names, j \in Nat : Len(Cap(name, j)) = CapLen
        BY <1>1, LengthsAre
      <3>2. "fri" \in Names
        BY DEF Names
      <3> QED
        BY <2>1, <3>1, <3>2
    <2>5. f[i + 1] = AfterFold(f[i], i)
      BY <1>1, <2>1 DEF Folding
    <2> HIDE DEF i
    <2>6. [Draw(Witness(v, caps[i]), "fri", 2) EXCEPT !.folds = @ + 1] = AfterFold(v, i)
      BY <2>2 DEF AfterFold
    <2> QED
      BY <1>2, <2>1, <2>2, <2>4, <2>5, <2>6
  <1>5. ASSUME i = n
        PROVE  /\ \A j \in 1 .. 2 : Len(monomials[j]) = 2^DegreeLog(config, i)
               /\ proof.folded_under = Seen(v)
               /\ Go(Witness(Witness(v, monomials[1]), monomials[2]), "pow") = AfterMonomials(f[n])
    <2>1. monomials[1] = Monomials(0) /\ monomials[2] = Monomials(1)
      BY <1>3
    <2>2. DegreeLog(config, i) = FinalLog(config)
      BY <1>1, <1>5 DEF FinalLog, NumFolds
    <2>3. \A j \in 0 .. 1 : Len(Monomials(j)) = 2^FinalLog(config)
      BY <1>1, LengthsAre
    <2>4. Len(Monomials(0)) = 2^FinalLog(config) /\ Len(Monomials(1)) = 2^FinalLog(config)
      <3>1. 0 \in 0 .. 1 /\ 1 \in 0 .. 1
        OBVIOUS
      <3> QED
        BY <2>3, <3>1
    <2>5. \A j \in 1 .. 2 : j = 1 \/ j = 2
      OBVIOUS
    <2>6. \A j \in 1 .. 2 : Len(monomials[j]) = 2^FinalLog(config)
      <3> DEFINE size == 2^FinalLog(config)
      <3> HIDE DEF size
      <3> TAKE j \in 1 .. 2
      <3>1. Len(monomials[1]) = size /\ Len(monomials[2]) = size
        BY <2>1, <2>4 DEF size
      <3> QED
        BY <2>5, <3>1 DEF size
    <2>7. Go(Witness(Witness(v, monomials[1]), monomials[2]), "pow") = AfterMonomials(f[n])
      BY <1>2, <1>5, <2>1 DEF AfterMonomials
    <2>8. proof.folded_under = Seen(v)
      BY <1>2, <1>3, <1>5
    <2> QED
      BY <2>2, <2>6, <2>7, <2>8
  <1> QED
    BY <1>1, <1>4, <1>5 DEF caps, monomials, FoldAgrees, MonomialsAgree

PowAgrees(v, p) ==
    LET seeded == Draw(v, "pow", PowSeedWords)
    IN  /\ PowBits(config) = 0 => Go(v, "queries") = AfterPow(p)
        /\ PowBits(config) # 0 =>
             /\ \E nonce \in ToSet(proof.pow) :
                   nonce.seed = Seen(seeded) /\ nonce.bits >= config.pow
             /\ Go(Witness(seeded, Elements("nonce", 0, 2)), "queries") = AfterPow(p)

(* The proof of work, of which the verifiers ask as many bits as the prover has done. *)
LEMMA PowRetraced ==
    ASSUME NEW n, NEW m, NEW f, NEW q, NEW v, Made(n, m, f, q), Retracing(v, n, m, f, q),
           v.at = "pow", PowBits(config) = config.pow
    PROVE  PowAgrees(v, f[n])
  <1>1. v = AfterMonomials(f[n])
    BY DEF Retracing
  <1> DEFINE seeded == Draw(v, "pow", PowSeedWords)
             nonce == [seed |-> Seen(Seeded(f[n])), bits |-> PowBits(config)]
  <1>2. seeded = Seeded(f[n])
    BY <1>1 DEF Seeded
  <1>3. PowBits(config) = 0 => Go(v, "queries") = AfterPow(f[n])
    BY <1>1 DEF AfterPow
  <1>4. ASSUME PowBits(config) # 0
        PROVE  /\ \E x \in ToSet(proof.pow) : x.seed = Seen(seeded) /\ x.bits >= config.pow
               /\ Go(Witness(seeded, Elements("nonce", 0, 2)), "queries") = AfterPow(f[n])
    <2>1. nonce.seed = Seen(seeded) /\ nonce.bits = PowBits(config)
      BY <1>2
    <2>2. PowBits(config) >= config.pow
      <3>1. config.pow \in Nat
        BY ConfigAssumption DEF Made
      <3> QED
        BY <3>1
    <2>3. proof.pow = << nonce >>
      <3>1. Holds(proof, f[n], q, m)
        BY MadeHolds
      <3> QED
        BY <1>4, <3>1 DEF Holds
    <2> HIDE DEF nonce
    <2>4. nonce \in ToSet(proof.pow)
      BY <2>3 DEF ToSet
    <2>5. Go(Witness(seeded, Elements("nonce", 0, 2)), "queries") = AfterPow(f[n])
      BY <1>2, <1>4 DEF AfterPow, Nonce
    <2>6. nonce.bits >= config.pow
      BY <2>1, <2>2
    <2> HIDE DEF seeded
    <2> QED
      BY <2>1, <2>4, <2>5, <2>6
  <1> QED
    BY <1>3, <1>4 DEF PowAgrees

(* The first party that asks queries has checked none. *)
LEMMA AskingFirst ==
    ASSUME NEW n, NEW m, NEW f, NEW q, Made(n, m, f, q)
    PROVE  Met(AfterPow(f[n]), n, m, f, q)
  <1>1. m \in Nat /\ Asking(q, f[n], m)
    BY DEF Made
  <1>2. 0 \in 0 .. m
    BY <1>1
  <1>3. IsParty(q[0]) /\ q[0] = AfterPow(f[n])
    BY <1>1, <1>2 DEF Asking
  <1>4. q[0] = Checked(q[0], 0)
    BY <1>3 DEF Checked, IsParty, PartyFields
  <1> QED
    BY <1>2, <1>3, <1>4 DEF Met

\* The leaves of the next query are those of the index that v draws, under the paths that
\* either verifier asks for, and v has checked one query more.
QueryAgrees(v, n, m, f, q) ==
    LET drawn == DrawIndex(v)
        query == proof.queries[v.checked + 1]
        inner == Take(drawn.index, config.domain)
        coset == Drop(drawn.index, config.domain)
        Rest(i) == Drop(drawn.index, Shift(i))
        next == [drawn.party EXCEPT !.checked = @ + 1]
    IN  /\ Len(proof.queries) = NumQueries(config)
        /\ query.under = drawn.party.t.chain
        /\ Included(query.base, inner \o coset, BaseOracleDepth)
        /\ FriQueriesValid(query.fri, inner \o coset)
        /\ query.base.leaf = drawn.index
        /\ \A i \in 1 .. NumFolds :
             Take(Rest(i - 1), Folds(config)[i]) \o query.fri[i].leaf = Rest(i - 1)
        /\ config.cap > 0 =>
             /\ Path(query.base, drawn.index, BaseOracleDepth)
             /\ \A i \in 1 .. NumFolds : Path(query.fri[i], Rest(i), BaseOracleDepth - Shift(i))
        /\ Met(next, n, m, f, q)
        /\ next.valid = TRUE /\ next = [next EXCEPT !.valid = TRUE]

(* A query: both verifiers draw the prover's index for it and find its leaves. *)
LEMMA QueryRetraced ==
    ASSUME NEW n, NEW m, NEW f, NEW q, NEW v, Made(n, m, f, q), Retracing(v, n, m, f, q),
           v.at = "queries", v.checked < Len(proof.queries)
    PROVE  QueryAgrees(v, n, m, f, q)
  <1> DEFINE j == v.checked
             drawn == DrawIndex(v)
             query == proof.queries[j + 1]
             inner == Take(drawn.index, config.domain)
             coset == Drop(drawn.index, config.domain)
             Rest(i) == Drop(drawn.index, Shift(i))
             next == [drawn.party EXCEPT !.checked = @ + 1]
             asked == [i \in 1 .. m |-> QueryOf(q[i - 1])]
  <1>1. /\ m \in Nat /\ m = NumQueries(config) /\ Asking(q, f[n], m) /\ Scheduled
        /\ j \in 0 .. m /\ v = Checked(q[j], j)
    BY DEF Made, Retracing
  <1>2. proof.queries = asked
    <2>1. Holds(proof, f[n], q, m)
      BY MadeHolds
    <2> QED
      BY <2>1 DEF Holds
  <1>3. Len(asked) = m
    BY <1>1
  <1>4. Len(proof.queries) = m
    BY <1>2, <1>3
  <1>5. j \in Nat /\ j + 1 \in 1 .. m /\ (j + 1) - 1 = j /\ j + 1 \in 0 .. m /\ j + 1 # 0
    <2>1. j < m
      BY <1>4
    <2> HIDE DEF j
    <2> QED
      BY <1>1, <2>1
  <1>6. PICK p : p = q[j]
    OBVIOUS
  <1>7. IsParty(p) /\ p.at = "queries" /\ v = Checked(p, j)
    BY <1>1, <1>6 DEF Asking
  <1>8. query = QueryOf(p)
    <2> HIDE DEF j
    <2> QED
      BY <1>2, <1>5, <1>6
  <1>9. q[j + 1] = Queried(p) /\ IsParty(Queried(p))
    <2>1. q[j + 1] = Queried(q[(j + 1) - 1]) /\ IsParty(q[j + 1])
      <3> HIDE DEF j
      <3> QED
        BY <1>1, <1>5 DEF Asking
    <2> QED
      BY <1>5, <1>6, <2>1
  <1>10. PICK c : c = j
    OBVIOUS
  <1>11. v = Checked(p, c)
    BY <1>7, <1>10
  <1>12. /\ drawn.index = DrawIndex(p).index
         /\ drawn.party = Checked(Queried(p), c)
         /\ drawn.party.t = Queried(p).t
    BY <1>7, <1>11, QueryingChecked
  <1>13. PICK S : DrawIndex(p).index \in Seq(S) /\ Len(DrawIndex(p).index) = MaxNeededBits
    BY <1>1, IndexDrawn DEF Scheduled
  <1>14. PICK index : index = DrawIndex(p).index
    OBVIOUS
  <1>15. PICK under : under = Queried(p).t.chain
    OBVIOUS
  <1>16. index \in Seq(S) /\ Len(index) = MaxNeededBits
    BY <1>13, <1>14
  <1>17. QueryOf(p) = Query(Take(index, config.domain), Drop(index, config.domain), under)
    BY <1>14, <1>15 DEF QueryOf
  <1> DEFINE query2 == Query(Take(index, config.domain), Drop(index, config.domain), under)
             Rest2(i) == Drop(index, Shift(i))
  <1>18. /\ query2.under = under
         /\ Included(query2.base, Take(index, config.domain) \o Drop(index, config.domain),
                     BaseOracleDepth)
         /\ FriQueriesValid(query2.fri, Take(index, config.domain) \o Drop(index, config.domain))
         /\ query2.base.leaf = index
         /\ \A i \in 1 .. Len(Folds(config)) :
              Take(Rest2(i - 1), Folds(config)[i]) \o query2.fri[i].leaf = Rest2(i - 1)
         /\ config.cap > 0 =>
              /\ Path(query2.base, index, BaseOracleDepth)
              /\ \A i \in 1 .. Len(Folds(config)) :
                   Path(query2.fri[i], Rest2(i), BaseOracleDepth - Shift(i))
    BY <1>1, <1>16, QueriesFound
  <1>19. query = query2 /\ drawn.index = index /\ drawn.party.t.chain = under
    BY <1>8, <1>12, <1>14, <1>15, <1>17
  <1>20. Met(next, n, m, f, q) /\ next.valid = TRUE /\ next = [next EXCEPT !.valid = TRUE]
    <2>1. \A d : Checked(Checked(Queried(p), c), d) = Checked(Queried(p), d)
      BY <1>9, QueryingChecked
    <2>2. Checked(Queried(p), c).checked = c
      BY <1>9, QueryingChecked
    <2>3. next = Checked(Checked(Queried(p), c), c + 1)
      BY <1>12, <2>2 DEF Checked
    <2>4. next = Checked(q[j + 1], j + 1)
      BY <1>9, <1>10, <2>1, <2>3
    <2>5. next = Checked(Queried(p), c + 1)
      BY <2>1, <2>3
    <2> HIDE DEF next, j
    <2>6. Met(next, n, m, f, q)
      BY <1>5, <2>4 DEF Met
    <2>7. next.valid = TRUE /\ next = [next EXCEPT !.valid = TRUE]
      BY <1>9, <2>5 DEF Checked, IsParty, PartyFields
    <2> QED
      BY <2>6, <2>7
  <1>21. Len(proof.queries) = NumQueries(config)
    BY <1>1, <1>4
  <1> HIDE DEF query, query2, drawn, next
  <1> QED
    BY <1>18, <1>19, <1>20, <1>21 DEF NumFolds, query, drawn, next, QueryAgrees

(* When the prover is done the verifiers have all that before them. *)
LEMMA DoneIsMade ==
    ASSUME NEW n, NEW k, NEW m, NEW f, NEW q, Retraced(n, k, m, f, q), prover.at = "done"
    PROVE  /\ Made(n, m, f, q)
           /\ Retracing(verifier, n, m, f, q) /\ Retracing(recursive, n, m, f, q)
  BY DEF Retraced, Proving, Verifying, Made

(* A step of the verifier: no check ends it, and it is where the prover has been next. *)
LEMMA VerifierRetraced ==
    ASSUME NEW n, NEW k, NEW m, NEW f, NEW q, Retraced(n, k, m, f, q), VerifierStep,
           PowBits(config) = config.pow
    PROVE  Retraced(n, k, m, f, q)'
  <1>1. /\ prover.at = "done" /\ config' = config /\ proof' = proof /\ prover' = prover
        /\ recursive' = recursive
    BY DEF VerifierStep, VerifySetup, VerifyWitness, VerifyStage2, VerifyQuotient,
           VerifyOpenings, VerifyFriBase, VerifyFriFold, VerifyMonomials, VerifyPow,
           VerifySeeded, VerifyQuery, VerifyIndex, VerifyEnd, Verify
  <1>2. Made(n, m, f, q) /\ Retracing(verifier, n, m, f, q)
    BY <1>1, DoneIsMade
  <1>3. PICK v : v = verifier
    OBVIOUS
  <1>4. Retracing(v, n, m, f, q)
    BY <1>2, <1>3
  <1>5. PICK w : w = verifier'
    OBVIOUS
  <1>6. Met(w, n, m, f, q)
    <2>1. CASE VerifySetup
      <3>1. v.at = "setup"
        BY <1>3, <2>1 DEF VerifySetup, Verify
      <3>2. SetupAgrees(v)
        BY <1>2, <1>4, <3>1, RoundsRetraced
      <3>3. w = AfterSetup
        BY <1>3, <1>5, <2>1, <3>2 DEF VerifySetup, Verify, SetupAgrees
      <3> QED
        BY <3>3 DEF Met
    <2>2. CASE VerifyWitness
      <3>1. v.at = "witness"
        BY <1>3, <2>2 DEF VerifyWitness, Verify
      <3>2. WitnessAgrees(v)
        BY <1>2, <1>4, <3>1, RoundsRetraced
      <3>3. w = AfterWitness
        BY <1>3, <1>5, <2>2, <3>2 DEF VerifyWitness, Verify, IsCap, WitnessAgrees
      <3> QED
        BY <3>3 DEF Met
    <2>3. CASE VerifyStage2
      <3>1. v.at = "stage_2"
        BY <1>3, <2>3 DEF VerifyStage2, Verify
      <3>2. Stage2Agrees(v)
        BY <1>2, <1>4, <3>1, RoundsRetraced
      <3>3. w = AfterStage2
        BY <1>3, <1>5, <2>3, <3>2 DEF VerifyStage2, Verify, IsCap, Stage2Agrees
      <3> QED
        BY <3>3 DEF Met
    <2>4. CASE VerifyQuotient
      <3>1. v.at = "quotient"
        BY <1>3, <2>4 DEF VerifyQuotient, Verify
      <3>2. QuotientAgrees(v)
        BY <1>2, <1>4, <3>1, RoundsRetraced
      <3>3. w = AfterQuotient
        BY <1>3, <1>5, <2>4, <3>2 DEF VerifyQuotient, Verify, IsCap, QuotientAgrees
      <3> QED
        BY <3>3 DEF Met
    <2>5. CASE VerifyOpenings
      <3>1. v.at = "openings"
        BY <1>3, <2>5 DEF VerifyOpenings, Verify
      <3>2. OpeningsAgree(v)
        BY <1>2, <1>4, <3>1, RoundsRetraced
      <3>3. w = AfterOpenings
        BY <1>3, <1>5, <2>5, <3>2 DEF VerifyOpenings, Verify, OpeningsAgree
      <3> QED
        BY <3>3 DEF Met
    <2>6. CASE VerifyFriBase
      <3>1. v.at = "fri_base"
        BY <1>3, <2>6 DEF VerifyFriBase, Verify
      <3>2. FriBaseAgrees(v, f)
        BY <1>2, <1>4, <3>1, RoundsRetraced
      <3>3. w = f[1]
        BY <1>3, <1>5, <2>6, <3>2 DEF VerifyFriBase, Verify, IsCap, FriBaseAgrees
      <3>4. 1 \in 1 .. n
        BY <1>2 DEF Made
      <3> QED
        BY <3>3, <3>4 DEF Met
    <2>7. CASE VerifyFriFold
      <3>1. v.at = "fri" /\ v.folds < NumFolds
        BY <1>3, <2>7 DEF VerifyFriFold, Verify, NumFolds
      <3>2. FoldAgrees(v, n, f)
        BY <1>2, <1>4, <3>1, FoldsRetraced
      <3>3. w = f[v.folds + 1] /\ v.folds + 1 \in 1 .. n
        BY <1>3, <1>5, <2>7, <3>2 DEF VerifyFriFold, Verify, IsCap, NumFolds, FoldAgrees
      <3> QED
        BY <3>3 DEF Met
    <2>8. CASE VerifyMonomials
      <3>1. v.at = "fri" /\ v.folds = NumFolds
        BY <1>3, <2>8 DEF VerifyMonomials, Verify, NumFolds
      <3>2. MonomialsAgree(v, n, f)
        BY <1>2, <1>4, <3>1, FoldsRetraced
      <3>3. w = AfterMonomials(f[n])
        BY <1>3, <1>5, <2>8, <3>2 DEF VerifyMonomials, Verify, MonomialsAgree
      <3> QED
        BY <3>3 DEF Met
    <2>9. CASE VerifyPow
      <3>1. v.at = "pow"
        BY <1>3, <2>9 DEF VerifyPow, VerifySeeded, Verify
      <3>2. w = AfterPow(f[n])
        <4>1. PowAgrees(v, f[n])
          BY <1>2, <1>4, <3>1, PowRetraced
        <4>2. CASE PowBits(config) = 0
          BY <1>3, <1>5, <2>9, <4>1, <4>2 DEF VerifyPow, Verify, PowAgrees
        <4>3. CASE PowBits(config) # 0
          BY <1>3, <1>5, <2>9, <4>1, <4>3 DEF VerifyPow, VerifySeeded, Verify, PowAgrees
        <4> QED
          BY <4>2, <4>3
      <3> QED
        BY <1>2, <3>2, AskingFirst
    <2>10. CASE VerifyQuery
      <3>1. v.at = "queries" /\ v.checked < Len(proof.queries)
        BY <1>3, <2>10 DEF VerifyQuery, VerifyIndex, Verify
      <3> DEFINE next == [DrawIndex(v).party EXCEPT !.checked = @ + 1]
      <3>2. QueryAgrees(v, n, m, f, q)
        BY <1>2, <1>4, <3>1, QueryRetraced, ZenonT(40)
      <3>3. w = next
        BY <1>3, <1>5, <2>10, <3>2, ZenonT(40) DEF VerifyQuery, VerifyIndex, Verify, QueryAgrees
      <3>4. Met(next, n, m, f, q)
        BY <3>2 DEF QueryAgrees
      <3> HIDE DEF next
      <3> QED
        BY <3>3, <3>4
    <2>11. CASE VerifyEnd
      <3>1. v.at = "queries" /\ w = Go(v, "accepted")
        BY <1>3, <1>5, <2>11 DEF VerifyEnd, Verify
      <3>2. v = Checked(q[v.checked], v.checked) /\ v.checked \in 0 .. m
        BY <1>4, <3>1 DEF Retracing
      <3>3. IsParty(q[v.checked])
        BY <1>2, <3>2 DEF Made, Asking
      <3>4. w.at = "accepted" /\ w.valid
        <4>1. PICK j : j = v.checked
          OBVIOUS
        <4>2. PICK p : p = q[j]
          OBVIOUS
        <4>3. v = Checked(p, j) /\ IsParty(p)
          BY <3>2, <3>3, <4>1, <4>2
        <4> QED
          BY <3>1, <4>3 DEF Checked, Go, IsParty, PartyFields
      <3> QED
        BY <3>4 DEF Met
    <2> QED
      BY <2>1, <2>2, <2>3, <2>4, <2>5, <2>6, <2>7, <2>8, <2>9, <2>10, <2>11 DEF VerifierStep
  <1>7. Retracing(w, n, m, f, q)
    BY <1>2, <1>6, MetRetraces
  <1>8. Retracing(w, n, m, f, q)'
    BY <1>1, <1>7, RetracingFixed
  <1>9. Verifying(verifier, n, m, f, q)'
    BY <1>1, <1>5, <1>8 DEF Verifying, Retracing
  <1>10. Verifying(recursive, n, m, f, q)'
    BY <1>1, RecursiveFixed DEF Retraced
  <1>11. Proving(n, k, m, f, q)'
    BY <1>1, ProvingFixed DEF Retraced
  <1>12. config' \in Configs /\ n = NumFolds' /\ n \in Nat /\ k \in Nat /\ m \in Nat
    BY <1>1, StepsFixed DEF Retraced
  <1> QED
    BY <1>9, <1>10, <1>11, <1>12 DEF Retraced

\* A party that has failed no check, which the circuit notes again at every step.
Kept(w) == w.valid = TRUE /\ w = [w EXCEPT !.valid = TRUE]

LEMMA ValidKept ==
    ASSUME NEW w, Kept(w), NEW flag, flag
    PROVE  [w EXCEPT !.valid = @ /\ flag] = w
  <1>1. (w.valid /\ flag) = TRUE
    BY DEF Kept
  <1> QED
    BY <1>1 DEF Kept

LEMMA PartyKept ==
    ASSUME NEW w, IsParty(w)
    PROVE  Kept(w)
  BY DEF Kept, IsParty, PartyFields

(* The last place counts. *)
LEMMA GoingAgain ==
    ASSUME NEW p, NEW at1, NEW at2
    PROVE  Go(Go(p, at1), at2) = Go(p, at2)
  BY DEF Go

(* A step of the circuit: no assertion ends it, no flag is false, and it is where the prover
   has been next. *)
LEMMA RecursiveRetraced ==
    ASSUME NEW n, NEW k, NEW m, NEW f, NEW q, Retraced(n, k, m, f, q), RecursiveStep,
           Accepting(config)
    PROVE  Retraced(n, k, m, f, q)'
  <1>1. /\ prover.at = "done" /\ config' = config /\ proof' = proof /\ prover' = prover
        /\ verifier' = verifier /\ HasCircuit(config)
    BY DEF RecursiveStep, BuildSetup, BuildWitness, BuildStage2, BuildQuotient,
           BuildOpenings, BuildFriBase, BuildFriFold, BuildMonomials,
           BuildQuery, BuildIndex, BuildEnd, Build
  <1>2. Made(n, m, f, q) /\ Retracing(recursive, n, m, f, q)
    BY <1>1, DoneIsMade
  <1>3. PICK v : v = recursive
    OBVIOUS
  <1>4. Retracing(v, n, m, f, q)
    BY <1>2, <1>3
  <1>5. PICK w : w = recursive'
    OBVIOUS
  <1>6. config.cap > 0 /\ PowBits(config) = config.pow /\ PowBits(config) = 0
    BY <1>1 DEF Accepting, HasCircuit
  <1>7. Met(w, n, m, f, q)
    <2>1. CASE BuildSetup
      <3>1. v.at = "setup"
        BY <1>3, <2>1 DEF BuildSetup, Build
      <3>2. SetupAgrees(v)
        BY <1>2, <1>4, <3>1, RoundsRetraced
      <3>3. \E flag : flag /\ w = [AfterSetup EXCEPT !.valid = @ /\ flag]
        BY <1>3, <1>5, <2>1, <3>2 DEF BuildSetup, Build, SetupAgrees
      <3>4. w = AfterSetup
        BY <3>3, ValidKept, PartyKept, StepsInOrder
      <3> QED
        BY <3>4 DEF Met
    <2>2. CASE BuildWitness
      <3>1. v.at = "witness"
        BY <1>3, <2>2 DEF BuildWitness, Build
      <3>2. WitnessAgrees(v)
        BY <1>2, <1>4, <3>1, RoundsRetraced
      <3>3. \E flag : flag /\ w = [AfterWitness EXCEPT !.valid = @ /\ flag]
        BY <1>3, <1>5, <2>2, <3>2 DEF BuildWitness, Build, AssertCap, WitnessAgrees
      <3>4. w = AfterWitness
        BY <3>3, ValidKept, PartyKept, StepsInOrder
      <3> QED
        BY <3>4 DEF Met
    <2>3. CASE BuildStage2
      <3>1. v.at = "stage_2"
        BY <1>3, <2>3 DEF BuildStage2, Build
      <3>2. Stage2Agrees(v)
        BY <1>2, <1>4, <3>1, RoundsRetraced
      <3>3. \E flag : flag /\ w = [AfterStage2 EXCEPT !.valid = @ /\ flag]
        BY <1>3, <1>5, <2>3, <3>2 DEF BuildStage2, Build, AssertCap, Stage2Agrees
      <3>4. w = AfterStage2
        BY <3>3, ValidKept, PartyKept, StepsInOrder
      <3> QED
        BY <3>4 DEF Met
    <2>4. CASE BuildQuotient
      <3>1. v.at = "quotient"
        BY <1>3, <2>4 DEF BuildQuotient, Build
      <3>2. QuotientAgrees(v)
        BY <1>2, <1>4, <3>1, RoundsRetraced
      <3>3. \E flag : flag /\ w = [AfterQuotient EXCEPT !.valid = @ /\ flag]
        BY <1>3, <1>5, <2>4, <3>2 DEF BuildQuotient, Build, AssertCap, QuotientAgrees
      <3>4. w = AfterQuotient
        BY <3>3, ValidKept, PartyKept, StepsInOrder
      <3> QED
        BY <3>4 DEF Met
    <2>5. CASE BuildOpenings
      <3>1. v.at = "openings"
        BY <1>3, <2>5 DEF BuildOpenings, Build
      <3>2. OpeningsAgree(v)
        BY <1>2, <1>4, <3>1, RoundsRetraced
      <3>3. \E flag : flag /\ w = [AfterOpenings EXCEPT !.valid = @ /\ flag]
        BY <1>3, <1>5, <2>5, <3>2 DEF BuildOpenings, Build, OpeningsAgree
      <3>4. w = AfterOpenings
        BY <3>3, ValidKept, PartyKept, StepsInOrder
      <3> QED
        BY <3>4 DEF Met
    <2>6. CASE BuildFriBase
      <3>1. v.at = "fri_base"
        BY <1>3, <2>6 DEF BuildFriBase, Build
      <3>2. FriBaseAgrees(v, f)
        BY <1>2, <1>4, <3>1, RoundsRetraced
      <3>3. \E flag : flag /\ w = [f[1] EXCEPT !.valid = @ /\ flag]
        BY <1>3, <1>5, <1>6, <2>6, <3>2, ZenonT(40) DEF BuildFriBase, Build, AssertCap, FriBaseAgrees
      <3>4. 1 \in 1 .. n /\ IsParty(f[1])
        BY <1>2 DEF Made, Folding
      <3>5. w = f[1]
        BY <3>3, <3>4, ValidKept, PartyKept
      <3> QED
        BY <3>4, <3>5 DEF Met
    <2>7. CASE BuildFriFold
      <3>1. v.at = "fri" /\ v.folds < NumFolds
        BY <1>3, <2>7 DEF BuildFriFold, Build, NumFolds
      <3>2. FoldAgrees(v, n, f)
        BY <1>2, <1>4, <3>1, FoldsRetraced
      <3>3. \E flag : flag /\ w = [f[v.folds + 1] EXCEPT !.valid = @ /\ flag]
        BY <1>3, <1>5, <2>7, <3>2, ZenonT(40) DEF BuildFriFold, Build, AssertCap, NumFolds, FoldAgrees
      <3>4. v.folds + 1 \in 1 .. n
        BY <3>2 DEF FoldAgrees
      <3>5. IsParty(f[v.folds + 1])
        BY <1>2, <3>4 DEF Made, Folding
      <3>6. w = f[v.folds + 1]
        BY <3>3, <3>5, ValidKept, PartyKept
      <3> QED
        BY <3>4, <3>6 DEF Met
    <2>8. CASE BuildMonomials
      <3>1. v.at = "fri" /\ v.folds = NumFolds
        BY <1>3, <2>8 DEF BuildMonomials, Build, NumFolds
      <3>2. MonomialsAgree(v, n, f)
        BY <1>2, <1>4, <3>1, FoldsRetraced
      <3>3. PICK asked :
               /\ asked = Witness(Witness(v, proof.final_fri_monomials[1]),
                                  proof.final_fri_monomials[2])
               /\ \E flag : flag /\ w = [Go(asked, "queries") EXCEPT !.valid = @ /\ flag]
        BY <1>3, <1>5, <2>8, <3>2 DEF BuildMonomials, Build, MonomialsAgree
      <3>4. Go(asked, "pow") = AfterMonomials(f[n])
        BY <3>2, <3>3 DEF MonomialsAgree
      <3>5. Go(asked, "queries") = AfterPow(f[n])
        <4>1. Go(asked, "queries") = Go(Go(asked, "pow"), "queries")
          BY GoingAgain
        <4> QED
          BY <1>6, <3>4, <4>1 DEF AfterPow
      <3>6. IsParty(AfterPow(f[n]))
        <4>1. n \in 1 .. n /\ Folding(f, n)
          BY <1>2 DEF Made
        <4>2. IsParty(f[n])
          BY <4>1 DEF Folding
        <4> QED
          BY <4>2, PowInOrder
      <3>7. w = AfterPow(f[n])
        BY <3>3, <3>5, <3>6, ValidKept, PartyKept
      <3> QED
        BY <1>2, <3>7, AskingFirst
    <2>9. CASE BuildQuery
      <3>1. v.at = "queries" /\ v.checked < Len(proof.queries)
        BY <1>3, <2>9 DEF BuildQuery, BuildIndex, Build
      <3> DEFINE query == proof.queries[v.checked + 1]
                 Rest(i) == Drop(DrawIndex(v).index, Shift(i))
                 next == [DrawIndex(v).party EXCEPT !.checked = @ + 1]
                 asserted ==
                     /\ Len(proof.queries) = NumQueries(config)
                     /\ Path(query.base, DrawIndex(v).index, BaseOracleDepth)
                     /\ \A i \in 1 .. Len(Folds(config)) :
                           Path(query.fri[i], Rest(i), BaseOracleDepth - Shift(i))
                 flag ==
                     /\ query.under = DrawIndex(v).party.t.chain
                     /\ query.base.leaf = DrawIndex(v).index
                     /\ \A i \in 1 .. Len(Folds(config)) :
                           Take(Rest(i - 1), Folds(config)[i]) \o query.fri[i].leaf = Rest(i - 1)
      <3>2. QueryAgrees(v, n, m, f, q)
        BY <1>2, <1>4, <3>1, QueryRetraced, ZenonT(40)
      <3>3. w = IF asserted THEN [next EXCEPT !.valid = @ /\ flag] ELSE Go(v, "panicked")
        BY <1>3, <1>5, <2>9, ZenonT(40) DEF BuildQuery, BuildIndex, Build
      <3>4. asserted /\ flag
        BY <1>6, <3>2, ZenonT(40) DEF QueryAgrees, NumFolds
      <3>5. Met(next, n, m, f, q) /\ Kept(next)
        BY <3>2 DEF QueryAgrees, Kept
      <3> HIDE DEF next, asserted, flag
      <3>6. w = next
        BY <3>3, <3>4, <3>5, ValidKept
      <3> QED
        BY <3>5, <3>6, ZenonT(40)
    <2>10. CASE BuildEnd
      <3>1. v.at = "queries"
        BY <1>3, <2>10 DEF BuildEnd, Build
      <3>2. v.checked \in 0 .. m /\ v = Checked(q[v.checked], v.checked)
        BY <1>4, <3>1 DEF Retracing
      <3>3. IsParty(q[v.checked])
        BY <1>2, <3>2 DEF Made, Asking
      <3>4. PICK j : j = v.checked
        OBVIOUS
      <3>5. PICK p : p = q[j]
        OBVIOUS
      <3>6. v = Checked(p, j) /\ IsParty(p)
        BY <3>2, <3>3, <3>4, <3>5
      <3>7. v.valid = TRUE
        BY <3>6 DEF Checked, IsParty, PartyFields
      <3>8. w = [Go(v, "accepted") EXCEPT !.valid = @ /\ TRUE]
        BY <1>3, <1>5, <2>10, <3>7 DEF BuildEnd, Build
      <3>9. w.at = "accepted" /\ w.valid
        BY <3>6, <3>8 DEF Checked, Go, IsParty, PartyFields
      <3> QED
        BY <3>9 DEF Met
    <2> QED
      BY <2>1, <2>2, <2>3, <2>4, <2>5, <2>6, <2>7, <2>8, <2>9, <2>10 DEF RecursiveStep
  <1>8. Retracing(w, n, m, f, q)
    BY <1>2, <1>7, MetRetraces
  <1>9. Retracing(w, n, m, f, q)'
    BY <1>1, <1>8, RetracingFixed
  <1>10. Verifying(recursive, n, m, f, q)'
    BY <1>1, <1>5, <1>9 DEF Verifying, Retracing
  <1>11. Verifying(verifier, n, m, f, q)'
    BY <1>1, VerifierFixed DEF Retraced
  <1>12. Proving(n, k, m, f, q)'
    BY <1>1, ProvingFixed DEF Retraced
  <1>13. config' \in Configs /\ n = NumFolds' /\ n \in Nat /\ k \in Nat /\ m \in Nat
    BY <1>1, StepsFixed DEF Retraced
  <1> QED
    BY <1>10, <1>11, <1>12, <1>13 DEF Retraced

(* Where the prover's steps determine what the verifiers see, none of them rejects. *)
LEMMA RetracedAccepted ==
    ASSUME StepsRetraced
    PROVE  HonestProofAccepted
  <1>1. PICK n, k, m, f, q : Retraced(n, k, m, f, q)
    BY DEF StepsRetraced
  <1>2. NewParty(config.kind).at = "setup" /\ NewParty(config.kind).valid
    BY StepsInOrder DEF IsParty
  <1>3. ASSUME NEW v, Verifying(v, n, m, f, q)
        PROVE  v.at \notin {"rejected", "panicked"} /\ v.valid
    BY <1>2, <1>3 DEF Verifying, Retracing
  <1> QED
    BY <1>1, <1>3 DEF Retraced, HonestProofAccepted

(* The verifier and its circuit accept every proof that the prover hands out: they are always
   where the prover has been, with the challenges, the schedule, the proof of work and the
   indices that it had there.  Not so where the schedule lowers the bits of work, which the
   verifiers refuse, nor where the circuit meets a tree whose cap is its root. *)
THEOREM ProofAccepted ==
    ASSUME \A c \in Configs : Accepting(c)
    PROVE  Spec => []HonestProofAccepted
  <1>1. Init => StepsRetraced
    BY InitRetraced
  <1>2. ASSUME StepsRetraced, [Next]_vars
        PROVE  StepsRetraced'
    <2>1. PICK n, k, m, f, q : Retraced(n, k, m, f, q)
      BY <1>2 DEF StepsRetraced
    <2>2. Accepting(config)
      BY <2>1 DEF Retraced
    <2>3. CASE ProverStep
      BY <2>1, <2>3, ProverRetraced
    <2>4. CASE VerifierStep
      <3>1. Retraced(n, k, m, f, q)'
        BY <2>1, <2>2, <2>4, VerifierRetraced DEF Accepting
      <3> QED
        BY <3>1 DEF StepsRetraced
    <2>5. CASE RecursiveStep
      <3>1. Retraced(n, k, m, f, q)'
        BY <2>1, <2>2, <2>5, RecursiveRetraced
      <3> QED
        BY <3>1 DEF StepsRetraced
    <2>6. CASE UNCHANGED vars
      <3>1. /\ config' = config /\ proof' = proof /\ prover' = prover
            /\ verifier' = verifier /\ recursive' = recursive
        BY <2>6 DEF vars
      <3>2. Proving(n, k, m, f, q)'
        BY <2>1, <3>1, ProvingFixed DEF Retraced
      <3>3. Verifying(verifier, n, m, f, q)' /\ Verifying(recursive, n, m, f, q)'
        BY <2>1, <3>1, VerifierFixed, RecursiveFixed DEF Retraced
      <3>4. config' \in Configs /\ n = NumFolds' /\ n \in Nat /\ k \in Nat /\ m \in Nat
        BY <2>1, <3>1, StepsFixed DEF Retraced
      <3>5. Retraced(n, k, m, f, q)'
        BY <3>2, <3>3, <3>4 DEF Retraced
      <3> QED
        BY <3>5 DEF StepsRetraced
    <2> QED
      BY <1>2, <2>3, <2>4, <2>5, <2>6 DEF Next, Finished
  <1> QED
    BY <1>1, <1>2, RetracedAccepted, PTL DEF Spec

-----------------------------------------------------------------------------
(* Lists of lists *)

\* What the first lists of seqs make together.
Joins(seqs, S, g) ==
    /\ g \in [0 .. Len(seqs) -> Seq(S)]
    /\ g[0] = << >>
    /\ \A i \in 1 .. Len(seqs) : g[i] = g[i - 1] \o seqs[i]

(* There is such a function: a least number of lists without it would have it. *)
LEMMA JoinsExist ==
    ASSUME NEW S, NEW seqs \in Seq(Seq(S))
    PROVE  \E g : Joins(seqs, S, g)
  <1> DEFINE len == Len(seqs)
             Upto(n, g) == /\ g \in [0 .. n -> Seq(S)] /\ g[0] = << >>
                           /\ \A i \in 1 .. n : g[i] = g[i - 1] \o seqs[i]
             T == {n \in 0 .. len : ~ \E g : Upto(n, g)}
  <1>1. len \in Nat /\ \A i \in 1 .. len : seqs[i] \in Seq(S)
    BY LenProperties, ElementOfSeq
  <1> HIDE DEF len
  <1>2. ASSUME T # {} PROVE FALSE
    <2>1. PICK n \in T : \A k \in T : n <= k
      <3> HIDE DEF Upto
      <3>1. T \subseteq Nat
        BY <1>1
      <3> HIDE DEF T
      <3> QED
        BY <1>2, <3>1, LeastNatural
    <2>2. n \in 0 .. len /\ n \in Nat /\ ~ \E g : Upto(n, g)
      <3> HIDE DEF Upto
      <3> QED
        BY <1>1
    <2>3. CASE n = 0
      <3> DEFINE h == [i \in 0 .. 0 |-> << >>]
      <3>1. h \in [0 .. 0 -> Seq(S)] /\ h[0] = << >> /\ 1 .. 0 = {}
        BY EmptySeq
      <3>2. Upto(0, h)
        BY <3>1
      <3> HIDE DEF Upto
      <3> QED
        BY <2>2, <2>3, <3>2
    <2>4. CASE n # 0
      <3>1. n - 1 \in Nat /\ n - 1 \in 0 .. len /\ n \in 1 .. len /\ ~ (n <= n - 1)
        BY <1>1, <2>2, <2>4
      <3>2. PICK g : Upto(n - 1, g)
        BY <2>1, <3>1
      <3> DEFINE h == [i \in 0 .. n |-> IF i = n THEN g[n - 1] \o seqs[n] ELSE g[i]]
      <3>3. g[n - 1] \in Seq(S) /\ seqs[n] \in Seq(S)
        BY <1>1, <3>1, <3>2
      <3>4. \A i \in 0 .. n : i # n => i \in 0 .. n - 1
        BY <2>2
      <3>5. g[n - 1] \o seqs[n] \in Seq(S)
        BY <3>3, ConcatProperties
      <3>6. h \in [0 .. n -> Seq(S)]
        BY <3>2, <3>4, <3>5
      <3>7. n \in 0 .. n /\ n - 1 \in 0 .. n /\ 0 \in 0 .. n /\ n - 1 # n /\ 0 # n
        BY <2>2, <2>4, <3>1
      <3>8. h[n] = g[n - 1] \o seqs[n] /\ \A i \in 0 .. n - 1 : h[i] = g[i]
        <4>1. \A i \in 0 .. n - 1 : i \in 0 .. n /\ i # n
          BY <2>2
        <4> QED
          BY <3>7, <4>1
      <3>9. \A i \in 1 .. n :
               i = n \/ (i \in 1 .. n - 1 /\ i - 1 \in 0 .. n - 1 /\ i \in 0 .. n - 1)
        BY <2>2
      <3>10. 0 \in 0 .. n - 1 /\ n - 1 \in 0 .. n - 1
        BY <3>1
      <3> HIDE DEF h
      <3>11. \A i \in 1 .. n : h[i] = h[i - 1] \o seqs[i]
        BY <3>2, <3>8, <3>9, <3>10
      <3>12. Upto(n, h)
        BY <3>2, <3>6, <3>8, <3>10, <3>11
      <3> HIDE DEF Upto
      <3> QED
        BY <2>2, <3>12
    <2> QED
      BY <2>3, <2>4
  <1>3. \E g : Upto(len, g)
    <2>1. len \in 0 .. len
      BY <1>1
    <2> HIDE DEF Upto
    <2> QED
      BY <1>2, <2>1
  <1> QED
    BY <1>3 DEF Joins, len

(* It is the function that FlattenSeq computes with. *)
LEMMA FlattenJoins ==
    ASSUME NEW S, NEW seqs \in Seq(Seq(S)), NEW g, Joins(seqs, S, g)
    PROVE  FlattenSeq(seqs) = g[Len(seqs)] /\ FlattenSeq(seqs) \in Seq(S)
  <1> DEFINE len == Len(seqs)
             Flat(f) == f = [i \in 1 .. len |-> IF i = 1 THEN seqs[i] ELSE f[i - 1] \o seqs[i]]
             h == [i \in 1 .. len |-> g[i]]
  <1>1. /\ len \in Nat /\ \A i \in 1 .. len : seqs[i] \in Seq(S)
        /\ len = 0 => seqs = << >>
    BY LenProperties, ElementOfSeq, EmptySeq
  <1>2. /\ g \in [0 .. len -> Seq(S)] /\ g[0] = << >>
        /\ \A i \in 1 .. len : g[i] = g[i - 1] \o seqs[i]
    BY DEF Joins
  <1>3. CASE len = 0
    <2>1. FlattenSeq(seqs) = seqs
      BY <1>3 DEF FlattenSeq
    <2>2. << >> \in Seq(S)
      BY EmptySeq
    <2> QED
      BY <1>1, <1>2, <1>3, <2>1, <2>2
  <1>4. CASE len # 0
    <2>1. \A i \in 1 .. len : /\ i # 1 => i - 1 \in 1 .. len
                              /\ i = 1 => i - 1 = 0
                              /\ i - 1 \in 0 .. len /\ i \in 0 .. len
      BY <1>1
    <2>2. \A i \in 1 .. len : i = 1 => g[i] = seqs[i]
      <3>1. \A s \in Seq(S) : << >> \o s = s
        BY ConcatEmptySeq
      <3> HIDE DEF len
      <3> QED
        BY ZenonT(40), <1>1, <1>2, <2>1, <3>1
    <2>3. Flat(h)
      <3> HIDE DEF len
      <3> QED
        BY <1>2, <2>1, <2>2
    <2>4. PICK f : Flat(f) /\ FlattenSeq(seqs) = f[len]
      <3> HIDE DEF h
      <3> QED
        BY <1>4, <2>3 DEF FlattenSeq
    <2>5. \A i \in 1 .. len : f[i] = IF i = 1 THEN seqs[i] ELSE f[i - 1] \o seqs[i]
      BY <2>4
    <2> DEFINE T == {i \in 1 .. len : f[i] # g[i]}
    <2>6. ASSUME T # {} PROVE FALSE
      <3>1. PICK i \in T : \A k \in T : i <= k
        <4>1. T \subseteq Nat
          BY <1>1
        <4> HIDE DEF T
        <4> QED
          BY <2>6, <4>1, LeastNatural
      <3>2. i \in 1 .. len /\ i \in Nat /\ f[i] # g[i]
        BY <1>1
      <3>3. i # 1
        BY <2>2, <2>5, <3>2
      <3>4. i - 1 \in 1 .. len /\ ~ (i <= i - 1)
        BY <2>1, <3>2, <3>3
      <3>5. f[i - 1] = g[i - 1]
        BY <3>1, <3>4
      <3> HIDE DEF len
      <3> QED
        BY <1>2, <2>5, <3>2, <3>3, <3>5
    <2>7. len \in 1 .. len /\ len \in 0 .. len
      BY <1>1, <1>4
    <2>8. f[len] = g[len]
      BY <2>6, <2>7
    <2>9. g[len] \in Seq(S)
      BY <1>2, <2>7
    <2> QED
      BY <2>4, <2>8, <2>9
  <1> QED
    BY <1>3, <1>4

(* Lists of lists together are what each of them makes, together. *)
LEMMA FlattenTogether ==
    ASSUME NEW S, NEW a \in Seq(Seq(S)), NEW b \in Seq(Seq(S))
    PROVE  /\ FlattenSeq(a) \in Seq(S) /\ FlattenSeq(b) \in Seq(S)
           /\ FlattenSeq(a \o b) = FlattenSeq(a) \o FlattenSeq(b)
  <1> DEFINE m == Len(a)
             n == Len(b)
             ab == a \o b
  <1>1. PICK g : Joins(a, S, g)
    BY JoinsExist
  <1>2. PICK h : Joins(b, S, h)
    BY JoinsExist
  <1>3. /\ FlattenSeq(a) = g[m] /\ FlattenSeq(a) \in Seq(S)
        /\ FlattenSeq(b) = h[n] /\ FlattenSeq(b) \in Seq(S)
    BY <1>1, <1>2, FlattenJoins
  <1>4. m \in Nat /\ n \in Nat
    BY LenProperties
  <1>5. /\ ab \in Seq(Seq(S)) /\ Len(ab) = m + n
        /\ \A i \in 1 .. m + n : ab[i] = IF i <= m THEN a[i] ELSE b[i - m]
    BY ConcatProperties
  <1>6. /\ g \in [0 .. m -> Seq(S)] /\ g[0] = << >> /\ \A i \in 1 .. m : g[i] = g[i - 1] \o a[i]
        /\ h \in [0 .. n -> Seq(S)] /\ h[0] = << >> /\ \A i \in 1 .. n : h[i] = h[i - 1] \o b[i]
    BY <1>1, <1>2 DEF Joins
  <1>7. \A i \in 1 .. n : b[i] \in Seq(S)
    BY ElementOfSeq
  <1> HIDE DEF m, n, ab
  <1> DEFINE k == [i \in 0 .. m + n |-> IF i <= m THEN g[i] ELSE g[m] \o h[i - m]]
  <1>8. \A i \in 0 .. m + n : IF i <= m THEN i \in 0 .. m ELSE i - m \in 0 .. n /\ i - m \in 1 .. n
    BY <1>4
  <1>9. m \in 0 .. m /\ 0 \in 0 .. n /\ 0 \in 0 .. m /\ 0 \in 0 .. m + n /\ m + n \in 0 .. m + n
    BY <1>4
  <1>10. \A s, t \in Seq(S) : s \o t \in Seq(S)
    BY ConcatProperties
  <1>11. k \in [0 .. m + n -> Seq(S)]
    <2>1. \A i \in 0 .. m + n : (IF i <= m THEN g[i] ELSE g[m] \o h[i - m]) \in Seq(S)
      BY <1>6, <1>8, <1>9, <1>10
    <2> QED
      BY <2>1
  <1>12. \A i \in 0 .. m + n : k[i] = IF i <= m THEN g[i] ELSE g[m] \o h[i - m]
    OBVIOUS
  <1> HIDE DEF k
  <1>13. \A i \in 1 .. m + n : k[i] = k[i - 1] \o ab[i]
    <2> TAKE i \in 1 .. m + n
    <2>1. i \in 0 .. m + n /\ i - 1 \in 0 .. m + n
      BY <1>4
    <2>2. CASE i <= m
      <3>1. i \in 1 .. m /\ i - 1 <= m
        BY <1>4, <2>2
      <3> QED
        BY <1>5, <1>6, <1>12, <2>1, <2>2, <3>1
    <2>3. CASE i = m + 1
      <3>1. i - 1 = m /\ m <= m /\ i - m = 1 /\ 1 - 1 = 0 /\ 1 \in 1 .. n /\ ~ (i <= m)
        BY <1>4, <2>3
      <3>2. << >> \o b[1] = b[1]
        BY <1>7, <3>1, ConcatEmptySeq
      <3>3. h[1] = b[1]
        BY <1>6, <3>1, <3>2
      <3>4. k[i] = g[m] \o h[1] /\ k[i - 1] = g[m]
        BY <1>12, <2>1, <3>1
      <3>5. ab[i] = b[1]
        BY <1>5, <3>1
      <3> QED
        BY <3>3, <3>4, <3>5
    <2>4. CASE i > m + 1
      <3>1. /\ ~ (i <= m) /\ ~ (i - 1 <= m) /\ (i - 1) - m = (i - m) - 1 /\ i - m \in 1 .. n
            /\ (i - m) - 1 \in 0 .. n
        BY <1>4, <2>4
      <3>2. k[i] = g[m] \o h[i - m] /\ k[i - 1] = g[m] \o h[(i - m) - 1] /\ ab[i] = b[i - m]
        BY <1>5, <1>12, <2>1, <3>1
      <3>3. h[i - m] = h[(i - m) - 1] \o b[i - m]
        BY <1>6, <3>1
      <3>4. g[m] \in Seq(S) /\ h[(i - m) - 1] \in Seq(S) /\ b[i - m] \in Seq(S)
        BY <1>6, <1>7, <1>9, <3>1
      <3>5. \A s, t, u \in Seq(S) : s \o (t \o u) = (s \o t) \o u
        BY SMTT(30), ConcatAssociative
      <3> QED
        <4>1. PICK s \in Seq(S), t \in Seq(S), u \in Seq(S) :
                 s = g[m] /\ t = h[(i - m) - 1] /\ u = b[i - m]
          BY <3>4
        <4>2. s \o (t \o u) = (s \o t) \o u
          BY <3>5
        <4>3. k[i] = s \o (t \o u) /\ k[i - 1] = s \o t /\ ab[i] = u
          BY <3>2, <3>3, <4>1
        <4> QED
          BY <4>2, <4>3
    <2>5. i <= m \/ i = m + 1 \/ i > m + 1
      BY <1>4
    <2> QED
      BY <2>2, <2>3, <2>4, <2>5
  <1>14. Joins(ab, S, k)
    <2>1. k[0] = << >>
      BY <1>4, <1>6, <1>9, <1>12
    <2> QED
      BY <1>5, <1>11, <1>13, <2>1 DEF Joins
  <1>15. FlattenSeq(ab) = k[m + n]
    BY <1>5, <1>14, FlattenJoins
  <1>16. k[m + n] = g[m] \o h[n]
    <2>1. CASE n = 0
      <3>1. m + n = m /\ m <= m
        BY <1>4, <2>1
      <3>2. g[m] \o << >> = g[m]
        BY <1>3, ConcatEmptySeq
      <3> QED
        BY <1>6, <1>9, <1>12, <2>1, <3>1, <3>2
    <2>2. CASE n # 0
      <3>1. ~ (m + n <= m) /\ (m + n) - m = n
        BY <1>4, <2>2
      <3> QED
        BY <1>9, <1>12, <3>1
    <2> QED
      BY <2>1, <2>2
  <1> QED
    BY <1>3, <1>15, <1>16 DEF ab

(* One list makes itself. *)
LEMMA FlattenOne ==
    ASSUME NEW S, NEW e \in Seq(S)
    PROVE  << e >> \in Seq(Seq(S)) /\ FlattenSeq(<< e >>) = e
  <1> DEFINE g == [i \in 0 .. 1 |-> IF i = 0 THEN << >> ELSE e]
             s == << e >>
  <1>1. s \in Seq(Seq(S)) /\ Len(s) = 1 /\ s[1] = e
    OBVIOUS
  <1>2. << >> \o e = e /\ << >> \in Seq(S)
    BY ConcatEmptySeq, EmptySeq
  <1>3. g \in [0 .. 1 -> Seq(S)] /\ g[0] = << >> /\ g[1] = e
    BY <1>2
  <1>4. \A i \in 1 .. 1 : i = 1 /\ i - 1 = 0
    OBVIOUS
  <1> HIDE DEF g, s
  <1>5. Joins(s, S, g)
    BY <1>1, <1>2, <1>3, <1>4 DEF Joins
  <1>6. FlattenSeq(s) = g[Len(s)]
    BY <1>1, <1>5, FlattenJoins
  <1> QED
    BY <1>1, <1>3, <1>6 DEF s

(* No lists make the empty one. *)
LEMMA FlattenNone == FlattenSeq(<< >>) = << >>
  BY DEF FlattenSeq

-----------------------------------------------------------------------------
(* What a transcript has absorbed *)

\* What the blocks are made of.
Absorbable == Sent \cup {Element("one", 0, 0), Element("zero", 0, 0)}

IsPadding(e) == e[1] \in {"one", "zero"}

\* What is left of each of the elements without the padding.
Pieces(s) == [i \in 1 .. Len(s) |-> IF IsPadding(s[i]) THEN << >> ELSE << s[i] >>]

LEMMA PiecesAre ==
    ASSUME NEW s \in Seq(Absorbable)
    PROVE  /\ Unpadded(s) = FlattenSeq(Pieces(s))
           /\ Pieces(s) \in Seq(Seq(Absorbable)) /\ Len(Pieces(s)) = Len(s)
           /\ \A i \in 1 .. Len(s) : Pieces(s)[i] = IF IsPadding(s[i]) THEN << >> ELSE << s[i] >>
  <1>1. Len(s) \in Nat /\ \A i \in 1 .. Len(s) : s[i] \in Absorbable
    BY LenProperties, ElementOfSeq
  <1>2. \A e \in Absorbable : << e >> \in Seq(Absorbable) /\ << >> \in Seq(Absorbable)
    OBVIOUS
  <1>3. Unpadded(s) = FlattenSeq(Pieces(s))
    BY DEF Unpadded, Pieces, IsPadding
  <1> DEFINE n == Len(s)
             f == Pieces(s)
  <1>4. f = [i \in 1 .. n |-> IF IsPadding(s[i]) THEN << >> ELSE << s[i] >>]
    BY DEF Pieces
  <1> HIDE DEF n, f
  <1>5. f \in [1 .. n -> Seq(Absorbable)]
    BY <1>1, <1>2, <1>4 DEF n
  <1>6. n \in Nat
    BY <1>1 DEF n
  <1>7. f \in Seq(Seq(Absorbable)) /\ Len(f) = n
    BY <1>5, <1>6
  <1>8. \A i \in 1 .. n : f[i] = IF IsPadding(s[i]) THEN << >> ELSE << s[i] >>
    BY <1>4
  <1> QED
    BY <1>3, <1>7, <1>8 DEF n, f

(* Padding is left out of every part. *)
LEMMA UnpaddedTogether ==
    ASSUME NEW a \in Seq(Absorbable), NEW b \in Seq(Absorbable)
    PROVE  /\ Unpadded(a \o b) = Unpadded(a) \o Unpadded(b)
           /\ Unpadded(a) \in Seq(Absorbable)
  <1> DEFINE ab == a \o b
             m == Len(a)
             n == Len(b)
  <1>1. /\ ab \in Seq(Absorbable) /\ Len(ab) = m + n
        /\ \A i \in 1 .. m + n : ab[i] = IF i <= m THEN a[i] ELSE b[i - m]
    BY ConcatProperties
  <1>2. m \in Nat /\ n \in Nat
    BY LenProperties
  <1>3. /\ Unpadded(a) = FlattenSeq(Pieces(a)) /\ Pieces(a) \in Seq(Seq(Absorbable))
        /\ Len(Pieces(a)) = m
        /\ \A i \in 1 .. m : Pieces(a)[i] = IF IsPadding(a[i]) THEN << >> ELSE << a[i] >>
    BY PiecesAre
  <1>4. /\ Unpadded(b) = FlattenSeq(Pieces(b)) /\ Pieces(b) \in Seq(Seq(Absorbable))
        /\ Len(Pieces(b)) = n
        /\ \A i \in 1 .. n : Pieces(b)[i] = IF IsPadding(b[i]) THEN << >> ELSE << b[i] >>
    BY PiecesAre
  <1> HIDE DEF ab
  <1>5. /\ Unpadded(ab) = FlattenSeq(Pieces(ab)) /\ Pieces(ab) \in Seq(Seq(Absorbable))
        /\ Len(Pieces(ab)) = m + n
        /\ \A i \in 1 .. m + n : Pieces(ab)[i] = IF IsPadding(ab[i]) THEN << >> ELSE << ab[i] >>
    BY <1>1, PiecesAre
  <1> HIDE DEF m, n
  <1> DEFINE pp == Pieces(a) \o Pieces(b)
  <1>6. /\ pp \in Seq(Seq(Absorbable)) /\ Len(pp) = m + n
        /\ \A i \in 1 .. m + n : pp[i] = IF i <= m THEN Pieces(a)[i] ELSE Pieces(b)[i - m]
    BY <1>3, <1>4, ConcatProperties
  <1> HIDE DEF pp
  <1>7. \A i \in 1 .. m + n : Pieces(ab)[i] = pp[i]
    <2> TAKE i \in 1 .. m + n
    <2>1. CASE i <= m
      <3>1. i \in 1 .. m
        BY <1>2, <2>1
      <3> QED
        BY <1>1, <1>3, <1>5, <1>6, <2>1, <3>1
    <2>2. CASE ~ (i <= m)
      <3>1. i - m \in 1 .. n
        BY <1>2, <2>2
      <3> QED
        BY <1>1, <1>4, <1>5, <1>6, <2>2, <3>1
    <2> QED
      BY <2>1, <2>2
  <1>8. Pieces(ab) = pp
    BY <1>5, <1>6, <1>7, SeqEqual
  <1>9. /\ FlattenSeq(pp) = FlattenSeq(Pieces(a)) \o FlattenSeq(Pieces(b))
        /\ FlattenSeq(Pieces(a)) \in Seq(Absorbable)
    BY <1>3, <1>4, FlattenTogether DEF pp
  <1> QED
    BY <1>3, <1>4, <1>5, <1>8, <1>9 DEF ab

(* Without padding there is nothing to leave out. *)
LEMMA UnpaddedSent ==
    ASSUME NEW s \in Seq(Sent)
    PROVE  s \in Seq(Absorbable) /\ Unpadded(s) = s
  <1> DEFINE n == Len(s)
             g == [i \in 0 .. n |-> SubSeq(s, 1, i)]
  <1>1. n \in Nat /\ \A i \in 1 .. n : s[i] \in Sent
    BY LenProperties, ElementOfSeq
  <1>2. s \in Seq(Absorbable)
    BY SeqMonotonic DEF Absorbable
  <1>3. \A e \in Sent : ~IsPadding(e)
    BY DEF Sent, Names, Element, IsPadding
  <1>4. /\ Unpadded(s) = FlattenSeq(Pieces(s)) /\ Pieces(s) \in Seq(Seq(Absorbable))
        /\ Len(Pieces(s)) = n
        /\ \A i \in 1 .. n : Pieces(s)[i] = IF IsPadding(s[i]) THEN << >> ELSE << s[i] >>
    BY <1>2, PiecesAre
  <1>5. \A i \in 1 .. n : Pieces(s)[i] = << s[i] >>
    BY <1>1, <1>3, <1>4
  <1>6. \A i \in 0 .. n : SubSeq(s, 1, i) \in Seq(Absorbable)
    <2> TAKE i \in 0 .. n
    <2>1. \A k \in 1 .. i : s[k] \in Absorbable
      BY <1>1 DEF Absorbable
    <2>2. i \in Int /\ 1 \in Int
      BY <1>1
    <2> HIDE DEF n
    <2> QED
      BY <2>1, <2>2, SubSeqProperties
  <1>7. SubSeq(s, 1, 0) = << >> /\ SubSeq(s, 1, n) = s
    BY SubSeqEmpty, SubSeqFull
  <1>8. \A i \in 1 .. n : SubSeq(s, 1, i) = SubSeq(s, 1, i - 1) \o << s[i] >>
    <2> TAKE i \in 1 .. n
    <2>1. 1 \in 1 .. Len(s) /\ i \in 1 .. Len(s)
      BY <1>1
    <2> QED
      BY <1>2, <2>1, SubSeqRecursiveSecond
  <1>9. \A i \in 1 .. n : i \in 0 .. n /\ i - 1 \in 0 .. n
    BY <1>1
  <1>10. 0 \in 0 .. n /\ n \in 0 .. n
    BY <1>1
  <1> HIDE DEF n
  <1>11. g \in [0 .. n -> Seq(Absorbable)] /\ \A i \in 0 .. n : g[i] = SubSeq(s, 1, i)
    BY <1>6
  <1> HIDE DEF g
  <1>12. \A i \in 1 .. n : g[i] = g[i - 1] \o Pieces(s)[i]
    BY <1>5, <1>8, <1>9, <1>11
  <1>13. Joins(Pieces(s), Absorbable, g)
    BY <1>4, <1>7, <1>10, <1>11, <1>12 DEF Joins
  <1>14. FlattenSeq(Pieces(s)) = g[n]
    BY <1>4, <1>13, FlattenJoins
  <1> QED
    BY <1>2, <1>4, <1>7, <1>10, <1>11, <1>14

(* Of padding nothing is left. *)
LEMMA UnpaddedPadding ==
    ASSUME NEW s \in Seq({Element("one", 0, 0), Element("zero", 0, 0)})
    PROVE  s \in Seq(Absorbable) /\ Unpadded(s) = << >>
  <1> DEFINE n == Len(s)
             g == [i \in 0 .. n |-> << >>]
  <1>1. n \in Nat /\ \A i \in 1 .. n : s[i] \in {Element("one", 0, 0), Element("zero", 0, 0)}
    BY LenProperties, ElementOfSeq
  <1>2. s \in Seq(Absorbable)
    BY SeqMonotonic DEF Absorbable
  <1>3. \A i \in 1 .. n : IsPadding(s[i])
    BY <1>1 DEF Element, IsPadding
  <1>4. /\ Unpadded(s) = FlattenSeq(Pieces(s)) /\ Pieces(s) \in Seq(Seq(Absorbable))
        /\ Len(Pieces(s)) = n
        /\ \A i \in 1 .. n : Pieces(s)[i] = IF IsPadding(s[i]) THEN << >> ELSE << s[i] >>
    BY <1>2, PiecesAre
  <1>5. \A i \in 1 .. n : Pieces(s)[i] = << >>
    BY <1>3, <1>4
  <1>6. << >> \in Seq(Absorbable) /\ << >> \o << >> = << >>
    OBVIOUS
  <1>7. \A i \in 1 .. n : i \in 0 .. n /\ i - 1 \in 0 .. n
    BY <1>1
  <1>8. 0 \in 0 .. n /\ n \in 0 .. n
    BY <1>1
  <1> HIDE DEF n
  <1>9. g \in [0 .. n -> Seq(Absorbable)] /\ \A i \in 0 .. n : g[i] = << >>
    BY <1>6
  <1> HIDE DEF g
  <1>10. \A i \in 1 .. n : g[i] = g[i - 1] \o Pieces(s)[i]
    BY <1>5, <1>6, <1>7, <1>9
  <1>11. Joins(Pieces(s), Absorbable, g)
    BY <1>4, <1>8, <1>9, <1>10 DEF Joins
  <1>12. FlattenSeq(Pieces(s)) = g[n]
    BY <1>4, <1>11, FlattenJoins
  <1> QED
    BY <1>2, <1>4, <1>8, <1>9, <1>12

(* What is cut into blocks is what the blocks make together. *)
LEMMA BlocksTogether ==
    ASSUME NEW S, NEW s \in Seq(S), NEW q \in Nat, Len(s) = q * AW
    PROVE  BlocksOf(s) \in Seq(Seq(S)) /\ Len(BlocksOf(s)) = q /\ FlattenSeq(BlocksOf(s)) = s
  <1> DEFINE To(b) == b * AW
             blocks == BlocksOf(s)
             g == [b \in 0 .. q |-> SubSeq(s, 1, To(b))]
  <1>1. AW \in Nat /\ AW # 0
    BY TranscriptAssumption
  <1>2. Len(s) \div AW = q
    BY <1>1
  <1>3. /\ To(0) = 0 /\ To(q) = Len(s)
        /\ \A b \in 0 .. q : To(b) \in 0 .. Len(s)
    <2>1. \A b \in 0 .. q : To(b) \in Nat /\ To(b) <= q * AW
      <3> TAKE b \in 0 .. q
      <3>1. b \in Nat /\ b <= q
        OBVIOUS
      <3>2. b * AW <= q * AW
        BY <1>1, <3>1, TimesMonotone
      <3> QED
        BY <1>1, <3>1, <3>2
    <2> HIDE DEF To
    <2>2. To(0) = 0 /\ To(q) = Len(s)
      BY <1>1 DEF To
    <2> QED
      BY <2>1, <2>2
  <1>4. \A b \in 1 .. q : /\ b - 1 \in 0 .. q /\ b \in 0 .. q
                          /\ To(b - 1) + 1 \in 1 .. Len(s) + 1 /\ To(b - 1) \in 0 .. Len(s)
                          /\ To(b) \in To(b - 1) .. Len(s)
    <2> TAKE b \in 1 .. q
    <2>1. b \in Nat /\ b - 1 \in 0 .. q /\ b \in 0 .. q /\ b - 1 \in Nat
      OBVIOUS
    <2>2. To(b - 1) <= To(b)
      BY <1>1, <2>1, TimesMonotone
    <2> HIDE DEF To
    <2> QED
      BY <1>3, <2>1, <2>2
  <1>5. blocks = [b \in 1 .. q |-> SubSeq(s, To(b - 1) + 1, To(b))]
    BY <1>2 DEF BlocksOf
  <1> HIDE DEF To, blocks
  <1>6. \A b \in 1 .. q : SubSeq(s, To(b - 1) + 1, To(b)) \in Seq(S)
    <2> TAKE b \in 1 .. q
    <2>1. \A k \in To(b - 1) + 1 .. To(b) : s[k] \in S
      <3>1. b - 1 \in 0 .. q /\ b \in 0 .. q
        OBVIOUS
      <3>2. To(b - 1) \in 0 .. Len(s) /\ To(b) \in 0 .. Len(s) /\ Len(s) \in Nat
        BY <1>3, <3>1, LenProperties
      <3>3. \A k \in To(b - 1) + 1 .. To(b) : k \in 1 .. Len(s)
        BY <3>2
      <3> QED
        BY <3>3, ElementOfSeq
    <2>2. To(b - 1) + 1 \in Int /\ To(b) \in Int
      BY <1>4
    <2> QED
      BY <2>1, <2>2, SubSeqProperties
  <1>7. \A b \in 0 .. q : SubSeq(s, 1, To(b)) \in Seq(S)
    <2> TAKE b \in 0 .. q
    <2>1. \A k \in 1 .. To(b) : s[k] \in S
      <3>1. \A k \in 1 .. To(b) : k \in 1 .. Len(s)
        BY <1>3
      <3> QED
        BY <3>1, ElementOfSeq
    <2>2. To(b) \in Int /\ 1 \in Int
      BY <1>3
    <2> QED
      BY <2>1, <2>2, SubSeqProperties
  <1>8. blocks \in Seq(Seq(S)) /\ Len(blocks) = q
    <2>1. blocks \in [1 .. q -> Seq(S)]
      BY <1>5, <1>6
    <2> QED
      BY <2>1
  <1>9. \A b \in 1 .. q : SubSeq(s, 1, To(b)) = SubSeq(s, 1, To(b - 1)) \o blocks[b]
    <2> TAKE b \in 1 .. q
    <2>1. /\ 1 \in 1 .. Len(s) + 1 /\ To(b - 1) \in 1 - 1 .. Len(s)
          /\ To(b) \in To(b - 1) .. Len(s)
      BY <1>4
    <2>2. SubSeq(s, 1, To(b - 1)) \o SubSeq(s, To(b - 1) + 1, To(b)) = SubSeq(s, 1, To(b))
      BY <2>1, ConcatAdjacentSubSeq
    <2>3. blocks[b] = SubSeq(s, To(b - 1) + 1, To(b))
      BY <1>5
    <2> QED
      BY <2>2, <2>3
  <1>10. SubSeq(s, 1, 0) = << >> /\ SubSeq(s, 1, Len(s)) = s
    BY SubSeqEmpty, SubSeqFull
  <1>11. 0 \in 0 .. q /\ q \in 0 .. q
    OBVIOUS
  <1>12. g \in [0 .. q -> Seq(S)] /\ \A b \in 0 .. q : g[b] = SubSeq(s, 1, To(b))
    BY <1>7
  <1> HIDE DEF g
  <1>13. \A b \in 1 .. q : g[b] = g[b - 1] \o blocks[b]
    BY <1>4, <1>9, <1>12
  <1>14. Joins(blocks, S, g)
    BY <1>3, <1>8, <1>10, <1>11, <1>12, <1>13 DEF Joins
  <1>15. FlattenSeq(blocks) = g[q]
    BY <1>8, <1>14, FlattenJoins
  <1>16. g[q] = s
    BY <1>3, <1>10, <1>11, <1>12
  <1> QED
    BY <1>8, <1>15, <1>16 DEF blocks

(* The padding fills the last block, and is all that is left out again. *)
LEMMA PaddedBlocks ==
    ASSUME NEW e \in Seq(Sent)
    PROVE  /\ BlocksOf(Padded(e)) \in Seq(Seq(Absorbable))
           /\ Len(BlocksOf(Padded(e))) >= 1
           /\ Unpadded(FlattenSeq(BlocksOf(Padded(e)))) = e
  <1> DEFINE one == Element("one", 0, 0)
             zero == Element("zero", 0, 0)
             n == Len(e) + 1
             z == (AW - (n % AW)) % AW
             zeroes == [i \in 1 .. z |-> zero]
             rest == << one >> \o zeroes
  <1>1. AW \in Nat /\ AW # 0 /\ n \in Nat /\ n >= 1
    BY TranscriptAssumption, LenProperties
  <1>2. z \in Nat /\ \E q \in Nat : q >= 1 /\ n + z = q * AW
    <2> HIDE DEF n
    <2> DEFINE r == n % AW
               d == n \div AW
    <2>1. d \in Nat /\ r \in 0 .. AW - 1 /\ n = (d * AW) + r
      BY <1>1, Division
    <2>2. z = (AW - r) % AW
      OBVIOUS
    <2> HIDE DEF d, r, z
    <2>3. CASE r = 0
      <3>1. z = 0
        BY <1>1, <2>2, <2>3
      <3>2. n = d * AW /\ d * AW \in Nat
        BY <1>1, <2>1, <2>3
      <3>3. d >= 1
        <4>1. d = 0 => d * AW = 0
          BY <1>1
        <4> QED
          BY <1>1, <2>1, <3>2, <4>1
      <3>4. n + z = d * AW
        BY <1>1, <3>1, <3>2
      <3> QED
        BY <2>1, <3>1, <3>3, <3>4
    <2>4. CASE r # 0
      <3>1. z = AW - r /\ z \in Nat
        BY <1>1, <2>1, <2>2, <2>4
      <3>2. (d + 1) * AW = (d * AW) + AW /\ d * AW \in Nat
        BY <1>1, <2>1
      <3>3. n + z = (d + 1) * AW
        BY <1>1, <2>1, <3>1, <3>2
      <3>4. d + 1 \in Nat /\ d + 1 >= 1
        BY <2>1
      <3> QED
        BY <3>1, <3>3, <3>4
    <2> QED
      BY <2>3, <2>4
  <1>3. e \in Seq(Absorbable) /\ Unpadded(e) = e
    BY UnpaddedSent
  <1>4. Padded(e) = Append(e, one) \o zeroes
    <2>1. Len(Append(e, one)) = n
      BY <1>3, AppendProperties DEF Absorbable
    <2> QED
      BY <2>1 DEF Padded
  <1> HIDE DEF one, zero, n, z
  <1>5. /\ one \in Absorbable /\ zero \in Absorbable
        /\ {one, zero} = {Element("one", 0, 0), Element("zero", 0, 0)}
    BY DEF one, zero, Absorbable
  <1>6. << one >> \in Seq({one, zero}) /\ Len(<< one >>) = 1
    OBVIOUS
  <1>7. zeroes \in Seq({one, zero}) /\ Len(zeroes) = z
    <2>1. zeroes \in [1 .. z -> {one, zero}]
      OBVIOUS
    <2> QED
      BY <1>2, <2>1
  <1> HIDE DEF zeroes
  <1>8. rest \in Seq({one, zero}) /\ Len(rest) = 1 + z
    BY <1>6, <1>7, ConcatProperties
  <1>9. Padded(e) = e \o rest
    <2>1. Append(e, one) = e \o << one >>
      BY <1>3, <1>5, AppendIsConcat
    <2>2. << one >> \in Seq(Absorbable) /\ zeroes \in Seq(Absorbable)
      <3>1. {one, zero} \subseteq Absorbable
        BY <1>5
      <3> QED
        BY <1>6, <1>7, <3>1, SeqMonotonic
    <2>3. (e \o << one >>) \o zeroes = e \o (<< one >> \o zeroes)
      BY <1>3, <2>2, ConcatAssociative
    <2> QED
      BY <1>4, <2>1, <2>3
  <1> HIDE DEF rest
  <1>10. rest \in Seq(Absorbable) /\ Unpadded(rest) = << >>
    BY <1>5, <1>8, UnpaddedPadding
  <1>11. Unpadded(e \o rest) = e
    <2>1. Unpadded(e \o rest) = Unpadded(e) \o Unpadded(rest)
      BY <1>3, <1>10, UnpaddedTogether
    <2>2. e \o << >> = e
      BY ConcatEmptySeq
    <2> QED
      BY <1>3, <1>10, <2>1, <2>2
  <1>12. e \o rest \in Seq(Absorbable) /\ Len(e \o rest) = n + z
    <2>1. e \o rest \in Seq(Absorbable) /\ Len(e \o rest) = Len(e) + Len(rest)
      BY <1>3, <1>10, ConcatProperties
    <2>2. Len(e) \in Nat
      BY LenProperties
    <2> QED
      BY <1>2, <1>8, <2>1, <2>2 DEF n
  <1>13. PICK q \in Nat : q >= 1 /\ n + z = q * AW
    BY <1>2
  <1>14. /\ BlocksOf(e \o rest) \in Seq(Seq(Absorbable)) /\ Len(BlocksOf(e \o rest)) = q
         /\ FlattenSeq(BlocksOf(e \o rest)) = e \o rest
    BY <1>12, <1>13, BlocksTogether
  <1> QED
    BY <1>9, <1>11, <1>13, <1>14

(* What a sponge or a hash absorbs is what was buffered. *)
LEMMA AbsorbsBuffer ==
    ASSUME NEW t, t.kind \in Kinds, t.buffer \in Seq(Sent)
    PROVE  /\ Absorbed(t) \in Seq(Seq(Absorbable)) /\ Len(Absorbed(t)) >= 1
           /\ Unpadded(FlattenSeq(Absorbed(t))) = t.buffer
  <1>1. CASE t.kind = "sponge"
    BY <1>1, PaddedBlocks DEF Absorbed
  <1>2. CASE t.kind # "sponge"
    <2>1. Absorbed(t) = << t.buffer >>
      BY <1>2 DEF Absorbed
    <2>2. t.buffer \in Seq(Absorbable) /\ Unpadded(t.buffer) = t.buffer
      BY UnpaddedSent
    <2>3. << t.buffer >> \in Seq(Seq(Absorbable)) /\ FlattenSeq(<< t.buffer >>) = t.buffer
      BY <2>2, FlattenOne
    <2>4. Len(<< t.buffer >>) = 1
      OBVIOUS
    <2> QED
      BY <2>1, <2>2, <2>3, <2>4
  <1> QED
    BY <1>1, <1>2

-----------------------------------------------------------------------------
(* The words that a transcript gives *)

AnyWord == Nat \X Nat

\* v is squeezed out before w.
Before(v, w) == v[1] < w[1] \/ (v[1] = w[1] /\ v[2] < w[2])

Ordered(words) == \A i, j \in 1 .. Len(words) : i < j => Before(words[i], words[j])

Transcripts == [kind : Kinds, buffer : Seq(Sent), available : Seq(AnyWord),
                chain : Seq(Seq(Absorbable))]

\* What was absorbed with the first n blocks.
UpTo(t, n) == Unpadded(FlattenSeq(SubSeq(t.chain, 1, n)))

\* t when s has been witnessed: all of s is absorbed or in the buffer, and what is left to
\* draw comes from the last block.
Filled(t, s) ==
    /\ t \in Transcripts /\ s \in Seq(Sent)
    /\ Unpadded(FlattenSeq(t.chain)) \o t.buffer = s
    /\ \A k \in 1 .. Len(t.available) : t.available[k][1] = Len(t.chain)
    /\ Ordered(t.available)

\* w comes before all that t has left to give.
Past(t, w) ==
    /\ w[1] <= Len(t.chain)
    /\ \A k \in 1 .. Len(t.available) : Before(w, t.available[k])

\* u is t later on.
Later(t, u) ==
    /\ Len(t.chain) <= Len(u.chain)
    /\ \A n \in 0 .. Len(t.chain) : SubSeq(u.chain, 1, n) = SubSeq(t.chain, 1, n)
    /\ \A w \in AnyWord : Past(t, w) => Past(u, w)

\* The words drawn on the way from t to u, when s had been witnessed.
DrawnFrom(t, u, s, words) ==
    /\ words \in Seq(AnyWord) /\ Ordered(words)
    /\ \A i \in 1 .. Len(words) :
          /\ words[i][1] \in 0 .. Len(u.chain) /\ UpTo(u, words[i][1]) = s
          /\ Past(u, words[i])
          /\ \A w \in AnyWord : Past(t, w) => Before(w, words[i])

LEMMA BeforeTransitive ==
    ASSUME NEW u \in AnyWord, NEW v \in AnyWord, NEW w \in AnyWord, Before(u, v), Before(v, w)
    PROVE  Before(u, w)
  <1>1. u[1] \in Nat /\ u[2] \in Nat /\ v[1] \in Nat /\ v[2] \in Nat /\ w[1] \in Nat /\ w[2] \in Nat
    BY DEF AnyWord
  <1> QED
    BY <1>1 DEF Before

LEMMA LaterTransitive ==
    ASSUME NEW t, NEW u, NEW v, Later(t, u), Later(u, v), Len(t.chain) \in Nat,
           Len(u.chain) \in Nat, Len(v.chain) \in Nat
    PROVE  Later(t, v)
  <1>1. Len(t.chain) <= Len(u.chain) /\ Len(u.chain) <= Len(v.chain)
    BY DEF Later
  <1>2. \A n \in 0 .. Len(t.chain) : n \in 0 .. Len(u.chain)
    BY <1>1
  <1>3. Len(t.chain) <= Len(v.chain)
    BY <1>1
  <1> QED
    BY <1>2, <1>3 DEF Later

\* What a new state of the sponge or hash gives.
NewWords(t, chain) == [k \in 1 .. (IF t.kind = "sponge" THEN AW ELSE CW) |-> << Len(chain), k >>]

LEMMA NewWordsAre ==
    ASSUME NEW t, NEW chain, Len(chain) \in Nat
    PROVE  /\ NewWords(t, chain) \in Seq(AnyWord) /\ Len(NewWords(t, chain)) >= 1
           /\ Ordered(NewWords(t, chain))
           /\ \A k \in 1 .. Len(NewWords(t, chain)) : NewWords(t, chain)[k][1] = Len(chain)
  <1> DEFINE n == IF t.kind = "sponge" THEN AW ELSE CW
             f == [k \in 1 .. n |-> << Len(chain), k >>]
  <1>1. n \in Nat /\ n >= 1
    BY TranscriptAssumption
  <1>2. NewWords(t, chain) = f
    BY DEF NewWords
  <1> HIDE DEF n
  <1>3. f \in [1 .. n -> AnyWord]
    BY DEF AnyWord
  <1>4. \A k \in 1 .. n : f[k] = << Len(chain), k >>
    OBVIOUS
  <1> HIDE DEF f
  <1>5. f \in Seq(AnyWord) /\ Len(f) = n
    BY <1>1, <1>3
  <1>6. \A i, j \in 1 .. n : i < j => Before(f[i], f[j])
    BY <1>4 DEF Before
  <1> QED
    BY <1>1, <1>2, <1>4, <1>5, <1>6 DEF Ordered

(* A new state holds what the old one held and the new blocks, and its words come after all
   others. *)
LEMMA SqueezedIs ==
    ASSUME NEW t, NEW s, Filled(t, s), NEW blocks \in Seq(Seq(Absorbable)), Len(blocks) >= 1,
           Unpadded(FlattenSeq(blocks)) = t.buffer
    PROVE  LET u == Squeezed(t, t.chain \o blocks)
           IN  Filled(u, s) /\ u.buffer = << >> /\ u.available # << >> /\ Later(t, u)
  <1> DEFINE chain == t.chain \o blocks
             u == Squeezed(t, chain)
  <1>1. /\ t \in Transcripts /\ s \in Seq(Sent)
        /\ Unpadded(FlattenSeq(t.chain)) \o t.buffer = s
    BY DEF Filled
  <1>2. t.kind \in Kinds /\ t.buffer \in Seq(Sent) /\ t.chain \in Seq(Seq(Absorbable))
    BY <1>1 DEF Transcripts
  <1>3. Len(t.chain) \in Nat /\ Len(blocks) \in Nat
    BY <1>2, LenProperties
  <1>4. chain \in Seq(Seq(Absorbable)) /\ Len(chain) = Len(t.chain) + Len(blocks)
    BY <1>2, ConcatProperties
  <1>5. /\ FlattenSeq(t.chain) \in Seq(Absorbable) /\ FlattenSeq(blocks) \in Seq(Absorbable)
        /\ FlattenSeq(chain) = FlattenSeq(t.chain) \o FlattenSeq(blocks)
    BY <1>2, FlattenTogether
  <1>6. Unpadded(FlattenSeq(chain)) = s
    BY <1>1, <1>5, UnpaddedTogether
  <1>7. \A n \in 0 .. Len(t.chain) : SubSeq(chain, 1, n) = SubSeq(t.chain, 1, n)
    <2> TAKE n \in 0 .. Len(t.chain)
    <2>1. CASE n = 0
      <3>1. SubSeq(chain, 1, 0) = << >> /\ SubSeq(t.chain, 1, 0) = << >>
        BY SubSeqEmpty
      <3> QED
        BY <2>1, <3>1
    <2>2. CASE n # 0
      <3>1. 1 \in 1 .. Len(t.chain) /\ n \in 1 .. Len(t.chain)
        BY <1>3, <2>2
      <3> QED
        BY <1>2, <3>1, SubSeqOfConcat1
    <2> QED
      BY <2>1, <2>2
  <1> HIDE DEF chain
  <1>8. Len(chain) \in Nat /\ Len(t.chain) < Len(chain)
    BY <1>3, <1>4
  <1> DEFINE words == NewWords(t, chain)
  <1>9. /\ words \in Seq(AnyWord) /\ Len(words) >= 1 /\ Ordered(words)
        /\ \A k \in 1 .. Len(words) : words[k][1] = Len(chain)
    BY <1>8, NewWordsAre
  <1>10. u = [t EXCEPT !.chain = chain, !.buffer = << >>, !.available = words]
    BY DEF Squeezed, NewWords
  <1> HIDE DEF words, u
  <1>11. << >> \in Seq(Sent) /\ s \o << >> = s
    BY <1>1, EmptySeq, ConcatEmptySeq
  <1>12. u \in Transcripts /\ u.chain = chain /\ u.buffer = << >> /\ u.available = words
    BY <1>1, <1>4, <1>9, <1>10, <1>11 DEF Transcripts
  <1>13. Filled(u, s)
    BY <1>1, <1>6, <1>9, <1>11, <1>12 DEF Filled
  <1>14. u.available # << >>
    BY <1>9, <1>12
  <1>15. \A w \in AnyWord : Past(t, w) => Past(u, w)
    <2> TAKE w \in AnyWord
    <2> HAVE Past(t, w)
    <2>1. w[1] \in Nat /\ w[1] <= Len(t.chain)
      BY DEF AnyWord, Past
    <2>2. w[1] < Len(chain)
      BY <1>3, <1>8, <2>1
    <2>3. \A k \in 1 .. Len(words) : Before(w, words[k])
      BY <1>9, <2>2 DEF Before
    <2>4. w[1] <= Len(chain)
      BY <1>8, <2>1, <2>2
    <2> QED
      BY <1>12, <2>3, <2>4 DEF Past
  <1>16. Len(t.chain) <= Len(chain)
    BY <1>3, <1>8
  <1>17. Later(t, u)
    BY <1>7, <1>12, <1>15, <1>16 DEF Later
  <1> QED
    BY <1>12, <1>13, <1>14, <1>17 DEF u, chain

(* Whatever get_challenge has to do before it takes a word, there is one then, and all that
   was witnessed is absorbed. *)
LEMMA RefilledIs ==
    ASSUME NEW t, NEW s, Filled(t, s)
    PROVE  /\ Filled(Refilled(t), s) /\ Refilled(t).buffer = << >>
           /\ Refilled(t).available # << >> /\ Later(t, Refilled(t))
  <1>1. t \in Transcripts
    BY DEF Filled
  <1>2. t.kind \in Kinds /\ t.buffer \in Seq(Sent) /\ t.chain \in Seq(Seq(Absorbable))
    BY <1>1 DEF Transcripts
  <1>3. CASE t.buffer # << >>
    <2>1. /\ Absorbed(t) \in Seq(Seq(Absorbable)) /\ Len(Absorbed(t)) >= 1
          /\ Unpadded(FlattenSeq(Absorbed(t))) = t.buffer
      BY <1>2, AbsorbsBuffer
    <2>2. Refilled(t) = Squeezed(t, t.chain \o Absorbed(t))
      BY <1>3 DEF Refilled
    <2> QED
      BY <2>1, <2>2, SqueezedIs
  <1>4. CASE t.buffer = << >> /\ t.available = << >>
    <2> DEFINE empty == << >>
    <2>1. empty \in Seq(Absorbable) /\ empty \in Seq(Sent)
      BY EmptySeq
    <2>2. << empty >> \in Seq(Seq(Absorbable)) /\ FlattenSeq(<< empty >>) = empty
      BY <2>1, FlattenOne
    <2>3. Unpadded(empty) = t.buffer
      BY <1>4, <2>1, UnpaddedSent
    <2>4. Len(<< empty >>) >= 1
      OBVIOUS
    <2>5. Append(t.chain, empty) = t.chain \o << empty >>
      BY <1>2, <2>1, AppendIsConcat
    <2>6. Refilled(t) = Squeezed(t, t.chain \o << empty >>)
      BY <1>4, <2>5 DEF Refilled
    <2> HIDE DEF empty
    <2> QED
      BY <2>2, <2>3, <2>4, <2>6, SqueezedIs
  <1>5. CASE t.buffer = << >> /\ t.available # << >>
    <2>1. Refilled(t) = t
      BY <1>5 DEF Refilled
    <2>2. Later(t, t)
      BY <1>2, LenProperties DEF Later
    <2> QED
      BY <1>5, <2>1, <2>2
  <1> QED
    BY <1>3, <1>4, <1>5

\* t without the word that is taken from it.
Taken(t) == [t EXCEPT !.available = Tail(@)]

(* The word that is taken depends on all that was witnessed, and comes after all that were
   taken before. *)
LEMMA WordTaken ==
    ASSUME NEW t, NEW s, Filled(t, s), t.buffer = << >>, t.available # << >>
    PROVE  /\ Filled(Taken(t), s) /\ Later(t, Taken(t))
           /\ Head(t.available) \in AnyWord
           /\ Head(t.available)[1] \in 0 .. Len(Taken(t).chain)
           /\ UpTo(Taken(t), Head(t.available)[1]) = s
           /\ Past(Taken(t), Head(t.available))
           /\ \A w \in AnyWord : Past(t, w) => Before(w, Head(t.available))
  <1> DEFINE u == Taken(t)
             head == Head(t.available)
             rest == Tail(t.available)
  <1>1. /\ t \in Transcripts /\ s \in Seq(Sent)
        /\ Unpadded(FlattenSeq(t.chain)) \o t.buffer = s
        /\ \A k \in 1 .. Len(t.available) : t.available[k][1] = Len(t.chain)
        /\ Ordered(t.available)
    BY DEF Filled
  <1>2. t.available \in Seq(AnyWord) /\ t.chain \in Seq(Seq(Absorbable))
    BY <1>1 DEF Transcripts
  <1>3. /\ head \in AnyWord /\ head = t.available[1] /\ 1 \in 1 .. Len(t.available)
        /\ rest \in Seq(AnyWord) /\ Len(rest) = Len(t.available) - 1
        /\ \A k \in 1 .. Len(rest) : k + 1 \in 1 .. Len(t.available) /\ rest[k] = t.available[k + 1]
    BY <1>2, TailByPosition
  <1> HIDE DEF head, rest
  <1>4. u \in Transcripts /\ u.chain = t.chain /\ u.buffer = << >> /\ u.available = rest
    BY <1>1, <1>3 DEF Transcripts, Taken, rest
  <1> HIDE DEF u
  <1>5. Len(t.chain) \in Nat /\ head[1] = Len(t.chain)
    BY <1>1, <1>2, <1>3, LenProperties
  <1>6. \A k \in 1 .. Len(rest) : k \in Int /\ 1 < k + 1
    OBVIOUS
  <1>7. \A k \in 1 .. Len(rest) : rest[k][1] = Len(t.chain) /\ Before(head, rest[k])
    BY <1>1, <1>3, <1>6 DEF Ordered
  <1>8. Ordered(rest)
    <2>1. \A i, j \in 1 .. Len(rest) : i < j => i + 1 < j + 1
      OBVIOUS
    <2> QED
      BY <1>1, <1>3, <2>1 DEF Ordered
  <1>9. Filled(u, s)
    BY <1>1, <1>4, <1>7, <1>8 DEF Filled
  <1>10. Past(u, head)
    BY <1>4, <1>5, <1>7 DEF Past
  <1>11. \A w \in AnyWord : Past(t, w) => Past(u, w) /\ Before(w, head)
    BY <1>3, <1>4 DEF Past
  <1>12. Later(t, u)
    BY <1>4, <1>5, <1>11 DEF Later
  <1>13. UpTo(u, head[1]) = s
    <2>1. SubSeq(u.chain, 1, head[1]) = t.chain
      BY <1>2, <1>4, <1>5, SubSeqFull
    <2>2. Unpadded(FlattenSeq(t.chain)) = s
      <3>1. FlattenSeq(t.chain) \in Seq(Absorbable)
        BY <1>2, FlattenTogether
      <3>2. Unpadded(FlattenSeq(t.chain)) \in Seq(Absorbable)
        BY <3>1, UnpaddedTogether
      <3> QED
        BY <1>1, <3>2, ConcatEmptySeq
    <2> QED
      BY <2>1, <2>2 DEF UpTo
  <1>14. head[1] \in 0 .. Len(u.chain)
    BY <1>4, <1>5
  <1> QED
    BY <1>3, <1>9, <1>10, <1>11, <1>12, <1>13, <1>14 DEF u, head

(* One more challenge. *)
Draws(t, got, s) ==
    /\ Filled(got.t, s) /\ Later(t, got.t) /\ DrawnFrom(t, got.t, s, got.words)

LEMMA OneMoreDrawn ==
    ASSUME NEW t, NEW s, Filled(t, s), NEW got, Draws(t, got, s)
    PROVE  /\ Draws(t, GetChallenge(got), s)
           /\ Len(GetChallenge(got).words) = Len(got.words) + 1
  <1> DEFINE u == got.t
             full == Refilled(u)
             v == Taken(full)
             word == Head(full.available)
             words == got.words
  <1>1. /\ Filled(u, s) /\ Later(t, u)
        /\ words \in Seq(AnyWord) /\ Ordered(words)
        /\ \A i \in 1 .. Len(words) :
              /\ words[i][1] \in 0 .. Len(u.chain) /\ UpTo(u, words[i][1]) = s
              /\ Past(u, words[i])
              /\ \A w \in AnyWord : Past(t, w) => Before(w, words[i])
    BY DEF Draws, DrawnFrom
  <1>2. GetChallenge(got) = [t |-> v, words |-> Append(words, word)]
    BY DEF GetChallenge, TakeWord, Taken
  <1> HIDE DEF u, words
  <1>3. Filled(full, s) /\ full.buffer = << >> /\ full.available # << >> /\ Later(u, full)
    BY <1>1, RefilledIs
  <1> HIDE DEF full
  <1>4. /\ Filled(v, s) /\ Later(full, v) /\ word \in AnyWord
        /\ word[1] \in 0 .. Len(v.chain) /\ UpTo(v, word[1]) = s /\ Past(v, word)
        /\ \A w \in AnyWord : Past(full, w) => Before(w, word)
    BY <1>3, WordTaken
  <1> HIDE DEF v, word
  <1>5. /\ Len(t.chain) \in Nat /\ Len(u.chain) \in Nat /\ Len(full.chain) \in Nat
        /\ Len(v.chain) \in Nat
    BY <1>1, <1>3, <1>4, LenProperties DEF Filled, Transcripts
  <1>6. Later(u, v)
    BY <1>3, <1>4, <1>5, LaterTransitive
  <1>7. Later(t, v)
    BY <1>1, <1>5, <1>6, LaterTransitive
  <1>8. /\ Append(words, word) \in Seq(AnyWord) /\ Len(Append(words, word)) = Len(words) + 1
        /\ \A k \in 1 .. Len(words) : Append(words, word)[k] = words[k]
        /\ Append(words, word)[Len(words) + 1] = word
    BY <1>1, <1>4, AppendByPosition
  <1> DEFINE more == Append(words, word)
  <1> HIDE DEF more
  <1>9. Len(words) \in Nat /\ \A k \in 1 .. Len(words) : words[k] \in AnyWord
    BY <1>1, LenProperties, ElementOfSeq
  <1>10. \A i \in 1 .. Len(words) :
             /\ words[i][1] \in 0 .. Len(v.chain) /\ UpTo(v, words[i][1]) = s
             /\ Past(v, words[i]) /\ Before(words[i], word)
             /\ \A w \in AnyWord : Past(t, w) => Before(w, words[i])
    <2> TAKE i \in 1 .. Len(words)
    <2>1. words[i][1] \in 0 .. Len(u.chain) /\ UpTo(u, words[i][1]) = s /\ Past(u, words[i])
      BY <1>1
    <2>2. words[i] \in AnyWord
      BY <1>9
    <2>3. words[i][1] \in 0 .. Len(v.chain)
      <3>1. Len(u.chain) <= Len(v.chain)
        BY <1>6 DEF Later
      <3> QED
        BY <1>5, <2>1, <3>1
    <2>4. UpTo(v, words[i][1]) = s
      BY <1>6, <2>1 DEF Later, UpTo
    <2>5. Past(v, words[i]) /\ Past(full, words[i])
      BY <1>3, <1>6, <2>1, <2>2 DEF Later
    <2> QED
      BY <1>1, <1>4, <2>2, <2>3, <2>4, <2>5
  <1>11. \A w \in AnyWord : Past(t, w) => Before(w, word)
    <2>1. \A w \in AnyWord : Past(t, w) => Past(u, w)
      BY <1>1 DEF Later
    <2>2. \A w \in AnyWord : Past(u, w) => Past(full, w)
      BY <1>3 DEF Later
    <2> QED
      BY <1>4, <2>1, <2>2
  <1>12. \A i \in 1 .. Len(more) : i \in 1 .. Len(words) \/ i = Len(words) + 1
    BY <1>8, <1>9 DEF more
  <1>13. Ordered(more)
    <2>1. \A i, j \in 1 .. Len(more) :
              i < j => /\ i \in 1 .. Len(words)
                       /\ j \in 1 .. Len(words) \/ j = Len(words) + 1
      BY <1>8, <1>9 DEF more
    <2> QED
      BY <1>1, <1>8, <1>10, <2>1 DEF Ordered, more
  <1>14. DrawnFrom(t, v, s, more)
    BY <1>4, <1>8, <1>10, <1>11, <1>12, <1>13 DEF DrawnFrom, more
  <1> QED
    BY <1>2, <1>4, <1>7, <1>8, <1>14 DEF Draws, more, words

\* The recursion of get_multiple_challenges, for up to n words.
DrawsUpTo(t, n, g) ==
    g = [i \in 0 .. n |-> IF i = 0 THEN [t |-> t, words |-> << >>] ELSE GetChallenge(g[i - 1])]

(* It defines a function for any number of words. *)
LEMMA DrawsRecursion ==
    ASSUME NEW t, NEW m \in Nat
    PROVE  \E g : DrawsUpTo(t, m, g)
  <1> DEFINE none == [t |-> t, words |-> << >>]
             T == {n \in Nat : ~ \E g : DrawsUpTo(t, n, g)}
  <1> SUFFICES ASSUME T # {} PROVE FALSE
    OBVIOUS
  <1>1. PICK n \in T : \A k \in T : n <= k
    <2> HIDE DEF T
    <2>1. T \subseteq Nat
      BY DEF T
    <2> QED
      BY <2>1, LeastNatural
  <1>2. CASE n = 0
    <2> DEFINE h == [i \in 0 .. 0 |-> none]
    <2>1. \A i \in 0 .. 0 : i = 0
      OBVIOUS
    <2> HIDE DEF none
    <2>2. h = [i \in 0 .. 0 |-> IF i = 0 THEN none ELSE GetChallenge(h[i - 1])]
      BY <2>1
    <2>3. DrawsUpTo(t, 0, h)
      BY <2>2 DEF DrawsUpTo, none
    <2> QED
      BY <1>2, <2>3
  <1>3. CASE n # 0
    <2>1. n - 1 \in Nat /\ n \in Nat /\ n - 1 \notin T
      BY <1>1, <1>3
    <2>2. PICK g : DrawsUpTo(t, n - 1, g)
      BY <2>1
    <2> DEFINE S(f, i) == IF i = 0 THEN none ELSE GetChallenge(f[i - 1])
               h == [i \in 0 .. n |-> S(g, i)]
    <2>3. g = [i \in 0 .. n - 1 |-> S(g, i)]
      BY <2>2 DEF DrawsUpTo
    <2>4. \A i \in 0 .. n - 1 : g[i] = S(g, i) /\ i \in 0 .. n
      <3>1. \A i \in 0 .. n - 1 : i \in 0 .. n
        BY <2>1
      <3> HIDE DEF S
      <3> QED
        BY <2>3, <3>1
    <2>5. \A i \in 0 .. n - 1 : h[i] = g[i]
      <3> HIDE DEF S
      <3> QED
        BY <2>4
    <2>6. \A i \in 0 .. n : i # 0 => i - 1 \in 0 .. n - 1
      BY <2>1
    <2>7. \A i \in 0 .. n : S(h, i) = S(g, i)
      <3> HIDE DEF h, none
      <3> QED
        BY <2>5, <2>6
    <2>8. h = [i \in 0 .. n |-> S(h, i)]
      <3> HIDE DEF S
      <3> QED
        BY <2>7
    <2>9. DrawsUpTo(t, n, h)
      <3> HIDE DEF h
      <3> QED
        BY <2>8 DEF DrawsUpTo
    <2> HIDE DEF h
    <2> QED
      BY <1>1, <2>9
  <1> QED
    BY <1>2, <1>3

(* Several challenges: every word depends on all that was witnessed, and comes after the words
   before it. *)
LEMMA ChallengesDrawn ==
    ASSUME NEW t, NEW s, Filled(t, s), NEW n \in Nat
    PROVE  Draws(t, GetChallenges(t, n), s) /\ Len(GetChallenges(t, n).words) = n
  <1> DEFINE none == [t |-> t, words |-> << >>]
  <1>1. PICK g : DrawsUpTo(t, n, g) /\ GetChallenges(t, n) = g[n]
    <2>1. \E g : DrawsUpTo(t, n, g)
      BY DrawsRecursion
    <2> QED
      BY <2>1 DEF GetChallenges, DrawsUpTo
  <1>2. \A i \in 0 .. n : g[i] = IF i = 0 THEN none ELSE GetChallenge(g[i - 1])
    BY <1>1 DEF DrawsUpTo
  <1>3. Draws(t, none, s) /\ Len(none.words) = 0
    <2>1. none.t = t /\ none.words = << >>
      OBVIOUS
    <2> HIDE DEF none
    <2>2. Later(t, t)
      BY LenProperties DEF Later, Filled, Transcripts
    <2>3. DrawnFrom(t, t, s, << >>)
      BY EmptySeq DEF DrawnFrom, Ordered
    <2> QED
      BY <2>1, <2>2, <2>3, EmptySeq DEF Draws
  <1> HIDE DEF none
  <1> DEFINE T == {i \in 0 .. n : ~ (Draws(t, g[i], s) /\ Len(g[i].words) = i)}
  <1>4. ASSUME T # {} PROVE FALSE
    <2>1. PICK i \in T : \A k \in T : i <= k
      <3>1. T \subseteq Nat
        OBVIOUS
      <3> HIDE DEF T
      <3> QED
        BY <1>4, <3>1, LeastNatural
    <2>2. i \in 0 .. n /\ ~ (Draws(t, g[i], s) /\ Len(g[i].words) = i)
      OBVIOUS
    <2>3. i # 0
      BY <1>2, <1>3, <2>2
    <2>4. i - 1 \in 0 .. n /\ ~ (i <= i - 1)
      BY <2>2, <2>3
    <2>5. Draws(t, g[i - 1], s) /\ Len(g[i - 1].words) = i - 1
      BY <2>1, <2>4
    <2>6. /\ Draws(t, GetChallenge(g[i - 1]), s)
          /\ Len(GetChallenge(g[i - 1]).words) = (i - 1) + 1
      BY <2>5, OneMoreDrawn
    <2>7. g[i] = GetChallenge(g[i - 1]) /\ (i - 1) + 1 = i
      BY <1>2, <2>2, <2>3
    <2> QED
      BY <2>2, <2>6, <2>7
  <1>5. n \in 0 .. n
    OBVIOUS
  <1> QED
    BY <1>1, <1>4, <1>5

-----------------------------------------------------------------------------
(* The bits of the words *)

AnyBit == AnyWord \X Nat

(* Words in order are all different. *)
LEMMA OrderedApart ==
    ASSUME NEW words \in Seq(AnyWord), Ordered(words)
    PROVE  /\ \A i, j \in 1 .. Len(words) : words[i] = words[j] => i = j
           /\ IsInjective(words)
  <1>1. \A i \in 1 .. Len(words) : words[i] \in AnyWord
    BY ElementOfSeq
  <1>2. DOMAIN words = 1 .. Len(words) /\ Len(words) \in Nat
    BY LenProperties
  <1>3. \A v \in AnyWord : ~Before(v, v)
    BY DEF AnyWord, Before
  <1>4. \A i, j \in 1 .. Len(words) : words[i] = words[j] => i = j
    <2> SUFFICES ASSUME NEW i \in 1 .. Len(words), NEW j \in 1 .. Len(words),
                        words[i] = words[j], i # j
                 PROVE  FALSE
      OBVIOUS
    <2>1. i < j \/ j < i
      BY <1>2
    <2>2. Before(words[i], words[j]) \/ Before(words[j], words[i])
      BY <2>1 DEF Ordered
    <2> QED
      BY <1>1, <1>3, <2>2
  <1> QED
    BY <1>2, <1>4 DEF IsInjective

(* Every word gives as many bits, all different. *)
LEMMA BitsApart ==
    ASSUME NEW words \in Seq(AnyWord), Ordered(words), NEW w \in Nat \ {0}
    PROVE  /\ BitsOf(words, w) \in Seq(AnyBit) /\ Len(BitsOf(words, w)) = Len(words) * w
           /\ \A b \in 1 .. Len(words) * w :
                 \E k \in 1 .. Len(words) : BitsOf(words, w)[b][1] = words[k]
           /\ \A b, d \in 1 .. Len(words) * w :
                 BitsOf(words, w)[b] = BitsOf(words, w)[d] => b = d
  <1> DEFINE n == Len(words) * w
             At(b) == (b - 1) \div w
             In(b) == (b - 1) % w
             f == [b \in 1 .. n |-> << words[At(b) + 1], In(b) >>]
  <1>1. Len(words) \in Nat /\ \A i \in 1 .. Len(words) : words[i] \in AnyWord
    BY LenProperties, ElementOfSeq
  <1>2. n \in Nat
    BY <1>1
  <1>3. \A b \in 1 .. n : /\ At(b) \in Nat /\ At(b) + 1 \in 1 .. Len(words)
                          /\ In(b) \in Nat /\ b - 1 = (At(b) * w) + In(b)
    <2> TAKE b \in 1 .. n
    <2>1. b - 1 \in Nat /\ b - 1 < Len(words) * w
      BY <1>2
    <2>2. At(b) \in Nat /\ In(b) \in 0 .. w - 1 /\ b - 1 = (At(b) * w) + In(b)
      BY <2>1, Division
    <2>3. At(b) < Len(words)
      BY <1>1, <2>1, QuotientBound
    <2> HIDE DEF At, In
    <2>4. At(b) + 1 \in 1 .. Len(words)
      BY <1>1, <2>2, <2>3
    <2> QED
      BY <2>2, <2>4
  <1>4. BitsOf(words, w) = f
    BY DEF BitsOf
  <1> HIDE DEF n, At, In
  <1>5. f \in [1 .. n -> AnyBit]
    BY <1>1, <1>3 DEF AnyBit
  <1>6. \A b \in 1 .. n : f[b] = << words[At(b) + 1], In(b) >>
    OBVIOUS
  <1> HIDE DEF f
  <1>7. f \in Seq(AnyBit) /\ Len(f) = n
    BY <1>2, <1>5
  <1>8. \A b \in 1 .. n : \E k \in 1 .. Len(words) : f[b][1] = words[k]
    <2> TAKE b \in 1 .. n
    <2>1. f[b][1] = words[At(b) + 1]
      BY <1>6
    <2>2. At(b) + 1 \in 1 .. Len(words)
      BY <1>3
    <2> QED
      BY <2>1, <2>2
  <1>9. \A b, d \in 1 .. n : f[b] = f[d] => b = d
    <2> SUFFICES ASSUME NEW b \in 1 .. n, NEW d \in 1 .. n, f[b] = f[d]
                 PROVE  b = d
      OBVIOUS
    <2>1. words[At(b) + 1] = words[At(d) + 1] /\ In(b) = In(d)
      BY <1>6
    <2>2. At(b) + 1 = At(d) + 1
      BY <1>3, <2>1, OrderedApart
    <2>3. At(b) = At(d)
      BY SMTT(30), <1>3, <2>2
    <2>4. b - 1 = d - 1
      BY <1>3, <2>1, <2>3
    <2> QED
      BY <2>4
  <1> QED
    BY <1>4, <1>7, <1>8, <1>9 DEF n

\* The words that a list of challenges took.
WordsOf(drawn) == FlattenSeq([i \in 1 .. Len(drawn) |-> drawn[i].words])

ChallengeNames == {"beta", "gamma", "lookup_beta", "lookup_gamma", "alpha", "z", "deep", "fri",
                   "pow", "query"}

Drawings == [name : ChallengeNames, words : Seq(AnyWord), sent : Nat]

(* The words of one challenge more. *)
LEMMA WordsTogether ==
    ASSUME NEW drawn \in Seq(Drawings), NEW d \in Drawings
    PROVE  WordsOf(drawn) \in Seq(AnyWord) /\ WordsOf(Append(drawn, d)) = WordsOf(drawn) \o d.words
  <1> DEFINE Lists(ds) == [i \in 1 .. Len(ds) |-> ds[i].words]
             n == Len(drawn)
             more == Append(drawn, d)
  <1>1. \A ds \in Seq(Drawings) : /\ Lists(ds) \in Seq(Seq(AnyWord)) /\ Len(Lists(ds)) = Len(ds)
                                  /\ \A i \in 1 .. Len(ds) : Lists(ds)[i] = ds[i].words
    <2> TAKE ds \in Seq(Drawings)
    <2>1. Len(ds) \in Nat /\ \A i \in 1 .. Len(ds) : ds[i].words \in Seq(AnyWord)
      <3>1. Len(ds) \in Nat /\ \A i \in 1 .. Len(ds) : ds[i] \in Drawings
        BY LenProperties, ElementOfSeq
      <3>2. \A x \in Drawings : x.words \in Seq(AnyWord)
        BY DEF Drawings
      <3> QED
        BY <3>1, <3>2
    <2> DEFINE m == Len(ds)
               f == Lists(ds)
    <2>2. f = [i \in 1 .. m |-> ds[i].words]
      OBVIOUS
    <2> HIDE DEF Lists, m, f
    <2>3. f \in [1 .. m -> Seq(AnyWord)]
      BY <2>1, <2>2 DEF m
    <2>4. f \in Seq(Seq(AnyWord)) /\ Len(f) = m
      BY <2>1, <2>3 DEF m
    <2>5. \A i \in 1 .. m : f[i] = ds[i].words
      BY <2>2
    <2> QED
      BY <2>4, <2>5 DEF f, m
  <1>2. /\ more \in Seq(Drawings) /\ Len(more) = n + 1
        /\ \A k \in 1 .. n : more[k] = drawn[k]
        /\ more[n + 1] = d
    BY AppendByPosition
  <1>3. \A ds : WordsOf(ds) = FlattenSeq(Lists(ds))
    BY DEF WordsOf
  <1>4. n \in Nat
    BY LenProperties
  <1>5. d.words \in Seq(AnyWord)
    BY DEF Drawings
  <1> HIDE DEF Lists, more, n
  <1>6. /\ Lists(more) \in Seq(Seq(AnyWord)) /\ Len(Lists(more)) = n + 1
        /\ \A i \in 1 .. n + 1 : Lists(more)[i] = more[i].words
    BY <1>1, <1>2
  <1>7. /\ Lists(drawn) \in Seq(Seq(AnyWord)) /\ Len(Lists(drawn)) = n
        /\ \A i \in 1 .. n : Lists(drawn)[i] = drawn[i].words
    BY <1>1 DEF n
  <1> DEFINE joined == Lists(drawn) \o << d.words >>
  <1>8. << d.words >> \in Seq(Seq(AnyWord)) /\ FlattenSeq(<< d.words >>) = d.words
    BY <1>5, FlattenOne
  <1>9. Len(<< d.words >>) = 1 /\ << d.words >>[1] = d.words
    OBVIOUS
  <1>10. /\ joined \in Seq(Seq(AnyWord)) /\ Len(joined) = n + 1
         /\ \A i \in 1 .. n + 1 :
               joined[i] = IF i <= n THEN Lists(drawn)[i] ELSE << d.words >>[i - n]
    BY <1>7, <1>8, <1>9, ConcatProperties
  <1> HIDE DEF joined
  <1>11. \A i \in 1 .. n + 1 : Lists(more)[i] = joined[i]
    <2> TAKE i \in 1 .. n + 1
    <2>1. CASE i \in 1 .. n
      <3>1. i <= n
        BY <1>4, <2>1
      <3>2. joined[i] = Lists(drawn)[i]
        BY <1>10, <3>1
      <3>3. Lists(drawn)[i] = drawn[i].words /\ Lists(more)[i] = more[i].words
        BY <1>6, <1>7, <2>1
      <3>4. more[i] = drawn[i]
        BY <1>2, <2>1
      <3> QED
        BY <3>2, <3>3, <3>4
    <2>2. CASE i = n + 1
      <3>1. ~ (i <= n) /\ i - n = 1
        BY <1>4, <2>2
      <3> QED
        BY <1>2, <1>6, <1>9, <1>10, <2>2, <3>1
    <2> QED
      BY <1>4, <2>1, <2>2
  <1>12. Lists(more) = joined
    BY <1>6, <1>10, <1>11, SeqEqual
  <1>13. /\ FlattenSeq(Lists(drawn)) \in Seq(AnyWord)
         /\ FlattenSeq(joined) = FlattenSeq(Lists(drawn)) \o FlattenSeq(<< d.words >>)
    BY <1>7, <1>8, FlattenTogether DEF joined
  <1> QED
    BY <1>3, <1>8, <1>12, <1>13 DEF more

-----------------------------------------------------------------------------
(* A party between its steps *)

\* The bit is of a word that was drawn.
Used(drawn, bit) == \E k \in 1 .. Len(WordsOf(drawn)) : bit[1] = WordsOf(drawn)[k]

\* A challenge depends on what had been witnessed.
Binds(t, sent, d) ==
    /\ d.sent \in 0 .. Len(sent)
    /\ \A k \in 1 .. Len(d.words) : /\ d.words[k][1] \in 0 .. Len(t.chain)
                                    /\ UpTo(t, d.words[k][1]) = Take(sent, d.sent)

\* The challenges were drawn from t, and some of them left bits.
DrawnSoFar(t, sent, drawn) ==
    /\ drawn \in Seq(Drawings)
    /\ \A i \in 1 .. Len(drawn) : Binds(t, sent, drawn[i])
    /\ Ordered(WordsOf(drawn))
    /\ \A k \in 1 .. Len(WordsOf(drawn)) : Past(t, WordsOf(drawn)[k])

AllApart(bits) == \A a, b \in 1 .. Len(bits) : bits[a] = bits[b] => a = b

BitsLeft(drawn, bits) ==
    /\ bits \in Seq(AnyBit) /\ AllApart(bits)
    /\ \A a \in 1 .. Len(bits) : Used(drawn, bits[a])

(* Witnessing more changes nothing of the challenges that were drawn. *)
LEMMA WitnessedMore ==
    ASSUME NEW t, NEW s, Filled(t, s), NEW drawn, DrawnSoFar(t, s, drawn), NEW e \in Seq(Sent)
    PROVE  /\ Filled(WitnessElements(t, e), s \o e)
           /\ DrawnSoFar(WitnessElements(t, e), s \o e, drawn)
  <1> DEFINE u == WitnessElements(t, e)
  <1>1. /\ t \in Transcripts /\ s \in Seq(Sent)
        /\ Unpadded(FlattenSeq(t.chain)) \o t.buffer = s
        /\ \A k \in 1 .. Len(t.available) : t.available[k][1] = Len(t.chain)
        /\ Ordered(t.available)
    BY DEF Filled
  <1>2. t.buffer \in Seq(Sent) /\ t.chain \in Seq(Seq(Absorbable))
    BY <1>1 DEF Transcripts
  <1>3. t.buffer \o e \in Seq(Sent) /\ s \o e \in Seq(Sent) /\ Len(s \o e) = Len(s) + Len(e)
    BY <1>1, <1>2, ConcatProperties
  <1>4. /\ u \in Transcripts /\ u.chain = t.chain /\ u.available = t.available
        /\ u.buffer = t.buffer \o e
    BY <1>1, <1>3 DEF Transcripts, WitnessElements
  <1> HIDE DEF u
  <1>5. Unpadded(FlattenSeq(t.chain)) \o (t.buffer \o e) = s \o e
    <2>1. FlattenSeq(t.chain) \in Seq(Absorbable)
      BY <1>2, FlattenTogether
    <2>2. Unpadded(FlattenSeq(t.chain)) \in Seq(Absorbable)
      BY <2>1, UnpaddedTogether
    <2>3. t.buffer \in Seq(Absorbable) /\ e \in Seq(Absorbable)
      BY <1>2, UnpaddedSent
    <2>4. (Unpadded(FlattenSeq(t.chain)) \o t.buffer) \o e
          = Unpadded(FlattenSeq(t.chain)) \o (t.buffer \o e)
      <3>1. \A a, b, c \in Seq(Absorbable) : (a \o b) \o c = a \o (b \o c)
        BY ConcatAssociative
      <3>2. PICK a \in Seq(Absorbable) : a = Unpadded(FlattenSeq(t.chain))
        BY <2>2
      <3>3. (a \o t.buffer) \o e = a \o (t.buffer \o e)
        BY <2>3, <3>1
      <3> QED
        BY <3>2, <3>3
    <2> QED
      BY <1>1, <2>4
  <1>6. Filled(u, s \o e)
    BY <1>1, <1>3, <1>4, <1>5 DEF Filled
  <1>7. Len(s) \in Nat /\ Len(e) \in Nat
    BY <1>1, LenProperties
  <1>8. \A n \in 0 .. Len(s) : n \in 0 .. Len(s \o e) /\ Take(s \o e, n) = Take(s, n)
    <2> TAKE n \in 0 .. Len(s)
    <2>1. n \in 0 .. Len(s \o e)
      BY <1>3, <1>7
    <2>2. CASE n = 0
      BY <2>1, <2>2, SubSeqEmpty DEF Take
    <2>3. CASE n # 0
      <3>1. 1 \in 1 .. Len(s) /\ n \in 1 .. Len(s)
        BY <1>7, <2>3
      <3>2. SubSeq(s \o e, 1, n) = SubSeq(s, 1, n)
        BY <1>1, <3>1, SubSeqOfConcat1
      <3> QED
        BY <2>1, <3>2 DEF Take
    <2> QED
      BY <2>2, <2>3
  <1>9. \A d : Binds(t, s, d) => Binds(u, s \o e, d)
    BY <1>4, <1>8 DEF Binds, UpTo
  <1>10. \A w : Past(t, w) => Past(u, w)
    BY <1>4 DEF Past
  <1>11. DrawnSoFar(u, s \o e, drawn)
    BY <1>9, <1>10 DEF DrawnSoFar
  <1> QED
    BY <1>6, <1>11 DEF u

\* A challenge of these words, drawn when s had been witnessed.
Challenge(name, words, s) == [name |-> name, words |-> words, sent |-> Len(s)]

\* After a challenge more, with words that were not drawn before.
DrawnMore(t, s, drawn, words, more) ==
    /\ Filled(t, s) /\ DrawnSoFar(t, s, more)
    /\ WordsOf(more) = WordsOf(drawn) \o words
    /\ WordsOf(drawn) \in Seq(AnyWord) /\ words \in Seq(AnyWord) /\ Ordered(words)
    /\ \A i \in 1 .. Len(WordsOf(drawn)) : \A j \in 1 .. Len(words) :
          WordsOf(drawn)[i] # words[j]

(* One challenge more. *)
LEMMA ChallengeDrawn ==
    ASSUME NEW t, NEW s, Filled(t, s), NEW drawn, DrawnSoFar(t, s, drawn),
           NEW got, Draws(t, got, s), NEW name \in ChallengeNames
    PROVE  DrawnMore(got.t, s, drawn, got.words, Append(drawn, Challenge(name, got.words, s)))
  <1> DEFINE u == got.t
             words == got.words
             d == Challenge(name, words, s)
             more == Append(drawn, d)
             old == WordsOf(drawn)
  <1>1. /\ Filled(u, s) /\ Later(t, u)
        /\ words \in Seq(AnyWord) /\ Ordered(words)
        /\ \A i \in 1 .. Len(words) :
              /\ words[i][1] \in 0 .. Len(u.chain) /\ UpTo(u, words[i][1]) = s
              /\ Past(u, words[i])
              /\ \A w \in AnyWord : Past(t, w) => Before(w, words[i])
    BY DEF Draws, DrawnFrom
  <1>2. /\ drawn \in Seq(Drawings) /\ \A i \in 1 .. Len(drawn) : Binds(t, s, drawn[i])
        /\ Ordered(old) /\ \A k \in 1 .. Len(old) : Past(t, old[k])
    BY DEF DrawnSoFar
  <1> HIDE DEF u, words
  <1>3. s \in Seq(Sent) /\ Len(s) \in Nat
    BY <1>1, LenProperties DEF Filled
  <1>4. d \in Drawings /\ d.words = words /\ d.sent = Len(s)
    BY <1>1, <1>3 DEF Challenge, Drawings
  <1> HIDE DEF d
  <1>5. old \in Seq(AnyWord) /\ WordsOf(more) = old \o words
    BY <1>2, <1>4, WordsTogether
  <1> HIDE DEF old
  <1>6. /\ more \in Seq(Drawings) /\ Len(more) = Len(drawn) + 1
        /\ \A i \in 1 .. Len(drawn) : more[i] = drawn[i]
        /\ more[Len(drawn) + 1] = d
    BY <1>2, <1>4, AppendByPosition
  <1> HIDE DEF more
  <1>7. Len(t.chain) \in Nat /\ Len(u.chain) \in Nat
    BY <1>1, LenProperties DEF Filled, Transcripts
  <1>8. \A n \in 0 .. Len(t.chain) : n \in 0 .. Len(u.chain) /\ UpTo(u, n) = UpTo(t, n)
    <2>1. \A n \in 0 .. Len(t.chain) : SubSeq(u.chain, 1, n) = SubSeq(t.chain, 1, n)
      BY <1>1 DEF Later
    <2>2. Len(t.chain) <= Len(u.chain)
      BY <1>1 DEF Later
    <2>3. \A n \in 0 .. Len(t.chain) : n \in 0 .. Len(u.chain)
      BY <1>7, <2>2
    <2> QED
      BY <2>1, <2>3 DEF UpTo
  <1>9. \A x : Binds(t, s, x) => Binds(u, s, x)
    BY <1>8 DEF Binds
  <1>10. Binds(u, s, d)
    <2>1. Take(s, Len(s)) = s
      BY <1>3, SubSeqFull DEF Take
    <2>2. Len(s) \in 0 .. Len(s)
      BY <1>3
    <2> QED
      BY <1>1, <1>4, <2>1, <2>2 DEF Binds
  <1>11. \A i \in 1 .. Len(more) : Binds(u, s, more[i])
    <2>1. Len(drawn) \in Nat
      BY <1>2, LenProperties
    <2>2. \A i \in 1 .. Len(more) : i \in 1 .. Len(drawn) \/ i = Len(drawn) + 1
      BY <1>6, <2>1
    <2> QED
      BY <1>2, <1>6, <1>9, <1>10, <2>2
  <1>12. \A i \in 1 .. Len(old) : /\ old[i] \in AnyWord /\ Past(u, old[i])
                                  /\ \A j \in 1 .. Len(words) : Before(old[i], words[j])
    <2> TAKE i \in 1 .. Len(old)
    <2>1. old[i] \in AnyWord /\ Past(t, old[i])
      BY <1>2, <1>5, ElementOfSeq
    <2> QED
      BY <1>1, <2>1 DEF Later
  <1>13. \A v, w \in AnyWord : Before(v, w) => v # w
    BY DEF AnyWord, Before
  <1>14. \A j \in 1 .. Len(words) : words[j] \in AnyWord
    BY <1>1, ElementOfSeq
  <1>15. Len(old) \in Nat /\ Len(words) \in Nat
    BY <1>1, <1>5, LenProperties
  <1> DEFINE all == old \o words
  <1>16. /\ all \in Seq(AnyWord) /\ Len(all) = Len(old) + Len(words)
         /\ \A i \in 1 .. Len(old) + Len(words) :
               all[i] = IF i <= Len(old) THEN old[i] ELSE words[i - Len(old)]
    BY <1>1, <1>5, ConcatProperties
  <1> HIDE DEF all
  <1>17. \A i \in 1 .. Len(all) :
            \/ i \in 1 .. Len(old) /\ all[i] = old[i]
            \/ i - Len(old) \in 1 .. Len(words) /\ all[i] = words[i - Len(old)]
    <2>1. \A i \in 1 .. Len(all) : IF i <= Len(old) THEN i \in 1 .. Len(old)
                                   ELSE i - Len(old) \in 1 .. Len(words)
      BY <1>15, <1>16
    <2> QED
      BY <1>16, <2>1
  <1>18. \A k \in 1 .. Len(all) : Past(u, all[k])
    BY <1>1, <1>12, <1>17
  <1>19. Ordered(all)
    <2> SUFFICES ASSUME NEW i \in 1 .. Len(all), NEW j \in 1 .. Len(all), i < j
                 PROVE  Before(all[i], all[j])
      BY DEF Ordered
    <2>1. i - Len(old) < j - Len(old) /\ (j \in 1 .. Len(old) => i <= Len(old))
      BY <1>15, <1>16
    <2>2. \A a, b \in 1 .. Len(old) : a < b => Before(old[a], old[b])
      BY <1>2 DEF Ordered
    <2>3. \A a, b \in 1 .. Len(words) : a < b => Before(words[a], words[b])
      BY <1>1 DEF Ordered
    <2>4. CASE j \in 1 .. Len(old)
      <3>1. i \in 1 .. Len(old)
        BY <1>15, <2>1, <2>4
      <3> QED
        BY <1>15, <1>16, <2>2, <2>4, <3>1
    <2>5. CASE ~ (j \in 1 .. Len(old)) /\ i \in 1 .. Len(old)
      <3>1. j - Len(old) \in 1 .. Len(words) /\ all[j] = words[j - Len(old)]
        BY <1>17, <2>5
      <3>2. all[i] = old[i]
        BY <1>15, <1>16, <2>5
      <3> QED
        BY <1>12, <2>5, <3>1, <3>2
    <2>6. CASE ~ (j \in 1 .. Len(old)) /\ ~ (i \in 1 .. Len(old))
      <3>1. /\ j - Len(old) \in 1 .. Len(words) /\ all[j] = words[j - Len(old)]
            /\ i - Len(old) \in 1 .. Len(words) /\ all[i] = words[i - Len(old)]
        BY <1>17, <2>6
      <3> QED
        BY <2>1, <2>3, <3>1
    <2> QED
      BY <2>4, <2>5, <2>6
  <1>20. DrawnSoFar(u, s, more)
    BY <1>5, <1>6, <1>11, <1>18, <1>19 DEF DrawnSoFar, all
  <1>21. \A i \in 1 .. Len(old) : \A j \in 1 .. Len(words) : old[i] # words[j]
    BY <1>12, <1>13, <1>14
  <1> QED
    BY <1>1, <1>5, <1>20, <1>21 DEF DrawnMore, u, words, d, more, old

(* Bits are taken off the front of those that were left and of those of new words: none is
   given twice, and those that are left have not been given. *)
LEMMA BitsGiven ==
    ASSUME NEW t, NEW s, Filled(t, s), NEW drawn, DrawnSoFar(t, s, drawn),
           NEW bits, BitsLeft(drawn, bits),
           NEW max, NEW n \in Nat, BitsPerWord(t, max) \in Nat \ {0}
    PROVE  LET got  == GetBits(t, bits, max, n)
               more == Append(drawn, Challenge("query", got.words, s))
           IN  /\ Filled(got.t, s) /\ DrawnSoFar(got.t, s, more) /\ BitsLeft(more, got.left)
               /\ got.bits \in Seq(AnyBit) /\ Len(got.bits) = n
               /\ \A x \in AnyBit : Used(drawn, x) => Used(more, x)
               /\ \A a \in 1 .. n : /\ Used(more, got.bits[a])
                                    /\ \A b \in 1 .. Len(got.left) : got.bits[a] # got.left[b]
               /\ \A x \in AnyBit :
                     Used(drawn, x) /\ (\A a \in 1 .. Len(bits) : x # bits[a])
                     => /\ \A a \in 1 .. n : x # got.bits[a]
                        /\ \A b \in 1 .. Len(got.left) : x # got.left[b]
  <1> DEFINE w == BitsPerWord(t, max)
             m == WordsNeeded(n - Len(bits), w)
             ch == GetChallenges(t, m)
             new == BitsOf(ch.words, w)
             all == bits \o new
             got == GetBits(t, bits, max, n)
             more == Append(drawn, Challenge("query", ch.words, s))
             old == WordsOf(drawn)
  <1>1. w \in Nat /\ w # 0
    OBVIOUS
  <1>2. /\ bits \in Seq(AnyBit) /\ AllApart(bits) /\ Len(bits) \in Nat
        /\ \A a \in 1 .. Len(bits) : Used(drawn, bits[a])
    BY LenProperties DEF BitsLeft
  <1> HIDE DEF w
  <1>3. m \in Nat /\ m * w >= n - Len(bits)
    <2>1. CASE n - Len(bits) <= 0
      <3>1. m = 0
        BY <2>1 DEF WordsNeeded
      <3>2. 0 * w = 0
        BY <1>1
      <3> QED
        BY <1>2, <2>1, <3>1, <3>2
    <2>2. CASE ~ (n - Len(bits) <= 0)
      <3> DEFINE a == n - Len(bits)
      <3>1. a \in Nat
        BY <1>2, <2>2
      <3>2. m = (a + w - 1) \div w
        BY <2>2 DEF WordsNeeded
      <3> HIDE DEF a
      <3>3. m \in Nat /\ m * w >= a
        BY <1>1, <3>1, <3>2, RoundedUp
      <3> QED
        BY <3>3 DEF a
    <2> QED
      BY <2>1, <2>2
  <1>4. got = [t |-> ch.t, words |-> ch.words, bits |-> SubSeq(all, 1, n),
               left |-> SubSeq(all, n + 1, Len(all))]
    BY DEF GetBits, GiveBits, w
  <1> HIDE DEF m, got
  <1>5. Draws(t, ch, s) /\ Len(ch.words) = m
    BY <1>3, ChallengesDrawn
  <1> HIDE DEF ch
  <1>6. /\ Filled(ch.t, s) /\ DrawnSoFar(ch.t, s, more) /\ WordsOf(more) = old \o ch.words
        /\ old \in Seq(AnyWord) /\ ch.words \in Seq(AnyWord) /\ Ordered(ch.words)
        /\ \A i \in 1 .. Len(old) : \A j \in 1 .. Len(ch.words) : old[i] # ch.words[j]
    <2>1. "query" \in ChallengeNames
      BY DEF ChallengeNames
    <2>2. DrawnMore(ch.t, s, drawn, ch.words, more)
      BY <1>5, <2>1, ChallengeDrawn
    <2> HIDE DEF more
    <2> QED
      BY <2>2 DEF DrawnMore
  <1>7. /\ new \in Seq(AnyBit) /\ Len(new) = m * w
        /\ \A b \in 1 .. m * w : \E k \in 1 .. Len(ch.words) : new[b][1] = ch.words[k]
        /\ \A b, d \in 1 .. m * w : new[b] = new[d] => b = d
    BY <1>1, <1>5, <1>6, BitsApart
  <1> HIDE DEF new, more, old
  <1>8. Len(old) \in Nat /\ Len(ch.words) \in Nat
    BY <1>6, LenProperties
  <1>9. /\ Len(WordsOf(more)) = Len(old) + Len(ch.words)
        /\ \A k \in 1 .. Len(old) : k \in 1 .. Len(WordsOf(more)) /\ WordsOf(more)[k] = old[k]
        /\ \A k \in 1 .. Len(ch.words) : /\ k + Len(old) \in 1 .. Len(WordsOf(more))
                                         /\ WordsOf(more)[k + Len(old)] = ch.words[k]
    <2> DEFINE joined == old \o ch.words
    <2>1. /\ Len(joined) = Len(old) + Len(ch.words)
          /\ \A i \in 1 .. Len(old) + Len(ch.words) :
                joined[i] = IF i <= Len(old) THEN old[i] ELSE ch.words[i - Len(old)]
      BY <1>6, ConcatProperties
    <2> HIDE DEF joined
    <2>2. \A k \in 1 .. Len(old) : k \in 1 .. Len(joined) /\ joined[k] = old[k]
      BY <1>8, <2>1
    <2>3. \A k \in 1 .. Len(ch.words) : /\ k + Len(old) \in 1 .. Len(joined)
                                        /\ ~ (k + Len(old) <= Len(old))
                                        /\ (k + Len(old)) - Len(old) = k
      BY <1>8, <2>1
    <2>4. \A k \in 1 .. Len(ch.words) : joined[k + Len(old)] = ch.words[k]
      BY <2>1, <2>3
    <2> QED
      BY <1>6, <2>1, <2>2, <2>3, <2>4 DEF joined
  <1>10. \A x : Used(drawn, x) => Used(more, x)
    BY <1>9 DEF Used, old
  <1>11. \A b \in 1 .. Len(new) : Used(more, new[b])
    BY <1>7, <1>9 DEF Used
  <1>12. \A x : Used(drawn, x) => \A b \in 1 .. Len(new) : x # new[b]
    BY <1>6, <1>7 DEF Used, old
  <1>13. /\ all \in Seq(AnyBit) /\ Len(all) = Len(bits) + Len(new)
         /\ \A i \in 1 .. Len(bits) + Len(new) :
               all[i] = IF i <= Len(bits) THEN bits[i] ELSE new[i - Len(bits)]
    <2>1. bits \in Seq(AnyBit) /\ new \in Seq(AnyBit)
      BY <1>2, <1>7
    <2> QED
      BY <2>1, ConcatProperties
  <1>14. Len(new) \in Nat /\ Len(all) \in Nat /\ n <= Len(all)
    <2>1. Len(new) \in Nat
      BY <1>7, LenProperties
    <2>2. Len(new) >= n - Len(bits)
      BY <1>3, <1>7
    <2> HIDE DEF all
    <2> QED
      BY <1>2, <1>13, <2>1, <2>2
  <1> HIDE DEF all
  <1>15. \A i \in 1 .. Len(all) : \/ i \in 1 .. Len(bits) /\ all[i] = bits[i]
                                  \/ /\ ~ (i <= Len(bits)) /\ i - Len(bits) \in 1 .. Len(new)
                                     /\ all[i] = new[i - Len(bits)]
    <2>1. \A i \in 1 .. Len(all) : IF i <= Len(bits) THEN i \in 1 .. Len(bits)
                                   ELSE i - Len(bits) \in 1 .. Len(new)
      BY <1>2, <1>13, <1>14
    <2> QED
      BY <1>13, <2>1
  <1>16. \A i \in 1 .. Len(all) : Used(more, all[i])
    BY <1>2, <1>10, <1>11, <1>15
  <1>17. \A i, j \in 1 .. Len(all) : all[i] = all[j] => i = j
    <2> SUFFICES ASSUME NEW i \in 1 .. Len(all), NEW j \in 1 .. Len(all), all[i] = all[j]
                 PROVE  i = j
      OBVIOUS
    <2>1. CASE i \in 1 .. Len(bits) /\ j \in 1 .. Len(bits)
      <3>1. all[i] = bits[i] /\ all[j] = bits[j]
        BY <1>2, <1>15, <2>1
      <3> QED
        BY <1>2, <2>1, <3>1 DEF AllApart
    <2>2. CASE ~ (i \in 1 .. Len(bits)) /\ ~ (j \in 1 .. Len(bits))
      <3>1. /\ i - Len(bits) \in 1 .. Len(new) /\ all[i] = new[i - Len(bits)]
            /\ j - Len(bits) \in 1 .. Len(new) /\ all[j] = new[j - Len(bits)]
        BY <1>15, <2>2
      <3>2. i - Len(bits) = j - Len(bits)
        BY <1>7, <3>1
      <3> QED
        BY <1>2, <3>2
    <2>3. CASE i \in 1 .. Len(bits) /\ ~ (j \in 1 .. Len(bits))
      <3>1. all[i] = bits[i] /\ j - Len(bits) \in 1 .. Len(new) /\ all[j] = new[j - Len(bits)]
        BY <1>2, <1>15, <2>3
      <3> QED
        BY <1>2, <1>12, <2>3, <3>1
    <2>4. CASE ~ (i \in 1 .. Len(bits)) /\ j \in 1 .. Len(bits)
      <3>1. all[j] = bits[j] /\ i - Len(bits) \in 1 .. Len(new) /\ all[i] = new[i - Len(bits)]
        BY <1>2, <1>15, <2>4
      <3> QED
        BY <1>2, <1>12, <2>4, <3>1
    <2> QED
      BY <2>1, <2>2, <2>3, <2>4
  <1> DEFINE give == SubSeq(all, 1, n)
             left == SubSeq(all, n + 1, Len(all))
  <1>18. /\ give \in Seq(AnyBit) /\ Len(give) = n
         /\ \A a \in 1 .. n : a \in 1 .. Len(all) /\ give[a] = all[a]
    <2>1. \A i \in 1 .. n : i \in 1 .. Len(all) /\ all[i] \in AnyBit
      BY <1>13, <1>14, ElementOfSeq
    <2>2. 1 \in Int /\ n \in Int /\ n - 1 + 1 = n /\ (~ (1 <= n) => n = 0)
      OBVIOUS
    <2>3. /\ give \in Seq(AnyBit) /\ Len(give) = IF 1 <= n THEN n - 1 + 1 ELSE 0
          /\ \A i \in 1 .. n - 1 + 1 : give[i] = all[1 + i - 1]
      BY <2>1, <2>2, SubSeqProperties
    <2>4. \A i \in 1 .. n : 1 + i - 1 = i
      BY SMTT(30)
    <2> HIDE DEF give
    <2> QED
      BY <2>1, <2>2, <2>3, <2>4
  <1>19. /\ left \in Seq(AnyBit) /\ Len(left) = Len(all) - n
         /\ \A a \in 1 .. Len(left) : n + a \in 1 .. Len(all) /\ left[a] = all[n + a]
    <2>1. \A i \in n + 1 .. Len(all) : i \in 1 .. Len(all) /\ all[i] \in AnyBit
      BY <1>13, <1>14, ElementOfSeq
    <2> DEFINE l == Len(all)
    <2>2. n + 1 \in Int /\ l \in Int
      BY <1>14
    <2>3. /\ left \in Seq(AnyBit) /\ Len(left) = IF n + 1 <= l THEN l - (n + 1) + 1 ELSE 0
          /\ \A i \in 1 .. l - (n + 1) + 1 : left[i] = all[(n + 1) + i - 1]
      BY <2>1, <2>2, SubSeqProperties
    <2> HIDE DEF left, l
    <2>4. l - (n + 1) + 1 = l - n /\ (~ (n + 1 <= l) => l - n = 0)
      BY <1>14 DEF l
    <2>5. Len(left) = l - n
      BY <2>3, <2>4
    <2>6. \A i \in 1 .. l - n : (n + 1) + i - 1 = n + i /\ n + i \in 1 .. l
      BY <1>14 DEF l
    <2> QED
      BY <2>3, <2>4, <2>5, <2>6 DEF l
  <1> HIDE DEF give, left
  <1>20. \A a \in 1 .. n : \A b \in 1 .. Len(left) : give[a] # left[b]
    <2>1. \A a \in 1 .. n : \A b \in 1 .. Len(left) : a # n + b
      OBVIOUS
    <2> QED
      BY <1>17, <1>18, <1>19, <2>1
  <1>21. BitsLeft(more, left)
    <2>1. AllApart(left)
      <3>1. \A a, b \in 1 .. Len(left) : n + a = n + b => a = b
        OBVIOUS
      <3> QED
        BY <1>17, <1>19, <3>1 DEF AllApart
    <2> QED
      BY <1>16, <1>19, <2>1 DEF BitsLeft
  <1>22. \A x \in AnyBit : Used(drawn, x) /\ (\A a \in 1 .. Len(bits) : x # bits[a])
                           => \A i \in 1 .. Len(all) : x # all[i]
    BY SMTT(30), <1>12, <1>15
  <1>23. got.t = ch.t /\ got.words = ch.words /\ got.bits = give /\ got.left = left
    BY <1>4 DEF give, left
  <1>24. \A a \in 1 .. n : Used(more, give[a])
    BY <1>16, <1>18
  <1>25. \A x \in AnyBit : Used(drawn, x) /\ (\A a \in 1 .. Len(bits) : x # bits[a])
                           => /\ \A a \in 1 .. n : x # give[a]
                              /\ \A b \in 1 .. Len(left) : x # left[b]
    BY SMTT(30), <1>18, <1>19, <1>22
  <1> QED
    BY <1>6, <1>10, <1>18, <1>20, <1>21, <1>23, <1>24, <1>25 DEF got, more

\* A party that draws as it should, wherever it is.
WellDrawn(p) ==
    /\ DOMAIN p = PartyFields /\ p = [field \in PartyFields |-> p[field]]
    /\ p.folds \in Nat
    /\ Filled(p.t, p.sent) /\ DrawnSoFar(p.t, p.sent, p.drawn) /\ BitsLeft(p.drawn, p.bits)

\* The bit was given: it was used and is gone.
Given(p, x) == Used(p.drawn, x) /\ \A a \in 1 .. Len(p.bits) : x # p.bits[a]

\* q is p later on.
Afterwards(p, q) == WellDrawn(q) /\ \A x \in AnyBit : Given(p, x) => Given(q, x)

\* It is still there, with as many folds.
Stays(p, q) == Afterwards(p, q) /\ q.at = p.at /\ q.folds = p.folds

(* Where it goes and what it counts makes no difference to what it draws. *)
LEMMA WellMoved ==
    ASSUME NEW p, WellDrawn(p)
    PROVE  /\ \A at : /\ Afterwards(p, Go(p, at))
                       /\ Go(p, at).at = at /\ Go(p, at).folds = p.folds
           /\ \A n \in Nat : LET q == [p EXCEPT !.folds = n]
                             IN  Afterwards(p, q) /\ q.folds = n /\ q.at = p.at
           /\ \A n : Stays(p, [p EXCEPT !.checked = n])
           /\ \A v : Stays(p, [p EXCEPT !.valid = v])
  <1>1. ASSUME NEW q, DOMAIN q = PartyFields /\ q = [field \in PartyFields |-> q[field]],
               q.folds \in Nat,
               q.t = p.t /\ q.sent = p.sent /\ q.drawn = p.drawn /\ q.bits = p.bits
        PROVE  Afterwards(p, q)
    BY <1>1 DEF WellDrawn, Afterwards, Given
  <1>2. ASSUME NEW at
        PROVE  Afterwards(p, Go(p, at)) /\ Go(p, at).at = at /\ Go(p, at).folds = p.folds
    BY <1>1 DEF WellDrawn, PartyFields, Go
  <1>3. ASSUME NEW n \in Nat
        PROVE  LET q == [p EXCEPT !.folds = n]
               IN  Afterwards(p, q) /\ q.folds = n /\ q.at = p.at
    BY <1>1 DEF WellDrawn, PartyFields
  <1>4. ASSUME NEW n
        PROVE  Stays(p, [p EXCEPT !.checked = n])
    BY <1>1 DEF WellDrawn, PartyFields, Stays
  <1>5. ASSUME NEW v
        PROVE  Stays(p, [p EXCEPT !.valid = v])
    BY <1>1 DEF WellDrawn, PartyFields, Stays
  <1> QED
    BY <1>2, <1>3, <1>4, <1>5

(* Nor does what it witnesses to what it has drawn. *)
LEMMA WellWitnessed ==
    ASSUME NEW p, WellDrawn(p), NEW e \in Seq(Sent)
    PROVE  Stays(p, Witness(p, e))
  <1> DEFINE q == Witness(p, e)
             u == WitnessElements(p.t, e)
             s == p.sent \o e
  <1>1. Filled(u, s) /\ DrawnSoFar(u, s, p.drawn)
    BY WitnessedMore DEF WellDrawn
  <1>2. q = [p EXCEPT !.t = u, !.sent = s]
    BY DEF Witness, WellDrawn, PartyFields
  <1> HIDE DEF u, s, q
  <1>3. /\ DOMAIN q = PartyFields /\ q = [field \in PartyFields |-> q[field]]
        /\ q.at = p.at /\ q.folds = p.folds /\ q.t = u /\ q.sent = s
        /\ q.drawn = p.drawn /\ q.bits = p.bits
    BY <1>2 DEF WellDrawn, PartyFields
  <1> QED
    BY <1>1, <1>3 DEF WellDrawn, Stays, Afterwards, Given, q

(* The words that were used stay so. *)
LEMMA UsedMore ==
    ASSUME NEW t, NEW s, NEW drawn, NEW words, NEW more, DrawnMore(t, s, drawn, words, more)
    PROVE  \A x : Used(drawn, x) => Used(more, x)
  <1> DEFINE old == WordsOf(drawn)
             new == WordsOf(more)
  <1>1. new = old \o words /\ old \in Seq(AnyWord) /\ words \in Seq(AnyWord)
    BY DEF DrawnMore
  <1> HIDE DEF old, new
  <1>2. /\ Len(new) = Len(old) + Len(words) /\ Len(old) \in Nat /\ Len(words) \in Nat
        /\ \A i \in 1 .. Len(old) + Len(words) :
              new[i] = IF i <= Len(old) THEN old[i] ELSE words[i - Len(old)]
    BY <1>1, ConcatProperties, LenProperties
  <1>3. \A k \in 1 .. Len(old) : k \in 1 .. Len(new) /\ new[k] = old[k]
    BY <1>2
  <1> QED
    BY <1>3 DEF Used, old, new

(* A party draws a challenge. *)
LEMMA WellDrawing ==
    ASSUME NEW p, WellDrawn(p), NEW name \in ChallengeNames, NEW n \in Nat
    PROVE  Stays(p, Draw(p, name, n))
  <1> DEFINE q == Draw(p, name, n)
             got == GetChallenges(p.t, n)
             more == Append(p.drawn, Challenge(name, got.words, p.sent))
  <1>1. /\ Filled(p.t, p.sent) /\ DrawnSoFar(p.t, p.sent, p.drawn)
        /\ BitsLeft(p.drawn, p.bits)
    BY DEF WellDrawn
  <1>2. q = [p EXCEPT !.t = got.t, !.drawn = more]
    BY DEF Draw, Drawn, Challenge, WellDrawn, PartyFields
  <1> HIDE DEF q, got
  <1>3. Draws(p.t, got, p.sent)
    BY <1>1, ChallengesDrawn DEF got
  <1>4. DrawnMore(got.t, p.sent, p.drawn, got.words, more)
    BY <1>1, <1>3, ChallengeDrawn
  <1> HIDE DEF more
  <1>5. \A x : Used(p.drawn, x) => Used(more, x)
    BY <1>4, UsedMore
  <1>6. BitsLeft(more, p.bits)
    BY <1>1, <1>5 DEF BitsLeft
  <1>7. /\ DOMAIN q = PartyFields /\ q = [field \in PartyFields |-> q[field]]
        /\ q.at = p.at /\ q.folds = p.folds /\ q.t = got.t /\ q.sent = p.sent
        /\ q.drawn = more /\ q.bits = p.bits
    BY <1>2 DEF WellDrawn, PartyFields
  <1>8. Filled(got.t, p.sent) /\ DrawnSoFar(got.t, p.sent, more)
    BY <1>4 DEF DrawnMore
  <1>9. p.folds \in Nat
    BY DEF WellDrawn
  <1> QED
    BY <1>5, <1>6, <1>7, <1>8, <1>9 DEF WellDrawn, Stays, Afterwards, Given, q

LEMMA StaysTransitive ==
    ASSUME NEW p, NEW q, NEW r, Stays(p, q), Stays(q, r)
    PROVE  Stays(p, r)
  BY DEF Stays, Afterwards

(* It witnesses something and draws a challenge, or the first four. *)
LEMMA WellWitnessedDrawing ==
    ASSUME NEW p, WellDrawn(p), NEW e \in Seq(Sent)
    PROVE  /\ \A name \in ChallengeNames : Stays(p, Draw(Witness(p, e), name, 2))
           /\ Stays(p, DrawLookup(DrawTwo(Witness(p, e), "beta", "gamma")))
  <1> DEFINE q == Witness(p, e)
             r == DrawTwo(q, "beta", "gamma")
  <1>1. Stays(p, q)
    BY WellWitnessed
  <1> HIDE DEF q
  <1>2. \A name \in ChallengeNames : Stays(p, Draw(q, name, 2))
    BY SMTT(30), <1>1, WellDrawing, StaysTransitive DEF Stays, Afterwards
  <1>3. \A x : Stays(p, x) => \A a, b \in ChallengeNames : Stays(p, DrawTwo(x, a, b))
    <2> TAKE x
    <2> HAVE Stays(p, x)
    <2> TAKE a, b \in ChallengeNames
    <2>1. Stays(x, Draw(x, a, 2))
      BY WellDrawing DEF Stays, Afterwards
    <2>2. Stays(Draw(x, a, 2), Draw(Draw(x, a, 2), b, 2))
      BY <2>1, WellDrawing DEF Stays, Afterwards
    <2> QED
      BY <2>1, <2>2, StaysTransitive DEF DrawTwo
  <1>4. {"beta", "gamma", "lookup_beta", "lookup_gamma"} \subseteq ChallengeNames
    BY DEF ChallengeNames
  <1>5. Stays(p, r)
    BY <1>1, <1>3, <1>4
  <1> HIDE DEF r
  <1>6. Stays(p, DrawLookup(r))
    BY <1>3, <1>4, <1>5 DEF DrawLookup
  <1> QED
    BY <1>2, <1>6 DEF q, r

(* It witnesses one list after the other. *)
LEMMA WellWitnessedTwice ==
    ASSUME NEW p, WellDrawn(p), NEW a \in Seq(Sent), NEW b \in Seq(Sent)
    PROVE  Stays(p, Witness(Witness(p, a), b))
  <1>1. Stays(p, Witness(p, a))
    BY WellWitnessed
  <1> DEFINE q == Witness(p, a)
  <1> HIDE DEF q
  <1>2. Stays(q, Witness(q, b))
    BY <1>1, WellWitnessed DEF Stays, Afterwards, q
  <1> QED
    BY <1>1, <1>2, StaysTransitive DEF q

(* A party draws the index of a query, of bits that were not given before. *)
LEMMA WellQueried ==
    ASSUME NEW p, WellDrawn(p), config \in Configs
    PROVE  LET index == DrawIndex(p).index
           IN  /\ Stays(p, Queried(p))
               /\ index \in Seq(AnyBit) /\ Len(index) = MaxNeededBits
               /\ \A a \in 1 .. Len(index) : Given(Queried(p), index[a])
               /\ \A x \in AnyBit : Given(p, x) => \A a \in 1 .. Len(index) : x # index[a]
  <1> DEFINE max == MaxNeededBits
             got == GetBits(p.t, p.bits, max, max)
             more == Append(p.drawn, Challenge("query", got.words, p.sent))
             q == Queried(p)
             index == DrawIndex(p).index
  <1>1. /\ Filled(p.t, p.sent) /\ DrawnSoFar(p.t, p.sent, p.drawn)
        /\ BitsLeft(p.drawn, p.bits) /\ p.folds \in Nat
    BY DEF WellDrawn
  <1>2. max \in Nat /\ max < CharBits /\ CharBits \in Nat \ {0}
    BY ConfigAssumption, TranscriptAssumption DEF MaxNeededBits
  <1> HIDE DEF max
  <1>3. BitsPerWord(p.t, max) \in Nat \ {0}
    BY <1>2 DEF BitsPerWord
  <1>4. index = got.bits /\ q = [p EXCEPT !.t = got.t, !.drawn = more, !.bits = got.left]
    <2>1. DrawIndex(p) = WithIndex(p, got)
      BY DEF DrawIndex, max
    <2> HIDE DEF got
    <2>2. q = [Drawn(p, "query", got) EXCEPT !.bits = got.left] /\ index = got.bits
      BY <2>1 DEF Queried, WithIndex
    <2>3. Drawn(p, "query", got) = [p EXCEPT !.t = got.t, !.drawn = more]
      BY DEF Drawn, Challenge, WellDrawn, PartyFields
    <2> HIDE DEF more
    <2> QED
      BY <2>2, <2>3, ZenonT(40) DEF WellDrawn, PartyFields
  <1>5. /\ Filled(got.t, p.sent) /\ DrawnSoFar(got.t, p.sent, more) /\ BitsLeft(more, got.left)
        /\ got.bits \in Seq(AnyBit) /\ Len(got.bits) = max
        /\ \A x \in AnyBit : Used(p.drawn, x) => Used(more, x)
        /\ \A a \in 1 .. max : /\ Used(more, got.bits[a])
                               /\ \A b \in 1 .. Len(got.left) : got.bits[a] # got.left[b]
        /\ \A x \in AnyBit :
              Used(p.drawn, x) /\ (\A a \in 1 .. Len(p.bits) : x # p.bits[a])
              => /\ \A a \in 1 .. max : x # got.bits[a]
                 /\ \A b \in 1 .. Len(got.left) : x # got.left[b]
    BY SMTT(30), <1>1, <1>2, <1>3, BitsGiven
  <1> HIDE DEF got, more, q, index
  <1>6. /\ DOMAIN q = PartyFields /\ q = [field \in PartyFields |-> q[field]]
        /\ q.at = p.at /\ q.folds = p.folds /\ q.t = got.t /\ q.sent = p.sent
        /\ q.drawn = more /\ q.bits = got.left
    BY <1>4 DEF WellDrawn, PartyFields
  <1>8. \A a \in 1 .. Len(index) : Given(q, index[a])
    BY <1>4, <1>5, <1>6 DEF Given
  <1>9. \A x \in AnyBit : Given(p, x) => Given(q, x) /\ \A a \in 1 .. Len(index) : x # index[a]
    BY <1>4, <1>5, <1>6 DEF Given
  <1>7. Stays(p, q)
    BY <1>1, <1>5, <1>6, <1>9 DEF WellDrawn, Stays, Afterwards
  <1> QED
    BY <1>4, <1>5, <1>7, <1>8, <1>9 DEF q, index, max

-----------------------------------------------------------------------------
(* What the parties have drawn, in all the states *)

ProofFields ==
    {"public_inputs", "witness_oracle_cap", "stage_2_oracle_cap", "quotient_oracle_cap",
     "values_at_z", "values_at_z_omega", "values_at_0", "opened_under", "fri_base_oracle_cap",
     "fri_intermediate_oracles_caps", "final_fri_monomials", "folded_under", "pow", "queries"}

\* The parts of the proof that are witnessed.
ProofParts(parts) ==
    /\ DOMAIN parts = ProofFields /\ parts = [field \in ProofFields |-> parts[field]]
    /\ parts.public_inputs \in Seq(Sent) /\ parts.witness_oracle_cap \in Seq(Sent)
    /\ parts.stage_2_oracle_cap \in Seq(Sent) /\ parts.quotient_oracle_cap \in Seq(Sent)
    /\ parts.values_at_z \in Seq(Sent) /\ parts.values_at_z_omega \in Seq(Sent)
    /\ parts.values_at_0 \in Seq(Sent) /\ parts.fri_base_oracle_cap \in Seq(Sent)
    /\ parts.fri_intermediate_oracles_caps \in Seq(Seq(Sent))
    /\ parts.final_fri_monomials[1] \in Seq(Sent) /\ parts.final_fri_monomials[2] \in Seq(Sent)

\* No bit of an index is in another, nor will it be.
QueriesApart(p, queries) ==
    /\ \E S : queries \in Seq(S)
    /\ \A i \in 1 .. Len(queries) :
          /\ queries[i].base.leaf \in Seq(AnyBit)
          /\ \A a \in 1 .. Len(queries[i].base.leaf) : Given(p, queries[i].base.leaf[a])
    /\ \A i, j \in 1 .. Len(queries) : i < j =>
          \A a \in 1 .. Len(queries[i].base.leaf) : \A b \in 1 .. Len(queries[j].base.leaf) :
             queries[i].base.leaf[a] # queries[j].base.leaf[b]

DrawsWell(p) == WellDrawn(p) /\ (p.at = "fri" => p.folds >= 1)

AllDrawWell ==
    /\ config \in Configs
    /\ DrawsWell(prover) /\ DrawsWell(verifier) /\ DrawsWell(recursive)
    /\ ProofParts(proof) /\ QueriesApart(prover, proof.queries)

\* What the verifiers check before the folds: the caps they look up then are in the proof.
CapsCounted == Len(proof.fri_intermediate_oracles_caps) = Len(Folds(config)) - 1

FoldsCounted ==
    /\ verifier.at = "fri" => prover.at = "done" /\ CapsCounted
    /\ recursive.at = "fri" => prover.at = "done" /\ CapsCounted

(* It begins so. *)
LEMMA InitDrawsWell == Init => AllDrawWell
  <1> SUFFICES ASSUME Init PROVE AllDrawWell
    OBVIOUS
  <1>1. config \in Configs /\ config.kind \in Kinds
    BY ConfigAssumption DEF Init
  <1>2. << >> \in Seq(Sent) /\ << >> \in Seq(AnyWord) /\ << >> \in Seq(AnyBit)
        /\ << >> \in Seq(Drawings) /\ << >> \in Seq(Seq(Absorbable)) /\ << >> \in Seq(Seq(Sent))
        /\ Len(<< >>) = 0 /\ 1 .. 0 = {}
    BY EmptySeq
  <1> DEFINE p == NewParty(config.kind)
             t == NewTranscript(config.kind)
  <1>3. /\ t.chain = << >> /\ t.buffer = << >> /\ t.available = << >> /\ t \in Transcripts
    BY <1>1, <1>2 DEF NewTranscript, Transcripts
  <1>4. /\ DOMAIN p = PartyFields /\ p = [field \in PartyFields |-> p[field]]
        /\ p.at = "setup" /\ p.folds = 0 /\ p.t = t /\ p.sent = << >>
        /\ p.drawn = << >> /\ p.bits = << >>
    BY DEF NewParty, PartyFields
  <1> HIDE DEF t, p
  <1>5. Unpadded(<< >>) = << >> /\ WordsOf(<< >>) = << >>
    <2>1. Unpadded(<< >>) = << >>
      BY <1>2, UnpaddedSent
    <2>2. WordsOf(<< >>) = << >>
      <3> DEFINE none == << >>
                 f == [i \in 1 .. Len(none) |-> none[i].words]
      <3>1. f = << >>
        BY <1>2
      <3> HIDE DEF f
      <3>2. FlattenSeq(f) = << >>
        BY <3>1, FlattenNone
      <3> QED
        BY <3>2 DEF WordsOf, f
    <2> QED
      BY <2>1, <2>2
  <1>6. Filled(t, << >>)
    <2>1. << >> \o << >> = << >>
      BY <1>2, ConcatEmptySeq
    <2> QED
      BY <1>2, <1>3, <1>5, <2>1, FlattenNone DEF Filled, Ordered
  <1>7. DrawnSoFar(t, << >>, << >>) /\ BitsLeft(<< >>, << >>)
    BY <1>2, <1>5 DEF DrawnSoFar, BitsLeft, Ordered, AllApart
  <1>8. DrawsWell(p)
    BY <1>4, <1>6, <1>7 DEF DrawsWell, WellDrawn
  <1>9. ProofParts(EmptyProof)
    BY <1>2 DEF ProofParts, EmptyProof, ProofFields
  <1>10. QueriesApart(prover, EmptyProof.queries)
    <2>1. EmptyProof.queries = << >>
      BY DEF EmptyProof
    <2> QED
      BY <1>2, <2>1 DEF QueriesApart
  <1> QED
    BY <1>1, <1>8, <1>9, <1>10 DEF Init, AllDrawWell, p

LEMMA InitFoldsCounted == Init => FoldsCounted
  BY DEF Init, NewParty, FoldsCounted

(* The prover goes on only before the verifiers begin. *)
LEMMA ProverCounts ==
    ASSUME FoldsCounted, ProverStep
    PROVE  FoldsCounted'
  <1>1. prover.at # "done" /\ verifier' = verifier /\ recursive' = recursive
    BY DEF ProverStep, ProveSetup, ProveWitness, ProveStage2, ProveQuotient, ProveOpenings,
           ProveFriBase, ProveFriFold, ProveMonomials, ProvePow, ProveSeeded, ProveQuery,
           ProveIndex, ProveEnd, Prove
  <1> QED
    BY <1>1 DEF FoldsCounted

(* What was given stays apart when the prover goes on. *)
LEMMA QueriesStayApart ==
    ASSUME NEW p, NEW q, Afterwards(p, q), NEW queries, QueriesApart(p, queries)
    PROVE  QueriesApart(q, queries)
  <1>1. ASSUME NEW i \in 1 .. Len(queries), NEW a \in 1 .. Len(queries[i].base.leaf)
        PROVE  Given(q, queries[i].base.leaf[a])
    <2>1. queries[i].base.leaf \in Seq(AnyBit) /\ Given(p, queries[i].base.leaf[a])
      BY DEF QueriesApart
    <2>2. queries[i].base.leaf[a] \in AnyBit
      BY <2>1, ElementOfSeq
    <2> QED
      BY <2>1, <2>2 DEF Afterwards
  <1> QED
    BY <1>1 DEF QueriesApart

(* A step of the prover that asks no query. *)
LEMMA ProverMoves ==
    ASSUME AllDrawWell, NEW from, NEW party, NEW parts, Prove(from, party, parts),
           Afterwards(prover, party), party.at = "fri" => party.folds >= 1,
           ProofParts(parts), parts.queries = proof.queries
    PROVE  AllDrawWell'
  <1>1. QueriesApart(party, proof.queries)
    BY QueriesStayApart DEF AllDrawWell
  <1>2. DrawsWell(party)
    BY DEF DrawsWell, Afterwards
  <1>3. /\ prover' = party /\ proof' = parts /\ config' = config
        /\ verifier' = verifier /\ recursive' = recursive
    BY DEF Prove
  <1> QED
    BY <1>1, <1>2, <1>3 DEF AllDrawWell

(* A step of the verifier. *)
LEMMA VerifierMoves ==
    ASSUME AllDrawWell, FoldsCounted,
           NEW from, NEW ok, NEW party, Verify(from, ok, party),
           ok => /\ Afterwards(verifier, party)
                 /\ party.at = "fri" => party.folds >= 1 /\ CapsCounted
    PROVE  AllDrawWell' /\ FoldsCounted'
  <1>1. WellDrawn(verifier)
    BY DEF AllDrawWell, DrawsWell
  <1>2. DrawsWell(Go(verifier, "rejected")) /\ Go(verifier, "rejected").at = "rejected"
    <2>1. Afterwards(verifier, Go(verifier, "rejected")) /\ Go(verifier, "rejected").at = "rejected"
      BY <1>1, WellMoved
    <2> QED
      BY <2>1 DEF DrawsWell, Afterwards
  <1>3. ok => DrawsWell(party)
    BY DEF DrawsWell, Afterwards
  <1>4. DrawsWell(verifier')
    BY <1>2, <1>3 DEF Verify
  <1>5. /\ proof' = proof /\ config' = config /\ prover' = prover /\ recursive' = recursive
        /\ prover.at = "done"
    BY DEF Verify
  <1>6. verifier'.at = "fri" => CapsCounted
    BY <1>2 DEF Verify
  <1>7. CapsCounted' = CapsCounted
    BY <1>5 DEF CapsCounted
  <1> QED
    BY <1>4, <1>5, <1>6, <1>7 DEF AllDrawWell, FoldsCounted

(* A step of its circuit. *)
LEMMA CircuitMoves ==
    ASSUME AllDrawWell, FoldsCounted,
           NEW from, NEW ok, NEW flag, NEW party, Build(from, ok, flag, party),
           ok => /\ Afterwards(recursive, party)
                 /\ party.at = "fri" => party.folds >= 1 /\ CapsCounted
    PROVE  AllDrawWell' /\ FoldsCounted'
  <1>1. WellDrawn(recursive)
    BY DEF AllDrawWell, DrawsWell
  <1>2. DrawsWell(Go(recursive, "panicked")) /\ Go(recursive, "panicked").at = "panicked"
    <2>1. /\ Afterwards(recursive, Go(recursive, "panicked"))
          /\ Go(recursive, "panicked").at = "panicked"
      BY <1>1, WellMoved
    <2> QED
      BY <2>1 DEF DrawsWell, Afterwards
  <1>3. ASSUME ok
        PROVE  /\ DrawsWell([party EXCEPT !.valid = @ /\ flag])
               /\ [party EXCEPT !.valid = @ /\ flag].at = "fri" => CapsCounted
    <2>1. WellDrawn(party) /\ (party.at = "fri" => party.folds >= 1 /\ CapsCounted)
      BY <1>3 DEF Afterwards
    <2>2. Stays(party, [party EXCEPT !.valid = party.valid /\ flag])
      BY <2>1, WellMoved
    <2> QED
      BY <2>1, <2>2 DEF DrawsWell, Stays, Afterwards
  <1>4. DrawsWell(recursive')
    BY <1>2, <1>3 DEF Build
  <1>5. /\ proof' = proof /\ config' = config /\ prover' = prover /\ verifier' = verifier
        /\ prover.at = "done"
    BY DEF Build
  <1>6. recursive'.at = "fri" => CapsCounted
    BY <1>2, <1>3 DEF Build
  <1>7. CapsCounted' = CapsCounted
    BY <1>5 DEF CapsCounted
  <1> QED
    BY <1>4, <1>5, <1>6, <1>7 DEF AllDrawWell, FoldsCounted

(* What the prover puts into the proof is what it witnessed. *)
LEMMA PartsPut ==
    ASSUME NEW parts, ProofParts(parts), NEW x \in Seq(Sent), NEW u
    PROVE  /\ LET new == [parts EXCEPT !.public_inputs = x]
              IN  ProofParts(new) /\ new.queries = parts.queries
           /\ LET new == [parts EXCEPT !.witness_oracle_cap = x]
              IN  ProofParts(new) /\ new.queries = parts.queries
           /\ LET new == [parts EXCEPT !.stage_2_oracle_cap = x]
              IN  ProofParts(new) /\ new.queries = parts.queries
           /\ LET new == [parts EXCEPT !.quotient_oracle_cap = x]
              IN  ProofParts(new) /\ new.queries = parts.queries
           /\ LET new == [parts EXCEPT !.fri_base_oracle_cap = x]
              IN  ProofParts(new) /\ new.queries = parts.queries
           /\ LET new == [parts EXCEPT !.fri_intermediate_oracles_caps = Append(@, x)]
              IN  ProofParts(new) /\ new.queries = parts.queries
           /\ LET new == [parts EXCEPT !.pow = u]
              IN  ProofParts(new) /\ new.queries = parts.queries
           /\ LET new == [parts EXCEPT !.queries = u]
              IN  ProofParts(new) /\ new.queries = u
  <1> USE DEF ProofParts, ProofFields
  <1>1. LET new == [parts EXCEPT !.public_inputs = x]
        IN  ProofParts(new) /\ new.queries = parts.queries
    OBVIOUS
  <1>2. LET new == [parts EXCEPT !.witness_oracle_cap = x]
        IN  ProofParts(new) /\ new.queries = parts.queries
    OBVIOUS
  <1>3. LET new == [parts EXCEPT !.stage_2_oracle_cap = x]
        IN  ProofParts(new) /\ new.queries = parts.queries
    OBVIOUS
  <1>4. LET new == [parts EXCEPT !.quotient_oracle_cap = x]
        IN  ProofParts(new) /\ new.queries = parts.queries
    OBVIOUS
  <1>6. LET new == [parts EXCEPT !.fri_base_oracle_cap = x]
        IN  ProofParts(new) /\ new.queries = parts.queries
    OBVIOUS
  <1>7. LET new == [parts EXCEPT !.fri_intermediate_oracles_caps = Append(@, x)]
        IN  ProofParts(new) /\ new.queries = parts.queries
    <2>1. Append(parts.fri_intermediate_oracles_caps, x) \in Seq(Seq(Sent))
      BY AppendProperties
    <2> DEFINE caps == Append(parts.fri_intermediate_oracles_caps, x)
    <2> HIDE DEF caps
    <2>2. LET new == [parts EXCEPT !.fri_intermediate_oracles_caps = caps]
          IN  ProofParts(new) /\ new.queries = parts.queries
      BY <2>1 DEF caps
    <2> QED
      BY <2>2 DEF caps
  <1>9. LET new == [parts EXCEPT !.pow = u]
        IN  ProofParts(new) /\ new.queries = parts.queries
    OBVIOUS
  <1>10. LET new == [parts EXCEPT !.queries = u]
         IN  ProofParts(new) /\ new.queries = u
    OBVIOUS
  <1> HIDE DEF ProofParts, ProofFields
  <1> QED
    BY <1>1, <1>2, <1>3, <1>4, <1>6, <1>7, <1>9, <1>10

(* What is witnessed is what Sent says. *)
LEMMA WitnessedIsSent ==
    ASSUME config \in Configs
    PROVE  /\ \A name \in Names, i \in Nat : Cap(name, i) \in Seq(Sent)
           /\ Inputs \in Seq(Sent) /\ AtZ \in Seq(Sent) /\ AtZOmega \in Seq(Sent)
           /\ At0 \in Seq(Sent) /\ Monomials(0) \in Seq(Sent) /\ Monomials(1) \in Seq(Sent)
           /\ Nonce \in Seq(Sent)
           /\ {"setup", "witness", "stage_2", "quotient", "fri"} \subseteq Names
           /\ {"alpha", "z", "deep", "fri", "pow"} \subseteq ChallengeNames
  <1>1. 2^FinalLog(config) \in Nat
    <2>1. /\ config.rate \in Nat /\ config.cap \in Nat /\ config.domain \in Nat
          /\ \A n \in 0 .. config.domain + config.cap : 2^n \in Nat
      BY ConfigAssumption
    <2>2. /\ Folds(config) \in Seq(1 .. 3)
          /\ \A i \in 0 .. Len(Folds(config)) : DegreeLog(config, i) \in 0 .. config.domain
      BY <2>1, FoldsAddUp
    <2>3. Len(Folds(config)) \in 0 .. Len(Folds(config))
      BY <2>2, LenProperties
    <2>4. FinalLog(config) \in 0 .. config.domain
      BY <2>2, <2>3 DEF FinalLog
    <2>5. FinalLog(config) \in 0 .. config.domain + config.cap
      BY <2>1, <2>4
    <2> QED
      BY <2>1, <2>5
  <1> DEFINE size == 2^FinalLog(config)
  <1>2. size \in Nat
    BY <1>1
  <1> HIDE DEF size
  <1>3. "monomial" \in Names /\ "nonce" \in Names /\ 0 \in Nat /\ 1 \in Nat /\ 2 \in Nat
    BY DEF Names
  <1>4. Monomials(0) \in Seq(Sent) /\ Monomials(1) \in Seq(Sent)
    BY <1>2, <1>3, ElementsByLength DEF Monomials, size
  <1>5. Nonce \in Seq(Sent)
    BY <1>3, ElementsByLength DEF Nonce
  <1>6. /\ {"setup", "witness", "stage_2", "quotient", "fri"} \subseteq Names
        /\ {"alpha", "z", "deep", "fri", "pow"} \subseteq ChallengeNames
    BY DEF Names, ChallengeNames
  <1> QED
    BY <1>4, <1>5, <1>6, LengthsAre

(* A party goes on from where it stays. *)
LEMMA WellGone ==
    ASSUME NEW p, NEW q, Stays(p, q)
    PROVE  /\ \A at : /\ Afterwards(p, Go(q, at))
                      /\ Go(q, at).at = at /\ Go(q, at).folds = p.folds
           /\ \A n \in Nat : LET r == [q EXCEPT !.folds = n]
                             IN  Afterwards(p, r) /\ r.folds = n /\ r.at = p.at
           /\ \A at : \A n \in Nat : LET r == [Go(q, at) EXCEPT !.folds = n]
                                     IN  Afterwards(p, r) /\ r.folds = n /\ r.at = at
           /\ \A n : Stays(p, [q EXCEPT !.checked = n])
  <1>1. WellDrawn(q) /\ q.at = p.at /\ q.folds = p.folds
    BY DEF Stays, Afterwards
  <1>2. \A r : Afterwards(q, r) => Afterwards(p, r)
    BY DEF Stays, Afterwards
  <1>3. ASSUME NEW at
        PROVE  Afterwards(p, Go(q, at)) /\ Go(q, at).at = at /\ Go(q, at).folds = p.folds
    BY <1>1, <1>2, WellMoved
  <1>4. ASSUME NEW n \in Nat
        PROVE  LET r == [q EXCEPT !.folds = n]
               IN  Afterwards(p, r) /\ r.folds = n /\ r.at = p.at
    BY <1>1, <1>2, WellMoved
  <1>5. ASSUME NEW at, NEW n \in Nat
        PROVE  LET r == [Go(q, at) EXCEPT !.folds = n]
               IN  Afterwards(p, r) /\ r.folds = n /\ r.at = at
    <2> DEFINE g == Go(q, at)
    <2>1. Afterwards(q, g) /\ g.at = at
      BY <1>1, WellMoved
    <2> HIDE DEF g
    <2>2. WellDrawn(g)
      BY <2>1 DEF Afterwards
    <2>3. LET r == [g EXCEPT !.folds = n]
          IN  Afterwards(g, r) /\ r.folds = n /\ r.at = at
      BY <2>1, <2>2, WellMoved
    <2>4. \A r : Afterwards(g, r) => Afterwards(p, r)
      BY <1>2, <2>1 DEF Afterwards
    <2> QED
      BY <2>3, <2>4 DEF g
  <1>6. ASSUME NEW n
        PROVE  Stays(p, [q EXCEPT !.checked = n])
    BY <1>1, WellMoved, StaysTransitive
  <1> QED
    BY <1>3, <1>4, <1>5, <1>6

(* The rounds before FRI. *)
LEMMA RoundsDrawWell ==
    ASSUME AllDrawWell,
           ProveSetup \/ ProveWitness \/ ProveStage2 \/ ProveQuotient \/ ProveOpenings
    PROVE  AllDrawWell'
  <1>1. config \in Configs /\ WellDrawn(prover) /\ ProofParts(proof)
    BY DEF AllDrawWell, DrawsWell
  <1>2. /\ \A name \in Names, i \in Nat : Cap(name, i) \in Seq(Sent)
        /\ Inputs \in Seq(Sent) /\ AtZ \in Seq(Sent) /\ AtZOmega \in Seq(Sent)
        /\ At0 \in Seq(Sent)
        /\ {"setup", "witness", "stage_2", "quotient", "fri"} \subseteq Names
        /\ {"alpha", "z", "deep", "fri", "pow"} \subseteq ChallengeNames
    BY <1>1, WitnessedIsSent
  <1>3. \A name \in Names : Cap(name, 0) \in Seq(Sent)
    BY <1>2
  <1>4. CASE ProveSetup
    <2> DEFINE q == Witness(Witness(prover, Cap("setup", 0)), Inputs)
               parts == [proof EXCEPT !.public_inputs = Inputs]
    <2>1. Prove("setup", Go(q, "witness"), parts)
      BY <1>4 DEF ProveSetup, Inputs
    <2>2. Stays(prover, q)
      BY <1>1, <1>2, <1>3, WellWitnessedTwice
    <2>3. ProofParts(parts) /\ parts.queries = proof.queries
      BY <1>1, <1>2, PartsPut
    <2> HIDE DEF q, parts
    <2>4. Afterwards(prover, Go(q, "witness")) /\ Go(q, "witness").at = "witness"
      BY <2>2, WellGone
    <2> QED
      BY <2>1, <2>3, <2>4, ProverMoves
  <1>5. CASE ProveWitness
    <2> DEFINE cap == Cap("witness", 0)
               q == DrawLookup(DrawTwo(Witness(prover, cap), "beta", "gamma"))
               parts == [proof EXCEPT !.witness_oracle_cap = cap]
    <2>1. Prove("witness", Go(q, "stage_2"), parts)
      BY <1>5 DEF ProveWitness
    <2>2. cap \in Seq(Sent)
      BY <1>2, <1>3
    <2> HIDE DEF cap
    <2>3. Stays(prover, q)
      BY <1>1, <2>2, WellWitnessedDrawing
    <2>4. ProofParts(parts) /\ parts.queries = proof.queries
      BY <1>1, <2>2, PartsPut
    <2> HIDE DEF q, parts
    <2>5. Afterwards(prover, Go(q, "stage_2")) /\ Go(q, "stage_2").at = "stage_2"
      BY <2>3, WellGone
    <2> QED
      BY <2>1, <2>4, <2>5, ProverMoves
  <1>6. CASE ProveStage2
    <2> DEFINE cap == Cap("stage_2", 0)
               q == Draw(Witness(prover, cap), "alpha", 2)
               parts == [proof EXCEPT !.stage_2_oracle_cap = cap]
    <2>1. Prove("stage_2", Go(q, "quotient"), parts)
      BY <1>6 DEF ProveStage2
    <2>2. cap \in Seq(Sent)
      BY <1>2, <1>3
    <2> HIDE DEF cap
    <2>3. Stays(prover, q)
      BY <1>1, <1>2, <2>2, WellWitnessedDrawing
    <2>4. ProofParts(parts) /\ parts.queries = proof.queries
      BY <1>1, <2>2, PartsPut
    <2> HIDE DEF q, parts
    <2>5. Afterwards(prover, Go(q, "quotient")) /\ Go(q, "quotient").at = "quotient"
      BY <2>3, WellGone
    <2> QED
      BY <2>1, <2>4, <2>5, ProverMoves
  <1>7. CASE ProveQuotient
    <2> DEFINE cap == Cap("quotient", 0)
               q == Draw(Witness(prover, cap), "z", 2)
               parts == [proof EXCEPT !.quotient_oracle_cap = cap]
    <2>1. Prove("quotient", Go(q, "openings"), parts)
      BY <1>7 DEF ProveQuotient
    <2>2. cap \in Seq(Sent)
      BY <1>2, <1>3
    <2> HIDE DEF cap
    <2>3. Stays(prover, q)
      BY <1>1, <1>2, <2>2, WellWitnessedDrawing
    <2>4. ProofParts(parts) /\ parts.queries = proof.queries
      BY <1>1, <2>2, PartsPut
    <2> HIDE DEF q, parts
    <2>5. Afterwards(prover, Go(q, "openings")) /\ Go(q, "openings").at = "openings"
      BY <2>3, WellGone
    <2> QED
      BY <2>1, <2>4, <2>5, ProverMoves
  <1>8. CASE ProveOpenings
    <2> DEFINE values == AtZ \o AtZOmega \o At0
               q == Draw(Witness(prover, values), "deep", 2)
               parts == [proof EXCEPT !.values_at_z = AtZ, !.values_at_z_omega = AtZOmega,
                                      !.values_at_0 = At0, !.opened_under = Seen(prover)]
    <2>1. Prove("openings", Go(q, "fri_base"), parts)
      BY <1>8 DEF ProveOpenings, AtZ, AtZOmega, At0
    <2>2. values \in Seq(Sent)
      BY <1>2, ConcatProperties
    <2> HIDE DEF values
    <2>3. Stays(prover, q)
      BY <1>1, <1>2, <2>2, WellWitnessedDrawing
    <2>6. PICK u : parts = [proof EXCEPT !.values_at_z = AtZ, !.values_at_z_omega = AtZOmega,
                                         !.values_at_0 = At0, !.opened_under = u]
      OBVIOUS
    <2> HIDE DEF q, parts
    <2>4. ProofParts(parts) /\ parts.queries = proof.queries
      BY <1>1, <1>2, <2>6 DEF ProofParts, ProofFields
    <2>5. Afterwards(prover, Go(q, "fri_base")) /\ Go(q, "fri_base").at = "fri_base"
      BY <2>3, WellGone
    <2> QED
      BY <2>1, <2>4, <2>5, ProverMoves
  <1> QED
    BY <1>4, <1>5, <1>6, <1>7, <1>8

(* FRI and the proof of work. *)
LEMMA FriDrawsWell ==
    ASSUME AllDrawWell, ProveFriBase \/ ProveFriFold \/ ProveMonomials \/ ProvePow
    PROVE  AllDrawWell'
  <1>1. config \in Configs /\ WellDrawn(prover) /\ ProofParts(proof)
    BY DEF AllDrawWell, DrawsWell
  <1>2. /\ \A name \in Names, i \in Nat : Cap(name, i) \in Seq(Sent)
        /\ Monomials(0) \in Seq(Sent) /\ Monomials(1) \in Seq(Sent) /\ Nonce \in Seq(Sent)
        /\ {"setup", "witness", "stage_2", "quotient", "fri"} \subseteq Names
        /\ {"alpha", "z", "deep", "fri", "pow"} \subseteq ChallengeNames
    BY <1>1, WitnessedIsSent
  <1>3. prover.folds \in Nat
    BY <1>1 DEF WellDrawn
  <1>4. CASE ProveFriBase
    <2> DEFINE cap == Cap("fri", 0)
               q == Draw(Witness(prover, cap), "fri", 2)
               party == [Go(q, "fri") EXCEPT !.folds = 1]
               parts == [proof EXCEPT !.fri_base_oracle_cap = cap]
    <2>1. \/ Prove("fri_base", party, parts)
          \/ Prove("fri_base", Go(prover, "panicked"), proof)
      BY <1>4 DEF ProveFriBase
    <2>2. cap \in Seq(Sent)
      BY <1>2
    <2> HIDE DEF cap
    <2>3. Stays(prover, q)
      BY <1>1, <1>2, <2>2, WellWitnessedDrawing
    <2>4. ProofParts(parts) /\ parts.queries = proof.queries
      BY <1>1, <2>2, PartsPut
    <2> HIDE DEF q, parts
    <2>5. 1 \in Nat
      OBVIOUS
    <2>6. Afterwards(prover, party) /\ party.folds = 1
      BY <2>3, <2>5, WellGone
    <2> HIDE DEF party
    <2>7. /\ Afterwards(prover, Go(prover, "panicked"))
          /\ Go(prover, "panicked").at = "panicked"
      BY <1>1, WellMoved
    <2>8. CASE Prove("fri_base", party, parts)
      <3>1. party.folds >= 1
        BY <2>6
      <3> QED
        BY <2>4, <2>6, <2>8, <3>1, ProverMoves
    <2>9. CASE Prove("fri_base", Go(prover, "panicked"), proof)
      BY <1>1, <2>7, <2>9, ProverMoves
    <2> QED
      BY <2>1, <2>8, <2>9
  <1>5. CASE ProveFriFold
    <2> DEFINE cap == Cap("fri", prover.folds)
               q == Draw(Witness(prover, cap), "fri", 2)
               party == [q EXCEPT !.folds = @ + 1]
               parts == [proof EXCEPT !.fri_intermediate_oracles_caps = Append(@, cap)]
    <2>1. Prove("fri", party, parts)
      BY <1>5 DEF ProveFriFold
    <2>2. cap \in Seq(Sent)
      BY <1>2, <1>3
    <2> HIDE DEF cap
    <2>3. Stays(prover, q)
      BY <1>1, <1>2, <2>2, WellWitnessedDrawing
    <2>4. ProofParts(parts) /\ parts.queries = proof.queries
      BY <1>1, <2>2, PartsPut
    <2> HIDE DEF q, parts
    <2>5. q.folds = prover.folds /\ prover.folds + 1 \in Nat /\ prover.folds + 1 >= 1
      BY <1>3, <2>3 DEF Stays
    <2>6. party = [q EXCEPT !.folds = prover.folds + 1]
      BY <2>5
    <2> HIDE DEF party
    <2>7. Afterwards(prover, party) /\ party.folds = prover.folds + 1
      BY <2>3, <2>5, <2>6, WellGone
    <2> QED
      BY <2>1, <2>4, <2>5, <2>7, ProverMoves
  <1>6. CASE ProveMonomials
    <2> DEFINE q == Witness(Witness(prover, Monomials(0)), Monomials(1))
               parts == [proof EXCEPT !.final_fri_monomials = << Monomials(0), Monomials(1) >>,
                                      !.folded_under = Seen(prover)]
    <2>1. Prove("fri", Go(q, "pow"), parts)
      BY <1>6 DEF ProveMonomials, Monomials
    <2>2. Stays(prover, q)
      BY <1>1, <1>2, WellWitnessedTwice
    <2>5. PICK u : parts = [proof EXCEPT
                               !.final_fri_monomials = << Monomials(0), Monomials(1) >>,
                               !.folded_under = u]
      OBVIOUS
    <2> HIDE DEF q, parts
    <2>3. ProofParts(parts) /\ parts.queries = proof.queries
      BY <1>1, <1>2, <2>5 DEF ProofParts, ProofFields
    <2>4. Afterwards(prover, Go(q, "pow")) /\ Go(q, "pow").at = "pow"
      BY <2>2, WellGone
    <2> QED
      BY <2>1, <2>3, <2>4, ProverMoves
  <1>7. CASE ProvePow
    <2> DEFINE seeded == Draw(prover, "pow", PowSeedWords)
               q == Witness(seeded, Nonce)
               pow == << [seed |-> Seen(seeded), bits |-> PowBits(config)] >>
               parts == [proof EXCEPT !.pow = pow]
    <2>1. \/ Prove("pow", Go(prover, "queries"), proof)
          \/ Prove("pow", Go(q, "queries"), parts)
      BY <1>7 DEF ProvePow, ProveSeeded, Nonce
    <2>2. PowSeedWords \in Nat
      BY DEF PowSeedWords
    <2>3. Stays(prover, seeded)
      BY <1>1, <1>2, <2>2, WellDrawing
    <2> HIDE DEF seeded, pow
    <2>4. Stays(prover, q)
      BY <1>2, <2>3, WellWitnessed, StaysTransitive DEF Stays, Afterwards
    <2>5. ProofParts(parts) /\ parts.queries = proof.queries
      BY <1>1, <1>2, PartsPut
    <2> HIDE DEF q, parts
    <2>6. Afterwards(prover, Go(q, "queries")) /\ Go(q, "queries").at = "queries"
      BY <2>4, WellGone
    <2>7. Afterwards(prover, Go(prover, "queries")) /\ Go(prover, "queries").at = "queries"
      BY <1>1, WellMoved
    <2>8. CASE Prove("pow", Go(prover, "queries"), proof)
      BY <1>1, <2>7, <2>8, ProverMoves
    <2>9. CASE Prove("pow", Go(q, "queries"), parts)
      BY <2>5, <2>6, <2>9, ProverMoves
    <2> QED
      BY <2>1, <2>8, <2>9
  <1> QED
    BY <1>4, <1>5, <1>6, <1>7

(* The leaf that is opened for a query is its index. *)
LEMMA LeafIsIndex ==
    ASSUME config \in Configs, NEW index \in Seq(AnyBit), Len(index) = MaxNeededBits, NEW under
    PROVE  Query(Take(index, config.domain), Drop(index, config.domain), under).base.leaf = index
  <1> DEFINE inner == Take(index, config.domain)
             coset == Drop(index, config.domain)
  <1>1. config.domain \in Nat /\ config.rate \in Nat /\ config.cap \in Nat
    BY ConfigAssumption
  <1>2. Len(index) \in Nat /\ config.domain \in 0 .. Len(index)
    BY <1>1 DEF MaxNeededBits
  <1>3. inner \in Seq(AnyBit) /\ Len(inner) = config.domain
    BY <1>2, TakeByPosition
  <1>4. inner \o coset = index
    BY <1>2, TakeAndDrop
  <1> HIDE DEF inner, coset
  <1>5. Shift(0) = 0
    <2>1. DegreeLog(config, 0) = config.domain
      BY <1>1, FoldsAddUp
    <2> QED
      BY <1>1, <2>1 DEF Shift
  <1>6. Drop(inner, 0) = inner
    BY <1>3, SubSeqFull DEF Drop
  <1>7. Query(inner, coset, under).base = OracleQuery(inner, coset, 0)
    BY DEF Query
  <1>8. OracleQuery(inner, coset, 0).leaf = Drop(inner, 0) \o coset
    BY <1>5 DEF OracleQuery
  <1> QED
    BY <1>4, <1>6, <1>7, <1>8 DEF inner, coset

(* A query more, of bits that none of those before had. *)
LEMMA QueryApart ==
    ASSUME NEW p, NEW queries, QueriesApart(p, queries), NEW q, Afterwards(p, q), NEW query,
           query.base.leaf \in Seq(AnyBit),
           \A a \in 1 .. Len(query.base.leaf) : Given(q, query.base.leaf[a]),
           \A x \in AnyBit : Given(p, x) => \A a \in 1 .. Len(query.base.leaf) :
                                               x # query.base.leaf[a]
    PROVE  QueriesApart(q, Append(queries, query))
  <1> DEFINE more == Append(queries, query)
             n == Len(queries)
  <1>1. PICK S : queries \in Seq(S)
    BY DEF QueriesApart
  <1> DEFINE T == S \cup {query}
  <1>2. queries \in Seq(T) /\ query \in T
    <2>1. n \in Nat /\ \A i \in 1 .. n : queries[i] \in S
      BY <1>1, LenProperties, ElementOfSeq
    <2>2. queries = [i \in 1 .. n |-> queries[i]]
      BY <1>1, LenProperties
    <2> QED
      BY <1>1, <2>1, <2>2
  <1> HIDE DEF T
  <1>3. /\ more \in Seq(T) /\ Len(more) = n + 1 /\ n \in Nat
        /\ \A i \in 1 .. n : more[i] = queries[i]
        /\ more[n + 1] = query
    BY <1>2, AppendByPosition, LenProperties
  <1> HIDE DEF more, n
  <1>4. \A i \in 1 .. n + 1 : i \in 1 .. n \/ i = n + 1
    BY <1>3
  <1>5. QueriesApart(q, queries)
    BY QueriesStayApart
  <1>6. /\ \A i \in 1 .. n :
              /\ queries[i].base.leaf \in Seq(AnyBit)
              /\ \A a \in 1 .. Len(queries[i].base.leaf) : Given(q, queries[i].base.leaf[a])
        /\ \A i, j \in 1 .. n : i < j =>
              \A a \in 1 .. Len(queries[i].base.leaf) :
                 \A b \in 1 .. Len(queries[j].base.leaf) :
                    queries[i].base.leaf[a] # queries[j].base.leaf[b]
    BY <1>5 DEF QueriesApart, n
  <1>7. \A i \in 1 .. n : \A a \in 1 .. Len(queries[i].base.leaf) :
           \A b \in 1 .. Len(query.base.leaf) : queries[i].base.leaf[a] # query.base.leaf[b]
    <2> TAKE i \in 1 .. n
    <2> TAKE a \in 1 .. Len(queries[i].base.leaf)
    <2>1. queries[i].base.leaf \in Seq(AnyBit) /\ Given(p, queries[i].base.leaf[a])
      BY DEF QueriesApart, n
    <2>2. queries[i].base.leaf[a] \in AnyBit
      BY <2>1, ElementOfSeq
    <2> QED
      BY <2>1, <2>2
  <1>8. \A i \in 1 .. Len(more) :
           /\ more[i].base.leaf \in Seq(AnyBit)
           /\ \A a \in 1 .. Len(more[i].base.leaf) : Given(q, more[i].base.leaf[a])
    BY <1>3, <1>4, <1>6
  <1>9. ASSUME NEW i \in 1 .. Len(more), NEW j \in 1 .. Len(more), i < j
        PROVE  \A a \in 1 .. Len(more[i].base.leaf) : \A b \in 1 .. Len(more[j].base.leaf) :
                  more[i].base.leaf[a] # more[j].base.leaf[b]
    <2>1. i \in 1 .. n /\ more[i] = queries[i]
      BY <1>3, <1>9
    <2>2. CASE j \in 1 .. n
      <3>1. more[j] = queries[j]
        BY <1>3, <2>2
      <3>2. PICK x, y : x = queries[i].base.leaf /\ y = queries[j].base.leaf
        OBVIOUS
      <3>3. \A a \in 1 .. Len(x) : \A b \in 1 .. Len(y) : x[a] # y[b]
        BY <1>6, <1>9, <2>1, <2>2, <3>2
      <3> QED
        BY <2>1, <3>1, <3>2, <3>3
    <2>3. CASE j = n + 1
      <3>1. more[j] = query
        BY <1>3, <2>3
      <3> QED
        BY <1>7, <2>1, <3>1
    <2> QED
      BY <1>3, <1>4, <2>2, <2>3
  <1> QED
    BY <1>3, <1>8, <1>9 DEF QueriesApart, more

(* The queries. *)
LEMMA QueriesDrawWell ==
    ASSUME AllDrawWell, ProveQuery \/ ProveEnd
    PROVE  AllDrawWell'
  <1>1. /\ config \in Configs /\ WellDrawn(prover) /\ ProofParts(proof)
        /\ QueriesApart(prover, proof.queries)
    BY DEF AllDrawWell, DrawsWell
  <1>2. CASE ProveQuery
    <2> DEFINE index == DrawIndex(prover).index
               party == Queried(prover)
               query == Query(Take(index, config.domain), Drop(index, config.domain),
                              party.t.chain)
               parts == [proof EXCEPT !.queries = Append(proof.queries, query)]
    <2>1. Prove("queries", party, parts)
      BY <1>2 DEF ProveQuery, ProveIndex, Queried
    <2>2. /\ Stays(prover, party) /\ index \in Seq(AnyBit) /\ Len(index) = MaxNeededBits
          /\ \A a \in 1 .. Len(index) : Given(party, index[a])
          /\ \A x \in AnyBit : Given(prover, x) => \A a \in 1 .. Len(index) : x # index[a]
      BY <1>1, WellQueried
    <2> HIDE DEF index, party
    <2>3. query.base.leaf = index
      BY <1>1, <2>2, LeafIsIndex
    <2> HIDE DEF query
    <2>4. Afterwards(prover, party) /\ party.at = "queries"
      BY <2>1, <2>2 DEF Stays, Prove
    <2>5. QueriesApart(party, Append(proof.queries, query))
      BY <1>1, <2>2, <2>3, <2>4, QueryApart
    <2>6. ProofParts(parts) /\ parts.queries = Append(proof.queries, query)
      <3>1. << >> \in Seq(Sent)
        BY EmptySeq
      <3> QED
        BY ZenonT(40), <1>1, <3>1, PartsPut
    <2> HIDE DEF parts
    <2>7. DrawsWell(party)
      BY <2>4 DEF DrawsWell, Afterwards
    <2>8. /\ prover' = party /\ proof' = parts /\ config' = config
          /\ verifier' = verifier /\ recursive' = recursive
      BY <2>1 DEF Prove
    <2> QED
      BY <2>5, <2>6, <2>7, <2>8 DEF AllDrawWell
  <1>3. CASE ProveEnd
    <2>1. Prove("queries", Go(prover, "done"), proof)
      BY <1>3 DEF ProveEnd
    <2>2. Afterwards(prover, Go(prover, "done")) /\ Go(prover, "done").at = "done"
      BY <1>1, WellMoved
    <2> QED
      BY <1>1, <2>1, <2>2, ProverMoves
  <1> QED
    BY <1>2, <1>3

\* What a step of the verifier or its circuit witnesses and draws, of p: it is where it should be.
Moved(p, q) == Afterwards(p, q) /\ (q.at = "fri" => q.folds >= 1 /\ CapsCounted)

(* The moves of the verifiers, from what the proof has. *)
LEMMA RoundsMoved ==
    ASSUME AllDrawWell, NEW p, WellDrawn(p)
    PROVE  /\ Moved(p, Go(Witness(Witness(p, Cap("setup", 0)), proof.public_inputs), "witness"))
           /\ Moved(p, Go(DrawLookup(DrawTwo(Witness(p, proof.witness_oracle_cap),
                                             "beta", "gamma")), "stage_2"))
           /\ Moved(p, Go(Draw(Witness(p, proof.stage_2_oracle_cap), "alpha", 2), "quotient"))
           /\ Moved(p, Go(Draw(Witness(p, proof.quotient_oracle_cap), "z", 2), "openings"))
           /\ CapsCounted =>
                 Moved(p, [Go(Draw(Witness(p, proof.fri_base_oracle_cap), "fri", 2), "fri")
                               EXCEPT !.folds = 1])
           /\ \A at \in {"pow", "queries"} :
                 Moved(p, Go(Witness(Witness(p, proof.final_fri_monomials[1]),
                                     proof.final_fri_monomials[2]), at))
  <1>1. config \in Configs /\ ProofParts(proof)
    BY DEF AllDrawWell
  <1>2. Cap("setup", 0) \in Seq(Sent) /\ {"alpha", "z", "fri"} \subseteq ChallengeNames
    <2>1. /\ \A name \in Names, i \in Nat : Cap(name, i) \in Seq(Sent)
          /\ {"setup", "witness", "stage_2", "quotient", "fri"} \subseteq Names
          /\ {"alpha", "z", "deep", "fri", "pow"} \subseteq ChallengeNames
      BY <1>1, WitnessedIsSent
    <2>2. 0 \in Nat /\ "setup" \in Names
      BY <2>1
    <2> QED
      BY <2>1, <2>2
  <1>3. /\ proof.public_inputs \in Seq(Sent) /\ proof.witness_oracle_cap \in Seq(Sent)
        /\ proof.stage_2_oracle_cap \in Seq(Sent) /\ proof.quotient_oracle_cap \in Seq(Sent)
        /\ proof.fri_base_oracle_cap \in Seq(Sent)
        /\ proof.final_fri_monomials[1] \in Seq(Sent)
        /\ proof.final_fri_monomials[2] \in Seq(Sent)
    BY <1>1 DEF ProofParts
  <1>4. ASSUME NEW q, Stays(p, q)
        PROVE  \A at \in {"witness", "stage_2", "quotient", "openings", "pow", "queries"} :
                  Moved(p, Go(q, at))
    BY <1>4, WellGone DEF Moved
  <1>5. Moved(p, Go(Witness(Witness(p, Cap("setup", 0)), proof.public_inputs), "witness"))
    BY <1>2, <1>3, <1>4, WellWitnessedTwice
  <1>6. Moved(p, Go(DrawLookup(DrawTwo(Witness(p, proof.witness_oracle_cap), "beta", "gamma")),
                    "stage_2"))
    BY <1>3, <1>4, WellWitnessedDrawing
  <1>7. Moved(p, Go(Draw(Witness(p, proof.stage_2_oracle_cap), "alpha", 2), "quotient"))
    BY <1>2, <1>3, <1>4, WellWitnessedDrawing
  <1>8. Moved(p, Go(Draw(Witness(p, proof.quotient_oracle_cap), "z", 2), "openings"))
    BY <1>2, <1>3, <1>4, WellWitnessedDrawing
  <1>9. ASSUME CapsCounted
        PROVE  Moved(p, [Go(Draw(Witness(p, proof.fri_base_oracle_cap), "fri", 2), "fri")
                             EXCEPT !.folds = 1])
    <2> DEFINE q == Draw(Witness(p, proof.fri_base_oracle_cap), "fri", 2)
               r == [Go(q, "fri") EXCEPT !.folds = 1]
    <2>1. Stays(p, q)
      BY <1>2, <1>3, WellWitnessedDrawing
    <2> HIDE DEF q
    <2>2. 1 \in Nat /\ 1 >= 1
      OBVIOUS
    <2>3. Afterwards(p, r) /\ r.folds = 1
      BY <2>1, <2>2, WellGone
    <2> HIDE DEF r
    <2>4. Moved(p, r)
      BY <1>9, <2>2, <2>3 DEF Moved
    <2> QED
      BY <2>4 DEF q, r
  <1>10. \A at \in {"pow", "queries"} :
            Moved(p, Go(Witness(Witness(p, proof.final_fri_monomials[1]),
                                proof.final_fri_monomials[2]), at))
    BY <1>3, <1>4, WellWitnessedTwice
  <1> QED
    BY <1>5, <1>6, <1>7, <1>8, <1>9, <1>10

(* A fold of the verifiers: the caps that are looked up are in the proof. *)
LEMMA FoldMoved ==
    ASSUME AllDrawWell, NEW p, WellDrawn(p), p.folds >= 1, p.folds < Len(Folds(config)),
           NEW caps, caps = proof.fri_intermediate_oracles_caps, CapsCounted
    PROVE  Moved(p, [Draw(Witness(p, caps[p.folds]), "fri", 2) EXCEPT !.folds = @ + 1])
  <1> DEFINE cap == caps[p.folds]
             q == Draw(Witness(p, cap), "fri", 2)
             r == [q EXCEPT !.folds = @ + 1]
  <1>1. config \in Configs /\ caps \in Seq(Seq(Sent)) /\ p.folds \in Nat
    BY DEF AllDrawWell, ProofParts, WellDrawn
  <1>2. Len(Folds(config)) \in Nat
    <2>1. config.domain \in Nat /\ config.rate \in Nat /\ config.cap \in Nat
      BY <1>1, ConfigAssumption
    <2>2. Folds(config) \in Seq(1 .. 3)
      BY <2>1, FoldsAddUp
    <2> QED
      BY <2>2, LenProperties
  <1>3. p.folds \in 1 .. Len(caps)
    BY <1>1, <1>2 DEF CapsCounted
  <1>4. cap \in Seq(Sent)
    BY <1>1, <1>3, ElementOfSeq
  <1> HIDE DEF cap
  <1>5. "fri" \in ChallengeNames
    BY DEF ChallengeNames
  <1>6. Stays(p, q)
    BY <1>4, <1>5, WellWitnessedDrawing
  <1> HIDE DEF q
  <1>7. q.folds = p.folds /\ p.folds + 1 \in Nat /\ p.folds + 1 >= 1
    BY <1>1, <1>6 DEF Stays
  <1>8. r = [q EXCEPT !.folds = p.folds + 1]
    BY <1>7
  <1> HIDE DEF r
  <1>9. Afterwards(p, r) /\ r.folds = p.folds + 1
    BY <1>6, <1>7, <1>8, WellGone
  <1>10. Moved(p, r)
    BY <1>7, <1>9 DEF Moved
  <1> QED
    BY <1>10 DEF r, q, cap

(* The openings, which one verifier witnesses together and the other one after the other. *)
LEMMA OpeningsMoved ==
    ASSUME AllDrawWell, NEW p, WellDrawn(p)
    PROVE  /\ Moved(p, Go(Draw(Witness(p, proof.values_at_z \o proof.values_at_z_omega
                                             \o proof.values_at_0), "deep", 2), "fri_base"))
           /\ Moved(p, Go(Draw(Witness(Witness(Witness(p, proof.values_at_z),
                                                       proof.values_at_z_omega),
                                       proof.values_at_0), "deep", 2), "fri_base"))
  <1>1. /\ proof.values_at_z \in Seq(Sent) /\ proof.values_at_z_omega \in Seq(Sent)
        /\ proof.values_at_0 \in Seq(Sent)
    BY DEF AllDrawWell, ProofParts
  <1>2. PICK x, y, z : /\ x = proof.values_at_z /\ y = proof.values_at_z_omega
                       /\ z = proof.values_at_0
    OBVIOUS
  <1>3. x \in Seq(Sent) /\ y \in Seq(Sent) /\ z \in Seq(Sent) /\ x \o y \o z \in Seq(Sent)
    BY <1>1, <1>2, ConcatProperties
  <1>4. "deep" \in ChallengeNames
    BY DEF ChallengeNames
  <1>5. ASSUME NEW q, Stays(p, q)
        PROVE  Moved(p, Go(q, "fri_base"))
    BY <1>5, WellGone DEF Moved
  <1>6. Moved(p, Go(Draw(Witness(p, x \o y \o z), "deep", 2), "fri_base"))
    <2> DEFINE all == x \o y \o z
    <2>1. all \in Seq(Sent)
      BY <1>3
    <2> HIDE DEF all
    <2>2. Stays(p, Draw(Witness(p, all), "deep", 2))
      BY <1>4, <2>1, WellWitnessedDrawing
    <2>3. Moved(p, Go(Draw(Witness(p, all), "deep", 2), "fri_base"))
      BY <1>5, <2>2
    <2> QED
      BY <2>3 DEF all
  <1>7. Moved(p, Go(Draw(Witness(Witness(Witness(p, x), y), z), "deep", 2), "fri_base"))
    <2> DEFINE q == Witness(Witness(p, x), y)
    <2>1. Stays(p, q)
      BY <1>3, WellWitnessedTwice
    <2> HIDE DEF q
    <2>2. Stays(q, Draw(Witness(q, z), "deep", 2))
      BY <1>3, <1>4, <2>1, WellWitnessedDrawing DEF Stays, Afterwards
    <2>3. Stays(p, Draw(Witness(q, z), "deep", 2))
      BY <2>1, <2>2, StaysTransitive
    <2> QED
      BY <1>5, <2>3 DEF q
  <1> QED
    BY <1>2, <1>6, <1>7

(* A query of the verifiers. *)
LEMMA QueryMoved ==
    ASSUME AllDrawWell, NEW p, WellDrawn(p), p.at = "queries"
    PROVE  Moved(p, [DrawIndex(p).party EXCEPT !.checked = @ + 1])
  <1>1. config \in Configs
    BY DEF AllDrawWell
  <1> DEFINE q == Queried(p)
  <1>2. Stays(p, q)
    BY <1>1, WellQueried
  <1> HIDE DEF q
  <1>3. Stays(p, [q EXCEPT !.checked = q.checked + 1])
    BY <1>2, WellGone
  <1>4. Moved(p, [q EXCEPT !.checked = q.checked + 1])
    BY <1>3 DEF Moved, Stays
  <1> QED
    BY <1>4 DEF q, Queried

(* The verifier. *)
LEMMA VerifierDrawsWell ==
    ASSUME AllDrawWell, FoldsCounted, VerifierStep
    PROVE  AllDrawWell' /\ FoldsCounted'
  <1>1. /\ config \in Configs /\ WellDrawn(verifier)
        /\ (verifier.at = "fri" => verifier.folds >= 1)
    BY DEF AllDrawWell, DrawsWell
  <1>2. ASSUME NEW from, NEW ok, NEW party, Verify(from, ok, party), ok => Moved(verifier, party)
        PROVE  AllDrawWell' /\ FoldsCounted'
    BY <1>2, VerifierMoves DEF Moved
  <1>3. CASE VerifySetup
    BY <1>1, <1>2, <1>3, RoundsMoved DEF VerifySetup
  <1>4. CASE VerifyWitness
    BY <1>1, <1>2, <1>4, RoundsMoved DEF VerifyWitness
  <1>5. CASE VerifyStage2
    BY <1>1, <1>2, <1>5, RoundsMoved DEF VerifyStage2
  <1>6. CASE VerifyQuotient
    BY <1>1, <1>2, <1>6, RoundsMoved DEF VerifyQuotient
  <1>7. CASE VerifyOpenings
    BY <1>1, <1>2, <1>7, OpeningsMoved DEF VerifyOpenings
  <1>8. CASE VerifyFriBase
    BY <1>1, <1>2, <1>8, RoundsMoved DEF VerifyFriBase, CapsCounted
  <1>9. CASE VerifyFriFold
    <2> DEFINE caps == proof.fri_intermediate_oracles_caps
               ok == IsCap(caps[verifier.folds])
               party == [Draw(Witness(verifier, caps[verifier.folds]), "fri", 2)
                             EXCEPT !.folds = @ + 1]
    <2>1. Verify("fri", ok, party) /\ verifier.folds < Len(Folds(config))
      BY <1>9 DEF VerifyFriFold
    <2>2. verifier.folds >= 1 /\ CapsCounted
      BY <1>1, <2>1 DEF Verify, FoldsCounted
    <2>3. ok => Moved(verifier, party)
      BY <1>1, <2>1, <2>2, FoldMoved
    <2> HIDE DEF ok, party
    <2> QED
      BY <1>2, <2>1, <2>3
  <1>10. CASE VerifyMonomials
    <2>1. "pow" \in {"pow", "queries"}
      OBVIOUS
    <2> QED
      BY <1>1, <1>2, <1>10, <2>1, RoundsMoved DEF VerifyMonomials
  <1>11. CASE VerifyPow
    <2>1. Moved(verifier, Go(verifier, "queries"))
      BY <1>1, WellMoved DEF Moved
    <2> DEFINE seeded == Draw(verifier, "pow", PowSeedWords)
               q == Witness(seeded, Nonce)
    <2>2. PowSeedWords \in Nat /\ "pow" \in ChallengeNames
      BY DEF PowSeedWords, ChallengeNames
    <2>3. Stays(verifier, seeded)
      BY <1>1, <2>2, WellDrawing
    <2>4. Nonce \in Seq(Sent)
      BY <1>1, WitnessedIsSent
    <2> DEFINE ok == \E nonce \in ToSet(proof.pow) :
                        nonce.seed = Seen(seeded) /\ nonce.bits >= config.pow
    <2>5. \/ Verify("pow", TRUE, Go(verifier, "queries"))
          \/ Verify("pow", ok, Go(q, "queries"))
      BY <1>11 DEF VerifyPow, VerifySeeded, Nonce
    <2> HIDE DEF seeded, ok
    <2>6. Stays(verifier, q)
      BY <2>3, <2>4, WellWitnessed, StaysTransitive DEF Stays, Afterwards
    <2> HIDE DEF q
    <2>7. Moved(verifier, Go(q, "queries"))
      BY <2>6, WellGone DEF Moved
    <2> QED
      BY <1>2, <2>1, <2>5, <2>7
  <1>12. CASE VerifyQuery
    <2> DEFINE query == proof.queries[verifier.checked + 1]
               drawn == DrawIndex(verifier)
               inner == Take(drawn.index, config.domain)
               coset == Drop(drawn.index, config.domain)
               ok == /\ query.under = drawn.party.t.chain
                     /\ Included(query.base, inner \o coset, BaseOracleDepth)
                     /\ FriQueriesValid(query.fri, inner \o coset)
               party == [drawn.party EXCEPT !.checked = @ + 1]
    <2>1. Verify("queries", ok, party)
      BY <1>12 DEF VerifyQuery, VerifyIndex
    <2>2. Moved(verifier, party)
      BY <1>1, <2>1, QueryMoved DEF Verify
    <2> HIDE DEF ok, party
    <2> QED
      BY <1>2, <2>1, <2>2
  <1>13. CASE VerifyEnd
    <2>1. Moved(verifier, Go(verifier, "accepted"))
      BY <1>1, WellMoved DEF Moved
    <2> QED
      BY <1>2, <1>13, <2>1 DEF VerifyEnd
  <1> QED
    BY <1>3, <1>4, <1>5, <1>6, <1>7, <1>8, <1>9, <1>10, <1>11, <1>12, <1>13 DEF VerifierStep

(* Its circuit. *)
LEMMA CircuitDrawsWell ==
    ASSUME AllDrawWell, FoldsCounted, RecursiveStep
    PROVE  AllDrawWell' /\ FoldsCounted'
  <1>1. /\ config \in Configs /\ WellDrawn(recursive)
        /\ (recursive.at = "fri" => recursive.folds >= 1)
    BY DEF AllDrawWell, DrawsWell
  <1>2. ASSUME NEW from, NEW ok, NEW flag, NEW party, Build(from, ok, flag, party),
               ok => Moved(recursive, party)
        PROVE  AllDrawWell' /\ FoldsCounted'
    BY <1>2, CircuitMoves DEF Moved
  <1>3. CASE BuildSetup
    BY <1>1, <1>2, <1>3, RoundsMoved DEF BuildSetup
  <1>4. CASE BuildWitness
    BY <1>1, <1>2, <1>4, RoundsMoved DEF BuildWitness
  <1>5. CASE BuildStage2
    BY <1>1, <1>2, <1>5, RoundsMoved DEF BuildStage2
  <1>6. CASE BuildQuotient
    BY <1>1, <1>2, <1>6, RoundsMoved DEF BuildQuotient
  <1>7. CASE BuildOpenings
    BY <1>1, <1>2, <1>7, OpeningsMoved DEF BuildOpenings
  <1>8. CASE BuildFriBase
    BY <1>1, <1>2, <1>8, RoundsMoved DEF BuildFriBase, CapsCounted
  <1>9. CASE BuildFriFold
    <2> DEFINE caps == proof.fri_intermediate_oracles_caps
               ok == AssertCap(caps[recursive.folds])
               party == [Draw(Witness(recursive, caps[recursive.folds]), "fri", 2)
                             EXCEPT !.folds = @ + 1]
    <2>1. Build("fri", ok, TRUE, party) /\ recursive.folds < Len(Folds(config))
      BY <1>9 DEF BuildFriFold
    <2>2. recursive.folds >= 1 /\ CapsCounted
      BY <1>1, <2>1 DEF Build, FoldsCounted
    <2>3. ok => Moved(recursive, party)
      BY <1>1, <2>1, <2>2, FoldMoved
    <2> HIDE DEF ok, party
    <2> QED
      BY <1>2, <2>1, <2>3
  <1>10. CASE BuildMonomials
    <2>1. "queries" \in {"pow", "queries"}
      OBVIOUS
    <2> QED
      BY <1>1, <1>2, <1>10, <2>1, RoundsMoved DEF BuildMonomials
  <1>11. CASE BuildQuery
    <2> DEFINE query == proof.queries[recursive.checked + 1]
               drawn == DrawIndex(recursive)
               Rest(i) == Drop(drawn.index, Shift(i))
               ok == /\ Len(proof.queries) = NumQueries(config)
                     /\ Path(query.base, drawn.index, BaseOracleDepth)
                     /\ \A i \in 1 .. Len(Folds(config)) :
                           Path(query.fri[i], Rest(i), BaseOracleDepth - Shift(i))
               flag == /\ query.under = drawn.party.t.chain
                       /\ query.base.leaf = drawn.index
                       /\ \A i \in 1 .. Len(Folds(config)) :
                             Take(Rest(i - 1), Folds(config)[i]) \o query.fri[i].leaf
                             = Rest(i - 1)
               party == [drawn.party EXCEPT !.checked = @ + 1]
    <2>1. Build("queries", ok, flag, party)
      BY <1>11 DEF BuildQuery, BuildIndex
    <2>2. Moved(recursive, party)
      BY <1>1, <2>1, QueryMoved DEF Build
    <2> HIDE DEF ok, flag, party
    <2> QED
      BY <1>2, <2>1, <2>2
  <1>12. CASE BuildEnd
    <2> DEFINE at == IF recursive.valid THEN "accepted" ELSE "rejected"
    <2>1. Build("queries", TRUE, TRUE, Go(recursive, at))
      BY <1>12 DEF BuildEnd
    <2>2. at # "fri"
      OBVIOUS
    <2> HIDE DEF at
    <2>3. Moved(recursive, Go(recursive, at))
      BY <1>1, <2>2, WellMoved DEF Moved
    <2> QED
      BY <1>2, <2>1, <2>3
  <1> QED
    BY <1>3, <1>4, <1>5, <1>6, <1>7, <1>8, <1>9, <1>10, <1>11, <1>12 DEF RecursiveStep

(* Every step keeps it so. *)
LEMMA StepsDrawWell ==
    ASSUME AllDrawWell, FoldsCounted, [Next]_vars
    PROVE  AllDrawWell' /\ FoldsCounted'
  <1>1. CASE ProverStep
    <2>1. AllDrawWell'
      BY <1>1, RoundsDrawWell, FriDrawsWell, QueriesDrawWell DEF ProverStep
    <2> QED
      BY <1>1, <2>1, ProverCounts
  <1>2. CASE VerifierStep
    BY <1>2, VerifierDrawsWell
  <1>3. CASE RecursiveStep
    BY <1>3, CircuitDrawsWell
  <1>4. CASE UNCHANGED vars
    BY <1>4 DEF vars, AllDrawWell, FoldsCounted, CapsCounted
  <1> QED
    BY <1>1, <1>2, <1>3, <1>4 DEF Next, Finished

(* Every challenge depends on all that its party had witnessed before: its words come from a
   state that has absorbed just that, as get_challenge of cs/implementations/transcript.rs
   absorbs what is in the buffer first and gives up the words that were left over. *)
THEOREM ChallengesAreBound == Spec => []ChallengesBind
  <1>1. ASSUME AllDrawWell
        PROVE  ChallengesBind
    <2>1. ASSUME NEW p, DrawsWell(p), NEW i \in 1 .. Len(p.drawn),
                 NEW word \in ToSet(p.drawn[i].words)
          PROVE  Content(p, word[1]) = Take(p.sent, p.drawn[i].sent)
      <3>1. p.drawn \in Seq(Drawings) /\ Binds(p.t, p.sent, p.drawn[i])
        BY <2>1 DEF DrawsWell, WellDrawn, DrawnSoFar
      <3>2. p.drawn[i].words \in Seq(AnyWord)
        <4>1. p.drawn[i] \in Drawings
          BY <3>1, ElementOfSeq
        <4> QED
          BY <4>1 DEF Drawings
      <3>3. PICK k \in 1 .. Len(p.drawn[i].words) : word = p.drawn[i].words[k]
        <4>1. DOMAIN p.drawn[i].words = 1 .. Len(p.drawn[i].words)
          BY <3>2, LenProperties
        <4> QED
          BY <4>1 DEF ToSet
      <3> QED
        BY <3>1, <3>3 DEF Binds, Content, UpTo
    <2> QED
      BY <1>1, <2>1 DEF AllDrawWell, ChallengesBind
  <1> QED
    BY <1>1, InitDrawsWell, InitFoldsCounted, StepsDrawWell, PTL DEF Spec

(* No word of a transcript serves twice, no bit is in the buffer of BoolsBuffer::get_bits
   twice, and the indices of two queries have no bit in common. *)
THEOREM NothingIsDrawnTwice == Spec => []NothingDrawnTwice
  <1>1. ASSUME AllDrawWell
        PROVE  NothingDrawnTwice
    <2>1. ASSUME NEW p, DrawsWell(p)
          PROVE  /\ IsInjective(FlattenSeq([i \in 1 .. Len(p.drawn) |-> p.drawn[i].words]))
                 /\ IsInjective(p.bits)
      <3>1. /\ p.drawn \in Seq(Drawings) /\ Ordered(WordsOf(p.drawn))
            /\ p.bits \in Seq(AnyBit) /\ AllApart(p.bits)
        BY <2>1 DEF DrawsWell, WellDrawn, DrawnSoFar, BitsLeft
      <3>2. WordsOf(p.drawn) \in Seq(AnyWord)
        <4>1. [name |-> "z", words |-> << >>, sent |-> 0] \in Drawings
          <5>1. << >> \in Seq(AnyWord)
            BY EmptySeq
          <5> QED
            BY <5>1 DEF Drawings, ChallengeNames
        <4> QED
          BY <3>1, <4>1, WordsTogether
      <3>3. IsInjective(WordsOf(p.drawn))
        BY <3>1, <3>2, OrderedApart
      <3>4. IsInjective(p.bits)
        <4>1. DOMAIN p.bits = 1 .. Len(p.bits)
          BY <3>1, LenProperties
        <4> QED
          BY <3>1, <4>1 DEF IsInjective, AllApart
      <3> QED
        BY <3>3, <3>4 DEF WordsOf
    <2>2. \A i, j \in 1 .. Len(proof.queries) :
             i < j => ToSet(proof.queries[i].base.leaf)
                         \cap ToSet(proof.queries[j].base.leaf) = {}
      <3> SUFFICES ASSUME NEW i \in 1 .. Len(proof.queries), NEW j \in 1 .. Len(proof.queries),
                          i < j
                   PROVE  ToSet(proof.queries[i].base.leaf)
                             \cap ToSet(proof.queries[j].base.leaf) = {}
        OBVIOUS
      <3>1. PICK x, y : x = proof.queries[i].base.leaf /\ y = proof.queries[j].base.leaf
        OBVIOUS
      <3>2. /\ x \in Seq(AnyBit) /\ y \in Seq(AnyBit)
            /\ \A a \in 1 .. Len(x) : \A b \in 1 .. Len(y) : x[a] # y[b]
        BY <1>1, <3>1 DEF AllDrawWell, QueriesApart
      <3>3. DOMAIN x = 1 .. Len(x) /\ DOMAIN y = 1 .. Len(y)
        BY <3>2, LenProperties
      <3>4. ToSet(x) \cap ToSet(y) = {}
        BY <3>2, <3>3 DEF ToSet
      <3> QED
        BY <3>1, <3>4
    <2> QED
      BY <1>1, <2>1, <2>2 DEF AllDrawWell, NothingDrawnTwice
  <1> QED
    BY <1>1, InitDrawsWell, InitFoldsCounted, StepsDrawWell, PTL DEF Spec
=============================================================================
