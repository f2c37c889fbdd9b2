---------------------------- MODULE CommonFacts -----------------------------
(***************************************************************************)
(* Facts the proofs share: what Max and Min return for a bounded set, as   *)
(* the single-threaded resolver and the run of tracked places use them,    *)
(* division with remainder, by which the proof of work and the lock-step   *)
(* channel deal their work to the threads, and the two ends of a queue.    *)
(***************************************************************************)
EXTENDS Integers, Sequences, FiniteSetsExt, WellFoundedInduction, TLAPS

(* The order of the natural numbers, as a relation. *)
LEMMA LessWellFounded == IsWellFoundedOn({ss \in Nat \X Nat : ss[1] < ss[2]}, Nat)
  BY NatLessThanWellFounded DEF OpToRel

(* A set of natural numbers has a smallest element: an argument by induction takes
   the smallest counterexample. *)
THEOREM LeastNatural ==
    ASSUME NEW T, T \subseteq Nat, T # {}
    PROVE  \E x \in T : \A y \in T : x <= y
  <1> DEFINE R == {ss \in Nat \X Nat : ss[1] < ss[2]}
  <1>1. IsWellFoundedOn(R, Nat)
    BY LessWellFounded
  <1> HIDE DEF R
  <1>2. PICK x \in T : \A y \in T : ~ (<<y, x>> \in R)
    BY <1>1, WFMin
  <1>3. \A y \in T : <<y, x>> \in Nat \X Nat /\ <<y, x>>[1] = y /\ <<y, x>>[2] = x
    OBVIOUS
  <1>4. \A y \in T : ~ (y < x)
    BY <1>2, <1>3 DEF R
  <1> QED
    BY <1>4

(* Max of a set that is bounded from above, as places are by their number. *)
THEOREM MaxOfBounded ==
    ASSUME NEW S, S \subseteq Int, S # {}, NEW b \in Int, \A s \in S : s <= b
    PROVE  Max(S) \in S /\ \A s \in S : s <= Max(S)
  <1> DEFINE T == {b - s : s \in S}
  <1>1. T \subseteq Nat /\ T # {}
    <2>1. \A s \in S : b - s \in Nat /\ b - s \in T
      OBVIOUS
    <2> QED
      BY <2>1
  <1>2. PICK x \in T : \A y \in T : x <= y
    BY <1>1, LeastNatural
  <1>3. PICK m \in S : x = b - m
    BY <1>2
  <1>4. \A s \in S : m >= s
    <2> TAKE s \in S
    <2>1. b - s \in T
      OBVIOUS
    <2> QED
      BY <1>2, <1>3, <2>1
  <1>5. \E n \in S : \A s \in S : n >= s
    BY <1>4
  <1> HIDE DEF T
  <1>6. Max(S) \in S /\ \A s \in S : Max(S) >= s
    BY <1>5 DEF Max
  <1> QED
    BY <1>6

(* Min of a set that is bounded from below. *)
THEOREM MinOfBounded ==
    ASSUME NEW S, S \subseteq Int, S # {}, NEW b \in Int, \A s \in S : b <= s
    PROVE  Min(S) \in S /\ \A s \in S : Min(S) <= s
  <1> DEFINE T == {s - b : s \in S}
  <1>1. T \subseteq Nat /\ T # {}
    <2>1. \A s \in S : s - b \in Nat /\ s - b \in T
      OBVIOUS
    <2> QED
      BY <2>1
  <1>2. PICK x \in T : \A y \in T : x <= y
    BY <1>1, LeastNatural
  <1>3. PICK m \in S : x = m - b
    BY <1>2
  <1>4. \A s \in S : m <= s
    <2> TAKE s \in S
    <2>1. s - b \in T
      OBVIOUS
    <2> QED
      BY <1>2, <1>3, <2>1
  <1>5. \E n \in S : \A s \in S : n <= s
    BY <1>4
  <1> HIDE DEF T
  <1>6. Min(S) \in S /\ \A s \in S : Min(S) <= s
    BY <1>5 DEF Min
  <1> QED
    BY <1>6

(* Max of -1 and some of the first N numbers. *)
LEMMA MaxOrMinusOne ==
    ASSUME NEW N \in Nat, NEW S, S \subseteq 0 .. N - 1
    PROVE  /\ Max({-1} \cup S) \in Int
           /\ Max({-1} \cup S) \in S \cup {-1}
           /\ \A p \in {-1} \cup S : p <= Max({-1} \cup S)
  <1>1. {-1} \cup S \subseteq Int /\ {-1} \cup S # {} /\ N \in Int
        /\ \A q \in {-1} \cup S : q <= N
    OBVIOUS
  <1> DEFINE T == {-1} \cup S
  <1> HIDE DEF T
  <1>2. Max(T) \in T /\ \A s \in T : s <= Max(T)
    BY <1>1, MaxOfBounded DEF T
  <1>3. \A s \in T : s \in Int
    BY <1>1 DEF T
  <1> QED
    BY <1>2, <1>3 DEF T

(* The end of the unbroken run of numbers in a set: everything up to it is there,
   the next number is not. *)
LEMMA UnbrokenRun ==
    ASSUME NEW N \in Nat, NEW places, places \subseteq 0 .. N - 1
    PROVE  LET m == Max({-1} \cup {p \in 0 .. N - 1 : 0 .. p \subseteq places})
           IN  /\ m \in Int /\ m >= -1
               /\ 0 .. m \subseteq places
               /\ m + 1 \notin places
  <1> DEFINE S == {p \in 0 .. N - 1 : 0 .. p \subseteq places}
             m == Max({-1} \cup S)
  <1>1. m \in Int /\ m \in S \cup {-1} /\ \A p \in {-1} \cup S : p <= m
    <2>1. S \subseteq 0 .. N - 1
      OBVIOUS
    <2> HIDE DEF S
    <2> QED
      BY <2>1, MaxOrMinusOne
  <1>2. 0 .. m \subseteq places
    BY <1>1
  <1>3. m + 1 \notin places
    <2> SUFFICES ASSUME m + 1 \in places PROVE FALSE
      OBVIOUS
    <2>1. m >= -1
      BY <1>1
    <2> HIDE DEF m
    <2>2. \A p \in 0 .. m + 1 : p \in 0 .. m \/ p = m + 1
      BY <1>1, <2>1
    <2>3. 0 .. m + 1 \subseteq places
      BY <1>2, <2>2
    <2>4. m + 1 \in S
      BY <2>3
    <2>5. m + 1 <= m
      BY <1>1, <2>4
    <2> QED
      BY <1>1, <2>5
  <1>4. m >= -1
    BY <1>1
  <1> QED
    BY <1>1, <1>2, <1>3, <1>4

-----------------------------------------------------------------------------
(* Division *)

(* Multiplication by a natural number is monotone. *)
LEMMA TimesMonotone ==
    ASSUME NEW a \in Int, NEW b \in Int, NEW c \in Nat, a <= b
    PROVE  a * c <= b * c
  <1>1. b * c - a * c = (b - a) * c
    OBVIOUS
  <1>2. b - a \in Nat
    OBVIOUS
  <1>3. (b - a) * c \in Nat
    BY <1>2
  <1> QED
    BY <1>1, <1>3

(* A quotient is the number of whole divisors. *)
LEMMA Quotient ==
    ASSUME NEW a \in Nat, NEW b \in Nat, b # 0
    PROVE  a \div b \in Nat /\ (a \div b) * b <= a
  BY SMT

(* Division with remainder. *)
LEMMA Division ==
    ASSUME NEW a \in Nat, NEW b \in Nat, b # 0
    PROVE  /\ a \div b \in Nat
           /\ a % b \in 0 .. b - 1
           /\ a = ((a \div b) * b) + (a % b)
  BY SMT

(* A quotient stays below a bound its dividend stays below. *)
LEMMA QuotientBound ==
    ASSUME NEW a \in Nat, NEW b \in Nat, b # 0, NEW c \in Nat, a < c * b
    PROVE  a \div b < c
  <1> DEFINE q == a \div b
  <1>1. q \in Nat /\ q * b <= a
    BY Quotient
  <1>2. SUFFICES ASSUME c <= q PROVE FALSE
    BY <1>1
  <1>3. c * b <= q * b
    BY <1>1, <1>2, TimesMonotone
  <1>4. c * b \in Nat /\ q * b \in Nat
    BY <1>1
  <1> QED
    BY <1>1, <1>3, <1>4

-----------------------------------------------------------------------------
(* Queues *)

(* Taking the head off a queue, and appending to it, by positions. *)
LEMMA TailByPosition ==
    ASSUME NEW S, NEW s \in Seq(S), s # << >>
    PROVE  /\ Head(s) \in S /\ Head(s) = s[1] /\ 1 \in 1 .. Len(s)
           /\ Tail(s) \in Seq(S) /\ Len(Tail(s)) = Len(s) - 1
           /\ \A k \in 1 .. Len(Tail(s)) : k + 1 \in 1 .. Len(s) /\ Tail(s)[k] = s[k + 1]
  OBVIOUS

LEMMA AppendByPosition ==
    ASSUME NEW S, NEW s \in Seq(S), NEW e \in S
    PROVE  /\ Append(s, e) \in Seq(S) /\ Len(Append(s, e)) = Len(s) + 1
           /\ \A k \in 1 .. Len(s) : Append(s, e)[k] = s[k]
           /\ Append(s, e)[Len(s) + 1] = e
           /\ Head(Append(s, e)) = IF s = << >> THEN e ELSE Head(s)
  OBVIOUS
=============================================================================
