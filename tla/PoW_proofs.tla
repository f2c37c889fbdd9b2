----------------------------- MODULE PoW_proofs -----------------------------
(***************************************************************************)
(* Proofs about the proof-of-work runners, for any number of cores, block  *)
(* size and largest nonce, and whatever nonces the hash accepts: the       *)
(* result is written once, and the assertion after the join fails only     *)
(* when none of the nonces the cores share is good.                        *)
(***************************************************************************)
EXTENDS PoW, CommonFacts

-----------------------------------------------------------------------------
(* Arithmetic of the division of the nonces *)

(* The number of turns of a core, and the nonces that gives all cores together. *)
LEMMA TurnsBound ==
    /\ Turns \in Nat
    /\ NumWorkers * Turns * Rounds \in Nat
    /\ NumWorkers * Turns * Rounds < NoResult
  <1> DEFINE part == (NoResult - 1) \div NumWorkers
  <1>1. /\ NumWorkers \in Nat /\ NumWorkers # 0 /\ Rounds \in Nat /\ Rounds # 0
        /\ NoResult \in Nat \ {0} /\ NoResult - 1 \in Nat
    BY PoWAssumption
  <1>2. part \in Nat /\ part * NumWorkers <= NoResult - 1
    BY <1>1, Quotient
  <1>3. Turns \in Nat /\ Turns * Rounds <= part
    BY <1>1, <1>2, Quotient DEF Turns
  <1>4. Turns * Rounds \in Nat
    BY <1>1, <1>3
  <1>5. (Turns * Rounds) * NumWorkers <= part * NumWorkers
    BY <1>1, <1>2, <1>3, <1>4, TimesMonotone
  <1>6. NumWorkers * Turns * Rounds = (Turns * Rounds) * NumWorkers
    BY <1>1, <1>3
  <1>7. (Turns * Rounds) * NumWorkers \in Nat /\ part * NumWorkers \in Nat
    BY <1>1, <1>2, <1>4
  <1> QED
    BY <1>1, <1>2, <1>3, <1>5, <1>6, <1>7

(* A core looks only at nonces below the one that means no result. *)
LEMMA ChallengeBound ==
    ASSUME NEW w \in Workers, NEW i \in Nat, i < Turns, NEW k \in 0 .. Rounds - 1
    PROVE  Challenge(w, i, k) \in 0 .. NoResult - 1
  <1> DEFINE b == w + i * NumWorkers
             c == (Turns - 1) * NumWorkers
  <1>1. /\ NumWorkers \in Nat /\ NumWorkers # 0 /\ Rounds \in Nat /\ Rounds # 0
        /\ Turns \in Nat /\ w \in 0 .. NumWorkers - 1
        /\ NoResult \in Nat
    BY PoWAssumption, TurnsBound DEF Workers
  <1>2. i * NumWorkers \in Nat /\ c \in Int /\ i * NumWorkers <= c
    BY <1>1, TimesMonotone
  <1>3. c = Turns * NumWorkers - NumWorkers
    BY <1>1
  <1>4. b \in Nat /\ Turns * NumWorkers \in Nat /\ b <= Turns * NumWorkers - 1
    BY <1>1, <1>2, <1>3
  <1>5. b * Rounds <= (Turns * NumWorkers - 1) * Rounds
    BY <1>1, <1>4, TimesMonotone
  <1>6. (Turns * NumWorkers - 1) * Rounds = NumWorkers * Turns * Rounds - Rounds
    BY <1>1
  <1>7. b * Rounds \in Nat /\ b * Rounds <= NumWorkers * Turns * Rounds - Rounds
    BY <1>1, <1>4, <1>5, <1>6
  <1>8. Challenge(w, i, k) = b * Rounds + k
    BY DEF Challenge
  <1> QED
    BY <1>1, <1>7, <1>8, TurnsBound

(* Every nonce the cores share is looked at by one of them, in one of its turns. *)
LEMMA EveryNonceHasABlock ==
    ASSUME NEW n \in Covered
    PROVE  \E w \in Workers : \E i \in 0 .. Turns - 1 : \E k \in 0 .. Rounds - 1 :
                Challenge(w, i, k) = n
  <1> DEFINE b == n \div Rounds
             k == n % Rounds
             i == b \div NumWorkers
             w == b % NumWorkers
  <1>1. /\ NumWorkers \in Nat /\ NumWorkers # 0 /\ Rounds \in Nat /\ Rounds # 0 /\ Turns \in Nat
        /\ n \in Nat /\ n < NumWorkers * Turns * Rounds
    BY PoWAssumption, TurnsBound DEF Covered
  <1>2. b \in Nat /\ k \in 0 .. Rounds - 1 /\ n = (b * Rounds) + k
    BY <1>1, Division
  <1>3. NumWorkers * Turns \in Nat /\ b < NumWorkers * Turns
    BY <1>1, QuotientBound
  <1>4. i \in Nat /\ w \in 0 .. NumWorkers - 1 /\ b = (i * NumWorkers) + w
    BY <1>1, <1>2, Division
  <1>5. i < Turns
    <2>1. b < Turns * NumWorkers
      BY <1>1, <1>3
    <2> QED
      BY <1>1, <1>2, <2>1, QuotientBound
  <1>6. Challenge(w, i, k) = n
    <2>1. w + i * NumWorkers = b
      BY <1>1, <1>4
    <2> QED
      BY <1>2, <2>1 DEF Challenge
  <1>7. w \in Workers /\ i \in 0 .. Turns - 1
    BY <1>1, <1>4, <1>5 DEF Workers
  <1> QED
    BY <1>2, <1>6, <1>7

-----------------------------------------------------------------------------
(* The inductive invariant *)

(* What a core knows by where it is: it scans in a turn it has, what it brings to
   the exchange is good, it has seen only what is there, and it ends at the end of
   its turns or for a result. *)
WorkerInv(w) ==
    /\ wpc[w] \in {"scan", "exchange"} => turn[w] < Turns
    /\ wpc[w] = "scan" =>
            \A k \in 0 .. j[w] - 1 : Challenge(w, turn[w], k) \notin good
    /\ wpc[w] = "exchange" =>
            j[w] < Rounds /\ Challenge(w, turn[w], j[w]) \in good
    /\ seen[w] => result # NoResult
    /\ wpc[w] = "ended" => turn[w] = Turns \/ result # NoResult

IInv ==
    /\ PowTypeOK
    /\ \A w \in Workers : WorkerInv(w)
    /\ NothingPassedOver
    /\ result # NoResult => result \in good
    /\ mpc = "serial" => result = NoResult
    /\ PanicMeansNone

LEMMA InitIInv == Init => IInv
  <1> SUFFICES ASSUME Init PROVE IInv
    OBVIOUS
  <1>1. PowTypeOK
    BY PoWAssumption, TurnsBound DEF Init, PowTypeOK, Nonces
  <1>2. \A w \in Workers : WorkerInv(w)
    BY DEF Init, WorkerInv
  <1>3. NothingPassedOver
    BY DEF Init, NothingPassedOver
  <1> QED
    BY <1>1, <1>2, <1>3 DEF Init, IInv, PanicMeansNone

(* A step of one core leaves what the others know. *)
LEMMA WorkerFrame ==
    ASSUME IInv, NEW w \in Workers, NEW v \in Workers, v # w,
           good' = good, result # NoResult => result' # NoResult,
           wpc'[v] = wpc[v], turn'[v] = turn[v], j'[v] = j[v], seen'[v] = seen[v]
    PROVE  WorkerInv(v)'
  BY DEF IInv, WorkerInv, Challenge

LEMMA SerialHashIInv == IInv /\ SerialHash => IInv'
  <1> SUFFICES ASSUME IInv, SerialHash PROVE IInv'
    OBVIOUS
  <1>0. UNCHANGED <<good, wpc, turn, j, seen>> /\ result = NoResult /\ mpc' # "panicked"
    BY DEF SerialHash, worker_vars, IInv
  <1>1. PowTypeOK'
    BY PoWAssumption DEF IInv, PowTypeOK, SerialHash, worker_vars, Nonces
  <1>2. \A w \in Workers : WorkerInv(w)'
    BY <1>0 DEF IInv, WorkerInv, Challenge
  <1>3. NothingPassedOver'
    BY <1>0 DEF IInv, NothingPassedOver, Challenge
  <1>4. (result # NoResult => result \in good)' /\ (mpc = "serial" => result = NoResult)'
    BY <1>0 DEF SerialHash
  <1> QED
    BY <1>0, <1>1, <1>2, <1>3, <1>4 DEF IInv, PanicMeansNone

LEMMA LoadIInv == ASSUME IInv, NEW w \in Workers, Load(w) PROVE IInv'
  <1>0. /\ UNCHANGED <<good, mpc, next, result, turn>> /\ mpc = "parallel"
        /\ turn \in [Workers -> 0 .. Turns] /\ j \in [Workers -> 0 .. Rounds]
        /\ wpc \in [Workers -> {"load", "scan", "exchange", "ended"}]
        /\ seen \in [Workers -> BOOLEAN]
        /\ Turns \in Nat
    BY TurnsBound DEF Load, IInv, PowTypeOK
  <1>1. PICK flag \in {result} \cup (IF seen[w] THEN {} ELSE {NoResult}) :
            /\ wpc' = [wpc EXCEPT ![w] = IF turn[w] < Turns /\ flag = NoResult
                                         THEN "scan" ELSE "ended"]
            /\ seen' = [seen EXCEPT ![w] = @ \/ (turn[w] < Turns /\ flag # NoResult)]
            /\ j' = [j EXCEPT ![w] = 0]
    BY DEF Load
  <1>2. flag # NoResult => result # NoResult
    BY <1>1
  <1>3. PowTypeOK'
    <2>1. seen' \in [Workers -> BOOLEAN]
      BY <1>0, <1>1
    <2>2. wpc' \in [Workers -> {"load", "scan", "exchange", "ended"}]
      BY <1>0, <1>1
    <2>3. j' \in [Workers -> 0 .. Rounds]
      BY <1>0, <1>1, PoWAssumption
    <2> QED
      BY <1>0, <2>1, <2>2, <2>3 DEF IInv, PowTypeOK
  <1>4. ASSUME NEW v \in Workers PROVE WorkerInv(v)'
    <2>1. CASE v # w
      BY <1>0, <1>1, <2>1, WorkerFrame
    <2>2. CASE v = w
      <3>1. seen'[w] => result # NoResult
        BY <1>0, <1>1, <1>2 DEF IInv, WorkerInv
      <3>2. /\ j'[w] = 0 /\ turn[w] \in 0 .. Turns
            /\ wpc'[w] = IF turn[w] < Turns /\ flag = NoResult THEN "scan" ELSE "ended"
        BY <1>0, <1>1
      <3> QED
        BY <1>0, <1>2, <2>2, <3>1, <3>2 DEF WorkerInv
    <2> QED
      BY <2>1, <2>2
  <1>5. NothingPassedOver'
    BY <1>0 DEF IInv, NothingPassedOver, Challenge
  <1> QED
    BY <1>0, <1>3, <1>4, <1>5 DEF IInv, PanicMeansNone

LEMMA HashIInv == ASSUME IInv, NEW w \in Workers, Hash(w) PROVE IInv'
  <1> DEFINE hit == j[w] < Rounds /\ Challenge(w, turn[w], j[w]) \in good
             over == j[w] = Rounds
  <1>0. /\ UNCHANGED <<good, mpc, next, result, seen>> /\ mpc = "parallel"
        /\ turn \in [Workers -> 0 .. Turns] /\ j \in [Workers -> 0 .. Rounds]
        /\ wpc \in [Workers -> {"load", "scan", "exchange", "ended"}]
        /\ wpc[w] = "scan" /\ turn[w] < Turns
        /\ \A k \in 0 .. j[w] - 1 : Challenge(w, turn[w], k) \notin good
        /\ Turns \in Nat /\ Rounds \in Nat \ {0}
    BY TurnsBound, PoWAssumption DEF Hash, IInv, PowTypeOK, WorkerInv
  <1>1. /\ wpc' = [wpc EXCEPT ![w] = IF hit THEN "exchange"
                                     ELSE IF over THEN "load" ELSE "scan"]
        /\ j' = [j EXCEPT ![w] = IF hit \/ over THEN @ ELSE @ + 1]
        /\ turn' = [turn EXCEPT ![w] = IF over THEN @ + 1 ELSE @]
    BY DEF Hash
  <1>2. turn[w] \in 0 .. Turns /\ j[w] \in 0 .. Rounds
    BY <1>0
  <1> HIDE DEF hit, over
  <1>3. PowTypeOK'
    <2>1. wpc' \in [Workers -> {"load", "scan", "exchange", "ended"}]
      BY <1>0, <1>1
    <2>2. j' \in [Workers -> 0 .. Rounds]
      BY <1>0, <1>1, <1>2 DEF over
    <2>3. turn' \in [Workers -> 0 .. Turns]
      BY <1>0, <1>1, <1>2
    <2> QED
      BY <1>0, <2>1, <2>2, <2>3 DEF IInv, PowTypeOK
  <1>4. ASSUME NEW v \in Workers PROVE WorkerInv(v)'
    <2>1. CASE v # w
      BY <1>0, <1>1, <2>1, WorkerFrame
    <2>2. CASE v = w
      <3>0. seen'[w] => result' # NoResult
        BY <1>0 DEF IInv, WorkerInv
      <3>1. CASE hit
        <4>1. ~over /\ wpc'[w] = "exchange" /\ j'[w] = j[w] /\ turn'[w] = turn[w]
          BY <1>0, <1>1, <1>2, <3>1 DEF hit, over
        <4> QED
          BY <1>0, <2>2, <3>0, <3>1, <4>1 DEF WorkerInv, hit, Challenge
      <3>2. CASE ~hit /\ over
        <4>1. wpc'[w] = "load"
          BY <1>0, <1>1, <3>2
        <4> QED
          BY <2>2, <3>0, <4>1 DEF WorkerInv
      <3>3. CASE ~hit /\ ~over
        <4>1. wpc'[w] = "scan" /\ j'[w] = j[w] + 1 /\ turn'[w] = turn[w]
          BY <1>0, <1>1, <3>3
        <4>2. Challenge(w, turn[w], j[w]) \notin good
          BY <1>0, <1>2, <3>3 DEF hit, over
        <4>3. \A k \in 0 .. j'[w] - 1 : k \in 0 .. j[w] - 1 \/ k = j[w]
          BY <1>2, <4>1
        <4>4. \A k \in 0 .. j'[w] - 1 : Challenge(w, turn[w], k) \notin good
          BY <1>0, <4>2, <4>3
        <4> QED
          BY <1>0, <2>2, <3>0, <4>1, <4>4 DEF WorkerInv, Challenge
      <3> QED
        BY <3>1, <3>2, <3>3
    <2> QED
      BY <2>1, <2>2
  <1>5. NothingPassedOver'
    <2> SUFFICES ASSUME NEW v \in Workers, NEW i \in 0 .. turn'[v] - 1,
                        NEW k \in 0 .. Rounds - 1, Challenge(v, i, k) \in good
                 PROVE  result # NoResult
      BY <1>0 DEF NothingPassedOver, Challenge
    <2>1. CASE i \in 0 .. turn[v] - 1
      BY <2>1 DEF IInv, NothingPassedOver
    <2>2. CASE i \notin 0 .. turn[v] - 1
      <3>1. v = w /\ over /\ i = turn[w]
        BY <1>0, <1>1, <1>2, <2>2
      <3>2. Challenge(w, turn[w], k) \notin good
        BY <1>0, <3>1 DEF over
      <3> QED
        BY <3>1, <3>2
    <2> QED
      BY <2>1, <2>2
  <1> QED
    BY <1>0, <1>3, <1>4, <1>5 DEF IInv, PanicMeansNone

LEMMA ExchangeIInv == ASSUME IInv, NEW w \in Workers, Exchange(w) PROVE IInv'
  <1> DEFINE c == Challenge(w, turn[w], j[w])
  <1>0. /\ UNCHANGED <<good, mpc, next, j>> /\ mpc = "parallel"
        /\ turn \in [Workers -> 0 .. Turns] /\ j \in [Workers -> 0 .. Rounds]
        /\ wpc \in [Workers -> {"load", "scan", "exchange", "ended"}]
        /\ seen \in [Workers -> BOOLEAN]
        /\ wpc[w] = "exchange" /\ turn[w] < Turns /\ j[w] < Rounds /\ c \in good
        /\ result \in Nonces /\ (result # NoResult => result \in good)
        /\ Turns \in Nat /\ Rounds \in Nat \ {0} /\ NoResult \in Nat
    BY TurnsBound, PoWAssumption DEF Exchange, IInv, PowTypeOK, WorkerInv
  <1>1. /\ result' = IF result = NoResult THEN c ELSE result
        /\ seen' = [seen EXCEPT ![w] = TRUE]
        /\ turn' = [turn EXCEPT ![w] = @ + 1]
        /\ wpc' = [wpc EXCEPT ![w] = "load"]
    BY DEF Exchange
  <1>2. turn[w] \in Nat /\ j[w] \in 0 .. Rounds - 1
    BY <1>0
  <1>3. c \in 0 .. NoResult - 1
    BY <1>0, <1>2, ChallengeBound
  <1>4. result' \in Nonces /\ result' # NoResult /\ result' \in good
    BY <1>0, <1>1, <1>3 DEF Nonces
  <1>5. PowTypeOK'
    <2>1. turn' \in [Workers -> 0 .. Turns]
      BY <1>0, <1>1, <1>2
    <2> QED
      BY <1>0, <1>1, <1>4, <2>1 DEF IInv, PowTypeOK
  <1>6. ASSUME NEW v \in Workers PROVE WorkerInv(v)'
    <2>1. CASE v # w
      BY <1>0, <1>1, <1>4, <2>1, WorkerFrame
    <2>2. CASE v = w
      BY <1>0, <1>1, <1>4, <2>2 DEF WorkerInv
    <2> QED
      BY <2>1, <2>2
  <1>7. NothingPassedOver'
    BY <1>4 DEF NothingPassedOver
  <1> QED
    BY <1>0, <1>4, <1>5, <1>6, <1>7 DEF IInv, PanicMeansNone

LEMMA JoinIInv == IInv /\ Join => IInv'
  <1> SUFFICES ASSUME IInv, Join PROVE IInv'
    OBVIOUS
  <1>0. /\ UNCHANGED <<good, next, result, wpc, turn, j, seen>> /\ mpc = "parallel"
        /\ mpc' = (IF result \in good THEN "returned" ELSE "panicked")
        /\ \A w \in Workers : wpc[w] = "ended"
    BY DEF Join, worker_vars
  <1>1. PowTypeOK'
    BY <1>0 DEF IInv, PowTypeOK
  <1>2. \A w \in Workers : WorkerInv(w)'
    BY <1>0 DEF IInv, WorkerInv, Challenge
  <1>3. NothingPassedOver'
    BY <1>0 DEF IInv, NothingPassedOver, Challenge
  <1>4. ASSUME mpc' = "panicked", NEW n \in good, n \in Covered PROVE FALSE
    <2>1. result = NoResult
      BY <1>0, <1>4 DEF IInv
    <2>2. \A w \in Workers : turn[w] = Turns
      BY <1>0, <2>1 DEF IInv, WorkerInv
    <2>3. PICK w \in Workers : \E i \in 0 .. Turns - 1 : \E k \in 0 .. Rounds - 1 :
                Challenge(w, i, k) = n
      BY <1>4, EveryNonceHasABlock
    <2> QED
      BY <1>4, <2>1, <2>2, <2>3 DEF IInv, NothingPassedOver
  <1>5. PanicMeansNone'
    BY <1>0, <1>4 DEF PanicMeansNone, Covered, Turns
  <1>6. mpc' # "serial"
    BY <1>0
  <1> QED
    BY <1>0, <1>1, <1>2, <1>3, <1>5, <1>6 DEF IInv

LEMMA NextIInv == IInv /\ [Next]_vars => IInv'
  <1> SUFFICES ASSUME IInv, [Next]_vars PROVE IInv'
    OBVIOUS
  <1>1. CASE SerialHash
    BY <1>1, SerialHashIInv
  <1>2. CASE SerialEnds
    BY <1>2 DEF SerialEnds, worker_vars, IInv, PowTypeOK, WorkerInv, Challenge,
        NothingPassedOver, PanicMeansNone
  <1>3. CASE Join
    BY <1>3, JoinIInv
  <1>4. ASSUME NEW w \in Workers, Worker(w) PROVE IInv'
    BY <1>4, LoadIInv, HashIInv, ExchangeIInv DEF Worker
  <1>5. CASE UNCHANGED vars
    BY <1>5 DEF vars, worker_vars, IInv, PowTypeOK, WorkerInv, Challenge,
        NothingPassedOver, PanicMeansNone
  <1> QED
    BY <1>1, <1>2, <1>3, <1>4, <1>5 DEF Next, Main, Ended

LEMMA Invariance == Spec => []IInv
  BY InitIInv, NextIInv, PTL DEF Spec

-----------------------------------------------------------------------------
(* The state of the search keeps its types: no core goes on beyond its turns, and
   what is written to the shared result is a nonce. *)
THEOREM PowTypeCorrect == Spec => []PowTypeOK
  <1>1. IInv => PowTypeOK
    BY DEF IInv
  <1> QED
    BY <1>1, Invariance, PTL

(* Whatever a core left behind it was not good, unless a result is there: the inner
   break and the relaxed load of the flag lose nothing. *)
THEOREM NothingIsPassedOver == Spec => []NothingPassedOver
  <1>1. IInv => NothingPassedOver
    BY DEF IInv
  <1> QED
    BY <1>1, Invariance, PTL

(* run_from_bytes panics only when none of the nonces its cores share is good, for
   every number of cores and size of block. *)
THEOREM PanicsOnlyForNone == Spec => []PanicMeansNone
  <1>1. IInv => PanicMeansNone
    BY DEF IInv
  <1> QED
    BY <1>1, Invariance, PTL

(* The result that is returned is the first one any core wrote. *)
THEOREM ResultIsFirst == Spec => ResultStable
  <1>1. IInv /\ [Next]_vars => [result # NoResult => result' = result]_vars
    <2> SUFFICES ASSUME IInv, Next, result # NoResult PROVE result' = result
      OBVIOUS
    <2>1. CASE Main
      BY <2>1 DEF Main, SerialHash, SerialEnds, Join, IInv
    <2>2. ASSUME NEW w \in Workers, Worker(w) PROVE result' = result
      BY <2>2 DEF Worker, Load, Hash, Exchange
    <2>3. CASE Ended
      BY <2>3 DEF Ended, vars
    <2> QED
      BY <2>1, <2>2, <2>3 DEF Next
  <1> QED
    BY <1>1, Invariance, PTL DEF Spec, ResultStable
=============================================================================
