-------------------------------- MODULE PoW --------------------------------
(***************************************************************************)
(* The proof-of-work runners (boojum/src/cs/implementations/pow.rs for     *)
(* Blake2s and Keccak, rescue-poseidon/src/poseidon2/pow_runner.rs for     *)
(* Poseidon2, all three the same scheme): a search for a nonce whose hash  *)
(* has enough trailing zeros, serial for few bits and by all cores         *)
(* otherwise, which share one atomic for the result.                       *)
(*                                                                         *)
(* The hash is the set of nonces that satisfy it.  The result is the only  *)
(* location the workers share, and they read it with relaxed ordering: a   *)
(* worker that has not seen it written may read the old value.             *)
(***************************************************************************)
EXTENDS Integers

CONSTANTS
    NumWorkers,     \* num_workers: worker.num_cores
    Rounds,         \* pow_rounds_per_invocation: 2^16
    NoResult        \* NO_RESULT: u64::MAX, the largest nonce there is

ASSUME PoWAssumption ==
    NumWorkers \in Nat \ {0} /\ Rounds \in Nat \ {0} /\ NoResult \in Nat \ {0}

VARIABLES
    good,           \* the nonces verify_from_bytes accepts
    mpc,            \* where run_from_bytes is
    next,           \* the serial loop's challenge
    result,         \* the AtomicU64
    wpc, turn, j,   \* where each worker is; its loop counters i and j
    seen            \* the worker has seen result written

worker_vars == <<wpc, turn, j, seen>>
vars == <<good, mpc, next, result, worker_vars>>

Workers == 0 .. NumWorkers - 1
Nonces == 0 .. NoResult

(* The bound of a worker's outer loop. *)
Turns == ((NoResult - 1) \div NumWorkers) \div Rounds

(* Mutant: the blocks of a worker follow one another. *)
Challenge_OwnRange(w, i, k) == (w * Turns + i + 1) * Rounds + k

(* base + j *)
Challenge(w, i, k) == (w + i * NumWorkers) * Rounds + k

PowTypeOK ==
    /\ good \subseteq Nonces
    /\ mpc \in {"serial", "parallel", "returned", "panicked"}
    /\ next \in Nonces /\ result \in Nonces
    /\ wpc \in [Workers -> {"load", "scan", "exchange", "ended"}]
    /\ turn \in [Workers -> 0 .. Turns]
    /\ j \in [Workers -> 0 .. Rounds]
    /\ seen \in [Workers -> BOOLEAN]

(* pow_bits <= ROUNDS.trailing_zeros() is the serial case. *)
Init ==
    /\ good \in SUBSET Nonces
    /\ mpc \in {"serial", "parallel"}
    /\ next = 0
    /\ result = NoResult
    /\ wpc = [w \in Workers |-> "load"]
    /\ turn = [w \in Workers |-> 0]
    /\ j = [w \in Workers |-> 0]
    /\ seen = [w \in Workers |-> FALSE]

-----------------------------------------------------------------------------
(* The serial loop returns the challenge at once. *)
SerialHash ==
    /\ mpc = "serial" /\ next < NoResult - 1
    /\ IF next \in good
       THEN mpc' = "returned" /\ result' = next /\ UNCHANGED next
       ELSE next' = next + 1 /\ UNCHANGED <<mpc, result>>
    /\ UNCHANGED <<good, worker_vars>>

(* A serial loop that found nothing goes on to the parallel search. *)
SerialEnds ==
    /\ mpc = "serial" /\ next >= NoResult - 1
    /\ mpc' = "parallel"
    /\ UNCHANGED <<good, next, result, worker_vars>>

(* The head of the outer loop, and the relaxed load of the result. *)
Load(w) ==
    /\ mpc = "parallel" /\ wpc[w] = "load"
    /\ \E flag \in {result} \cup (IF seen[w] THEN {} ELSE {NoResult}) :
        /\ wpc' = [wpc EXCEPT ![w] = IF turn[w] < Turns /\ flag = NoResult
                                     THEN "scan" ELSE "ended"]
        /\ seen' = [seen EXCEPT ![w] = @ \/ (turn[w] < Turns /\ flag # NoResult)]
    /\ j' = [j EXCEPT ![w] = 0]
    /\ UNCHANGED <<good, mpc, next, result, turn>>

(* Mutant: the last challenge of a block is left out. *)
Hash_ShortBlock(w) ==
    LET hit == j[w] < Rounds - 1 /\ Challenge(w, turn[w], j[w]) \in good
        over == j[w] >= Rounds - 1
    IN  /\ mpc = "parallel" /\ wpc[w] = "scan"
        /\ wpc' = [wpc EXCEPT ![w] = IF hit THEN "exchange"
                                     ELSE IF over THEN "load" ELSE "scan"]
        /\ j' = [j EXCEPT ![w] = IF hit \/ over THEN @ ELSE @ + 1]
        /\ turn' = [turn EXCEPT ![w] = IF over THEN @ + 1 ELSE @]
        /\ UNCHANGED <<good, mpc, next, result, seen>>

(* One turn of the inner loop, or its end. *)
Hash(w) ==
    LET hit == j[w] < Rounds /\ Challenge(w, turn[w], j[w]) \in good
        over == j[w] = Rounds
    IN  /\ mpc = "parallel" /\ wpc[w] = "scan"
        /\ wpc' = [wpc EXCEPT ![w] = IF hit THEN "exchange"
                                     ELSE IF over THEN "load" ELSE "scan"]
        /\ j' = [j EXCEPT ![w] = IF hit \/ over THEN @ ELSE @ + 1]
        /\ turn' = [turn EXCEPT ![w] = IF over THEN @ + 1 ELSE @]
        /\ UNCHANGED <<good, mpc, next, result, seen>>

(* Mutants: a store instead of the exchange; the exchange is retried until it
   succeeds. *)
Exchange_Store(w) ==
    /\ mpc = "parallel" /\ wpc[w] = "exchange"
    /\ result' = Challenge(w, turn[w], j[w])
    /\ seen' = [seen EXCEPT ![w] = TRUE]
    /\ turn' = [turn EXCEPT ![w] = @ + 1]
    /\ wpc' = [wpc EXCEPT ![w] = "load"]
    /\ UNCHANGED <<good, mpc, next, j>>

Exchange_Spins(w) ==
    /\ mpc = "parallel" /\ wpc[w] = "exchange"
    /\ result = NoResult
    /\ result' = Challenge(w, turn[w], j[w])
    /\ seen' = [seen EXCEPT ![w] = TRUE]
    /\ turn' = [turn EXCEPT ![w] = @ + 1]
    /\ wpc' = [wpc EXCEPT ![w] = "load"]
    /\ UNCHANGED <<good, mpc, next, j>>

(* compare_exchange, which reads the latest value; the break leaves the inner loop
   only. *)
Exchange(w) ==
    /\ mpc = "parallel" /\ wpc[w] = "exchange"
    /\ result' = IF result = NoResult THEN Challenge(w, turn[w], j[w]) ELSE result
    /\ seen' = [seen EXCEPT ![w] = TRUE]
    /\ turn' = [turn EXCEPT ![w] = @ + 1]
    /\ wpc' = [wpc EXCEPT ![w] = "load"]
    /\ UNCHANGED <<good, mpc, next, j>>

(* The scope joins its threads; then assert!(verify_from_bytes(..)). *)
Join ==
    /\ mpc = "parallel"
    /\ \A w \in Workers : wpc[w] = "ended"
    /\ mpc' = IF result \in good THEN "returned" ELSE "panicked"
    /\ UNCHANGED <<good, next, result, worker_vars>>

Worker(w) == Load(w) \/ Hash(w) \/ Exchange(w)
Main == SerialHash \/ SerialEnds \/ Join

Ended == mpc \in {"returned", "panicked"} /\ UNCHANGED vars

Next == Main \/ (\E w \in Workers : Worker(w)) \/ Ended

Spec == Init /\ [][Next]_vars
FairSpec == Spec /\ WF_vars(Main) /\ \A w \in Workers : WF_vars(Worker(w))

-----------------------------------------------------------------------------
(* The nonces the parallel search looks at: what the division in the bound of the
   outer loop leaves out is never tried. *)
Covered == 0 .. NumWorkers * Turns * Rounds - 1

(* The assertion after the join fails only if there is no nonce to find: no block
   is left out by the way the cores share the nonces, by a worker that read an
   old flag, or by the inner break. *)
PanicMeansNone == mpc = "panicked" => good \cap Covered = {}

(* While workers are still searching, a nonce they passed over was not good unless
   somebody has found one: what is skipped is skipped because of a result. *)
NothingPassedOver ==
    \A w \in Workers : \A i \in 0 .. turn[w] - 1 : \A k \in 0 .. Rounds - 1 :
        Challenge(w, i, k) \in good => result # NoResult

(* The challenge that is handed out is the one the first worker wrote: no later hit
   replaces it, also while others still hold one to write. *)
ResultStable == [][result # NoResult => result' = result]_vars

(* Every core stops once one has a result, or at the end of its nonces. *)
SearchEnds == <>(mpc \in {"returned", "panicked"})
=============================================================================
