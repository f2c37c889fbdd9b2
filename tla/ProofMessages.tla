--------------------------- MODULE ProofMessages ----------------------------
(***************************************************************************)
(* What the prover and the two verifiers of boojum share: the              *)
(* configuration, the proof that goes from one to the others, and a party, *)
(* which runs a transcript of its own through the same protocol.  Each of  *)
(* the three has its own code for it (cs/implementations/prover.rs,        *)
(* cs/implementations/verifier.rs, gadgets/recursion/recursive_verifier.rs)*)
(* and a module here.                                                      *)
(*                                                                         *)
(* Field elements are symbols: what the arithmetic computes from the       *)
(* challenges is represented by what the party had seen when it did, so    *)
(* that an identity between two parties' values holds if and only if they  *)
(* had seen the same.                                                      *)
(***************************************************************************)
EXTENDS Transcript, FriSchedule

CONSTANTS Configs,      \* the configurations looked at
          NumAtZ,       \* polynomials opened at z
          LookupTerms   \* polynomials opened at 0, if there are lookups

VARIABLES config,       \* verification key and ProofConfig
          proof,        \* Proof, as far as it is made
          prover, verifier, recursive

vars == << config, proof, prover, verifier, recursive >>

\* The prover asserts the first three; a Merkle tree has more leaves than
\* its cap has elements, and both verifiers look up the 8th root of unity of
\* the LDE domain, whose size divides the order of the multiplicative group
\* (domain_generator_for_size asserts it).  Sizes are numbers.
ASSUME ConfigAssumption ==
    /\ NumAtZ \in Nat /\ LookupTerms \in Nat
    /\ \A c \in Configs :
          /\ c.rate \in Nat \ {0} /\ c.cap \in Nat /\ c.domain \in Nat
          /\ c.domain + c.rate > c.cap /\ c.domain + c.rate >= 3
          /\ c.domain + c.rate < CharBits
          /\ c.security \in Nat /\ c.pow \in Nat /\ c.inputs \in Nat
          /\ c.lookup \in BOOLEAN /\ c.kind \in Kinds
          /\ \A n \in 0 .. c.domain + c.cap : 2^n \in Nat

Elements(name, i, n) == [j \in 1 .. n |-> Element(name, i, j)]

CapLen == CW * 2^(config.cap)
Cap(name, i) == Elements(name, i, CapLen)

\* In the extension every value has two coefficients.
NumAt0 == IF config.lookup THEN LookupTerms ELSE 0

EmptyProof ==
    [public_inputs |-> <<>>, witness_oracle_cap |-> <<>>, stage_2_oracle_cap |-> <<>>,
     quotient_oracle_cap |-> <<>>, values_at_z |-> <<>>, values_at_z_omega |-> <<>>,
     values_at_0 |-> <<>>, opened_under |-> <<>>, fri_base_oracle_cap |-> <<>>,
     fri_intermediate_oracles_caps |-> <<>>, final_fri_monomials |-> << <<>>, <<>> >>,
     folded_under |-> <<>>, pow |-> <<>>, queries |-> <<>>]

\* at: where the party is; bits: its BoolsBuffer; folds, checked: rounds of
\* FRI and queries done.  drawn and sent are history: the challenges it has
\* drawn, each with how much it had witnessed, and what it has witnessed.
NewParty(kind) ==
    [at |-> "setup", t |-> NewTranscript(kind), bits |-> <<>>, folds |-> 0,
     checked |-> 0, valid |-> TRUE, drawn |-> <<>>, sent |-> <<>>]

Go(p, at) == [p EXCEPT !.at = at]

Witness(p, elements) ==
    [p EXCEPT !.t = WitnessElements(@, elements), !.sent = @ \o elements]

Drawn(p, name, got) ==
    [p EXCEPT !.t = got.t,
              !.drawn = Append(@, [name |-> name, words |-> got.words, sent |-> Len(p.sent)])]

Draw(p, name, n) == Drawn(p, name, GetChallenges(p.t, n))

\* A challenge in the extension takes two words.
DrawTwo(p, name1, name2) == Draw(Draw(p, name1, 2), name2, 2)

DrawLookup(p) == IF config.lookup THEN DrawTwo(p, "lookup_beta", "lookup_gamma") ELSE p

\* 256 bits of seed for the proof of work
PowSeedWords == 256 \div 64

\* Everything a value computed by the party at this point may depend on.
Seen(p) == << p.drawn, p.t.chain, p.t.buffer >>

MaxNeededBits == config.domain + config.rate

\* base_oracles_depth, a tree without the layers that its cap stands for
BaseOracleDepth == config.domain + config.rate - config.cap

\* One index drawn for a query, its bits from the lowest.
WithIndex(p, got) ==
    [party |-> [Drawn(p, "query", got) EXCEPT !.bits = got.left], index |-> got.bits]

DrawIndex(p) == WithIndex(p, GetBits(p.t, p.bits, MaxNeededBits, MaxNeededBits))

Drop(s, n) == SubSeq(s, n + 1, Len(s))
Take(s, n) == SubSeq(s, 1, n)

\* How far the first i folds shift an index.
Shift(i) == config.domain - DegreeLog(config, i)
=============================================================================
