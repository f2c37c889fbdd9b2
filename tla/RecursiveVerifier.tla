------------------------- MODULE RecursiveVerifier --------------------------
(***************************************************************************)
(* verify of gadgets/recursion/recursive_verifier.rs, which builds the     *)
(* verifier as a circuit: lengths are asserted while it is built, here and *)
(* in allocated_proof.rs, and what the values have to satisfy goes into    *)
(* validity_flags, whose conjunction is the result.  Only sponge           *)
(* transcripts have a circuit, and proof of work is a todo!().             *)
(***************************************************************************)
EXTENDS ProofMessages

HasCircuit(c) == c.kind = "sponge" /\ c.pow = 0

\* The verifier moves, or panics where an assertion fails; flag is what it
\* adds to validity_flags.
Build(from, asserted, flag, party) ==
    /\ prover.at = "done" /\ HasCircuit(config)
    /\ recursive.at = from
    /\ recursive' = IF asserted THEN [party EXCEPT !.valid = @ /\ flag]
                    ELSE Go(recursive, "panicked")
    /\ UNCHANGED << config, proof, prover, verifier >>

AssertCap(cap) == Len(cap) = CapLen

BuildSetup ==
    Build("setup", Len(proof.public_inputs) = config.inputs, TRUE,
          Go(Witness(Witness(recursive, Cap("setup", 0)), proof.public_inputs), "witness"))

BuildWitness ==
    Build("witness", AssertCap(proof.witness_oracle_cap), TRUE,
          Go(DrawLookup(DrawTwo(Witness(recursive, proof.witness_oracle_cap), "beta", "gamma")),
             "stage_2"))

BuildStage2 ==
    Build("stage_2", AssertCap(proof.stage_2_oracle_cap), TRUE,
          Go(Draw(Witness(recursive, proof.stage_2_oracle_cap), "alpha", 2), "quotient"))

BuildQuotient ==
    Build("quotient", AssertCap(proof.quotient_oracle_cap), TRUE,
          Go(Draw(Witness(recursive, proof.quotient_oracle_cap), "z", 2), "openings"))

BuildOpenings ==
    LET atZ == Witness(recursive, proof.values_at_z)
        all == Witness(Witness(atZ, proof.values_at_z_omega), proof.values_at_0)
    IN  Build("openings",
              /\ Len(proof.values_at_z) = 2 * NumAtZ
              /\ Len(proof.values_at_z_omega) = 2
              /\ Len(proof.values_at_0) = 2 * NumAt0,
              proof.opened_under = Seen(recursive),
              Go(Draw(all, "deep", 2), "fri_base"))

BuildFriBase ==
    Build("fri_base",
          /\ PowBits(config) = config.pow
          /\ AssertCap(proof.fri_base_oracle_cap)
          /\ Len(proof.fri_intermediate_oracles_caps) = Len(Folds(config)) - 1,
          TRUE,
          [Go(Draw(Witness(recursive, proof.fri_base_oracle_cap), "fri", 2), "fri")
               EXCEPT !.folds = 1])

BuildFriFold ==
    LET caps == proof.fri_intermediate_oracles_caps
    IN  /\ recursive.folds < Len(Folds(config))
        /\ Build("fri", AssertCap(caps[recursive.folds]), TRUE,
                 [Draw(Witness(recursive, caps[recursive.folds]), "fri", 2)
                      EXCEPT !.folds = @ + 1])

\* Without proof of work the queries follow at once.
BuildMonomials ==
    LET monomials == proof.final_fri_monomials
    IN  /\ recursive.folds = Len(Folds(config))
        /\ Build("fri",
                 \A i \in 1 .. 2 : Len(monomials[i]) = 2^DegreeLog(config, recursive.folds),
                 proof.folded_under = Seen(recursive),
                 Go(Witness(Witness(recursive, monomials[1]), monomials[2]), "queries"))

\* The path is as long as the tree is deep, and the bits of the index above it
\* select the element of the cap: binary_select asserts that they are as many
\* as the cap needs, and that there are any.
Path(query, index, depth) ==
    /\ query.path = depth
    /\ Len(index) >= depth
    /\ Len(Drop(index, depth)) = config.cap
    /\ config.cap > 0

\* The index is kept as its bits: base_tree_idx is the bits as they were
\* drawn, and every fold takes its own off the front.
BuildIndex(drawn, query) ==
    LET Rest(i) == Drop(drawn.index, Shift(i))
    IN  Build("queries",
              /\ Len(proof.queries) = NumQueries(config)
              /\ Path(query.base, drawn.index, BaseOracleDepth)
              /\ \A i \in 1 .. Len(Folds(config)) :
                    Path(query.fri[i], Rest(i), BaseOracleDepth - Shift(i)),
              /\ query.under = drawn.party.t.chain
              /\ query.base.leaf = drawn.index
              /\ \A i \in 1 .. Len(Folds(config)) :
                    Take(Rest(i - 1), Folds(config)[i]) \o query.fri[i].leaf = Rest(i - 1),
              [drawn.party EXCEPT !.checked = @ + 1])

BuildQuery ==
    /\ recursive.checked < Len(proof.queries)
    /\ BuildIndex(DrawIndex(recursive), proof.queries[recursive.checked + 1])

BuildEnd ==
    /\ recursive.checked = Len(proof.queries)
    /\ Build("queries", TRUE, TRUE,
             Go(recursive, IF recursive.valid THEN "accepted" ELSE "rejected"))

RecursiveStep ==
    \/ BuildSetup \/ BuildWitness \/ BuildStage2 \/ BuildQuotient \/ BuildOpenings
    \/ BuildFriBase \/ BuildFriFold \/ BuildMonomials \/ BuildQuery \/ BuildEnd
=============================================================================
