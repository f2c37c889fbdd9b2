------------------------------ MODULE Verifier ------------------------------
(***************************************************************************)
(* Verifier::verify (cs/implementations/verifier.rs): the challenges drawn *)
(* again from the parts of the proof, and every check that ends it with    *)
(* false.  A check of an algebraic identity holds if the party had seen    *)
(* what the prover had when it computed the values.                        *)
(***************************************************************************)
EXTENDS ProofMessages

\* The verifier moves, or gives up where the proof fails a check.
Verify(from, ok, party) ==
    /\ prover.at = "done"
    /\ verifier.at = from
    /\ verifier' = IF ok THEN party ELSE Go(verifier, "rejected")
    /\ UNCHANGED << config, proof, prover, recursive >>

IsCap(cap) == Len(cap) = CapLen

VerifySetup ==
    Verify("setup", Len(proof.public_inputs) = config.inputs,
           Go(Witness(Witness(verifier, Cap("setup", 0)), proof.public_inputs), "witness"))

VerifyWitness ==
    Verify("witness", IsCap(proof.witness_oracle_cap),
           Go(DrawLookup(DrawTwo(Witness(verifier, proof.witness_oracle_cap), "beta", "gamma")),
              "stage_2"))

VerifyStage2 ==
    Verify("stage_2", IsCap(proof.stage_2_oracle_cap),
           Go(Draw(Witness(verifier, proof.stage_2_oracle_cap), "alpha", 2), "quotient"))

VerifyQuotient ==
    Verify("quotient", IsCap(proof.quotient_oracle_cap),
           Go(Draw(Witness(verifier, proof.quotient_oracle_cap), "z", 2), "openings"))

\* The numbers of openings and the quotient at z, then the challenge for
\* the batched opening.
VerifyOpenings ==
    LET values == proof.values_at_z \o proof.values_at_z_omega \o proof.values_at_0
    IN  Verify("openings",
               /\ Len(proof.values_at_z) = 2 * NumAtZ
               /\ Len(proof.values_at_z_omega) = 2
               /\ Len(proof.values_at_0) = 2 * NumAt0
               /\ proof.opened_under = Seen(verifier),
               Go(Draw(Witness(verifier, values), "deep", 2), "fri_base"))

\* The schedule is computed again; it may not lower the bits of work, and
\* the proof has a cap for every fold but the first.
VerifyFriBase ==
    Verify("fri_base",
           /\ PowBits(config) = config.pow
           /\ IsCap(proof.fri_base_oracle_cap)
           /\ Len(proof.fri_intermediate_oracles_caps) = Len(Folds(config)) - 1,
           [Go(Draw(Witness(verifier, proof.fri_base_oracle_cap), "fri", 2), "fri")
                EXCEPT !.folds = 1])

VerifyFriFold ==
    LET caps == proof.fri_intermediate_oracles_caps
    IN  /\ verifier.folds < Len(Folds(config))
        /\ Verify("fri", IsCap(caps[verifier.folds]),
                  [Draw(Witness(verifier, caps[verifier.folds]), "fri", 2)
                       EXCEPT !.folds = @ + 1])

\* expected_degree is what is left of the domain after the folds.
VerifyMonomials ==
    LET monomials == proof.final_fri_monomials
    IN  /\ verifier.folds = Len(Folds(config))
        /\ Verify("fri",
                  /\ \A i \in 1 .. 2 : Len(monomials[i]) = 2^DegreeLog(config, verifier.folds)
                  /\ proof.folded_under = Seen(verifier),
                  Go(Witness(Witness(verifier, monomials[1]), monomials[2]), "pow"))

\* verify_from_field_elements with the bits of the configuration.
VerifySeeded(seeded) ==
    Verify("pow", \E nonce \in ToSet(proof.pow) :
                     nonce.seed = Seen(seeded) /\ nonce.bits >= config.pow,
           Go(Witness(seeded, Elements("nonce", 0, 2)), "queries"))

VerifyPow ==
    IF PowBits(config) = 0 THEN Verify("pow", TRUE, Go(verifier, "queries"))
    ELSE VerifySeeded(Draw(verifier, "pow", PowSeedWords))

\* The leaf is found in the tree under its index, by a path of the expected
\* length.
Included(query, tree_idx, depth) == query.path = depth /\ query.leaf = tree_idx

\* For every oracle of FRI: subidx % degree is an element of the leaf that
\* subidx >> log2(degree) is the index of, and that element is the one at
\* subidx.
FriQueriesValid(queries, base_idx) ==
    /\ Len(queries) = Len(Folds(config))
    /\ \A i \in 1 .. Len(queries) :
          LET subidx   == Drop(base_idx, Shift(i - 1))
              in_leaf  == Take(subidx, Folds(config)[i])
              tree_idx == Drop(subidx, Folds(config)[i])
          IN  /\ in_leaf \o queries[i].leaf = subidx
              /\ Included(queries[i], tree_idx, BaseOracleDepth - Shift(i))

\* One of the queries that are in the proof; that they are as many as
\* expected is logged only.
VerifyIndex(drawn, query) ==
    LET inner == Take(drawn.index, config.domain)
        coset == Drop(drawn.index, config.domain)
    IN  Verify("queries",
               /\ query.under = drawn.party.t.chain
               /\ Included(query.base, inner \o coset, BaseOracleDepth)
               /\ FriQueriesValid(query.fri, inner \o coset),
               [drawn.party EXCEPT !.checked = @ + 1])

VerifyQuery ==
    /\ verifier.checked < Len(proof.queries)
    /\ VerifyIndex(DrawIndex(verifier), proof.queries[verifier.checked + 1])

VerifyEnd ==
    /\ verifier.checked = Len(proof.queries)
    /\ Verify("queries", TRUE, Go(verifier, "accepted"))

VerifierStep ==
    \/ VerifySetup \/ VerifyWitness \/ VerifyStage2 \/ VerifyQuotient \/ VerifyOpenings
    \/ VerifyFriBase \/ VerifyFriFold \/ VerifyMonomials \/ VerifyPow
    \/ VerifyQuery \/ VerifyEnd
=============================================================================
