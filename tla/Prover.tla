------------------------------- MODULE Prover -------------------------------
(***************************************************************************)
(* prove_cpu_basic (cs/implementations/prover.rs) and do_fri               *)
(* (cs/implementations/fri/mod.rs): what the prover witnesses, draws and   *)
(* puts into the proof, in its order.                                      *)
(***************************************************************************)
EXTENDS ProofMessages

\* The prover moves, and puts these parts into the proof.
Prove(from, party, parts) ==
    /\ prover.at = from
    /\ prover' = party
    /\ proof' = parts
    /\ UNCHANGED << config, verifier, recursive >>

ProveSetup ==
    LET inputs == Elements("public_input", 0, config.inputs)
    IN  Prove("setup",
              Go(Witness(Witness(prover, Cap("setup", 0)), inputs), "witness"),
              [proof EXCEPT !.public_inputs = inputs])

ProveWitness ==
    LET cap == Cap("witness", 0)
    IN  Prove("witness",
              Go(DrawLookup(DrawTwo(Witness(prover, cap), "beta", "gamma")), "stage_2"),
              [proof EXCEPT !.witness_oracle_cap = cap])

ProveStage2 ==
    LET cap == Cap("stage_2", 0)
    IN  Prove("stage_2", Go(Draw(Witness(prover, cap), "alpha", 2), "quotient"),
              [proof EXCEPT !.stage_2_oracle_cap = cap])

ProveQuotient ==
    LET cap == Cap("quotient", 0)
    IN  Prove("quotient", Go(Draw(Witness(prover, cap), "z", 2), "openings"),
              [proof EXCEPT !.quotient_oracle_cap = cap])

ProveOpenings ==
    LET atZ      == Elements("at_z", 0, 2 * NumAtZ)
        atZOmega == Elements("at_z_omega", 0, 2)
        at0      == Elements("at_0", 0, 2 * NumAt0)
    IN  Prove("openings",
              Go(Draw(Witness(prover, atZ \o atZOmega \o at0), "deep", 2), "fri_base"),
              [proof EXCEPT !.values_at_z = atZ, !.values_at_z_omega = atZOmega,
                            !.values_at_0 = at0, !.opened_under = Seen(prover)])

\* The tree of the base oracle has to be larger than its cap, those of the
\* other oracles may be of its size.
ProveFriBase ==
    LET cap == Cap("fri", 0)
    IN  IF /\ ScheduleAsserts(config)
           /\ Folds(config) # <<>>
           /\ TreeLog(config, 1) > config.cap
        THEN Prove("fri_base",
                   [Go(Draw(Witness(prover, cap), "fri", 2), "fri") EXCEPT !.folds = 1],
                   [proof EXCEPT !.fri_base_oracle_cap = cap])
        ELSE Prove("fri_base", Go(prover, "panicked"), proof)

\* The tree is at least as large as its cap: the schedule asserts it of the
\* last one.
ProveFriFold ==
    LET cap == Cap("fri", prover.folds)
    IN  /\ prover.folds < Len(Folds(config))
        /\ Prove("fri", [Draw(Witness(prover, cap), "fri", 2) EXCEPT !.folds = @ + 1],
                 [proof EXCEPT !.fri_intermediate_oracles_caps = Append(@, cap)])

ProveMonomials ==
    LET c0 == Elements("monomial", 0, 2^FinalLog(config))
        c1 == Elements("monomial", 1, 2^FinalLog(config))
    IN  /\ prover.folds = Len(Folds(config))
        /\ Prove("fri", Go(Witness(Witness(prover, c0), c1), "pow"),
                 [proof EXCEPT !.final_fri_monomials = << c0, c1 >>,
                               !.folded_under = Seen(prover)])

\* The nonce is good for the seed it was searched with and for the bits it
\* was searched for (see PoW).
ProveSeeded(seeded) ==
    Prove("pow", Go(Witness(seeded, Elements("nonce", 0, 2)), "queries"),
          [proof EXCEPT !.pow = << [seed |-> Seen(seeded), bits |-> PowBits(config)] >>])

ProvePow ==
    IF PowBits(config) = 0 THEN Prove("pow", Go(prover, "queries"), proof)
    ELSE ProveSeeded(Draw(prover, "pow", PowSeedWords))

\* Mutant: the index of a later oracle is not shifted by the folds before it.
OracleQuery_LastFoldOnly(inner, coset, i) ==
    [leaf |-> Drop(inner, IF i = 0 THEN 0 ELSE Shift(i) - Shift(i - 1)) \o coset,
     path |-> TreeLog(config, i) - config.cap]

\* OracleQuery::construct.  Numbers are lists of their bits from the lowest:
\* a shift to the right drops some, and (coset_idx << shift) + inner_idx is
\* the inner index followed by the coset, as shift is the length it has left.
OracleQuery(inner, coset, i) ==
    [leaf |-> Drop(inner, Shift(i)) \o coset,
     path |-> TreeLog(config, i) - config.cap]

Query(inner, coset, under) ==
    [under |-> under, base  |-> OracleQuery(inner, coset, 0),
     fri |-> [i \in 1 .. Len(Folds(config)) |-> OracleQuery(inner, coset, i)]]

ProveIndex(drawn) ==
    Prove("queries", drawn.party,
          [proof EXCEPT !.queries = Append(@, Query(Take(drawn.index, config.domain),
                                                    Drop(drawn.index, config.domain),
                                                    drawn.party.t.chain))])

ProveQuery ==
    /\ Len(proof.queries) < NumQueries(config)
    /\ ProveIndex(DrawIndex(prover))

ProveEnd ==
    /\ Len(proof.queries) = NumQueries(config)
    /\ Prove("queries", Go(prover, "done"), proof)

ProverStep ==
    \/ ProveSetup \/ ProveWitness \/ ProveStage2 \/ ProveQuotient \/ ProveOpenings
    \/ ProveFriBase \/ ProveFriFold \/ ProveMonomials \/ ProvePow \/ ProveQuery \/ ProveEnd
=============================================================================
