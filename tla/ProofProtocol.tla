--------------------------- MODULE ProofProtocol ----------------------------
(***************************************************************************)
(* The prover makes a proof, and both verifiers check it.                  *)
(***************************************************************************)
EXTENDS Prover, Verifier, RecursiveVerifier

Init ==
    /\ config \in Configs
    /\ proof = EmptyProof
    /\ prover = NewParty(config.kind)
    /\ verifier = NewParty(config.kind)
    /\ recursive = NewParty(config.kind)

Verdicts == {"accepted", "rejected", "panicked"}

\* All have come to their end.
Finished ==
    /\ \/ prover.at = "panicked"
       \/ verifier.at \in Verdicts /\ (HasCircuit(config) => recursive.at \in Verdicts)
    /\ UNCHANGED vars

Next == ProverStep \/ VerifierStep \/ RecursiveStep \/ Finished

Spec == Init /\ [][Next]_vars

-----------------------------------------------------------------------------
(* A proof the prover hands out is accepted: three pieces of code that were
   written separately agree on what is witnessed and drawn in which order, on
   the folding schedule, on the proof of work, and on the index and the path of
   every leaf that is opened. *)
HonestProofAccepted ==
    /\ verifier.at \notin {"rejected", "panicked"}
    /\ recursive.at \notin {"rejected", "panicked"} /\ recursive.valid

\* Elements without the padding of the sponge.
Unpadded(elements) ==
    FlattenSeq([i \in 1 .. Len(elements) |->
                   IF elements[i][1] \in {"one", "zero"} THEN << >> ELSE << elements[i] >>])

\* What a party had absorbed when its n-th block was taken in.
Content(p, n) == Unpadded(FlattenSeq(SubSeq(p.t.chain, 1, n)))

(* Every challenge depends on all that was witnessed before it was drawn, in
   its order: words that were squeezed out earlier and left over are not handed
   out after a new message. *)
ChallengesBind ==
    \A p \in {prover, verifier, recursive} : \A i \in 1 .. Len(p.drawn) :
        LET d == p.drawn[i]
        IN  \A word \in ToSet(d.words) : Content(p, word[1]) = Take(p.sent, d.sent)

(* No word of the sponge or hash serves for two challenges, and none is drawn
   for the queries without giving a bit that was not there before: what the
   buffer of bits holds comes from the words drawn for it, each bit once. *)
NothingDrawnTwice ==
    \A p \in {prover, verifier, recursive} :
        /\ IsInjective(FlattenSeq([i \in 1 .. Len(p.drawn) |-> p.drawn[i].words]))
        /\ IsInjective(p.bits)
        /\ p = prover => \A i, j \in 1 .. Len(proof.queries) :
              i < j => ToSet(proof.queries[i].base.leaf)
                          \cap ToSet(proof.queries[j].base.leaf) = {}
=============================================================================
