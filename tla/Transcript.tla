----------------------------- MODULE Transcript -----------------------------
(***************************************************************************)
(* The Fiat-Shamir transcripts of boojum and the buffer of bits drawn from *)
(* them (cs/implementations/transcript.rs; the circuit copies are in       *)
(* gadgets/recursion/recursive_transcript.rs).                             *)
(*                                                                         *)
(* A transcript is a record.  "chain" is the list of the blocks the sponge *)
(* or the hash has taken in, an empty block being a bare permutation or    *)
(* reseed: it determines the state, so the k-th word squeezed out after n  *)
(* blocks is <<n, k>>, and means the same to two parties whose chains have *)
(* the same first n blocks.  Nothing is assumed of the permutation but     *)
(* that other blocks give other words.                                     *)
(***************************************************************************)
EXTENDS Integers, Sequences, SequencesExt

CONSTANTS AW,       \* elements a sponge absorbs and gives at a time (8)
          CW,       \* elements in a digest, the words a hash gives (4)
          CharBits  \* bits of a word (64)

ASSUME TranscriptAssumption ==
    /\ AW \in Nat \ {0}
    /\ CW \in Nat \ {0}
    /\ CharBits \in Nat \ {0}

\* AlgebraicSpongeBasedTranscript, and Blake2sTranscript or
\* Keccak256Transcript, which are the same code with another hash.
Kinds == {"sponge", "hash"}

Element(name, i, j) == <<name, i, j>>

NewTranscript(kind) ==
    [kind |-> kind, buffer |-> <<>>, available |-> <<>>, chain |-> <<>>]

\* witness_field_elements and witness_merkle_tree_cap
WitnessElements(t, elements) == [t EXCEPT !.buffer = @ \o elements]

\* The padding of the sponge: a one, then zeroes up to a full block.
Padded(elements) ==
    LET ended == Append(elements, Element("one", 0, 0))
    IN  ended \o [i \in 1 .. (AW - (Len(ended) % AW)) % AW |-> Element("zero", 0, 0)]

BlocksOf(elements) ==
    [b \in 1 .. Len(elements) \div AW |-> SubSeq(elements, (b - 1) * AW + 1, b * AW)]

Absorbed(t) ==
    IF t.kind = "sponge" THEN BlocksOf(Padded(t.buffer)) ELSE << t.buffer >>

\* A new state of the sponge or hash replaces all the words of the old one.
Squeezed(t, chain) ==
    [t EXCEPT !.chain = chain, !.buffer = <<>>,
              !.available = [k \in 1 .. (IF t.kind = "sponge" THEN AW ELSE CW) |->
                                << Len(chain), k >>]]

\* Mutant: leftover words are used up before new messages are absorbed.
Refilled_LeftoversFirst(t) ==
    IF t.available # <<>> THEN t
    ELSE Squeezed(t, IF t.buffer # <<>> THEN t.chain \o Absorbed(t)
                     ELSE Append(t.chain, <<>>))

\* What get_challenge does before it takes a word.
Refilled(t) ==
    IF t.buffer # <<>> THEN Squeezed(t, t.chain \o Absorbed(t))
    ELSE IF t.available = <<>> THEN Squeezed(t, Append(t.chain, <<>>))
    ELSE t

\* got is a transcript with the words drawn from it.
TakeWord(full, words) ==
    [t |-> [full EXCEPT !.available = Tail(@)],
     words |-> Append(words, Head(full.available))]

GetChallenge(got) == TakeWord(Refilled(got.t), got.words)

\* get_multiple_challenges and get_multiple_challenges_fixed
GetChallenges(t, n) ==
    LET got[i \in 0 .. n] == IF i = 0 THEN [t |-> t, words |-> <<>>]
                             ELSE GetChallenge(got[i - 1])
    IN  got[n]

\* BoolsBuffer::get_bits draws until n bits are there.  Of a field element
\* only the low bits are taken, as many as leave out max_needed; the words
\* of a hash are taken whole.
BitsPerWord(t, maxNeeded) == IF t.kind = "sponge" THEN CharBits - maxNeeded ELSE CharBits

WordsNeeded(bits, perWord) == IF bits <= 0 THEN 0 ELSE (bits + perWord - 1) \div perWord

BitsOf(words, perWord) ==
    [b \in 1 .. Len(words) * perWord |->
        << words[(b - 1) \div perWord + 1], (b - 1) % perWord >>]

\* Mutant: the bits given out stay in the buffer.
GiveBits_Kept(got, bits, n) ==
    [t |-> got.t, words |-> got.words, bits |-> SubSeq(bits, 1, n), left |-> bits]

GiveBits(got, bits, n) ==
    [t |-> got.t, words |-> got.words, bits |-> SubSeq(bits, 1, n),
     left |-> SubSeq(bits, n + 1, Len(bits))]

GetBits(t, available, maxNeeded, n) ==
    LET perWord == BitsPerWord(t, maxNeeded)
        got     == GetChallenges(t, WordsNeeded(n - Len(available), perWord))
    IN  GiveBits(got, available \o BitsOf(got.words, perWord), n)
=============================================================================
