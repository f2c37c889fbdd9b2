----------------------------- MODULE MCPlayback -----------------------------
EXTENDS Playback, SequencesExt

Set(p) == [op |-> "set", places |-> {p}, resolver |-> NoResolver]
Await(places) == [op |-> "await", places |-> places, resolver |-> NoResolver]
Res(i, o) == [ins |-> i, outs |-> o]
Add(i, o) == [op |-> "add", places |-> {}, resolver |-> Res(i, o)]

MCResolvers == {Res({0}, {1}), Res({0}, {2}), Res({1, 2}, {3}),
                Res({3}, {4}), Res({1}, {2}), Res({}, {3}),
                Res({2, 3}, {4}), Res({0, 1}, {2})}

Diamond == {Set(0), Add({0}, {1}), Add({0}, {2}), Add({1, 2}, {3})}
Chain == {Set(0), Add({0}, {1}), Add({1}, {2}), Add({}, {3}), Set(4)}

(* The calls in any order, ... *)
Orders(calls) == {s \in SetToSeqs(calls) : SetsInTime(s)}

(* ... with an awaiter for 1 where the live resolver takes one: 0 is set and 1 is
   registered. *)
WithAwait(scripts) ==
    {t \in {InsertAt(s, i, Await({1})) : s \in scripts, i \in 3 .. 5} :
        /\ SetsInTime(t)
        /\ \A i \in DOMAIN t : t[i].op = "await" =>
              {Set(0), Add({0}, {1})} \subseteq {t[k] : k \in 1 .. i - 1}}

(* The tip of a diamond registered first, an awaiter for a value that was set, one
   for two that are computed, more registered after them. *)
Awaits == << Set(0), Add({1, 2}, {3}), Add({0}, {1}), Await({0}), Add({0}, {2}),
             Await({1, 3}), Add({3}, {4}) >>

MCScripts == {Awaits} \cup WithAwait(Orders(Diamond))
                      \cup Orders(Chain)

(* The calls of the test non_chronological_resolution_playback_mode. *)
NonChronological ==
    << Set(3), Add({2, 3}, {4}), Add({0, 1}, {2}), Set(1), Set(0) >>
MCNonChronological == {NonChronological}

(* The scripts of the run that passes are in time, the one that fails is not. *)
ASSUME InTimeAssumption ==
    (\A s \in MCScripts : SetsInTime(s)) /\ ~SetsInTime(NonChronological)
=============================================================================
