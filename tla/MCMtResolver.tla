---------------------------- MODULE MCMtResolver ----------------------------
(* Small circuits: a diamond whose tip waits for two resolvers, a chain with an
   independent resolver beside it, a resolver with two outputs. *)
EXTENDS MtResolver

Res(i, o) == [ins |-> i, outs |-> o]

Diamond == [set |-> {0},
            resolvers |-> {Res({0}, {1}), Res({0}, {2}), Res({1, 2}, {3}), Res({1}, {4})}]
Chain == [set |-> {0},
          resolvers |-> {Res({0}, {1}), Res({1}, {2}), Res({2}, {3}), Res({}, {4})}]
Wide == [set |-> {0, 1}, resolvers |-> {Res({0}, {2, 3}), Res({1, 2}, {4})}]

MCCircuits == {Diamond, Chain, Wide}

(* An acyclic circuit whose places are not in an order of computation: 2 gives
   3, 3 gives 1. *)
MCBackward == {[set |-> {0, 2}, resolvers |-> {Res({2}, {3}), Res({3}, {1})}]}

(* The hypothesis under which nothing is stuck tells the two apart. *)
ASSUME OrderedCircuits ==
    /\ \A c \in MCCircuits : InComputationOrder(c)
    /\ \A c \in MCBackward : ~InComputationOrder(c)
=============================================================================
