---------------------------- MODULE MCStResolver ----------------------------
(* Circuits of seven places: chains behind late values, resolvers that wait for
   one place together, a queue whose head waits for a later place than the
   resolvers behind it. *)
EXTENDS StResolver

Res(i, o) == [ins |-> i, outs |-> o]

Chain == [set |-> {0, 2, 4},
          resolvers |-> <<Res({0}, {1}), Res({1, 2}, {3}), Res({3, 4}, {5}), Res({5}, {6})>>]

(* The second resolver waits for a smaller place than the first. *)
Crossed == [set |-> {0, 1, 2},
            resolvers |-> <<Res({0, 2}, {3}), Res({1}, {4}), Res({0, 1}, {5}), Res({3, 4}, {6})>>]

Wide == [set |-> {1, 5},
         resolvers |-> <<Res({}, {0}), Res({0, 1}, {2, 3}), Res({1}, {4}), Res({2, 5}, {6})>>]

MCCircuits == {Chain, Crossed, Wide}
=============================================================================
