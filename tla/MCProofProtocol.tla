-------------------------- MODULE MCProofProtocol ---------------------------
EXTENDS ProofProtocol

\* Schedules of no, one, two and three folds, of all three degrees.
MCAll == {c \in [domain : {1, 2, 4, 6, 7}, rate : 1 .. 2, cap : 0 .. 2, security : {3, 4},
                  pow : 0 .. 1, lookup : BOOLEAN, inputs : {1}, kind : Kinds] :
              c.domain + c.rate >= 3}

\* The configurations whose proof of work the schedule leaves as it is; the
\* others are in MCReduced.  With a circuit the cap has more than one element.
MCConfigs == {c \in MCAll : /\ PowBits(c) = c.pow
                            /\ HasCircuit(c) => c.cap > 0}
MCReduced == {c \in MCAll : PowBits(c) # c.pow}
=============================================================================
