---------------------------- MODULE FriSchedule -----------------------------
(***************************************************************************)
(* compute_fri_schedule (cs/implementations/prover.rs), which the prover   *)
(* and both verifiers call with the same configuration.  Sizes that are    *)
(* powers of two are given by their logarithms: c.domain, c.rate (of the   *)
(* LDE factor) and c.cap.                                                  *)
(***************************************************************************)
EXTENDS Integers, Sequences, SequencesExt

\* "there is no point to do so much PoW": the bits by which the queries,
\* each worth c.rate bits, go past the security level.
PowBits(c) ==
    LET over == (c.security - c.pow) % c.rate
    IN  IF over # 0 /\ c.pow >= c.rate - over THEN c.pow - (c.rate - over) ELSE c.pow

NumQueries(c) == (c.security - PowBits(c) + c.rate - 1) \div c.rate

\* folding_stop_degree is max(1, cap_size >> rate)
StopLog(c) == IF c.cap >= c.rate THEN c.cap - c.rate ELSE 0

\* The folding loop: by 8 while that does not go below the stop degree, and
\* once by what is left; never when the tree is down to the cap already.
Folds(c) ==
    LET from[d \in 0 .. c.domain] ==
            IF d <= StopLog(c) \/ d + c.rate <= c.cap THEN <<>>
            ELSE LET fold == IF d - StopLog(c) >= 3 THEN 3 ELSE d - StopLog(c)
                 IN  << fold >> \o from[d - fold]
    IN  from[c.domain]

\* The logarithm of the degree after the first n folds.
DegreeLog(c, n) ==
    LET log[i \in 0 .. n] == IF i = 0 THEN c.domain ELSE log[i - 1] - Folds(c)[i]
    IN  log[n]

FinalLog(c) == DegreeLog(c, Len(Folds(c)))

\* The logarithm of the number of leaves of the n-th oracle of FRI.
TreeLog(c, n) == DegreeLog(c, n) + c.rate

\* The assertions of compute_fri_schedule.
ScheduleAsserts(c) ==
    /\ c.security > c.pow
    /\ FinalLog(c) + c.rate >= c.cap

=============================================================================
