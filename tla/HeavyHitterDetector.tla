------------------------ MODULE HeavyHitterDetector ------------------------
(***************************************************************************)
(* HeavyHitterDetector (src/HeavyHitterDetector.cpp): the counters of a    *)
(* comparison between the flows that are heavy and those that are found to *)
(* be.  Its ratios are quotients of the counters and are left out.         *)
(***************************************************************************)
EXTENDS Integers, FiniteSets

Outcomes == {"tp", "fn", "fp", "tn"}

reset == [o \in Outcomes |-> 0]

\* Each flow falls under one outcome.
Classified(real, detected, flows) ==
    [reset EXCEPT !.tp = Cardinality(real \cap detected),
                  !.fn = Cardinality(real \ detected),
                  !.fp = Cardinality(detected \ real),
                  !.tn = Cardinality(flows \ (real \cup detected))]

\* ideal: the count of each flow that occurs; query: the sketch's answers.
detect(ideal, query, threshold) ==
    Classified({f \in DOMAIN ideal : ideal[f] >= threshold},
               {f \in DOMAIN ideal : query[f] >= threshold}, DOMAIN ideal)

=============================================================================
