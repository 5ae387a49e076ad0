-------------------------- MODULE MCFragmentEpochs --------------------------
(***************************************************************************)
(* Instances of FragmentEpochs for TLC.                                    *)
(***************************************************************************)
EXTENDS FragmentEpochs

CONSTANTS f1, f2

\* One counter per flow and row.
MCExactCell == [r \in Rows |-> [f \in Flows |-> IF f = f1 THEN 1 ELSE 2]]

\* Row 1 lets the two flows collide.
MCCollidingCell ==
    [r \in Rows |-> [f \in Flows |-> IF r = 1 \/ f = f1 THEN 1 ELSE 2]]

MCSingleHop == [f \in Flows |-> f = f1]

\* Every assignment of the flows to up to four windows.
MCSeeds == [Flows -> 0 .. 3]

\* Few assignments: together, apart, first and last.
MCFewSeeds == {[f \in Flows |-> 0], [f \in Flows |-> IF f = f1 THEN 0 ELSE 1],
               [f \in Flows |-> IF f = f1 THEN 3 ELSE 1]}

\* A count that starts odd, is capped at 4 and halved to 2 and 1.
MCCountMin ==
    [index |-> 1, kind |-> "CountMin", rho_target |-> 1, max_subepoch |-> 4,
     initial_subepoch |-> 3, boost_single_hop |-> FALSE, epoch_duration |-> 5]

\* A cap that is no power of two.
MCCountSketch ==
    [MCCountMin EXCEPT !.kind = "CountSketch", !.rho_target = 8,
                       !.max_subepoch = 3, !.boost_single_hop = TRUE]

MCBoosted == [MCCountMin EXCEPT !.boost_single_hop = TRUE]

\* UnivMon with initial_subepoch = 0, which the configuration parser accepts.
MCUnivMonZero ==
    [MCCountMin EXCEPT !.kind = "UnivMon", !.initial_subepoch = 0]

=============================================================================
