----------------------------- MODULE MCDiSketch -----------------------------
(***************************************************************************)
(* Instances of DiSketch and Simulator for TLC: two or three fragments,    *)
(* and paths over some of them.                                            *)
(***************************************************************************)
EXTENDS Simulator, TLC

CONSTANTS f1, f2,
          MaxTs,     \* bound on the timestamps
          MaxLength  \* bound on the length of a trace

MCExactCell == [r \in Rows |-> [f \in Flows |-> IF f = f1 THEN 1 ELSE 2]]
MCFullCell == [r \in FullRows |-> [f \in Flows |-> 1]]

MCPackets == [flow : Flows, ts : 0 .. MaxTs]

\* Every trace of at most MaxLength packets in time order.
MCTraces ==
    UNION {{p \in [1 .. n -> MCPackets] :
                \A k \in 2 .. n : p[k - 1].ts <= p[k].ts} : n \in 0 .. MaxLength}

MCSeeds == {[f \in Flows |-> 0], [f \in Flows |-> IF f = f1 THEN 1 ELSE 2]}

\* CountMin, minimum: fragment 0 starts with the most subepochs and gives
\* them up, fragment 1 doubles whenever it sees traffic.
MCCountMin ==
    LET base == [index |-> 0, kind |-> "CountMin", rho_target |-> 30,
                 max_subepoch |-> 4, initial_subepoch |-> 4,
                 boost_single_hop |-> FALSE, epoch_duration |-> 1]
    IN  [fragments |-> (0 :> base) @@ (1 :> [base EXCEPT !.rho_target = 0,
                                                         !.initial_subepoch = 1]),
         paths |-> <<<<0>>, <<1, 0>>>>, sketch_kind |-> "CountMin",
         epoch_duration_ns |-> 4, max_epochs |-> 0, has_memory |-> TRUE]

\* CountSketch, median of up to three values.  A flow that visits only
\* fragment 0 is sampled there in two windows.
MCCountSketch ==
    [MCCountMin EXCEPT
        !.sketch_kind = "CountSketch", !.paths = <<<<0>>, <<1, 0, 2>>>>,
        !.has_memory = FALSE,
        !.fragments = [n \in 0 .. 2 |->
            [MCCountMin.fragments[n % 2] EXCEPT
                !.kind = "CountSketch", !.initial_subepoch = <<2, 1, 2>>[n + 1],
                !.rho_target = <<3, 0, 3>>[n + 1], !.boost_single_hop = (n = 0)]]]

\* UnivMon, mean: the number of subepochs never changes.  One epoch at most.
\* Two paths name a node twice.
MCUnivMon ==
    [MCCountMin EXCEPT
        !.paths = <<<<0>>, <<1, 0, 1>>, <<1, 1>>>>,
        !.sketch_kind = "UnivMon", !.max_epochs = 1, !.has_memory = FALSE,
        !.fragments = [n \in 0 .. 1 |->
            [MCCountMin.fragments[n] EXCEPT
                !.kind = "UnivMon", !.initial_subepoch = n + 1]]]

MCConfigs == {MCCountMin, MCCountSketch, MCUnivMon}
MCCountMinOnly == {MCCountMin}

=============================================================================
