----------------------------- MODULE Simulator -----------------------------
(***************************************************************************)
(* The simulator program (main in examples/disketch_simulator.cpp): it     *)
(* reads its options, the configuration and the trace, runs DiSketch and   *)
(* prints the totals over all epochs, one line for the undivided sketch    *)
(* and one for DiSketch, which are what the experiment runner looks for.   *)
(*                                                                         *)
(* The configuration that parse returns and the trace that parse_pcap      *)
(* returns are those of DiSketch.  The header and the help are left out of *)
(* what is printed.                                                        *)
(***************************************************************************)
EXTENDS DiSketch

VARIABLES
    stage,      \* what main does next
    exit_code,  \* what it has returned, or -1
    printed     \* the metric lines

simVars == <<vars, stage, exit_code, printed>>

Stages == {"options", "config", "packets", "run", "exited"}

-----------------------------------------------------------------------------
SimInit ==
    /\ Init
    /\ stage = "options"
    /\ exit_code = -1
    /\ printed = <<>>

GoOn(from, to) ==
    /\ stage = from
    /\ stage' = to
    /\ UNCHANGED <<vars, exit_code, printed>>

Return(from, code) ==
    /\ stage = from
    /\ stage' = "exited"
    /\ exit_code' = code
    /\ UNCHANGED <<vars, printed>>

\* The options are as they should be, or wrong, or ask for help.
ParseOptions ==
    \/ GoOn("options", "config")
    \/ Return("options", 1)
    \/ Return("options", 0)

\* parse returns true or false.
ReadConfig == GoOn("config", "packets") \/ Return("config", 1)

\* parse_pcap returns packets, none, or throws.
ReadPackets ==
    \/ packets # <<>> /\ GoOn("packets", "run")
    \/ Return("packets", 1)

\* A step of DiSketch::run.
Run ==
    /\ stage = "run"
    /\ Start \/ BeginEpochs \/ NextPacket \/ EndEpoch \/ Finish
    /\ UNCHANGED <<stage, exit_code, printed>>

\* Mutant: the totals are those of the last epoch.
TotalOfLast(field) ==
    IF report = <<>> THEN reset ELSE report[Len(report)][field]

\* accumulate_totals
Total(field) ==
    [o \in Outcomes |-> SumFunction([e \in DOMAIN report |-> report[e][field][o]])]

\* accumulate_totals, the two calls of emit_metrics_line, return 0.
Emit ==
    /\ stage = "run"
    /\ pc = "done"
    /\ printed' = <<[method |-> "FullSketch",
                     detector |-> Total("full_sketch_detector")],
                    [method |-> "DiSketch",
                     detector |-> Total("disketch_detector")]>>
    /\ stage' = "exited"
    /\ exit_code' = 0
    /\ UNCHANGED vars

\* The process has ended.
Exited == stage = "exited" /\ UNCHANGED simVars

SimNext == ParseOptions \/ ReadConfig \/ ReadPackets \/ Run \/ Emit \/ Exited

SimSpec == SimInit /\ [][SimNext]_simVars

-----------------------------------------------------------------------------
SumOfEpochs(n(_)) == SumFunction([e \in 1 .. TotalEpochs |-> n(e - 1)])

\* When the metric lines are printed, both are, the process returns 0, and
\* they account for every flow of every epoch of the trace, up to max_epochs,
\* once, and for its heavy flows as such.  The line of the undivided sketch
\* counts the same flows, or nothing if there is no such sketch
\* (disketch_simulator.cpp:12-35, 90-104, DiSketch.cpp:20-23, 120-172).
TotalsAccountForTrace ==
    printed # <<>> =>
        LET heavy == SumOfEpochs(LAMBDA e : Cardinality(HeavyIn(e)))
            all == SumOfEpochs(LAMBDA e : Cardinality(FlowsIn(e)))
            Accounts(d) == /\ d.tp + d.fn = heavy
                           /\ d.fp + d.tn = all - heavy
        IN  /\ exit_code = 0
            /\ [k \in DOMAIN printed |-> printed[k].method]
                  = <<"FullSketch", "DiSketch">>
            /\ IF config.has_memory THEN Accounts(printed[1].detector)
               ELSE printed[1].detector = reset
            /\ Accounts(printed[2].detector)

=============================================================================
