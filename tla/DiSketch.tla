------------------------------ MODULE DiSketch ------------------------------
(***************************************************************************)
(* DiSketch::run (src/DiSketch.cpp): the packets of a trace are cut into   *)
(* epochs and played through the fragments on the path of their flow; at   *)
(* the end of an epoch the fragments' reports are aggregated into an       *)
(* estimate for every flow, which is compared with the exact count and     *)
(* with one undivided sketch.                                              *)
(*                                                                         *)
(* The configuration, the trace and the path of each flow (the hash of     *)
(* pick_path) are arbitrary but fixed for the run.  The trace is sorted by *)
(* time, as parse_pcap leaves it.  heavy_hitter_ratio is RatioNum /        *)
(* RatioDen.  All fragments' sketches place the flows alike.               *)
(***************************************************************************)
EXTENDS Fragment, HeavyHitterDetector, Functions

CONSTANTS
    Configs,         \* the DiSketchConfigs a DiSketch may be made from
    RatioNum, RatioDen,
    FullCells, FullRows, FullCell,  \* the shape of the undivided sketch
    Seeds,           \* the hash seeds a fragment may get for an epoch
    Traces           \* the packet vectors the run may be given

Full == INSTANCE Sketch WITH Cells <- FullCells, Rows <- FullRows,
                             Cell <- FullCell

\* fragments and paths are those of the topology; fragments count from 0.
\* has_memory: is the memory of all fragments together positive?
ASSUME ConfigsAssumption ==
    \A c \in Configs :
        /\ DOMAIN c = {"fragments", "paths", "sketch_kind", "epoch_duration_ns",
                       "max_epochs", "has_memory"}
        /\ \A n \in DOMAIN c.fragments :
              n \in Nat /\ c.fragments[n] \in FragmentSettings
        /\ c.sketch_kind \in SketchKinds
        /\ {c.epoch_duration_ns, c.max_epochs} \subseteq Nat
        /\ c.has_memory \in BOOLEAN
        /\ c.paths # <<>>
        /\ \A p \in DOMAIN c.paths :
              c.paths[p] \in Seq(DOMAIN c.fragments) \ {<<>>}
\* The kinds whose answers Query gives (see Sketch).
ASSUME KindsAssumption ==
    \A c \in Configs :
        /\ \A n \in DOMAIN c.fragments :
              c.fragments[n].kind = "CountMin" \/ NoCollisions
        /\ c.has_memory => c.sketch_kind = "CountMin" \/ Full!NoCollisions
ASSUME TracesAssumption ==
    \A trace \in Traces :
        /\ trace \in Seq([flow : Flows, ts : Nat])
        /\ \A k \in DOMAIN trace : \A j \in 1 .. k : trace[j].ts <= trace[k].ts
ASSUME FullAssumption ==
    FullRows # {} /\ FullCell \in [FullRows -> [Flows -> FullCells]]
ASSUME SeedsAssumption == Seeds \subseteq HashSeeds
ASSUME RatioAssumption == RatioNum \in Nat /\ RatioDen \in Nat \ {0}

VARIABLES
    config,              \* config_
    packets,             \* the argument of run
    route,               \* the index of the path of each flow
    pc,                  \* "start", "epoch" (loop head), "packets" or "done"
    packet_index,        \* the next packet
    epoch,               \* the loop's counter
    frags,               \* disketch_fragments
    full,                \* full_sketch
    ideal,               \* the exact number of packets of each flow
    epoch_packet_count,
    report               \* DiSketchReport.epochs

fixed == <<config, packets, route>>
vars == <<fixed, pc, packet_index, epoch, frags, full, ideal,
          epoch_packet_count, report>>

Nodes == DOMAIN config.fragments
Duration == Larger(1, config.epoch_duration_ns)

\* The constructor arguments of fragment n.
Config(n) ==
    [config.fragments[n] EXCEPT !.index = n, !.epoch_duration = Duration]

NoCounts == [f \in Flows |-> 0]

\* Topology::pick_path.
PathOf(f) == config.paths[route[f]]
IsSingleHop(f) == Len(PathOf(f)) <= 1

FirstTs == packets[1].ts
LastTs == packets[Len(packets)].ts

TotalEpochs ==
    LET n == (LastTs - FirstTs) \div Duration + 1
    IN  IF config.max_epochs > 0 THEN Smaller(n, config.max_epochs) ELSE n

StartOf(e) == FirstTs + e * Duration

-----------------------------------------------------------------------------
(* Aggregation along a path.                                               *)

\* The value of node n for flow f; 0 stands for no value.
NodeValue(f, n, reports) ==
    IF /\ n \in DOMAIN reports
       /\ reports[n].records # <<>> => reports[n].records[1].fragment_index = n
    THEN TemporalAggregation(f, reports[n], IsSingleHop(f),
                             config.fragments[n].boost_single_hop)
    ELSE 0

\* The values that count.
Positive(values) == [h \in {h \in DOMAIN values : values[h] > 0} |-> values[h]]

\* std::min_element, the median and the mean of the values.
Combine(values) ==
    LET n == Cardinality(DOMAIN values)
        order == CHOOSE p \in Bijection(1 .. n, DOMAIN values) :
                    \A j, k \in 1 .. n : j <= k => values[p[j]] <= values[p[k]]
        sorted(k) == values[order[k]]
        mid == n \div 2
    IN  CASE n = 0 -> 0
          [] n > 0 /\ config.sketch_kind = "CountMin" -> sorted(1)
          [] n > 0 /\ config.sketch_kind = "CountSketch" ->
                IF n % 2 = 1 THEN sorted(mid + 1)
                ELSE (sorted(mid) + sorted(mid + 1)) \div 2
          [] n > 0 /\ config.sketch_kind = "UnivMon" ->
                SumFunction(values) \div n

\* Mutant: nodes without a value count as 0.
SpatialAggregationKeepingZeros(f, reports) ==
    LET path == PathOf(f)
    IN  Combine([h \in DOMAIN path |-> NodeValue(f, path[h], reports)])

SpatialAggregation(f, reports) ==
    LET path == PathOf(f)
    IN  Combine(Positive([h \in DOMAIN path |-> NodeValue(f, path[h], reports)]))

-----------------------------------------------------------------------------
(* The summary of an epoch.                                                *)

\* Mutant: a flow at the threshold is not heavy.
IsHeavyStrictly(value) == value * RatioDen > epoch_packet_count * RatioNum

\* value >= epoch_packet_count * heavy_hitter_ratio
IsHeavy(value) == value * RatioDen >= epoch_packet_count * RatioNum

Summary(reports) ==
    LET flows == {f \in Flows : ideal[f] > 0}
        fullOf(f) == IF config.has_memory THEN Full!Query(full, f) ELSE 0
        estimate == [f \in flows |-> SpatialAggregation(f, reports)]
        real == {f \in flows : IsHeavy(ideal[f])}
    IN  [epoch_id |-> epoch,
         total_packets |-> epoch_packet_count,
         total_flows |-> Cardinality(flows),
         fragment_subepoch_counts |->
            [n \in Nodes |-> IF reports[n].records = <<>> THEN 0
                             ELSE reports[n].records[1].total_subepochs],
         full_sketch_detector |->
            IF config.has_memory
            THEN Classified(real, {f \in flows : IsHeavy(fullOf(f))}, flows)
            ELSE reset,
         disketch_detector |->
            Classified(real, {f \in flows : IsHeavy(estimate[f])}, flows),
         flow_metrics |->
            [f \in real |-> [ideal |-> ideal[f], full_sketch |-> fullOf(f),
                             disketch |-> estimate[f]]]]

-----------------------------------------------------------------------------
Init ==
    /\ config \in Configs
    /\ packets \in Traces
    /\ route \in [Flows -> DOMAIN config.paths]
    /\ pc = "start"
    /\ packet_index = 1
    /\ epoch = 0
    /\ frags = [n \in Nodes |-> NewFragment(Config(n))]
    /\ full = Full!EmptySketch
    /\ ideal = NoCounts
    /\ epoch_packet_count = 0
    /\ report = <<>>

\* An empty or unsorted trace gives an empty report.
Start ==
    /\ pc = "start"
    /\ pc' = IF packets = <<>> THEN "done"
             ELSE IF LastTs < FirstTs THEN "done" ELSE "epoch"
    /\ UNCHANGED <<fixed, packet_index, epoch, frags, full, ideal,
                   epoch_packet_count, report>>

\* Mutant: the undivided sketch is not cleared.
BeginEpochsKeepingFull ==
    /\ pc = "epoch"
    /\ epoch < TotalEpochs
    /\ \A n \in Nodes : frags[n].subepoch_count # 0
    /\ \E seed \in [Nodes -> Seeds] :
          frags' = [n \in Nodes |-> BeginEpoch(Config(n), frags[n], epoch,
                                               StartOf(epoch), seed[n])]
    /\ ideal' = NoCounts
    /\ epoch_packet_count' = 0
    /\ pc' = "packets"
    /\ UNCHANGED <<fixed, packet_index, epoch, full, report>>

BeginEpochs ==
    /\ pc = "epoch"
    /\ epoch < TotalEpochs
    /\ \A n \in Nodes : frags[n].subepoch_count # 0
    /\ \E seed \in [Nodes -> Seeds] :
          frags' = [n \in Nodes |-> BeginEpoch(Config(n), frags[n], epoch,
                                               StartOf(epoch), seed[n])]
    /\ full' = Full!EmptySketch
    /\ ideal' = NoCounts
    /\ epoch_packet_count' = 0
    /\ pc' = "packets"
    /\ UNCHANGED <<fixed, packet_index, epoch, report>>

\* Mutant: a packet on the boundary is still one of the epoch.
MorePacketsInclusive ==
    /\ packet_index <= Len(packets)
    /\ packets[packet_index].ts <= StartOf(epoch) + Duration

\* Is the next packet one of this epoch, or of an earlier one?
MorePackets ==
    /\ packet_index <= Len(packets)
    /\ packets[packet_index].ts < StartOf(epoch) + Duration

\* process_packet of the fragments on the path, one after the other.
AlongPath(f, ts) ==
    LET path == PathOf(f)
        visited[h \in 0 .. Len(path)] ==
            IF h = 0 THEN frags
            ELSE [visited[h - 1] EXCEPT ![path[h]] =
                     ProcessPacket(Config(path[h]), @, f, ts, IsSingleHop(f))]
    IN  visited[Len(path)]

NextPacket ==
    /\ pc = "packets"
    /\ MorePackets
    /\ packet_index' = packet_index + 1
    /\ LET f == packets[packet_index].flow
           ts == packets[packet_index].ts
       IN  IF ts < StartOf(epoch)
           THEN UNCHANGED <<frags, full, ideal, epoch_packet_count>>
           ELSE /\ epoch_packet_count' = epoch_packet_count + 1
                /\ ideal' = [ideal EXCEPT ![f] = @ + 1]
                /\ full' = IF config.has_memory THEN Full!Update(full, f) ELSE full
                /\ frags' = AlongPath(f, ts)
    /\ UNCHANGED <<fixed, pc, epoch, report>>

\* Mutant: the loop does not count.
EndEpochAgain ==
    /\ pc = "packets"
    /\ ~MorePackets
    /\ report' = Append(report,
            Summary([n \in Nodes |-> ClosingReport(Config(n), frags[n])]))
    /\ frags' = [n \in Nodes |-> CloseEpoch(Config(n), frags[n])]
    /\ pc' = "epoch"
    /\ UNCHANGED <<fixed, packet_index, epoch, full, ideal,
                   epoch_packet_count>>

EndEpoch ==
    /\ pc = "packets"
    /\ ~MorePackets
    /\ report' = Append(report,
            Summary([n \in Nodes |-> ClosingReport(Config(n), frags[n])]))
    /\ frags' = [n \in Nodes |-> CloseEpoch(Config(n), frags[n])]
    /\ epoch' = epoch + 1
    /\ pc' = "epoch"
    /\ UNCHANGED <<fixed, packet_index, full, ideal,
                   epoch_packet_count>>

Finish ==
    /\ pc = "epoch"
    /\ epoch >= TotalEpochs
    /\ pc' = "done"
    /\ UNCHANGED <<fixed, packet_index, epoch, frags, full, ideal,
                   epoch_packet_count, report>>

\* run has returned.
Returned == pc = "done" /\ UNCHANGED vars

Next == Start \/ BeginEpochs \/ NextPacket \/ EndEpoch \/ Finish \/ Returned

Spec == Init /\ [][Next]_vars

-----------------------------------------------------------------------------
(* What the report should say, from the trace alone.                       *)

\* The packets of epoch e.
PacketsIn(e) ==
    {k \in DOMAIN packets : /\ StartOf(e) <= packets[k].ts
                            /\ packets[k].ts < StartOf(e) + Duration}

CountIn(e, f) == Cardinality({k \in PacketsIn(e) : packets[k].flow = f})
FlowsIn(e) == {packets[k].flow : k \in PacketsIn(e)}
HeavyIn(e) ==
    {f \in FlowsIn(e) :
        CountIn(e, f) * RatioDen >= Cardinality(PacketsIn(e)) * RatioNum}

\* The packets of f in subepoch i of node n in the open epoch.
CountAt(f, n, i) ==
    Cardinality({k \in PacketsIn(epoch) :
                    /\ packets[k].flow = f
                    /\ SubepochIndex(frags[n], packets[k].ts) = i})

\* How often the path of f names node n.
Visits(f, n) == Cardinality({h \in DOMAIN PathOf(f) : PathOf(f)[h] = n})

WindowsAt(f, n) ==
    Windows(f, frags[n].hash_seed, frags[n].subepoch_count, IsSingleHop(f),
            config.fragments[n].boost_single_hop)

LastMetrics == report'[Len(report')].flow_metrics
Closes == pc = "packets" /\ pc' = "epoch"

-----------------------------------------------------------------------------
TypeOK ==
    /\ config \in Configs
    /\ route \in [Flows -> DOMAIN config.paths]
    /\ pc \in {"start", "epoch", "packets", "done"}
    /\ packet_index \in 1 .. Len(packets) + 1
    /\ epoch \in Nat
    /\ \A n \in Nodes : frags[n].subepoch_count \in Nat
    /\ full \in Full!Sketches
    /\ ideal \in [Flows -> Nat]
    /\ epoch_packet_count \in Nat
    /\ Len(report) <= epoch

\* Every packet of the trace is counted in the epoch its timestamp belongs
\* to, a packet on a boundary in the later one, and in no other; with no
\* bound on the epochs none is left over (DiSketch.cpp:20-23, 60-82).
EpochPartition ==
    /\ \A e \in 1 .. Len(report) :
          /\ report[e].epoch_id = e - 1
          /\ report[e].total_packets = Cardinality(PacketsIn(e - 1))
          /\ report[e].total_flows = Cardinality(FlowsIn(e - 1))
    /\ pc = "done" /\ config.max_epochs = 0 => packet_index = Len(packets) + 1

\* Both detectors classify every flow of the epoch once, against the same
\* heavy flows: those with at least the given share of the epoch's packets
\* in the trace (DiSketch.cpp:113-172).
DetectorsComparable ==
    \A e \in 1 .. Len(report) :
        LET full_ == report[e].full_sketch_detector
            dis == report[e].disketch_detector
            heavy == HeavyIn(e - 1)
        IN  /\ dis.tp + dis.fn = Cardinality(heavy)
            /\ dis.fp + dis.tn = Cardinality(FlowsIn(e - 1) \ heavy)
            /\ DOMAIN report[e].flow_metrics = heavy
            /\ config.has_memory => /\ full_.tp + full_.fn = dis.tp + dis.fn
                                /\ full_.fp + full_.tn = dis.fp + dis.tn

\* An undivided CountMin is reused from epoch to epoch, yet its answer for a
\* flow is at least the flow's count in the epoch, at most all packets of the
\* epoch, so that it misses no heavy flow (DiSketch.cpp:51-53, 135-151).  An
\* undivided CountSketch or UnivMon promises nothing of the kind.
FullSketchOverestimates ==
    config.has_memory /\ config.sketch_kind = "CountMin" => \A e \in 1 .. Len(report) :
        /\ report[e].full_sketch_detector.fn = 0
        /\ \A f \in DOMAIN report[e].flow_metrics :
              LET m == report[e].flow_metrics[f]
              IN  m.ideal <= m.full_sketch
                  /\ m.full_sketch <= report[e].total_packets

\* The estimate of a flow that each node of its path samples in one window
\* is the combination, over the nodes where that window saw the flow, of
\* the flow's packets in the window times the number of windows, and times
\* the number of visits if the path names the node repeatedly.  Nothing of
\* other epochs, other windows or other nodes enters it, however the numbers
\* of subepochs have changed meanwhile (DiSketch.cpp:77, 271-332).
EstimatesFromTrace ==
    [][Closes =>
        \A f \in DOMAIN LastMetrics :
            LET path == PathOf(f)
                value(n) == LET i == CHOOSE i \in WindowsAt(f, n) : TRUE
                            IN  frags[n].subepoch_count * Visits(f, n)
                                                        * CountAt(f, n, i)
                values == [h \in DOMAIN path |-> value(path[h])]
            IN  (\A h \in DOMAIN path :
                    Cardinality(WindowsAt(f, path[h])) = 1)
                => LastMetrics[f].disketch = Combine(Positive(values))
      ]_vars

\* A flow with equally many packets in all subepochs of each node on its
\* path is estimated exactly, whichever windows the hashes assign to it and
\* however many nodes there are: sampling one window and multiplying loses
\* nothing.  A path that goes through each of its nodes twice doubles it
\* (README.md:24, Fragment.cpp:170-172, DiSketch.cpp:77).
EvenFlowsExact ==
    [][Closes =>
        \A f \in DOMAIN LastMetrics :
            (\A h \in DOMAIN PathOf(f) :
                LET n == PathOf(f)[h]
                IN  /\ Visits(f, n) = Visits(f, PathOf(f)[1])
                    /\ \A i \in 0 .. frags[n].subepoch_count - 1 :
                          CountAt(f, n, i) = CountAt(f, n, 0))
            => LastMetrics[f].disketch
                  = Visits(f, PathOf(f)[1]) * CountIn(epoch, f)
      ]_vars

\* run classifies with a fractional threshold and code of its own; the result
\* is that of HeavyHitterDetector::detect with the threshold rounded up
\* (DiSketch.cpp:113-168, HeavyHitterDetector.cpp:9-37).
ClassifiedAsDetected ==
    [][Closes =>
        LET e == report'[Len(report')]
            counts == [f \in FlowsIn(epoch) |-> CountIn(epoch, f)]
            answers == [f \in FlowsIn(epoch) |-> Full!Query(full, f)]
            threshold == -((-(e.total_packets * RatioNum)) \div RatioDen)
        IN  config.has_memory =>
                e.full_sketch_detector = detect(counts, answers, threshold)
      ]_vars

\* The summary gives the number of subepochs each fragment had in the epoch
\* (the comments at Epoch.h:53 and DiSketch.cpp:105).
SubepochCountsReported ==
    [][Closes =>
        \A n \in Nodes :
            report'[Len(report')].fragment_subepoch_counts[n]
                = frags[n].subepoch_count
      ]_vars

\* How far the run has come, in packets, epochs and on the way through an
\* epoch.
Distance ==
    packet_index + 2 * epoch + (CASE pc = "start" -> 0 [] pc = "epoch" -> 1
                                  [] pc = "packets" -> 2 [] pc = "done" -> 3)

\* Every step gets the run nearer to its end: packet_index and epoch are
\* advanced by different loops, none of which may turn without one of them.
\* As both are bounded and only the last state is without a step, the run
\* ends (DiSketch.cpp:44-97).
RunAdvances == [][Distance' > Distance]_vars

=============================================================================
