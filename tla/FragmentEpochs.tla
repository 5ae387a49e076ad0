--------------------------- MODULE FragmentEpochs ---------------------------
(***************************************************************************)
(* One Fragment driven as DiSketch::run drives it: begin_epoch, then a     *)
(* process_packet for each packet of the epoch in time order, then         *)
(* close_epoch, over and over.  Packets, their flows and times, the epochs *)
(* without packets and the hash seeds are arbitrary.                       *)
(*                                                                         *)
(* The seed of an epoch is (index << 32) | epoch_id, different in every    *)
(* epoch; here each epoch draws any member of Seeds.  epoch_id counts      *)
(* modulo EpochLabels, so that the runs are finite while an epoch's        *)
(* records still differ from those of the epoch before.                    *)
(***************************************************************************)
EXTENDS Fragment, Functions

CONSTANTS Setting,      \* the fragment's settings
          SingleHop,    \* does the path of a flow consist of this fragment?
          Seeds,        \* the hash seeds an epoch may get
          EpochLabels,  \* epoch_id is counted modulo this number
          MaxPackets    \* bound on the packets of one epoch

ASSUME SettingAssumption == Setting \in FragmentSettings
\* The kinds whose answers Query gives (see Sketch).
ASSUME KindAssumption == Setting.kind = "CountMin" \/ NoCollisions
ASSUME SingleHopAssumption == SingleHop \in [Flows -> BOOLEAN]
ASSUME SeedsAssumption == Seeds \subseteq HashSeeds /\ Seeds # {}
ASSUME BoundsAssumption == EpochLabels \in Nat \ {0} /\ MaxPackets \in Nat

VARIABLES phase,    \* "idle" between epochs, "open" within one
          frag,     \* the fields of the Fragment object
          epoch,    \* epoch_id of the current or, when idle, the next epoch
          now,      \* time of the last packet of the epoch
          last,     \* the flow of this packet, in a set that is empty without
                    \* one: no part of the program, it names the packet that
                    \* ImplementsSampling is about
          arrived,  \* the number of packets delivered in the epoch
          report    \* what close_epoch returned for the last epoch

vars == <<phase, frag, epoch, now, last, arrived, report>>

Duration == Setting.epoch_duration
EpochStart == epoch * Duration
Times == EpochStart .. EpochStart + Duration - 1

Init ==
    /\ phase = "idle"
    /\ frag = NewFragment(Setting)
    /\ epoch = 0
    /\ now = 0
    /\ last = {}
    /\ arrived = 0
    /\ report = NoReport

Begin ==
    /\ phase = "idle"
    /\ frag.subepoch_count # 0  \* otherwise the division ends the program
    /\ phase' = "open"
    /\ \E seed \in Seeds :
          frag' = BeginEpoch(Setting, frag, epoch, EpochStart, seed)
    /\ now' = EpochStart
    /\ last' = {}
    /\ arrived' = 0
    /\ report' = NoReport
    /\ UNCHANGED epoch

Packet(f, t) ==
    /\ phase = "open"
    /\ arrived < MaxPackets
    /\ now <= t
    /\ now' = t
    /\ last' = {f}
    /\ arrived' = arrived + 1
    /\ frag' = ProcessPacket(Setting, frag, f, t, SingleHop[f])
    /\ UNCHANGED <<phase, epoch, report>>

Close ==
    /\ phase = "open"
    /\ phase' = "idle"
    /\ frag' = CloseEpoch(Setting, frag)
    /\ report' = ClosingReport(Setting, frag)
    /\ epoch' = (epoch + 1) % EpochLabels
    /\ last' = {}
    /\ UNCHANGED <<now, arrived>>

Next ==
    \/ Begin
    \/ \E f \in Flows, t \in Times : Packet(f, t)
    \/ Close

\* run() goes from epoch to epoch by itself: a begun epoch is closed once its
\* packets, finitely many, are consumed, and the next one is begun.  No
\* packet need ever arrive.
Fairness == WF_vars(Begin) /\ WF_vars(Close)

Spec == Init /\ [][Next]_vars
FairSpec == Spec /\ Fairness

-----------------------------------------------------------------------------
TypeOK ==
    /\ phase \in {"idle", "open"}
    /\ frag \in FragmentStates
    /\ epoch \in 0 .. EpochLabels - 1
    /\ now \in Nat
    /\ last \in SUBSET Flows
    /\ arrived \in 0 .. MaxPackets
    /\ report \in FragmentEpochReports

\* The adaptation of close_epoch never leaves the range between the least
\* number of subepochs (Fragment.h:11) and the configured ceiling
\* (Fragment.h:20), however epochs follow each other, for ceilings of at
\* most half of UintLimit.
SubepochCountInBounds ==
    /\ kMinSubepoch <= frag.subepoch_count
    /\ frag.subepoch_count <= Larger(kMinSubepoch, Setting.max_subepoch)

\* The lower half of SubepochCountInBounds: the next begin_epoch divides.
SubepochCountAtLeastMin == frag.subepoch_count >= kMinSubepoch

\* Records of one epoch, as temporal_aggregation relies on them: each one
\* names a different subepoch of that epoch, in order, and all carry the
\* same seed and number of subepochs.
Consistent(records) ==
    \A j, k \in DOMAIN records :
        /\ records[k].packet_count > 0
        /\ records[k].subepoch_id < records[k].total_subepochs
        /\ j < k => records[j].subepoch_id < records[k].subepoch_id
        /\ records[j].hash_seed = records[k].hash_seed
        /\ records[j].total_subepochs = records[k].total_subepochs
        /\ records[j].epoch_id = records[k].epoch_id

\* A lazily flushed subepoch is labelled with its own number, and with the
\* epoch, the seed and the number of subepochs under which its packets were
\* sampled, not with those of the time of the flush (Fragment.cpp:104-131).
RecordsLabelled ==
    /\ phase = "open" =>
          \A k \in DOMAIN frag.emitted_records :
              LET r == frag.emitted_records[k]
              IN  /\ r.fragment_index = Setting.index
                  /\ r.epoch_id = epoch
                  /\ r.subepoch_id < frag.current_subepoch
                  /\ r.total_subepochs = frag.subepoch_count
                  /\ r.hash_seed = frag.hash_seed
    /\ Consistent(frag.emitted_records)
    /\ Consistent(report.records)

\* What current_rho claims to be, computed from the counters (the comments
\* at Fragment.cpp:180 and 200): their sum, or the sum of their squares.
BatchRho(sk) ==
    LET row == CHOOSE r \in Rows : TRUE
    IN  CASE Setting.kind = "CountMin" -> SumFunction(sk[row])
          [] Setting.kind = "CountSketch" ->
               SumFunction([c \in Cells |-> sk[row][c] * sk[row][c]])
          [] Setting.kind = "UnivMon" -> 0

\* The incrementally updated rho never drifts from the counters it
\* summarises, in the open subepoch and in every record, across lazy flushes
\* of several subepochs.
RhoTracksCounters ==
    /\ frag.packet_counter > 0 => frag.current_rho = BatchRho(frag.sketch)
    /\ \A k \in DOMAIN frag.emitted_records :
          LET r == frag.emitted_records[k]
          IN  r.rho_estimate = RhoEstimate(Setting, BatchRho(r.snapshot))

\* Every window a flow can be assigned to contains a possible packet time;
\* otherwise the flows of that window are never measured
\* (Fragment.cpp:56-57, 68-69).
EveryWindowReachable ==
    phase = "open" =>
        \A i \in 0 .. frag.subepoch_count - 1 :
            \E t \in Times : SubepochIndex(frag, t) = i

\* A packet that was counted in a window of its flow is not lost by the
\* temporal aggregation: the flow's estimate is then positive
\* (README.md:148 and the comment at Fragment.cpp:144 on sampling
\* single-hop flows in two subepochs).
SampledFlowSeen ==
    \A f \in Flows :
        (\E k \in DOMAIN report.records :
            LET r == report.records[k]
            IN  /\ SamplesFlow(f, r, SingleHop[f], Setting.boost_single_hop)
                /\ Query(r.snapshot, f) > 0)
        => TemporalAggregation(f, report, SingleHop[f],
                               Setting.boost_single_hop) > 0

\* When traffic ceases for good, the fragment gives up its subepochs: idle
\* epochs have rho 0 and halve the count down to the least one
\* (Fragment.cpp:91-95, 232-235).
IdleShrinks ==
    <>[](arrived = 0) => <>[](frag.subepoch_count = kMinSubepoch)

\* The last epoch's average rho exceeded twice the target.
Overloaded(r) ==
    RhoSum(r.records) > 2 * Setting.rho_target * Larger(1, Len(r.records))

\* Under lasting overload the number of subepochs reaches the configured
\* ceiling and stays there, whatever the initial number: doubling neither
\* stops short of it nor oscillates (Fragment.cpp:229-231).
OverloadReachesMax ==
    <>[](phase = "idle" => Overloaded(report))
        => <>[](frag.subepoch_count = Setting.max_subepoch)

-----------------------------------------------------------------------------
(* The abstract specification the fragment implements.                     *)

WindowsOf(s, f) ==
    Windows(f, s.hash_seed, s.subepoch_count, SingleHop[f],
            Setting.boost_single_hop)

Sampling == INSTANCE SubepochSampling WITH
    MaxSlots <- Larger(kMinSubepoch, Setting.max_subepoch),
    Length <- Duration,
    slots <- frag.subepoch_count,
    windows <- IF phase = "open" THEN [f \in Flows |-> WindowsOf(frag, f)]
                                 ELSE [f \in Flows |-> {}],
    samples <- IF phase = "open"
               THEN [i \in 0 .. frag.subepoch_count - 1 |-> SampleOf(frag, i)]
               ELSE <<>>,
    report <- SnapshotsOf(report.records),
    clock <- IF phase = "open" THEN now - EpochStart ELSE 0

\* However late a subepoch is flushed, and however many are skipped, every
\* packet that arrives is counted in the subepoch of its time if its flow is
\* sampled there, and in no other, and is not counted at all if it is not;
\* the report holds just these samples (Fragment.cpp:60-131).  No packet is
\* hidden from the abstract specification, where each arrival is a step with
\* its flow and its time.
ImplementsSampling == Sampling!Spec

=============================================================================
