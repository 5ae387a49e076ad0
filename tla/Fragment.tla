------------------------------ MODULE Fragment ------------------------------
(***************************************************************************)
(* class Fragment (include/Fragment.h, src/Fragment.cpp): one switch of    *)
(* the network, which spends each epoch on one sketch that it empties at   *)
(* the end of every subepoch.                                              *)
(*                                                                         *)
(* Every method is an operator on the record s of the object's fields and  *)
(* on cfg, the constructor's arguments (index, setting, epoch duration).   *)
(* FragmentEpochs drives one fragment; DiSketch drives all of them.        *)
(*                                                                         *)
(* A hash_seed is abstracted to what should_track does with it: it is the  *)
(* function that gives, for each flow, the number that is reduced modulo   *)
(* the number of subepochs.  Doubles are replaced by integers:             *)
(*   current_rho   is width * rho for CountMin (a sum of counters) and     *)
(*                 width * rho^2 for CountSketch (a sum of squares);       *)
(*   rho_estimate  and rho_target are in units of 1/(RhoScale * width)     *)
(*                 for CountMin, 1/(RhoScale * sqrt(width)) for            *)
(*                 CountSketch, rounded down.                              *)
(***************************************************************************)
EXTENDS Sketch, Integers, Sequences, FiniteSets

LOCAL INSTANCE SequencesExt

CONSTANTS UintLimit,  \* one more than the largest uint32_t, 2^32
          RhoScale    \* resolution of a stored rho

ASSUME UintLimitAssumption == UintLimit \in Nat \ {0}
ASSUME RhoScaleAssumption == RhoScale \in Nat \ {0}

kMinSubepoch == 1

SketchKinds == {"CountMin", "CountSketch", "UnivMon"}

\* FragmentSetting, with the constructor's other two arguments.
FragmentSettings ==
    [index : Nat, kind : SketchKinds, rho_target : Nat, max_subepoch : Nat,
     initial_subepoch : Nat, boost_single_hop : BOOLEAN,
     epoch_duration : Nat \ {0}]

HashSeeds == [Flows -> Nat]

SubepochRecords ==
    [fragment_index : Nat, epoch_id : Nat, subepoch_id : Nat,
     total_subepochs : Nat, hash_seed : HashSeeds, packet_count : Nat,
     rho_estimate : Nat, snapshot : Sketches]

FragmentStates ==
    [subepoch_count : Nat, subepoch_duration : Nat, epoch_id : Nat,
     epoch_start : Nat, current_subepoch : Nat, packet_counter : Nat,
     current_rho : Nat, hash_seed : HashSeeds, sketch : Sketches,
     emitted_records : Seq(SubepochRecords)]

FragmentEpochReports == [epoch_id : Nat, records : Seq(SubepochRecords)]

\* A default-constructed FragmentEpochReport.
NoReport == [epoch_id |-> 0, records |-> <<>>]

Larger(a, b) == IF a >= b THEN a ELSE b
Smaller(a, b) == IF a <= b THEN a ELSE b

\* Rounded down: the number of positive integers whose square is at most n.
SquareRoot(n) == Cardinality({r \in 1..n : r * r <= n})

-----------------------------------------------------------------------------
(* The constructor and begin_epoch.                                        *)

NewFragment(cfg) ==
    [subepoch_count |-> Larger(kMinSubepoch, cfg.initial_subepoch),
     subepoch_duration |-> 0, epoch_id |-> 0, epoch_start |-> 0,
     current_subepoch |-> 0, packet_counter |-> 0, current_rho |-> 0,
     hash_seed |-> [f \in Flows |-> 0], sketch |-> EmptySketch,
     emitted_records |-> <<>>]

\* Mutant: the subepoch's duration is rounded up.
BeginEpochRoundingUp(cfg, s, epoch_id, epoch_start, seed) ==
    [subepoch_count |-> s.subepoch_count,
     subepoch_duration |->
        (cfg.epoch_duration + s.subepoch_count - 1) \div s.subepoch_count,
     epoch_id |-> epoch_id, epoch_start |-> epoch_start,
     current_subepoch |-> 0, packet_counter |-> 0, current_rho |-> 0,
     hash_seed |-> seed, sketch |-> EmptySketch, emitted_records |-> <<>>]

\* Defined for subepoch_count # 0 only: the code divides by it.
BeginEpoch(cfg, s, epoch_id, epoch_start, seed) ==
    [subepoch_count |-> s.subepoch_count,
     subepoch_duration |-> Larger(1, cfg.epoch_duration \div s.subepoch_count),
     epoch_id |-> epoch_id, epoch_start |-> epoch_start,
     current_subepoch |-> 0, packet_counter |-> 0, current_rho |-> 0,
     hash_seed |-> seed, sketch |-> EmptySketch, emitted_records |-> <<>>]

-----------------------------------------------------------------------------
(* Sampling.                                                               *)

ShouldTrack(f, seed, i, total, single_hop, boost) ==
    LET assigned == seed[f] % total
        second == (assigned + total \div 2) % Larger(1, total)
    IN  \/ i = assigned
        \/ boost /\ single_hop /\ total >= 2 /\ i = second

\* The subepochs in which a flow is sampled.
Windows(f, seed, total, single_hop, boost) ==
    {i \in 0 .. total - 1 : ShouldTrack(f, seed, i, total, single_hop, boost)}

\* Mutant: the subtraction the wrong way round.
UpdateSketchAndRhoSwapped(cfg, s, f) ==
    LET sk == Update(s.sketch, f)
    IN  [s EXCEPT !.sketch = sk,
                  !.current_rho = @ + Query(s.sketch, f) - Query(sk, f)]

\* Mutant: the new answer is added, the old one not taken off.
UpdateSketchAndRhoKeepingOld(cfg, s, f) ==
    LET sk == Update(s.sketch, f)
        new == Query(sk, f)
    IN  [s EXCEPT !.sketch = sk,
                  !.current_rho =
                     @ + IF cfg.kind = "CountMin" THEN new ELSE new * new]

UpdateSketchAndRho(cfg, s, f) ==
    LET sk == Update(s.sketch, f)
        old == Query(s.sketch, f)
        new == Query(sk, f)
        gain == CASE cfg.kind = "CountMin" -> new - old
                  [] cfg.kind = "CountSketch" -> new * new - old * old
                  [] cfg.kind = "UnivMon" -> 0
    IN  [s EXCEPT !.sketch = sk, !.current_rho = @ + gain]

RhoEstimate(cfg, rho) ==
    CASE cfg.kind = "CountMin" -> RhoScale * rho
      [] cfg.kind = "CountSketch" -> SquareRoot(RhoScale * RhoScale * rho)
      [] cfg.kind = "UnivMon" -> 0

-----------------------------------------------------------------------------
(* Subepochs end only when a later packet, or close_epoch, notices it.     *)

FlushCurrent(cfg, s) ==
    IF s.packet_counter = 0
    THEN s
    ELSE [s EXCEPT
            !.emitted_records = Append(@,
                [fragment_index |-> cfg.index, epoch_id |-> s.epoch_id,
                 subepoch_id |-> s.current_subepoch,
                 total_subepochs |-> s.subepoch_count,
                 hash_seed |-> s.hash_seed, packet_count |-> s.packet_counter,
                 rho_estimate |-> RhoEstimate(cfg, s.current_rho),
                 snapshot |-> s.sketch]),
            !.sketch = EmptySketch,
            !.current_rho = 0]

\* Mutant: the subepoch advances before the flush.
FlushUntilAdvancingFirst(cfg, s, target) ==
    IF s.current_subepoch < target
    THEN [FlushCurrent(cfg, [s EXCEPT !.current_subepoch = target])
             EXCEPT !.packet_counter = 0]
    ELSE s

\* The loop's first round flushes; the others find packet_counter = 0 and
\* only advance current_subepoch.
FlushUntil(cfg, s, target) ==
    IF s.current_subepoch < target
    THEN [FlushCurrent(cfg, s) EXCEPT !.current_subepoch = target,
                                      !.packet_counter = 0]
    ELSE s

\* Mutant: a time counts for the subepoch whose start is nearest.
SubepochIndexNearest(s, t) ==
    Smaller((t - s.epoch_start + s.subepoch_duration \div 2)
                \div s.subepoch_duration,
            s.subepoch_count - 1)

SubepochIndex(s, t) ==
    Smaller((t - s.epoch_start) \div s.subepoch_duration, s.subepoch_count - 1)

\* Mutant: the packet that ends a subepoch is not looked at any further.
ProcessPacketDropping(cfg, s, f, t, single_hop) ==
    LET i == SubepochIndex(s, t)
    IN  IF t < s.epoch_start
        THEN s
        ELSE IF s.current_subepoch < i
        THEN FlushUntil(cfg, s, i)
        ELSE IF ShouldTrack(f, s.hash_seed, i, s.subepoch_count, single_hop,
                            cfg.boost_single_hop)
        THEN [UpdateSketchAndRho(cfg, s, f) EXCEPT !.packet_counter = @ + 1]
        ELSE s

ProcessPacket(cfg, s, f, t, single_hop) ==
    LET i == SubepochIndex(s, t)
        flushed == FlushUntil(cfg, s, i)
    IN  IF t < s.epoch_start
        THEN s
        ELSE IF ShouldTrack(f, s.hash_seed, i, s.subepoch_count, single_hop,
                            cfg.boost_single_hop)
        THEN [UpdateSketchAndRho(cfg, flushed, f) EXCEPT !.packet_counter = @ + 1]
        ELSE flushed

-----------------------------------------------------------------------------
(* close_epoch: the report, and the number of subepochs of the next epoch. *)

RhoSum(records) == FoldLeft(LAMBDA sum, r : sum + r.rho_estimate, 0, records)

\* Mutant: doubling is not capped.
AdjustSubepochUncapped(cfg, s, rho_sum, n) ==
    IF rho_sum > 2 * cfg.rho_target * n /\ s.subepoch_count < cfg.max_subepoch
    THEN [s EXCEPT !.subepoch_count = 2 * @]
    ELSE IF 2 * rho_sum < cfg.rho_target * n
    THEN [s EXCEPT !.subepoch_count = Larger(kMinSubepoch, @ \div 2)]
    ELSE s

\* rho_average = rho_sum / n, and 0 with n = 1 when there are no records.
AdjustSubepoch(cfg, s, rho_sum, n) ==
    LET count == s.subepoch_count
        next == IF cfg.kind = "UnivMon"
                THEN cfg.initial_subepoch
                ELSE IF /\ rho_sum > 2 * cfg.rho_target * n
                        /\ count < cfg.max_subepoch
                THEN Smaller(cfg.max_subepoch, (2 * count) % UintLimit)
                ELSE IF /\ 2 * rho_sum < cfg.rho_target * n
                        /\ count > kMinSubepoch
                THEN Larger(kMinSubepoch, count \div 2)
                ELSE count
    IN  [s EXCEPT !.subepoch_count = next]

FlushAll(cfg, s) == FlushCurrent(cfg, FlushUntil(cfg, s, s.subepoch_count))

\* Mutant: an epoch without records leaves the count alone.
CloseEpochSkippingIdle(cfg, s) ==
    LET flushed == FlushAll(cfg, s)
        records == flushed.emitted_records
    IN  IF records = <<>> THEN flushed
        ELSE AdjustSubepoch(cfg, flushed, RhoSum(records), Len(records))

\* Mutant: rho is averaged over all subepochs, not over the records.
CloseEpochAveragingAll(cfg, s) ==
    LET flushed == FlushAll(cfg, s)
    IN  AdjustSubepoch(cfg, flushed, RhoSum(flushed.emitted_records),
                       s.subepoch_count)

CloseEpoch(cfg, s) ==
    LET flushed == FlushAll(cfg, s)
        records == flushed.emitted_records
    IN  AdjustSubepoch(cfg, flushed, RhoSum(records), Larger(1, Len(records)))

ClosingReport(cfg, s) ==
    [epoch_id |-> s.epoch_id, records |-> FlushAll(cfg, s).emitted_records]

-----------------------------------------------------------------------------
(* temporal_aggregation: the answer of the first record whose subepoch     *)
(* sampled the flow, scaled up to the whole epoch.                         *)

SamplesFlow(f, record, single_hop, boost) ==
    ShouldTrack(f, record.hash_seed, record.subepoch_id,
                record.total_subepochs, single_hop, boost)

\* Mutant: the first record answers, whether it sampled the flow or not.
TemporalAggregationUnfiltered(f, report, single_hop, boost) ==
    IF report.records = <<>> THEN 0
    ELSE Query(report.records[1].snapshot, f) * report.records[1].total_subepochs

\* Mutant: the answer is not scaled up.
TemporalAggregationUnscaled(f, report, single_hop, boost) ==
    LET hits == {k \in DOMAIN report.records :
                    SamplesFlow(f, report.records[k], single_hop, boost)}
        first == report.records[CHOOSE k \in hits : \A j \in hits : k <= j]
    IN  IF hits = {} THEN 0 ELSE Query(first.snapshot, f)

TemporalAggregation(f, report, single_hop, boost) ==
    LET hits == {k \in DOMAIN report.records :
                    SamplesFlow(f, report.records[k], single_hop, boost)}
        first == report.records[CHOOSE k \in hits : \A j \in hits : k <= j]
    IN  IF hits = {} THEN 0
        ELSE Query(first.snapshot, f) * first.total_subepochs

-----------------------------------------------------------------------------
(* The samples of an epoch, whether they are flushed or not.               *)

\* The records of an epoch as a function from subepoch to snapshot.
SnapshotsOf(records) ==
    [i \in {records[k].subepoch_id : k \in DOMAIN records} |->
        records[CHOOSE k \in DOMAIN records :
                    records[k].subepoch_id = i].snapshot]

\* The sample of subepoch i lives in the sketch while i is current, and in a
\* record, if it is not empty, once i is flushed.
SampleOf(s, i) ==
    IF i = s.current_subepoch
    THEN s.sketch
    ELSE IF \E k \in DOMAIN s.emitted_records :
                s.emitted_records[k].subepoch_id = i
    THEN SnapshotsOf(s.emitted_records)[i]
    ELSE EmptySketch

=============================================================================
