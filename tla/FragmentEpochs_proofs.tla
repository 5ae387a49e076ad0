------------------------ MODULE FragmentEpochs_proofs ------------------------
(***************************************************************************)
(* Proofs about one fragment over all its epochs, for every setting the    *)
(* configuration parser can produce with a positive initial_subepoch, all  *)
(* seeds, flows, sketch sizes and packet times.                            *)
(***************************************************************************)
EXTENDS FragmentEpochs, Fragment_proofs

\* While an epoch is open, the clock is never behind the current subepoch.
OpenInv ==
    /\ frag.subepoch_duration >= 1
    /\ frag.subepoch_duration = Larger(1, Duration \div frag.subepoch_count)
    /\ frag.epoch_start = EpochStart
    /\ frag.epoch_id = epoch
    /\ now >= EpochStart
    /\ frag.current_subepoch <= SubepochIndex(frag, now)
    /\ Orderly(Setting, frag)

\* The records outlive their epoch in the report.
ClosedInv ==
    /\ Consistent(report.records)
    /\ Consistent(frag.emitted_records)

IInv ==
    /\ TypeOK
    /\ frag.subepoch_count \in kMinSubepoch .. Setting.max_subepoch
    /\ phase = "open" => OpenInv
    /\ ClosedInv

\* Epochs start at natural times.
LEMMA EpochStartType == TypeOK => EpochStart \in Nat /\ Duration \in Nat \ {0}
<1> SUFFICES ASSUME TypeOK PROVE EpochStart \in Nat /\ Duration \in Nat \ {0}
  OBVIOUS
<1>1. epoch \in Nat
  BY BoundsAssumption DEF TypeOK
<1>2. Duration \in Nat \ {0}
  BY SettingAssumption DEF Duration, FragmentSettings
<1>3. epoch * Duration \in Nat
  BY <1>1, <1>2
<1> QED BY <1>2, <1>3 DEF EpochStart

\* Records in order and with equal labels are what temporal_aggregation
\* takes them for.
LEMMA GoodIsConsistent ==
    ASSUME NEW s \in FragmentStates, NEW records \in Seq(SubepochRecords),
           NEW bound \in Nat, bound <= s.subepoch_count,
           GoodRecords(Setting, s, records, bound)
    PROVE  Consistent(records)
<1>1. s.subepoch_count \in Nat
  BY DEF FragmentStates
<1>2. \A k \in DOMAIN records : records[k].subepoch_id \in Nat
  BY RecordElements
<1> QED BY <1>1, <1>2 DEF GoodRecords, Consistent

\* An epoch without records is consistent.
LEMMA NothingConsistent == Consistent(<<>>)
BY DEF Consistent

\* The report of a run that has closed no epoch yet is a report.
LEMMA NoReportType == NoReport \in FragmentEpochReports
<1>1. <<>> \in Seq(SubepochRecords)
  OBVIOUS
<1> QED BY <1>1 DEF NoReport, FragmentEpochReports

\* The invariant holds of a newly constructed fragment.
LEMMA InitIInv == SoundSetting(Setting) /\ Init => IInv
<1> SUFFICES ASSUME SoundSetting(Setting), Init PROVE IInv
  OBVIOUS
<1>1. /\ frag \in FragmentStates
      /\ frag.subepoch_count >= kMinSubepoch
  BY NewFragmentType, SettingAssumption DEF Init
<1>2. TypeOK
  BY <1>1, NoReportType, BoundsAssumption DEF Init, TypeOK
<1>3. frag.subepoch_count \in kMinSubepoch .. Setting.max_subepoch
  <2>1. frag.subepoch_count = Larger(kMinSubepoch, Setting.initial_subepoch)
    BY DEF Init, NewFragment
  <2>2. Setting.initial_subepoch \in Nat /\ Setting.max_subepoch \in Nat
    BY SettingAssumption DEF FragmentSettings
  <2> QED BY <2>1, <2>2 DEF SoundSetting, Larger, kMinSubepoch
<1>4. ClosedInv
  BY NothingConsistent DEF ClosedInv, Init, NoReport, NewFragment
<1> QED BY <1>2, <1>3, <1>4 DEF IInv, Init

\* begin_epoch preserves the invariant: it starts from no records.
LEMMA BeginIInv == IInv /\ Begin => IInv'
<1> SUFFICES ASSUME IInv, Begin PROVE IInv'
  OBVIOUS
<1>1. PICK seed \in Seeds :
          frag' = BeginEpoch(Setting, frag, epoch, EpochStart, seed)
  BY DEF Begin
<1>2. /\ seed \in HashSeeds
      /\ frag \in FragmentStates
      /\ epoch \in Nat
      /\ EpochStart \in Nat
      /\ Setting \in FragmentSettings
  BY SeedsAssumption, SettingAssumption, BoundsAssumption, EpochStartType
     DEF IInv, TypeOK
<1>3. frag' \in FragmentStates /\ frag'.subepoch_duration >= 1
  BY <1>1, <1>2, BeginEpochType DEF Begin
<1>4. /\ frag'.subepoch_count = frag.subepoch_count
      /\ frag'.subepoch_duration = Larger(1, Duration \div frag.subepoch_count)
      /\ frag'.epoch_id = epoch
      /\ frag'.epoch_start = EpochStart
      /\ frag'.current_subepoch = 0
      /\ frag'.packet_counter = 0
      /\ frag'.sketch = EmptySketch
      /\ frag'.emitted_records = <<>>
  BY <1>1 DEF BeginEpoch, Duration
<1>5. /\ phase' = "open"
      /\ epoch' = epoch
      /\ now' = EpochStart
      /\ last' = {}
      /\ arrived' = 0
      /\ report' = NoReport
      /\ EpochStart' = EpochStart
  BY DEF Begin, EpochStart, Duration
<1>6. TypeOK'
  BY <1>2, <1>3, <1>5, NoReportType, BoundsAssumption DEF TypeOK, IInv
<1>7. (frag.subepoch_count \in kMinSubepoch .. Setting.max_subepoch)'
  BY <1>4 DEF IInv
<1>8. Orderly(Setting, frag')
  BY <1>4 DEF Orderly, GoodRecords
<1>9. frag'.current_subepoch <= SubepochIndex(frag', now')
  <2>1. SubepochIndex(frag', EpochStart) \in Nat
    <3>1. /\ frag'.subepoch_count >= 1
          /\ EpochStart >= frag'.epoch_start
      BY <1>2, <1>4 DEF IInv, kMinSubepoch
    <3>2. SubepochIndex(frag', EpochStart) \in 0 .. frag'.subepoch_count - 1
      BY <1>2, <1>3, <3>1, SubepochIndexBounds
    <3> QED BY <3>2
  <2> QED BY <2>1, <1>4, <1>5
<1>10. OpenInv'
  BY <1>2, <1>3, <1>4, <1>5, <1>8, <1>9 DEF OpenInv, Duration
<1>11. ClosedInv'
  BY <1>4, <1>5, NothingConsistent DEF ClosedInv, NoReport
<1> QED BY <1>6, <1>7, <1>10, <1>11 DEF IInv

\* What the invariant says about a packet about to be processed.
LEMMA PacketIndex ==
    ASSUME IInv, phase = "open", NEW t \in Times, now <= t
    PROVE  /\ t \in Nat
           /\ t >= frag.epoch_start
           /\ SubepochIndex(frag, t) \in 0 .. frag.subepoch_count - 1
           /\ frag.current_subepoch <= SubepochIndex(frag, t)
<1>1. /\ EpochStart \in Nat
      /\ Duration \in Nat
      /\ frag \in FragmentStates
      /\ now \in Nat
  BY EpochStartType DEF IInv, TypeOK
<1>2. /\ frag.subepoch_duration >= 1
      /\ frag.epoch_start = EpochStart
      /\ now >= EpochStart
      /\ frag.current_subepoch <= SubepochIndex(frag, now)
      /\ frag.subepoch_count >= 1
  BY DEF IInv, OpenInv, kMinSubepoch
<1>3. t \in Nat /\ t >= frag.epoch_start
  BY <1>1, <1>2 DEF Times
<1>4. /\ SubepochIndex(frag, t) \in 0 .. frag.subepoch_count - 1
      /\ SubepochIndex(frag, now) \in 0 .. frag.subepoch_count - 1
      /\ SubepochIndex(frag, now) <= SubepochIndex(frag, t)
  BY <1>1, <1>2, <1>3, SubepochIndexBounds
<1>5. frag.current_subepoch \in Nat /\ frag.subepoch_count \in Nat
  BY <1>1 DEF FragmentStates
<1> QED BY <1>2, <1>3, <1>4, <1>5

\* process_packet preserves the invariant: a flush on the way appends a record
\* of a subepoch later than all records' and earlier than the packet's.
LEMMA PacketIInv ==
    ASSUME IInv, NEW f \in Flows, NEW t \in Times, Packet(f, t)
    PROVE  IInv'
<1> DEFINE i == SubepochIndex(frag, t)
           q == FlushUntil(Setting, frag, i)
<1>1. /\ frag \in FragmentStates
      /\ Setting \in FragmentSettings
      /\ SingleHop[f] \in BOOLEAN
      /\ Orderly(Setting, frag)
  BY SettingAssumption, SingleHopAssumption DEF IInv, TypeOK, OpenInv, Packet
<1>2. /\ t \in Nat
      /\ t >= frag.epoch_start
      /\ i \in 0 .. frag.subepoch_count - 1
      /\ frag.current_subepoch <= i
  BY PacketIndex DEF Packet
<1>3. i \in Nat
  BY <1>2
<1>4. /\ frag' = ProcessPacket(Setting, frag, f, t, SingleHop[f])
      /\ phase' = phase /\ phase = "open"
      /\ epoch' = epoch /\ report' = report
      /\ now' = t /\ now <= t
      /\ last' = {f}
      /\ arrived' = arrived + 1 /\ arrived < MaxPackets
  BY DEF Packet
<1>5. /\ q.subepoch_count = frag.subepoch_count
      /\ q.subepoch_duration = frag.subepoch_duration
      /\ q.epoch_id = frag.epoch_id
      /\ q.epoch_start = frag.epoch_start
      /\ q.current_subepoch = i
  <2>1. /\ q.subepoch_count = frag.subepoch_count
        /\ q.subepoch_duration = frag.subepoch_duration
        /\ q.epoch_id = frag.epoch_id
        /\ q.epoch_start = frag.epoch_start
        /\ frag.current_subepoch < i => q.current_subepoch = i
        /\ i <= frag.current_subepoch => q = frag
    BY <1>1, <1>3, FlushUntilEffect
  <2>2. frag.current_subepoch \in Nat
    BY <1>1 DEF FragmentStates
  <2> HIDE DEF i, q
  <2>3. frag.current_subepoch < i \/ frag.current_subepoch = i
    BY <1>2, <1>3, <2>2
  <2> QED BY <1>3, <2>1, <2>3
<1>6. /\ frag' \in FragmentStates
      /\ frag'.subepoch_count = frag.subepoch_count
      /\ frag'.subepoch_duration = frag.subepoch_duration
      /\ frag'.epoch_id = frag.epoch_id
      /\ frag'.epoch_start = frag.epoch_start
      /\ frag'.current_subepoch = i
  BY <1>1, <1>2, <1>3, <1>4, <1>5, ProcessPacketEffect
<1>7. Orderly(Setting, frag')
  BY <1>1, <1>2, <1>3, <1>4, ProcessPacketOrderly
<1>8. SubepochIndex(frag', t) = i
  BY <1>6 DEF SubepochIndex
<1> HIDE DEF i, q
<1>9. EpochStart' = EpochStart
  BY <1>4 DEF EpochStart, Duration
<1>10. TypeOK'
  BY <1>2, <1>4, <1>6, BoundsAssumption DEF IInv, TypeOK
<1>11. (frag.subepoch_count \in kMinSubepoch .. Setting.max_subepoch)'
  BY <1>6 DEF IInv
<1>12. OpenInv'
  <2>1. /\ frag'.subepoch_duration >= 1
        /\ frag'.subepoch_duration =
              Larger(1, Duration \div frag'.subepoch_count)
        /\ frag'.epoch_start = EpochStart
        /\ frag'.epoch_id = epoch
        /\ t >= EpochStart
    BY <1>2, <1>4, <1>6 DEF IInv, OpenInv
  <2>2. i <= SubepochIndex(frag', t)
    BY <1>3, <1>8
  <2> QED BY <1>4, <1>6, <1>7, <1>9, <2>1, <2>2 DEF OpenInv, Duration
<1>13. ClosedInv'
  <2>1. frag'.current_subepoch \in Nat /\ frag'.subepoch_count \in Nat
    BY <1>6 DEF FragmentStates
  <2>2. frag'.current_subepoch <= frag'.subepoch_count
    BY <1>2, <1>6, <2>1
  <2>3. frag'.emitted_records \in Seq(SubepochRecords)
    BY <1>6 DEF FragmentStates
  <2>4. GoodRecords(Setting, frag', frag'.emitted_records,
                    frag'.current_subepoch)
    BY <1>7 DEF Orderly
  <2>5. Consistent(frag'.emitted_records)
    BY <1>6, <2>1, <2>2, <2>3, <2>4, GoodIsConsistent
  <2> QED BY <1>4, <2>5 DEF IInv, ClosedInv
<1> QED BY <1>10, <1>11, <1>12, <1>13 DEF IInv

\* While an epoch is open the current subepoch is one of the epoch's.
LEMMA CurrentBelowCount ==
    ASSUME IInv, phase = "open"
    PROVE  frag.current_subepoch < frag.subepoch_count
<1>1. /\ frag \in FragmentStates
      /\ now \in Nat
      /\ now >= frag.epoch_start
      /\ frag.subepoch_duration >= 1
      /\ frag.current_subepoch <= SubepochIndex(frag, now)
      /\ frag.subepoch_count >= 1
  BY DEF IInv, TypeOK, OpenInv, kMinSubepoch
<1>2. frag.subepoch_count \in Nat /\ frag.current_subepoch \in Nat
  BY <1>1 DEF FragmentStates
<1>3. SubepochIndex(frag, now) \in 0 .. frag.subepoch_count - 1
  BY <1>1, <1>2, SubepochIndexBounds
<1> QED BY <1>1, <1>2, <1>3

\* close_epoch preserves the invariant: it flushes the last subepoch, and the
\* adaptation keeps the number of subepochs in bounds.
LEMMA CloseIInv == SoundSetting(Setting) /\ IInv /\ Close => IInv'
<1> SUFFICES ASSUME SoundSetting(Setting), IInv, Close PROVE IInv'
  OBVIOUS
<1> DEFINE recs == FlushCurrent(Setting, frag).emitted_records
<1>1. /\ frag \in FragmentStates
      /\ Setting \in FragmentSettings
      /\ Orderly(Setting, frag)
      /\ frag.subepoch_count \in kMinSubepoch .. Setting.max_subepoch
  BY SettingAssumption DEF IInv, TypeOK, OpenInv, Close
<1>2. /\ frag.subepoch_count \in Nat
      /\ frag.current_subepoch \in Nat
      /\ frag.epoch_id \in Nat
  BY <1>1 DEF FragmentStates
<1>3. frag.current_subepoch < frag.subepoch_count
  BY CurrentBelowCount DEF Close
<1>4. /\ frag' \in FragmentStates
      /\ frag'.subepoch_count \in kMinSubepoch .. Setting.max_subepoch
      /\ frag'.emitted_records = recs
      /\ recs \in Seq(SubepochRecords)
      /\ report' = [epoch_id |-> frag.epoch_id, records |-> recs]
  <2>1. kMinSubepoch <= frag.subepoch_count
    BY <1>1
  <2>2. frag.subepoch_count <= Setting.max_subepoch
    BY <1>1
  <2> QED BY <1>1, <1>3, <2>1, <2>2, CloseEpochEffect DEF Close
<1>5. Consistent(recs)
  <2>1. GoodRecords(Setting, frag, recs, frag.current_subepoch + 1)
    BY <1>1, FlushCurrentRecords
  <2>2. /\ frag.current_subepoch + 1 \in Nat
        /\ frag.current_subepoch + 1 <= frag.subepoch_count
    BY <1>2, <1>3
  <2> HIDE DEF recs
  <2> QED BY <1>1, <1>4, <2>1, <2>2, GoodIsConsistent
<1> HIDE DEF recs
<1>6. epoch' \in 0 .. EpochLabels - 1
  <2>1. epoch + 1 \in Nat
    BY BoundsAssumption DEF IInv, TypeOK
  <2> QED BY <2>1, BoundsAssumption, RemainderBounds DEF Close
<1>7. /\ phase' = "idle"
      /\ now' = now
      /\ last' = {}
      /\ arrived' = arrived
  BY DEF Close
<1>8. report' \in FragmentEpochReports
  BY <1>2, <1>4 DEF FragmentEpochReports
<1>9. TypeOK'
  BY <1>4, <1>6, <1>7, <1>8 DEF IInv, TypeOK
<1>10. ClosedInv'
  BY <1>4, <1>5 DEF ClosedInv
<1> QED BY <1>4, <1>7, <1>9, <1>10 DEF IInv

\* Steps of the environment preserve the invariant.
LEMMA StutterIInv == IInv /\ UNCHANGED vars => IInv'
<1> SUFFICES ASSUME IInv, UNCHANGED vars PROVE IInv'
  OBVIOUS
<1>1. /\ phase' = phase /\ frag' = frag /\ epoch' = epoch
      /\ now' = now /\ last' = last /\ arrived' = arrived /\ report' = report
  BY DEF vars
<1> QED BY <1>1 DEF IInv, TypeOK, OpenInv, ClosedInv, EpochStart, Duration

\* The inductive invariant.
THEOREM Invariance ==
    ASSUME SoundSetting(Setting)
    PROVE  Spec => []IInv
<1>1. Init => IInv
  BY InitIInv
<1>2. IInv /\ [Next]_vars => IInv'
  BY BeginIInv, PacketIInv, CloseIInv, StutterIInv DEF Next
<1> QED BY <1>1, <1>2, PTL DEF Spec

\* The fields of the object and the report keep their types.  In particular
\* the differences at Fragment.cpp:191 and 209 are not negative: for every
\* shape of a CountMin, and for a CountSketch without collisions, as
\* KindAssumption has it.
THEOREM TypeCorrect ==
    ASSUME SoundSetting(Setting)
    PROVE  Spec => []TypeOK
<1>1. IInv => TypeOK
  BY DEF IInv
<1> QED BY <1>1, Invariance, PTL

\* The adaptation stays between one subepoch and the configured maximum
\* (Fragment.cpp:221-237), so begin_epoch never divides by zero.
THEOREM CountInBounds ==
    ASSUME SoundSetting(Setting)
    PROVE  Spec => []SubepochCountInBounds
<1>1. IInv => SubepochCountInBounds
  <2>1. Setting.max_subepoch \in Nat
    BY SettingAssumption DEF FragmentSettings
  <2> QED BY <2>1 DEF IInv, SubepochCountInBounds, Larger, kMinSubepoch
<1> QED BY <1>1, Invariance, PTL

\* Lazily flushed subepochs are labelled with their own number, epoch, seed
\* and number of subepochs (Fragment.cpp:104-131).
THEOREM LabelsCorrect ==
    ASSUME SoundSetting(Setting)
    PROVE  Spec => []RecordsLabelled
<1>1. IInv => RecordsLabelled
  BY DEF IInv, OpenInv, ClosedInv, Orderly, GoodRecords, RecordsLabelled
<1> QED BY <1>1, Invariance, PTL

\* Unless a flow is sampled twice, at most one record of an epoch samples it,
\* so that the first record to do so is the one that counted its packets: no
\* counted packet is lost (Fragment.cpp:133-173).
THEOREM OneSampleIsSeen ==
    ASSUME SoundSetting(Setting),
           \A f \in Flows : ~(Setting.boost_single_hop /\ SingleHop[f])
    PROVE  Spec => []SampledFlowSeen
<1>1. ASSUME TypeOK, RecordsLabelled, NEW f \in Flows,
             NEW j \in DOMAIN report.records,
             SamplesFlow(f, report.records[j], SingleHop[f],
                         Setting.boost_single_hop),
             Query(report.records[j].snapshot, f) > 0
      PROVE  TemporalAggregation(f, report, SingleHop[f],
                                 Setting.boost_single_hop) > 0
  <2> DEFINE Hit(k) == SamplesFlow(f, report.records[k], SingleHop[f],
                                   Setting.boost_single_hop)
             hits == {k \in DOMAIN report.records : Hit(k)}
             first == CHOOSE k \in hits : \A i \in hits : k <= i
  <2>1. /\ report.records \in Seq(SubepochRecords)
        /\ DOMAIN report.records \subseteq Nat
        /\ Consistent(report.records)
    BY <1>1 DEF TypeOK, FragmentEpochReports, RecordsLabelled
  <2>2. \A k \in hits : k = j
    <3> SUFFICES ASSUME NEW k \in hits PROVE k = j
      OBVIOUS
    <3>1. \A i \in {j, k} :
              report.records[i].subepoch_id
                 = report.records[i].hash_seed[f]
                      % report.records[i].total_subepochs
      BY <1>1 DEF SamplesFlow, ShouldTrack
    <3>2. report.records[k].subepoch_id = report.records[j].subepoch_id
      BY <2>1, <3>1 DEF Consistent
    <3>3. \A i \in {j, k} : report.records[i].subepoch_id \in Nat
      <4>1. \A i \in {j, k} : report.records[i] \in SubepochRecords
        BY <2>1
      <4> QED  BY <4>1 DEF SubepochRecords
    <3>4. ~(j < k) /\ ~(k < j)
      BY <2>1, <3>2, <3>3 DEF Consistent
    <3> QED  BY <2>1, <3>4
  <2>3. hits = {j} /\ first = j
    <3>1. hits = {j}
      BY <1>1, <2>2
    <3>2. j <= j
      BY <2>1
    <3> QED  BY <3>1, <3>2
  <2>4. /\ report.records[j].total_subepochs \in Nat \ {0}
        /\ Query(report.records[j].snapshot, f) \in Nat
    <3>1. report.records[j] \in SubepochRecords
      BY <2>1
    <3>2. /\ report.records[j].total_subepochs \in Nat
          /\ report.records[j].subepoch_id \in Nat
          /\ report.records[j].snapshot \in Sketches
      BY <3>1 DEF SubepochRecords
    <3>3. report.records[j].subepoch_id < report.records[j].total_subepochs
      BY <2>1 DEF Consistent
    <3> QED  BY <3>2, <3>3, QueryIsLeast
  <2>5. TemporalAggregation(f, report, SingleHop[f], Setting.boost_single_hop)
           = Query(report.records[j].snapshot, f)
                * report.records[j].total_subepochs
    BY <2>3 DEF TemporalAggregation
  <2>6. \A a \in Nat, b \in Nat \ {0} : a > 0 => a * b > 0
    OBVIOUS
  <2> QED  BY <1>1, <2>4, <2>5, <2>6
<1>2. TypeOK /\ RecordsLabelled => SampledFlowSeen
  BY <1>1 DEF SampledFlowSeen
<1> QED  BY <1>2, TypeCorrect, LabelsCorrect, PTL

\* When an epoch is at least as long as the largest number of subepochs,
\* in nanoseconds, every subepoch contains a possible packet time, so that
\* no flow is assigned to a window that never comes (Fragment.cpp:56-69).
THEOREM WindowsReachable ==
    ASSUME SoundSetting(Setting), Setting.max_subepoch <= Duration
    PROVE  Spec => []EveryWindowReachable
<1>1. ASSUME IInv, phase = "open", NEW i \in 0 .. frag.subepoch_count - 1
      PROVE  \E t \in Times : SubepochIndex(frag, t) = i
  <2> DEFINE count == frag.subepoch_count
             dur == frag.subepoch_duration
             share == Duration \div count
             t == EpochStart + i * dur
  <2>1. /\ count \in Nat \ {0}
        /\ count <= Duration
        /\ Duration \in Nat \ {0}
        /\ EpochStart \in Nat
        /\ dur \in Nat
        /\ dur >= 1
        /\ dur = Larger(1, share)
        /\ frag.epoch_start = EpochStart
    <3>1. frag.subepoch_count \in Nat /\ frag.subepoch_duration \in Nat
      BY <1>1 DEF IInv, TypeOK, FragmentStates
    <3>2. Setting.max_subepoch \in Nat
      BY SettingAssumption DEF FragmentSettings
    <3>3. Duration \in Nat \ {0} /\ EpochStart \in Nat
      BY <1>1, EpochStartType DEF IInv
    <3> QED BY <1>1, <3>1, <3>2, <3>3 DEF IInv, OpenInv, kMinSubepoch
  <2>2. share \in Nat /\ share * count <= Duration /\ share >= 1
    <3> HIDE DEF count, share
    <3>1. /\ share \in Nat
          /\ share * count <= Duration
          /\ Duration < share * count + count
      BY <2>1, DivisionBounds DEF share
    <3>2. share # 0
      BY <2>1, <3>1
    <3> QED BY <3>1, <3>2
  <2>3. dur = share
    BY <2>1, <2>2 DEF Larger
  <2> HIDE DEF share, dur, count
  <2>4. i \in Nat /\ i * dur \in Nat /\ i < count
    BY <2>1 DEF count
  <2>5. i * dur + dur <= Duration
    <3>1. count * dur >= i * dur + dur
      BY <2>1, <2>4, MultiplesApart
    <3>2. count * dur = share * count
      BY <2>1, <2>2, <2>3
    <3>3. count * dur \in Nat /\ share * count \in Nat
      BY <2>1, <2>2
    <3> QED BY <2>1, <2>2, <2>4, <3>1, <3>2, <3>3
  <2>6. t \in Times
    BY <2>1, <2>4, <2>5 DEF Times
  <2>7. t - EpochStart = i * dur
    BY <2>1, <2>4
  <2>8. (i * dur) \div dur = i
    BY <2>1, <2>4, DivisionUnique
  <2>9. SubepochIndex(frag, t) = Smaller(i, count - 1)
    BY <2>1, <2>7, <2>8 DEF SubepochIndex, dur, count
  <2>10. Smaller(i, count - 1) = i
    BY <2>1, <2>4 DEF Smaller
  <2> QED BY <2>6, <2>9, <2>10
<1>2. IInv => EveryWindowReachable
  BY <1>1 DEF EveryWindowReachable
<1> QED BY <1>2, Invariance, PTL

-----------------------------------------------------------------------------
(* The fragment implements SubepochSampling.                               *)

\* No records stand for no samples.
LEMMA NoSnapshots == SnapshotsOf(<<>>) = <<>>
BY DEF SnapshotsOf

\* A newly constructed fragment maps to an initial state of the sampling.
LEMMA InitRefines == SoundSetting(Setting) /\ Init => Sampling!Init
<1> SUFFICES ASSUME SoundSetting(Setting), Init PROVE Sampling!Init
  OBVIOUS
<1>1. frag.subepoch_count \in kMinSubepoch .. Setting.max_subepoch
  BY InitIInv DEF IInv
<1>2. frag.subepoch_count \in 1 .. Larger(kMinSubepoch, Setting.max_subepoch)
  <2>1. Setting.max_subepoch \in Nat
    BY SettingAssumption DEF FragmentSettings
  <2> QED BY <1>1, <2>1 DEF Larger, kMinSubepoch
<1> QED BY <1>2, NoSnapshots
        DEF Init, Sampling!Init, Sampling!NoWindows, NoReport

\* A flow's windows are one or two of the epoch's subepochs.
LEMMA WindowsAssigned ==
    ASSUME NEW s \in FragmentStates, s.subepoch_count >= 1, NEW f \in Flows
    PROVE  WindowsOf(s, f) \in {{a, b} : a \in 0 .. s.subepoch_count - 1,
                                         b \in 0 .. s.subepoch_count - 1}
<1>1. /\ s.hash_seed \in HashSeeds
      /\ s.subepoch_count \in Nat \ {0}
      /\ SingleHop[f] \in BOOLEAN
      /\ Setting.boost_single_hop \in BOOLEAN
  BY SingleHopAssumption, SettingAssumption
     DEF FragmentStates, FragmentSettings
<1>2. PICK a \in 0 .. s.subepoch_count - 1,
           b \in 0 .. s.subepoch_count - 1 : WindowsOf(s, f) = {a, b}
  BY <1>1, WindowsOfFlow DEF WindowsOf
<1> QED BY <1>2

\* begin_epoch maps to Begin: the windows of every flow are one or two slots,
\* and all samples are empty.
LEMMA BeginRefines == IInv /\ IInv' /\ Begin => Sampling!Begin
<1> SUFFICES ASSUME IInv, IInv', Begin PROVE Sampling!Begin
  OBVIOUS
<1>1. PICK seed \in Seeds :
          frag' = BeginEpoch(Setting, frag, epoch, EpochStart, seed)
  BY DEF Begin
<1>2. /\ phase = "idle" /\ phase' = "open" /\ report' = NoReport
      /\ last' = {} /\ arrived' = 0
      /\ frag'.subepoch_count = frag.subepoch_count
      /\ frag'.current_subepoch = 0
      /\ frag'.sketch = EmptySketch
      /\ frag'.emitted_records = <<>>
  BY <1>1 DEF Begin, BeginEpoch
<1>3. /\ frag' \in FragmentStates
      /\ frag'.subepoch_count >= 1
  <2>1. frag'.subepoch_count \in kMinSubepoch .. Setting.max_subepoch
    BY DEF IInv
  <2>2. Setting.max_subepoch \in Nat
    BY SettingAssumption DEF FragmentSettings
  <2> QED BY <2>1, <2>2 DEF IInv, TypeOK, kMinSubepoch
<1>4. [f \in Flows |-> WindowsOf(frag', f)]
          \in [Flows -> {{a, b} : a \in 0 .. frag.subepoch_count - 1,
                                  b \in 0 .. frag.subepoch_count - 1}]
  BY <1>2, <1>3, WindowsAssigned
<1>5. \A i : SampleOf(frag', i) = EmptySketch
  BY <1>2 DEF SampleOf
<1>6. [i \in 0 .. frag'.subepoch_count - 1 |-> SampleOf(frag', i)] =
          [i \in 0 .. frag.subepoch_count - 1 |-> EmptySketch]
  BY <1>2, <1>5
<1>7. SnapshotsOf(report'.records) = <<>>
  BY <1>2, NoSnapshots DEF NoReport
<1>8. now' - EpochStart' = 0
  <2>1. now' = EpochStart /\ EpochStart' = EpochStart
    BY DEF Begin, EpochStart, Duration
  <2>2. EpochStart \in Nat
    BY EpochStartType DEF IInv
  <2> QED BY <2>1, <2>2
<1> QED BY <1>2, <1>4, <1>6, <1>7, <1>8
        DEF Sampling!Begin, Sampling!Assignments, Sampling!Slots,
            Sampling!EmptySketch, EmptySketch

\* The slot of a time, by its bounds, is the number that process_packet
\* computes by division.
LEMMA SlotOfTime ==
    ASSUME IInv, phase = "open", NEW t \in Times, now <= t
    PROVE  \A j \in Sampling!Slots :
              Sampling!InSlot(t - EpochStart, j) <=> j = SubepochIndex(frag, t)
<1> DEFINE count == frag.subepoch_count
           dur == frag.subepoch_duration
           share == Duration \div count
           offset == t - EpochStart
           q == offset \div dur
<1>1. /\ count \in Nat \ {0}
      /\ dur \in Nat \ {0}
      /\ dur = Larger(1, share)
      /\ frag.epoch_start = EpochStart
      /\ Duration \in Nat \ {0}
      /\ offset \in Nat
  <2>1. frag.subepoch_count \in Nat /\ frag.subepoch_duration \in Nat
    BY DEF IInv, TypeOK, FragmentStates
  <2>2. EpochStart \in Nat /\ Duration \in Nat \ {0}
    BY EpochStartType DEF IInv
  <2>3. t - EpochStart \in Nat
    BY <2>2 DEF Times
  <2> QED BY <2>1, <2>2, <2>3 DEF IInv, OpenInv, kMinSubepoch
<1>2. Sampling!SlotLength = dur
  <2>1. CASE count > Duration
    <3>1. share = 0
      BY <1>1, <2>1, DivisionUnique
    <3> QED BY <1>1, <2>1, <3>1 DEF Larger, Sampling!SlotLength
  <2>2. CASE ~(count > Duration)
    <3>1. share \in Nat /\ Duration < share * count + count
      BY <1>1, DivisionBounds
    <3>2. share # 0
      BY <1>1, <2>2, <3>1
    <3> QED BY <1>1, <2>2, <3>1, <3>2 DEF Larger, Sampling!SlotLength
  <2> QED BY <2>1, <2>2
<1>3. SubepochIndex(frag, t) = Smaller(q, count - 1)
  BY <1>1 DEF SubepochIndex
<1> HIDE DEF share, offset, count, dur
<1>4. q \in Nat /\ q * dur <= offset /\ offset < q * dur + dur
  BY <1>1, DivisionBounds
<1> HIDE DEF q
<1> SUFFICES ASSUME NEW j \in 0 .. count - 1
             PROVE  (/\ j * dur <= offset
                     /\ j # count - 1 => offset < (j + 1) * dur)
                        <=> j = Smaller(q, count - 1)
  BY <1>2, <1>3 DEF Sampling!Slots, Sampling!InSlot, count, dur, offset
<1>5. j \in Nat /\ (j + 1) * dur = j * dur + dur /\ j * dur \in Nat
      /\ q * dur \in Nat
  BY <1>1, <1>4
<1>6. CASE j = q
  BY <1>1, <1>4, <1>5, <1>6 DEF Smaller
<1>7. CASE j > q
  <2>1. j * dur >= q * dur + dur
    BY <1>1, <1>4, <1>5, <1>7, MultiplesApart
  <2> QED BY <1>1, <1>4, <1>5, <1>7, <2>1 DEF Smaller
<1>8. CASE j < q
  <2>1. q * dur >= j * dur + dur
    BY <1>1, <1>4, <1>5, <1>8, MultiplesApart
  <2> QED BY <1>1, <1>4, <1>5, <1>8, <2>1 DEF Smaller
<1> QED BY <1>4, <1>5, <1>6, <1>7, <1>8

\* Every packet maps to a packet of the same flow at the same time, which is
\* added to the sample of the subepoch it arrived in if its flow is sampled
\* there, and changes no other sample.
LEMMA PacketRefines ==
    ASSUME IInv, NEW f \in Flows, NEW t \in Times, Packet(f, t)
    PROVE  \E u \in 0 .. Duration - 1 : Sampling!Packet(f, u)
<1> DEFINE i == SubepochIndex(frag, t)
           count == frag.subepoch_count
           u == t - EpochStart
           tracked == ShouldTrack(f, frag.hash_seed, i, count, SingleHop[f],
                                  Setting.boost_single_hop)
<1>1. /\ frag \in FragmentStates
      /\ Setting \in FragmentSettings
      /\ SingleHop[f] \in BOOLEAN
      /\ Orderly(Setting, frag)
      /\ phase = "open" /\ phase' = "open"
      /\ report' = report
      /\ last' = {f}
      /\ arrived' = arrived + 1
      /\ now <= t /\ now' = t
      /\ EpochStart' = EpochStart
      /\ frag' = ProcessPacket(Setting, frag, f, t, SingleHop[f])
  BY SettingAssumption, SingleHopAssumption
     DEF IInv, TypeOK, OpenInv, Packet, EpochStart, Duration
<1>2. /\ t \in Nat
      /\ t >= frag.epoch_start
      /\ i \in 0 .. count - 1
      /\ frag.current_subepoch <= i
  BY PacketIndex DEF Packet
<1>3. /\ i \in Nat
      /\ count \in Nat
      /\ frag.current_subepoch \in Nat
  BY <1>1, <1>2 DEF FragmentStates
<1>4. /\ frag'.subepoch_count = count
      /\ frag'.hash_seed = frag.hash_seed
      /\ \A j \in Nat : SampleOf(frag', j) = IF j = i /\ tracked
                                             THEN Update(SampleOf(frag, j), f)
                                             ELSE SampleOf(frag, j)
  BY <1>1, <1>2, <1>3, PacketSamples
<1>5. [g \in Flows |-> WindowsOf(frag', g)] = [g \in Flows |-> WindowsOf(frag, g)]
  BY <1>4 DEF WindowsOf
<1>6. SnapshotsOf(report'.records) = SnapshotsOf(report.records)
  BY <1>1
<1>7. /\ u \in 0 .. Duration - 1
      /\ now - EpochStart <= u
      /\ now' - EpochStart' = u
  <2>1. EpochStart \in Nat /\ Duration \in Nat /\ now \in Nat
    BY EpochStartType DEF IInv, TypeOK
  <2> QED BY <1>1, <2>1 DEF Times
<1>8. \A j \in 0 .. count - 1 : Sampling!InSlot(u, j) <=> j = i
  BY <1>1, SlotOfTime DEF Sampling!Slots
<1>9. i \in WindowsOf(frag, f) <=> tracked
  BY <1>2 DEF WindowsOf, Windows
<1> DEFINE before == [j \in 0 .. count - 1 |-> SampleOf(frag, j)]
           after == [j \in 0 .. count - 1 |-> SampleOf(frag', j)]
<1>10. after = [j \in 0 .. count - 1 |->
                   IF Sampling!InSlot(u, j) /\ j \in WindowsOf(frag, f)
                   THEN Update(before[j], f)
                   ELSE before[j]]
  <2>1. ASSUME NEW j \in 0 .. count - 1
        PROVE  SampleOf(frag', j) =
                  IF Sampling!InSlot(u, j) /\ j \in WindowsOf(frag, f)
                  THEN Update(SampleOf(frag, j), f)
                  ELSE SampleOf(frag, j)
    <3>1. j \in Nat
      BY <2>1
    <3> HIDE DEF i, tracked, count, u
    <3>2. CASE j = i
      BY <1>4, <1>8, <1>9, <3>1, <3>2
    <3>3. CASE j # i
      BY <1>4, <1>8, <3>1, <3>3
    <3> QED BY <3>2, <3>3
  <2> HIDE DEF i, tracked, count, u
  <2> QED BY <2>1
<1>11. Sampling!Packet(f, u)
  <2>1. [g \in Flows |-> WindowsOf(frag, g)][f] = WindowsOf(frag, f)
    OBVIOUS
  <2>2. after = [j \in Sampling!Slots |->
                    IF /\ Sampling!InSlot(u, j)
                       /\ j \in [g \in Flows |-> WindowsOf(frag, g)][f]
                    THEN Sampling!Update(before[j], f)
                    ELSE before[j]]
    BY <1>10, <2>1 DEF Sampling!Slots, Sampling!Update, Update
  <2>3. after = [j \in 0 .. frag'.subepoch_count - 1 |-> SampleOf(frag', j)]
    BY <1>4
  <2> HIDE DEF u
  <2> QED BY <1>1, <1>4, <1>5, <1>6, <1>7, <2>2, <2>3 DEF Sampling!Packet
<1> QED BY <1>7, <1>11

\* The report is the samples that are not empty.
LEMMA CloseRefines ==
    SoundSetting(Setting) /\ IInv /\ IInv' /\ Close => Sampling!Close
<1> SUFFICES ASSUME SoundSetting(Setting), IInv, IInv', Close
             PROVE  Sampling!Close
  OBVIOUS
<1> DEFINE count == frag.subepoch_count
           recs == FlushCurrent(Setting, frag).emitted_records
           before == [j \in 0 .. count - 1 |-> SampleOf(frag, j)]
           sampled == {j \in 0 .. count - 1 : before[j] # EmptySketch}
<1>1. /\ frag \in FragmentStates
      /\ Setting \in FragmentSettings
      /\ Orderly(Setting, frag)
      /\ phase = "open" /\ phase' = "idle"
      /\ last' = {} /\ arrived' = arrived
      /\ report' = ClosingReport(Setting, frag)
  BY SettingAssumption DEF IInv, TypeOK, OpenInv, Close
<1>2. /\ count \in Nat
      /\ frag.current_subepoch \in Nat
      /\ frag.current_subepoch < count
      /\ kMinSubepoch <= count
      /\ count <= Setting.max_subepoch
  BY CurrentBelowCount, <1>1 DEF IInv, FragmentStates
<1>3. report'.records = recs
  BY <1>1, <1>2, CloseEpochEffect
<1>4. /\ recs \in Seq(SubepochRecords)
      /\ GoodRecords(Setting, frag, recs, frag.current_subepoch + 1)
      /\ \A k \in DOMAIN recs :
            recs[k].snapshot = SampleOf(frag, recs[k].subepoch_id)
      /\ \A i \in Nat : SampleOf(frag, i) # EmptySketch
            => \E k \in DOMAIN recs : recs[k].subepoch_id = i
  BY <1>1, FlushedSamples
<1> HIDE DEF recs
<1>5. /\ DOMAIN SnapshotsOf(recs) =
            {recs[k].subepoch_id : k \in DOMAIN recs}
      /\ \A k \in DOMAIN recs :
            SnapshotsOf(recs)[recs[k].subepoch_id] = recs[k].snapshot
  BY <1>4, SnapshotOfRecord
<1>6. ASSUME NEW k \in DOMAIN recs
      PROVE  /\ recs[k].subepoch_id \in 0 .. count - 1
             /\ SampleOf(frag, recs[k].subepoch_id) # EmptySketch
  <2>1. recs[k].subepoch_id \in Nat
    BY <1>4, RecordElements
  <2>2. /\ recs[k].subepoch_id < frag.current_subepoch + 1
        /\ recs[k].snapshot # EmptySketch
    BY <1>4 DEF GoodRecords
  <2> HIDE DEF count
  <2> QED BY <1>2, <1>4, <2>1, <2>2
<1>7. {recs[k].subepoch_id : k \in DOMAIN recs} = sampled
  <2>1. ASSUME NEW j \in sampled
        PROVE  \E k \in DOMAIN recs : recs[k].subepoch_id = j
    BY <1>4
  <2>2. ASSUME NEW k \in DOMAIN recs
        PROVE  recs[k].subepoch_id \in sampled
    BY <1>6
  <2> HIDE DEF sampled
  <2> QED BY <2>1, <2>2
<1>8. SnapshotsOf(recs) = [i \in sampled |-> before[i]]
  <2>1. ASSUME NEW i \in sampled PROVE SnapshotsOf(recs)[i] = before[i]
    <3>1. PICK k \in DOMAIN recs : recs[k].subepoch_id = i
      BY <1>7
    <3>2. SnapshotsOf(recs)[i] = SampleOf(frag, i)
      BY <1>4, <1>5, <3>1
    <3> QED BY <3>2
  <2>2. SnapshotsOf(recs) = [i \in DOMAIN SnapshotsOf(recs) |->
                                SnapshotsOf(recs)[i]]
    BY DEF SnapshotsOf
  <2> HIDE DEF sampled, before
  <2> QED BY <1>5, <1>7, <2>1, <2>2
<1>9. frag'.subepoch_count \in 1 .. Larger(kMinSubepoch, Setting.max_subepoch)
  <2>1. frag'.subepoch_count \in kMinSubepoch .. Setting.max_subepoch
    BY DEF IInv
  <2>2. Setting.max_subepoch \in Nat
    BY <1>1 DEF FragmentSettings
  <2> QED BY <2>1, <2>2 DEF Larger, kMinSubepoch
<1> QED BY <1>1, <1>3, <1>8, <1>9
        DEF Sampling!Close, Sampling!Slots, Sampling!NoWindows,
            Sampling!EmptySketch, EmptySketch

\* A fragment implements the sampling it promises: however late subepochs
\* are flushed and however many are skipped, each packet that arrives is
\* counted, once, in the subepoch of its time if its flow is sampled there,
\* and nowhere if it is not, and is reported there (Fragment.cpp:60-131).
THEOREM FragmentImplementsSampling ==
    ASSUME SoundSetting(Setting)
    PROVE  Spec => ImplementsSampling
<1>1. Init => Sampling!Init
  BY InitRefines
<1>2. IInv /\ IInv' /\ [Next]_vars => [Sampling!Next]_Sampling!vars
  <2> SUFFICES ASSUME IInv, IInv', [Next]_vars
               PROVE  [Sampling!Next]_Sampling!vars
    OBVIOUS
  <2>1. CASE Begin
    BY <2>1, BeginRefines DEF Sampling!Next
  <2>2. ASSUME NEW f \in Flows, NEW t \in Times, Packet(f, t)
        PROVE  [Sampling!Next]_Sampling!vars
    BY <2>2, PacketRefines DEF Sampling!Next
  <2>3. CASE Close
    BY <2>3, CloseRefines DEF Sampling!Next
  <2>4. CASE UNCHANGED vars
    BY <2>4 DEF vars, Sampling!vars, EpochStart, Duration
  <2> QED BY <2>1, <2>2, <2>3, <2>4 DEF Next
<1> QED BY <1>1, <1>2, Invariance, PTL
        DEF Spec, ImplementsSampling, Sampling!Spec

-----------------------------------------------------------------------------
(* The incrementally updated rho.                                          *)

\* A row of counters can be added up.
FiniteCells == IsFiniteSet(Cells)

\* Without collisions, all rows count the same packets of a flow.
RowsAgree(sk) ==
    Setting.kind = "CountSketch" =>
        \A f \in Flows : \A r, q \in Rows : sk[r][Cell[r][f]] = sk[q][Cell[q][f]]

\* rho is that of the counters, and so is that of every record.
RhoTracked(s) ==
    /\ s.current_rho = BatchRho(s.sketch)
    /\ RowsAgree(s.sketch)
    /\ \A k \in DOMAIN s.emitted_records :
          LET r == s.emitted_records[k]
          IN  r.rho_estimate = RhoEstimate(Setting, BatchRho(r.snapshot))

\* The row that BatchRho sums.
SummedRow == CHOOSE r \in Rows : TRUE

\* An empty sketch has rho 0.
LEMMA EmptyRho ==
    ASSUME FiniteCells
    PROVE  BatchRho(EmptySketch) = 0 /\ RowsAgree(EmptySketch)
<1> DEFINE zeros == [c \in Cells |-> 0]
<1>1. SummedRow \in Rows
  BY RowsAssumption DEF SummedRow
<1>2. EmptySketch[SummedRow] = zeros
  BY <1>1 DEF EmptySketch
<1>3. SumFunctionOnSet(zeros, Cells) = 0
  BY SumOfZeros DEF FiniteCells
<1>4. SumFunction(EmptySketch[SummedRow]) = 0
  BY <1>2, <1>3 DEF SumFunction
<1>5. SumFunction([c \in Cells |-> EmptySketch[SummedRow][c]
                                      * EmptySketch[SummedRow][c]]) = 0
  <2>1. [c \in Cells |-> EmptySketch[SummedRow][c] * EmptySketch[SummedRow][c]]
          = zeros
    BY <1>2
  <2>2. SumFunction(zeros) = 0
    BY <1>3 DEF SumFunction
  <2> QED BY <2>1, <2>2, Zenon
<1>6. Setting.kind \in SketchKinds
  BY SettingAssumption DEF FragmentSettings
<1>7. BatchRho(EmptySketch) = 0
  BY <1>4, <1>5, <1>6 DEF BatchRho, SummedRow, SketchKinds
<1>8. RowsAgree(EmptySketch)
  BY CellAssumption DEF RowsAgree, EmptySketch
<1> QED BY <1>7, <1>8

\* A packet changes one counter of the row by one.
LEMMA RowUpdate ==
    ASSUME NEW sk \in Sketches, NEW f \in Flows, NEW r \in Rows
    PROVE  /\ Update(sk, f)[r] \in [Cells -> Nat]
           /\ sk[r] \in [Cells -> Nat]
           /\ Cell[r][f] \in Cells
           /\ Update(sk, f)[r][Cell[r][f]] = sk[r][Cell[r][f]] + 1
           /\ \A c \in Cells : c # Cell[r][f] => Update(sk, f)[r][c] = sk[r][c]
BY CellAssumption DEF Update, Sketches

\* Counting a packet keeps the rows in agreement.
LEMMA UpdateAgrees ==
    ASSUME FiniteCells, NEW sk \in Sketches, NEW f \in Flows, RowsAgree(sk)
    PROVE  RowsAgree(Update(sk, f))
<1> SUFFICES ASSUME Setting.kind = "CountSketch", NEW g \in Flows,
                    NEW r \in Rows, NEW q \in Rows
             PROVE  Update(sk, f)[r][Cell[r][g]] = Update(sk, f)[q][Cell[q][g]]
  BY DEF RowsAgree
<1>1. sk[r][Cell[r][g]] = sk[q][Cell[q][g]] /\ sk[r][Cell[r][f]] = sk[q][Cell[q][f]]
  BY DEF RowsAgree
<1>2. CASE g = f
  BY <1>1, <1>2, RowUpdate
<1>3. CASE g # f
  <2>1. Cell[r][g] # Cell[r][f] /\ Cell[q][g] # Cell[q][f]
    BY <1>3, KindAssumption DEF NoCollisions
  <2>2. Cell[r][g] \in Cells /\ Cell[q][g] \in Cells
    BY RowUpdate
  <2> QED BY <1>1, <2>1, <2>2, RowUpdate
<1> QED BY <1>2, <1>3

\* What the counters say of a packet is what update_sketch_and_rho adds.
LEMMA UpdateBatchRho ==
    ASSUME FiniteCells, NEW sk \in Sketches, NEW f \in Flows, RowsAgree(sk)
    PROVE  BatchRho(Update(sk, f)) = BatchRho(sk) + RhoGain(Setting, sk, f)
<1> DEFINE r == SummedRow
           up == Update(sk, f)
           x == Cell[r][f]
           squares == [c \in Cells |-> sk[r][c] * sk[r][c]]
           newSquares == [c \in Cells |-> up[r][c] * up[r][c]]
<1>1. r \in Rows
  BY RowsAssumption DEF SummedRow
<1>2. /\ up[r] \in [Cells -> Nat]
      /\ sk[r] \in [Cells -> Nat]
      /\ x \in Cells
      /\ up[r][x] = sk[r][x] + 1
      /\ \A c \in Cells : c # x => up[r][c] = sk[r][c]
  BY <1>1, RowUpdate
<1>3. IsFiniteSet(Cells)
  BY DEF FiniteCells
<1> HIDE DEF r, up, x
<1>4. CASE Setting.kind = "CountMin"
  <2>1. SumFunctionOnSet(up[r], Cells)
          = SumFunctionOnSet(sk[r], Cells) + up[r][x] - sk[r][x]
    BY <1>2, <1>3, SumChange
  <2>2. SumFunctionOnSet(sk[r], Cells) \in Nat
    BY <1>2, <1>3, SumType
  <2>3. SumFunctionOnSet(up[r], Cells) = SumFunctionOnSet(sk[r], Cells) + 1
    BY <1>2, <2>1, <2>2
  <2>4. SumFunction(up[r]) = SumFunction(sk[r]) + 1
    BY <1>2, <2>3 DEF SumFunction
  <2> QED BY <1>4, <2>4 DEF BatchRho, RhoGain, SummedRow, r, up
<1>5. CASE Setting.kind = "CountSketch"
  <2>1. Query(sk, f) = sk[r][x] /\ sk[r][x] \in Nat
    <3>1. PICK q \in Rows : Query(sk, f) = sk[q][Cell[q][f]]
      BY QueryIsLeast
    <3>2. sk[q][Cell[q][f]] = sk[r][x]
      BY <1>1, <1>5 DEF RowsAgree, x
    <3> QED BY <1>2, <3>1, <3>2
  <2>2. \A c \in Cells : squares[c] \in Nat /\ newSquares[c] \in Nat
    BY <1>2
  <2>3. \A c \in Cells : c # x => squares[c] = newSquares[c]
    BY <1>2
  <2>4. newSquares[x] = squares[x] + 2 * Query(sk, f) + 1 /\ squares[x] \in Nat
    <3>1. newSquares[x] = (sk[r][x] + 1) * (sk[r][x] + 1)
      BY <1>2
    <3>2. squares[x] = sk[r][x] * sk[r][x]
      BY <1>2
    <3> DEFINE v == sk[r][x]
    <3> HIDE DEF v
    <3>3. v \in Nat => (v + 1) * (v + 1) = v * v + 2 * v + 1
      OBVIOUS
    <3> QED BY <1>2, <2>1, <2>2, <3>1, <3>2, <3>3 DEF v
  <2>5. SumFunctionOnSet(newSquares, Cells)
          = SumFunctionOnSet(squares, Cells) + newSquares[x] - squares[x]
    <3> HIDE DEF squares, newSquares
    <3> QED BY <1>2, <1>3, <2>2, <2>3, SumChange
  <2>6. SumFunctionOnSet(squares, Cells) \in Nat
    <3> HIDE DEF squares, newSquares
    <3> QED BY <1>3, <2>2, SumType
  <2>7. 2 * Query(sk, f) + 1 \in Nat
    BY <2>1
  <2>8. SumFunctionOnSet(newSquares, Cells)
          = SumFunctionOnSet(squares, Cells) + (2 * Query(sk, f) + 1)
    <3> DEFINE old == SumFunctionOnSet(squares, Cells)
               gain == 2 * Query(sk, f) + 1
               v == squares[x]
    <3>1. v \in Nat /\ newSquares[x] = v + gain
      <4> HIDE DEF squares, newSquares
      <4> QED BY <2>1, <2>4
    <3>2. old \in Nat /\ gain \in Nat
      BY <2>6, <2>7
    <3>3. SumFunctionOnSet(newSquares, Cells) = old + (v + gain) - v
      <4> HIDE DEF squares, newSquares, gain
      <4> QED BY <2>5, <3>1
    <3> HIDE DEF old, gain, v, squares, newSquares
    <3>4. SumFunctionOnSet(newSquares, Cells) = old + gain
      BY <3>1, <3>2, <3>3
    <3> QED BY <3>4 DEF old, gain
  <2>9. SumFunction(newSquares) = SumFunction(squares) + (2 * Query(sk, f) + 1)
    BY <2>8 DEF SumFunction
  <2> QED BY <1>5, <2>9 DEF BatchRho, RhoGain, SummedRow, r, up
<1>6. CASE Setting.kind = "UnivMon"
  BY <1>6 DEF BatchRho, RhoGain
<1>7. Setting.kind \in SketchKinds
  BY SettingAssumption DEF FragmentSettings
<1> QED BY <1>4, <1>5, <1>6, <1>7 DEF SketchKinds, up

\* A flush takes rho of the counters into the record and empties both.
LEMMA FlushTracks ==
    ASSUME FiniteCells, NEW s \in FragmentStates, RhoTracked(s)
    PROVE  RhoTracked(FlushCurrent(Setting, s))
<1> DEFINE r == FlushCurrent(Setting, s)
           new == NewRecord(Setting, s)
           old == s.emitted_records
<1>1. s.packet_counter = 0 => r = s
  BY SettingAssumption, FlushCurrentEffect
<1>2. CASE s.packet_counter # 0
  <2>1. /\ r.emitted_records = Append(old, new)
        /\ r.sketch = EmptySketch
        /\ r.current_rho = 0
    BY <1>2, SettingAssumption, FlushCurrentEffect
  <2>2. old \in Seq(SubepochRecords) /\ new \in SubepochRecords
    BY SettingAssumption, NewRecordType DEF FragmentStates
  <2>3. new.rho_estimate = RhoEstimate(Setting, BatchRho(new.snapshot))
    <3>1. /\ new.rho_estimate = RhoEstimate(Setting, s.current_rho)
          /\ new.snapshot = s.sketch
      BY DEF NewRecord
    <3> QED BY <3>1 DEF RhoTracked
  <2> HIDE DEF r, new, old
  <2> DEFINE ext == Append(old, new)
  <2>4. /\ DOMAIN ext = 1 .. Len(old) + 1
        /\ DOMAIN old = 1 .. Len(old)
        /\ Len(old) \in Nat
        /\ \A k \in DOMAIN old : ext[k] = old[k]
        /\ ext[Len(old) + 1] = new
    BY <2>2, AppendElements
  <2>5. \A k \in DOMAIN old :
            old[k].rho_estimate = RhoEstimate(Setting, BatchRho(old[k].snapshot))
    BY DEF RhoTracked, old
  <2> HIDE DEF ext
  <2>6. \A k \in DOMAIN ext :
            ext[k].rho_estimate = RhoEstimate(Setting, BatchRho(ext[k].snapshot))
    <3> SUFFICES ASSUME NEW k \in DOMAIN ext
                 PROVE  ext[k].rho_estimate =
                            RhoEstimate(Setting, BatchRho(ext[k].snapshot))
      OBVIOUS
    <3>1. k \in DOMAIN old \/ k = Len(old) + 1
      BY <2>4
    <3> QED BY <2>3, <2>4, <2>5, <3>1
  <2>7. RhoTracked(r)
    BY <2>1, <2>6, EmptyRho DEF RhoTracked, ext
  <2> QED BY <2>7 DEF r
<1> QED BY <1>1, <1>2

\* So does the advance to a later subepoch.
LEMMA FlushUntilTracks ==
    ASSUME FiniteCells, NEW s \in FragmentStates, RhoTracked(s),
           NEW target \in Nat
    PROVE  RhoTracked(FlushUntil(Setting, s, target))
<1> DEFINE r == FlushUntil(Setting, s, target)
           q == FlushCurrent(Setting, s)
<1>1. s.current_subepoch \in Nat
  BY DEF FragmentStates
<1>2. RhoTracked(q)
  BY FlushTracks
<1>3. /\ target <= s.current_subepoch => r = s
      /\ s.current_subepoch < target =>
            /\ r.emitted_records = q.emitted_records
            /\ r.sketch = q.sketch
            /\ r.current_rho = q.current_rho
  BY SettingAssumption, FlushUntilEffect
<1> HIDE DEF r, q
<1>4. RhoTracked(r)
  BY <1>1, <1>2, <1>3 DEF RhoTracked
<1> QED BY <1>4 DEF r

\* process_packet keeps rho that of the counters.
LEMMA ProcessPacketTracks ==
    ASSUME FiniteCells, NEW s \in FragmentStates, RhoTracked(s),
           NEW f \in Flows, NEW t \in Nat, NEW single_hop \in BOOLEAN,
           t >= s.epoch_start, SubepochIndex(s, t) \in Nat
    PROVE  RhoTracked(ProcessPacket(Setting, s, f, t, single_hop))
<1> DEFINE i == SubepochIndex(s, t)
           q == FlushUntil(Setting, s, i)
           tracked == ShouldTrack(f, s.hash_seed, i, s.subepoch_count,
                                  single_hop, Setting.boost_single_hop)
           r == ProcessPacket(Setting, s, f, t, single_hop)
<1>1. q \in FragmentStates /\ RhoTracked(q)
  BY SettingAssumption, FlushUntilEffect, FlushUntilTracks
<1>2. /\ r.emitted_records = q.emitted_records
      /\ IF tracked
         THEN /\ r.sketch = Update(q.sketch, f)
              /\ r.current_rho = q.current_rho + RhoGain(Setting, q.sketch, f)
         ELSE r = q
  BY SettingAssumption, ProcessPacketEffect
<1>3. q.sketch \in Sketches
  BY <1>1 DEF FragmentStates
<1> HIDE DEF q, r, tracked
<1>4. CASE tracked
  <2>1. RowsAgree(q.sketch) /\ q.current_rho = BatchRho(q.sketch)
    BY <1>1 DEF RhoTracked
  <2>2. BatchRho(Update(q.sketch, f)) =
            BatchRho(q.sketch) + RhoGain(Setting, q.sketch, f)
    BY <1>3, <2>1, UpdateBatchRho
  <2>3. RowsAgree(Update(q.sketch, f))
    BY <1>3, <2>1, UpdateAgrees
  <2>4. r.current_rho = BatchRho(r.sketch)
    BY <1>2, <1>4, <2>1, <2>2
  <2>5. RhoTracked(r)
    BY <1>1, <1>2, <1>4, <2>3, <2>4 DEF RhoTracked
  <2> QED BY <2>5 DEF r
<1>5. CASE ~tracked
  BY <1>1, <1>2, <1>5 DEF r
<1> QED BY <1>4, <1>5

\* Each step keeps rho that of the counters.
LEMMA StepTracks ==
    ASSUME SoundSetting(Setting), FiniteCells, IInv, RhoTracked(frag),
           [Next]_vars
    PROVE  RhoTracked(frag')
<1>1. frag \in FragmentStates
  BY DEF IInv, TypeOK
<1>2. CASE Begin
  <2>1. /\ frag'.current_rho = 0
        /\ frag'.sketch = EmptySketch
        /\ frag'.emitted_records = <<>>
    BY <1>2 DEF Begin, BeginEpoch
  <2> QED BY <2>1, EmptyRho DEF RhoTracked
<1>3. ASSUME NEW f \in Flows, NEW t \in Times, Packet(f, t)
      PROVE  RhoTracked(frag')
  <2>1. /\ t \in Nat
        /\ t >= frag.epoch_start
        /\ SubepochIndex(frag, t) \in Nat
    BY <1>3, PacketIndex DEF Packet
  <2>2. frag' = ProcessPacket(Setting, frag, f, t, SingleHop[f])
    BY <1>3 DEF Packet
  <2>3. SingleHop[f] \in BOOLEAN
    BY SingleHopAssumption
  <2> QED BY <1>1, <2>1, <2>2, <2>3, ProcessPacketTracks
<1>4. CASE Close
  <2> DEFINE q == FlushCurrent(Setting, frag)
  <2>1. /\ frag.subepoch_count \in kMinSubepoch .. Setting.max_subepoch
        /\ frag.current_subepoch < frag.subepoch_count
        /\ frag' = CloseEpoch(Setting, frag)
    BY <1>4, CurrentBelowCount DEF IInv, Close
  <2>2. /\ kMinSubepoch <= frag.subepoch_count
        /\ frag.subepoch_count <= Setting.max_subepoch
    BY <2>1
  <2>3. /\ frag'.emitted_records = q.emitted_records
        /\ frag'.sketch = q.sketch
        /\ frag'.current_rho = q.current_rho
    BY <1>1, <2>1, <2>2, SettingAssumption, CloseEpochEffect
  <2>4. RhoTracked(q)
    BY <1>1, FlushTracks
  <2> HIDE DEF q
  <2> QED BY <2>3, <2>4 DEF RhoTracked
<1>5. CASE UNCHANGED vars
  BY <1>5 DEF vars
<1> QED BY <1>2, <1>3, <1>4, <1>5 DEF Next

\* The incremental rho never drifts from the counters, neither in the open
\* subepoch nor in a record, across lazy flushes (Fragment.cpp:177-219).
THEOREM RhoNeverDrifts ==
    ASSUME SoundSetting(Setting), FiniteCells
    PROVE  Spec => []RhoTracksCounters
<1>1. Init => RhoTracked(frag)
  BY EmptyRho DEF Init, NewFragment, RhoTracked
<1>2. IInv /\ RhoTracked(frag) /\ [Next]_vars => RhoTracked(frag)'
  BY StepTracks
<1>3. RhoTracked(frag) => RhoTracksCounters
  BY DEF RhoTracked, RhoTracksCounters
<1> QED BY <1>1, <1>2, <1>3, Invariance, PTL DEF Spec

=============================================================================
