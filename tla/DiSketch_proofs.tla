--------------------------- MODULE DiSketch_proofs ---------------------------
(***************************************************************************)
(* Theorems about DiSketch::run and the simulator, for every configuration *)
(* and sorted trace: packets and epochs, the exact counts, the undivided   *)
(* sketch and the detectors.                                               *)
(***************************************************************************)
EXTENDS Simulator, Fragment_proofs

(* The invariant.                                                          *)

\* The packets of epoch e among the first n - 1, and those of flow f.
Seen(e, n) == {k \in PacketsIn(e) : k < n}
SeenOf(e, n, f) == {k \in Seen(e, n) : packets[k].flow = f}

\* Is the summary s of epoch e what the three properties ask for?
Counted(s, e) ==
    /\ s.epoch_id = e
    /\ s.total_packets = Cardinality(PacketsIn(e))
    /\ s.total_flows = Cardinality(FlowsIn(e))

Comparable(s, e) ==
    /\ s.disketch_detector.tp + s.disketch_detector.fn = Cardinality(HeavyIn(e))
    /\ s.disketch_detector.fp + s.disketch_detector.tn
          = Cardinality(FlowsIn(e) \ HeavyIn(e))
    /\ DOMAIN s.flow_metrics = HeavyIn(e)
    /\ config.has_memory =>
          /\ s.full_sketch_detector.tp + s.full_sketch_detector.fn
                = s.disketch_detector.tp + s.disketch_detector.fn
          /\ s.full_sketch_detector.fp + s.full_sketch_detector.tn
                = s.disketch_detector.fp + s.disketch_detector.tn
    /\ s.disketch_detector \in [Outcomes -> Nat]
    /\ s.full_sketch_detector \in [Outcomes -> Nat]
    /\ ~config.has_memory => s.full_sketch_detector = reset

Overestimated(s) ==
    config.has_memory =>
        /\ s.full_sketch_detector.fn = 0
        /\ \A f \in DOMAIN s.flow_metrics :
              /\ s.flow_metrics[f].ideal <= s.flow_metrics[f].full_sketch
              /\ s.flow_metrics[f].full_sketch <= s.total_packets

\* The reports so far.
ReportInv ==
    /\ \E S : report \in Seq(S)
    /\ Len(report) = epoch
    /\ \A e \in 1 .. Len(report) :
          /\ Counted(report[e], e - 1)
          /\ Comparable(report[e], e - 1)
          /\ Overestimated(report[e])

\* Types, except those of the fragments.
Typed ==
    /\ config \in Configs
    /\ packets \in Traces
    /\ pc \in {"start", "epoch", "packets", "done"}
    /\ packet_index \in 1 .. Len(packets) + 1
    /\ epoch \in Nat
    /\ ideal \in [Flows -> Nat]
    /\ epoch_packet_count \in Nat
    /\ full \in [FullRows -> [FullCells -> Nat]]

\* All packets before packet_index are earlier than t, no others are.
SplitAt(t) ==
    \A k \in 1 .. Len(packets) : k < packet_index <=> packets[k].ts < t

\* Where the two loops are in the trace.
Position ==
    /\ pc = "start" => packet_index = 1 /\ epoch = 0
    /\ pc = "epoch" => /\ packets # <<>>
                       /\ epoch <= TotalEpochs
                       /\ SplitAt(StartOf(epoch))
    /\ pc = "packets" =>
          /\ packets # <<>>
          /\ epoch < TotalEpochs
          /\ \A k \in 1 .. Len(packets) :
                /\ k < packet_index => packets[k].ts < StartOf(epoch) + Duration
                /\ k >= packet_index => packets[k].ts >= StartOf(epoch)
    /\ pc = "done" => \/ packets = <<>> /\ packet_index = 1
                      \/ /\ packets # <<>>
                         /\ epoch = TotalEpochs
                         /\ SplitAt(StartOf(epoch))

\* The counts of the open epoch.
Counts ==
    pc = "packets" =>
        /\ epoch_packet_count = Cardinality(Seen(epoch, packet_index))
        /\ \A f \in Flows :
              ideal[f] = Cardinality(SeenOf(epoch, packet_index, f))
        /\ config.has_memory =>
              /\ \A r \in FullRows : \A f \in Flows :
                    ideal[f] <= full[r][FullCell[r][f]]
              /\ \A r \in FullRows : \A c \in FullCells :
                    full[r][c] <= epoch_packet_count

IInv == Typed /\ Position /\ Counts /\ ReportInv

-----------------------------------------------------------------------------
(* The trace.                                                              *)

\* The elements of a sequence.
LEMMA SequenceElements ==
    ASSUME NEW S, NEW s \in Seq(S)
    PROVE  /\ Len(s) \in Nat
           /\ DOMAIN s = 1 .. Len(s)
           /\ \A k \in 1 .. Len(s) : s[k] \in S
OBVIOUS

\* The packets of a trace, its order and the length of an epoch.
LEMMA TraceFacts ==
    ASSUME Typed
    PROVE  /\ packets \in Seq([flow : Flows, ts : Nat])
           /\ Len(packets) \in Nat
           /\ DOMAIN packets = 1 .. Len(packets)
           /\ \A k \in 1 .. Len(packets) :
                 packets[k].flow \in Flows /\ packets[k].ts \in Nat
           /\ \A k \in 1 .. Len(packets) : \A j \in 1 .. k :
                 packets[j].ts <= packets[k].ts
           /\ Duration \in Nat \ {0}
           /\ config.max_epochs \in Nat
<1>1. /\ packets \in Seq([flow : Flows, ts : Nat])
      /\ \A k \in DOMAIN packets : \A j \in 1 .. k :
            packets[j].ts <= packets[k].ts
  BY TracesAssumption DEF Typed
<1>2. config.epoch_duration_ns \in Nat /\ config.max_epochs \in Nat
  BY ConfigsAssumption DEF Typed
<1>3. Duration \in Nat \ {0}
  BY <1>2 DEF Duration, Larger
<1>4. /\ Len(packets) \in Nat
      /\ DOMAIN packets = 1 .. Len(packets)
      /\ \A k \in 1 .. Len(packets) : packets[k] \in [flow : Flows, ts : Nat]
  BY <1>1, SequenceElements, Zenon
<1>5. \A k \in 1 .. Len(packets) :
        packets[k].flow \in Flows /\ packets[k].ts \in Nat
  BY <1>4
<1>6. \A k \in 1 .. Len(packets) : \A j \in 1 .. k :
        packets[j].ts <= packets[k].ts
  BY <1>1, <1>4
<1> QED  BY <1>1, <1>2, <1>3, <1>4, <1>5, <1>6

\* A trace that is not empty: the first and the last packet, the number of
\* epochs, and the times at which epochs start.
LEMMA EpochFacts ==
    ASSUME Typed, packets # <<>>
    PROVE  /\ Len(packets) \in Nat \ {0}
           /\ FirstTs \in Nat /\ LastTs \in Nat /\ FirstTs <= LastTs
           /\ \A k \in 1 .. Len(packets) :
                 FirstTs <= packets[k].ts /\ packets[k].ts <= LastTs
           /\ TotalEpochs \in Nat \ {0}
           /\ \A e \in Nat : /\ StartOf(e) \in Nat
                             /\ StartOf(e + 1) = StartOf(e) + Duration
           /\ StartOf(0) = FirstTs
           /\ config.max_epochs = 0 => LastTs < StartOf(TotalEpochs)
<1>0. /\ packets \in Seq([flow : Flows, ts : Nat])
      /\ DOMAIN packets = 1 .. Len(packets)
      /\ \A k \in 1 .. Len(packets) : packets[k].ts \in Nat
      /\ \A k \in 1 .. Len(packets) : \A j \in 1 .. k :
            packets[j].ts <= packets[k].ts
      /\ Duration \in Nat \ {0}
      /\ config.max_epochs \in Nat
  BY TraceFacts
<1>1. Len(packets) \in Nat \ {0}
  BY <1>0
<1>2. \A k \in 1 .. Len(packets) :
        packets[1].ts <= packets[k].ts /\ packets[k].ts <= packets[Len(packets)].ts
  BY <1>0, <1>1
<1>3. FirstTs \in Nat /\ LastTs \in Nat /\ FirstTs <= LastTs
  BY <1>0, <1>1, <1>2 DEF FirstTs, LastTs
<1> DEFINE q == (LastTs - FirstTs) \div Duration
<1>4. q \in Nat /\ LastTs - FirstTs < q * Duration + Duration
  <2>1. LastTs - FirstTs \in Nat
    BY <1>3
  <2>2. \A a \in Nat : /\ a \div Duration \in Nat
                       /\ a < (a \div Duration) * Duration + Duration
    BY <1>0, DivisionBounds
  <2> QED  BY <2>1, <2>2
<1>5. /\ TotalEpochs \in Nat \ {0}
      /\ config.max_epochs = 0 => TotalEpochs = q + 1
  <2> HIDE DEF q
  <2>1. TotalEpochs = IF config.max_epochs > 0
                      THEN Smaller(q + 1, config.max_epochs) ELSE q + 1
    BY DEF TotalEpochs, q
  <2> QED  BY <1>0, <1>4, <2>1 DEF Smaller
<1>6. ASSUME NEW e \in Nat
      PROVE  StartOf(e) \in Nat /\ StartOf(e + 1) = StartOf(e) + Duration
  <2>1. e * Duration \in Nat
    BY <1>0
  <2>2. (e + 1) * Duration = e * Duration + Duration
    BY <1>0
  <2>3. /\ StartOf(e) = FirstTs + e * Duration
        /\ StartOf(e + 1) = FirstTs + (e + 1) * Duration
    BY DEF StartOf
  <2> DEFINE a == e * Duration
             b == (e + 1) * Duration
  <2>4. /\ a \in Nat /\ b = a + Duration
        /\ StartOf(e) = FirstTs + a /\ StartOf(e + 1) = FirstTs + b
    BY <2>1, <2>2, <2>3
  <2> HIDE DEF a, b
  <2> QED  BY <1>0, <1>3, <2>4
<1>7. StartOf(0) = FirstTs
  BY <1>0, <1>3 DEF StartOf
<1>8. config.max_epochs = 0 => LastTs < StartOf(TotalEpochs)
  <2> SUFFICES ASSUME config.max_epochs = 0 PROVE LastTs < StartOf(TotalEpochs)
    OBVIOUS
  <2>1. q * Duration \in Nat
    BY <1>0, <1>4
  <2>2. (q + 1) * Duration = q * Duration + Duration
    BY <1>0, <1>4
  <2>3. StartOf(TotalEpochs) = FirstTs + (q * Duration + Duration)
    BY <1>5, <2>2 DEF StartOf
  <2> HIDE DEF q
  <2> QED  BY <1>0, <1>3, <1>4, <2>1, <2>3
<1> QED  BY <1>1, <1>2, <1>3, <1>5, <1>6, <1>7, <1>8 DEF FirstTs, LastTs

\* A set of packets is finite.
LEMMA PacketsFinite ==
    ASSUME Typed, NEW S \in SUBSET (1 .. Len(packets))
    PROVE  IsFiniteSet(S) /\ Cardinality(S) \in Nat
<1>1. Len(packets) \in Int
  BY TraceFacts
<1>2. IsFiniteSet(1 .. Len(packets))
  BY <1>1, FS_Interval
<1> QED  BY <1>2, FS_Subset, FS_CardinalityType

\* What is said of epochs depends on the configuration and the trace alone.
LEMMA FixedFacts ==
    ASSUME UNCHANGED fixed
    PROVE  /\ config' = config /\ packets' = packets
           /\ Duration' = Duration /\ TotalEpochs' = TotalEpochs
           /\ \A e : /\ StartOf(e)' = StartOf(e)
                     /\ PacketsIn(e)' = PacketsIn(e)
                     /\ FlowsIn(e)' = FlowsIn(e)
                     /\ HeavyIn(e)' = HeavyIn(e)
<1>1. config' = config /\ packets' = packets
  BY DEF fixed
<1>2. Duration' = Duration
  BY <1>1 DEF Duration
<1>3. FirstTs' = FirstTs /\ LastTs' = LastTs
  BY <1>1 DEF FirstTs, LastTs
<1>4. \A e : StartOf(e)' = StartOf(e)
  BY <1>2, <1>3 DEF StartOf
<1>5. TotalEpochs' = TotalEpochs
  BY <1>1, <1>2, <1>3 DEF TotalEpochs
<1>6. \A e : PacketsIn(e)' = PacketsIn(e)
  BY <1>1, <1>2, <1>4 DEF PacketsIn
<1>7. \A e : FlowsIn(e)' = FlowsIn(e)
  BY <1>1, <1>6 DEF FlowsIn
<1>8. \A e, f : CountIn(e, f)' = CountIn(e, f)
  BY <1>1, <1>6 DEF CountIn
<1>9. \A e : HeavyIn(e)' = HeavyIn(e)
  BY <1>6, <1>7, <1>8 DEF HeavyIn
<1> QED  BY <1>1, <1>2, <1>4, <1>5, <1>6, <1>7, <1>9

\* The summaries that are there stay as they are.
LEMMA ReportsKept ==
    ASSUME ReportInv, UNCHANGED <<fixed, epoch, report>>
    PROVE  ReportInv'
<1>1. /\ report' = report /\ epoch' = epoch /\ config' = config
      /\ \A e : /\ PacketsIn(e)' = PacketsIn(e) /\ FlowsIn(e)' = FlowsIn(e)
                /\ HeavyIn(e)' = HeavyIn(e)
  BY FixedFacts
<1>2. \A e \in 1 .. Len(report) :
        /\ Counted(report[e], e - 1)' /\ Comparable(report[e], e - 1)'
        /\ Overestimated(report[e])'
  BY <1>1 DEF ReportInv, Counted, Comparable, Overestimated
<1> QED  BY <1>1, <1>2 DEF ReportInv

-----------------------------------------------------------------------------
(* The actions.                                                            *)

\* The initial states.
LEMMA InitIInv == Init => IInv
<1> SUFFICES ASSUME Init PROVE IInv
  OBVIOUS
<1>1. Typed
  <2>1. packets \in Seq([flow : Flows, ts : Nat])
    BY TracesAssumption DEF Init
  <2>2. Len(packets) \in Nat
    BY <2>1, SequenceElements, Zenon
  <2>3. packet_index \in 1 .. Len(packets) + 1
    BY <2>2 DEF Init
  <2>4. full \in [FullRows -> [FullCells -> Nat]]
    BY DEF Init, Full!EmptySketch
  <2> QED  BY <2>3, <2>4 DEF Init, Typed, NoCounts
<1>2. Position
  BY DEF Init, Position
<1>3. Counts
  BY DEF Init, Counts
<1>4. ReportInv
  <2>1. report = <<>> /\ epoch = 0
    BY DEF Init
  <2>2. report \in Seq({}) /\ Len(report) = 0
    BY <2>1
  <2> QED  BY <2>1, <2>2 DEF ReportInv
<1> QED  BY <1>1, <1>2, <1>3, <1>4 DEF IInv

\* The early returns, or the first epoch.
LEMMA StartIInv == IInv /\ Start => IInv'
<1> SUFFICES ASSUME IInv, Start PROVE IInv'
  OBVIOUS
<1>0. /\ UNCHANGED <<fixed, packet_index, epoch, full, ideal,
                     epoch_packet_count, report>>
      /\ pc = "start"
      /\ pc' = IF packets = <<>> THEN "done"
               ELSE IF LastTs < FirstTs THEN "done" ELSE "epoch"
  BY DEF Start
<1>1. Typed'
  BY <1>0 DEF IInv, Typed, fixed
<1>2. packet_index = 1 /\ epoch = 0
  BY <1>0 DEF IInv, Position
<1>3. Position'
  <2>1. CASE packets = <<>>
    BY <1>0, <1>2, <2>1 DEF Position, fixed
  <2>2. CASE packets # <<>>
    <3>1. /\ FirstTs \in Nat /\ LastTs \in Nat /\ FirstTs <= LastTs
          /\ \A k \in 1 .. Len(packets) : FirstTs <= packets[k].ts
          /\ TotalEpochs \in Nat \ {0} /\ StartOf(0) = FirstTs
      BY <2>2, EpochFacts DEF IInv
    <3>2. pc' = "epoch"
      BY <1>0, <2>2, <3>1
    <3>3. \A k \in 1 .. Len(packets) : packets[k].ts \in Nat
      BY TraceFacts DEF IInv
    <3>4. SplitAt(StartOf(epoch))
      BY <1>2, <3>1, <3>3 DEF SplitAt
    <3>5. SplitAt(StartOf(epoch))'
      BY <1>0, <3>4, FixedFacts DEF SplitAt
    <3>6. packets' # <<>> /\ epoch' <= TotalEpochs'
      BY <1>0, <1>2, <2>2, <3>1, FixedFacts
    <3> QED  BY <3>2, <3>5, <3>6 DEF Position
  <2> QED  BY <2>1, <2>2
<1>4. pc' # "packets"
  BY <1>0
<1>5. Counts'
  BY <1>4 DEF Counts
<1>6. ReportInv'
  BY <1>0, ReportsKept DEF IInv
<1> QED  BY <1>1, <1>3, <1>5, <1>6 DEF IInv

\* Between the epochs the packets before packet_index are earlier than the
\* next one, and the others are not.
LEMMA NothingSeen ==
    ASSUME IInv, pc = "epoch"
    PROVE  /\ packets # <<>>
           /\ \A k \in 1 .. Len(packets) :
                 /\ k < packet_index => packets[k].ts < StartOf(epoch) + Duration
                 /\ k >= packet_index => packets[k].ts >= StartOf(epoch)
           /\ Seen(epoch, packet_index) = {}
<1>1. /\ packets # <<>> /\ SplitAt(StartOf(epoch))
  BY DEF IInv, Position
<1>2. /\ StartOf(epoch) \in Nat /\ Duration \in Nat
      /\ Len(packets) \in Nat /\ packet_index \in Nat
      /\ \A k \in 1 .. Len(packets) : packets[k].ts \in Nat
  <2>1. Typed /\ epoch \in Nat /\ packet_index \in 1 .. Len(packets) + 1
    BY DEF IInv, Typed
  <2>2. /\ Duration \in Nat /\ Len(packets) \in Nat
        /\ \A k \in 1 .. Len(packets) : packets[k].ts \in Nat
    BY <2>1, TraceFacts
  <2>3. StartOf(epoch) \in Nat
    BY <1>1, <2>1, EpochFacts
  <2> QED  BY <2>1, <2>2, <2>3
<1>3. \A k \in 1 .. Len(packets) :
        /\ k < packet_index => packets[k].ts < StartOf(epoch) + Duration
        /\ k >= packet_index => packets[k].ts >= StartOf(epoch)
  BY <1>1, <1>2 DEF SplitAt
<1>4. \A k \in PacketsIn(epoch) : ~(k < packet_index)
  <2> SUFFICES ASSUME NEW k \in PacketsIn(epoch), k < packet_index PROVE FALSE
    OBVIOUS
  <2>1. k \in 1 .. Len(packets) /\ StartOf(epoch) <= packets[k].ts
    BY TraceFacts DEF PacketsIn, IInv
  <2> QED  BY <1>1, <1>2, <2>1 DEF SplitAt
<1>5. Seen(epoch, packet_index) = {}
  BY <1>4 DEF Seen
<1> QED  BY <1>1, <1>3, <1>5

\* A new epoch has seen nothing.
LEMMA BeginEpochsIInv == IInv /\ BeginEpochs => IInv'
<1> SUFFICES ASSUME IInv, BeginEpochs PROVE IInv'
  OBVIOUS
<1>0. /\ UNCHANGED <<fixed, packet_index, epoch, report>>
      /\ pc = "epoch" /\ pc' = "packets" /\ epoch < TotalEpochs
      /\ full' = [r \in FullRows |-> [c \in FullCells |-> 0]]
      /\ ideal' = [f \in Flows |-> 0]
      /\ epoch_packet_count' = 0
  BY DEF BeginEpochs, Full!EmptySketch, NoCounts
<1>1. Typed'
  BY <1>0 DEF IInv, Typed, fixed
<1>2. /\ packets # <<>>
      /\ \A k \in 1 .. Len(packets) :
            /\ k < packet_index => packets[k].ts < StartOf(epoch) + Duration
            /\ k >= packet_index => packets[k].ts >= StartOf(epoch)
      /\ Seen(epoch, packet_index) = {}
  BY <1>0, NothingSeen
<1>3. Position'
  BY <1>0, <1>2, FixedFacts DEF Position
<1>4. \A f : SeenOf(epoch, packet_index, f) = {}
  BY <1>2 DEF SeenOf
<1>5. /\ Seen(epoch, packet_index)' = {}
      /\ \A f : SeenOf(epoch, packet_index, f)' = {}
  BY <1>0, <1>2, <1>4, FixedFacts DEF Seen, SeenOf
<1>6. Counts'
  <2>1. epoch_packet_count' = Cardinality(Seen(epoch, packet_index)')
    BY <1>0, <1>5, FS_EmptySet
  <2>2. \A f \in Flows : ideal'[f] = Cardinality(SeenOf(epoch, packet_index, f)')
    BY <1>0, <1>5, FS_EmptySet
  <2>3. \A r \in FullRows : \A f \in Flows :
          ideal'[f] <= full'[r][FullCell[r][f]]
    BY <1>0, FullAssumption
  <2>4. \A r \in FullRows : \A c \in FullCells :
          full'[r][c] <= epoch_packet_count'
    BY <1>0
  <2> QED  BY <2>1, <2>2, <2>3, <2>4 DEF Counts
<1>7. ReportInv'
  BY <1>0, ReportsKept DEF IInv
<1> QED  BY <1>1, <1>3, <1>6, <1>7 DEF IInv

\* The next packet belongs to the epoch and has not been seen.
LEMMA OneMoreSeen ==
    ASSUME IInv, NextPacket
    PROVE  LET n == packet_index
               f == packets[n].flow
           IN  /\ n \in 1 .. Len(packets)
               /\ ~(packets[n].ts < StartOf(epoch))
               /\ f \in Flows
               /\ n \in PacketsIn(epoch)
               /\ n \notin Seen(epoch, n)
               /\ Seen(epoch, n + 1) = Seen(epoch, n) \cup {n}
               /\ \A g \in Flows :
                     SeenOf(epoch, n + 1, g)
                       = SeenOf(epoch, n, g) \cup (IF g = f THEN {n} ELSE {})
<1> DEFINE n == packet_index
           f == packets[n].flow
<1>1. /\ Typed /\ epoch \in Nat /\ n \in 1 .. Len(packets) + 1
      /\ packets # <<>>
      /\ n <= Len(packets)
      /\ packets[n].ts < StartOf(epoch) + Duration
      /\ \A k \in 1 .. Len(packets) :
            k >= n => packets[k].ts >= StartOf(epoch)
  BY DEF IInv, Typed, Position, NextPacket, MorePackets
<1>2. /\ Len(packets) \in Nat
      /\ \A k \in 1 .. Len(packets) :
            packets[k].ts \in Nat /\ packets[k].flow \in Flows
      /\ DOMAIN packets = 1 .. Len(packets)
  BY <1>1, TraceFacts
<1>3. StartOf(epoch) \in Nat
  BY <1>1, EpochFacts
<1>4. n \in 1 .. Len(packets) /\ ~(packets[n].ts < StartOf(epoch)) /\ f \in Flows
  BY <1>1, <1>2, <1>3
<1>5. n \in PacketsIn(epoch)
  BY <1>1, <1>2, <1>3, <1>4 DEF PacketsIn
<1>6. Seen(epoch, n + 1) = Seen(epoch, n) \cup {n} /\ n \notin Seen(epoch, n)
  <2>1. \A k \in PacketsIn(epoch) : k \in Int
    BY <1>2 DEF PacketsIn
  <2>2. n \in Int
    BY <1>1, <1>2
  <2>3. ASSUME NEW k \in PacketsIn(epoch)
        PROVE  k < n + 1 <=> (k < n \/ k = n)
    BY <2>1, <2>2
  <2>4. \A k : k \in Seen(epoch, n + 1) <=> k \in Seen(epoch, n) \/ k = n
    BY <1>5, <2>3 DEF Seen
  <2>5. ~(n < n)
    BY <2>2
  <2> HIDE DEF n
  <2> QED  BY <2>4, <2>5 DEF Seen
<1>7. \A g \in Flows :
         SeenOf(epoch, n + 1, g)
           = SeenOf(epoch, n, g) \cup (IF g = f THEN {n} ELSE {})
  BY <1>6 DEF SeenOf
<1> QED  BY <1>4, <1>5, <1>6, <1>7

\* A packet is counted in its epoch, for its flow and in the undivided
\* sketch.
LEMMA NextPacketIInv == IInv /\ NextPacket => IInv'
<1> SUFFICES ASSUME IInv, NextPacket PROVE IInv'
  OBVIOUS
<1> DEFINE n == packet_index
           g == packets[n].flow
<1>1. /\ Typed /\ epoch \in Nat /\ n \in 1 .. Len(packets) + 1
      /\ packets # <<>> /\ epoch < TotalEpochs
      /\ pc = "packets" /\ pc' = "packets"
      /\ UNCHANGED <<fixed, epoch, report>>
      /\ n' = n + 1
      /\ n <= Len(packets)
      /\ packets[n].ts < StartOf(epoch) + Duration
  BY DEF IInv, Typed, Position, NextPacket, MorePackets
<1>2. /\ Duration \in Nat /\ Len(packets) \in Nat
      /\ \A k \in 1 .. Len(packets) :
            packets[k].ts \in Nat /\ packets[k].flow \in Flows
      /\ DOMAIN packets = 1 .. Len(packets)
      /\ \A k \in 1 .. Len(packets) : \A j \in 1 .. k :
            packets[j].ts <= packets[k].ts
  BY <1>1, TraceFacts
<1>3. StartOf(epoch) \in Nat
  BY <1>1, EpochFacts
<1>4. \A k \in 1 .. Len(packets) :
        /\ k < n => packets[k].ts < StartOf(epoch) + Duration
        /\ k >= n => packets[k].ts >= StartOf(epoch)
  BY <1>1 DEF IInv, Position
<1>5. n \in 1 .. Len(packets) /\ ~(packets[n].ts < StartOf(epoch)) /\ g \in Flows
  BY <1>1, <1>2, <1>3, <1>4
<1>6. /\ epoch_packet_count' = epoch_packet_count + 1
      /\ ideal' = [ideal EXCEPT ![g] = @ + 1]
      /\ full' = IF config.has_memory THEN Full!Update(full, g) ELSE full
  BY <1>5 DEF NextPacket
<1>7. /\ ideal \in [Flows -> Nat] /\ epoch_packet_count \in Nat
      /\ full \in [FullRows -> [FullCells -> Nat]]
  BY <1>1 DEF Typed
<1>8. Full!Update(full, g)
        = [r \in FullRows |-> [full[r] EXCEPT ![FullCell[r][g]] = @ + 1]]
  BY DEF Full!Update
<1> HIDE DEF g
<1>9. Typed'
  <2>1. /\ config' = config /\ packets' = packets /\ pc' = pc /\ epoch' = epoch
    BY <1>1 DEF fixed
  <2>2. packet_index' \in 1 .. Len(packets') + 1
    BY <1>1, <1>2, <2>1
  <2>3. ideal' \in [Flows -> Nat] /\ epoch_packet_count' \in Nat
    BY <1>5, <1>6, <1>7
  <2>4. full' \in [FullRows -> [FullCells -> Nat]]
    <3>1. CASE config.has_memory
      <4>1. full' = [r \in FullRows |-> [full[r] EXCEPT ![FullCell[r][g]] = @ + 1]]
        BY <1>6, <1>8, <3>1
      <4>2. ASSUME NEW r \in FullRows
            PROVE  [full[r] EXCEPT ![FullCell[r][g]] = @ + 1] \in [FullCells -> Nat]
        <5>1. FullCell[r][g] \in FullCells
          BY <1>5, FullAssumption
        <5>2. full[r] \in [FullCells -> Nat]
          BY <1>7
        <5> QED  BY <5>1, <5>2
      <4> QED  BY <4>1, <4>2
    <3>2. CASE ~config.has_memory
      BY <1>6, <1>7, <3>2
    <3> QED  BY <3>1, <3>2
  <2> QED  BY <1>1, <2>1, <2>2, <2>3, <2>4 DEF Typed
<1>10. Position'
  <2>1. \A k \in 1 .. Len(packets) :
          /\ k < n + 1 => packets[k].ts < StartOf(epoch) + Duration
          /\ k >= n + 1 => packets[k].ts >= StartOf(epoch)
    BY <1>1, <1>2, <1>4
  <2> QED  BY <1>1, <2>1, FixedFacts DEF Position
<1>11. \A e, m : Seen(e, m)' = Seen(e, m)
  BY <1>1, FixedFacts DEF Seen
<1>12. Seen(epoch, n + 1) = Seen(epoch, n) \cup {n} /\ n \notin Seen(epoch, n)
  BY OneMoreSeen
<1>13. \A f \in Flows :
         SeenOf(epoch, n + 1, f)
           = SeenOf(epoch, n, f) \cup (IF f = g THEN {n} ELSE {})
  BY OneMoreSeen DEF g
<1>14. Seen(epoch, n) \in SUBSET (1 .. Len(packets))
  BY <1>2 DEF Seen, PacketsIn
<1>15. /\ IsFiniteSet(Seen(epoch, n))
       /\ \A f : IsFiniteSet(SeenOf(epoch, n, f)) /\ n \notin SeenOf(epoch, n, f)
  BY <1>1, <1>12, <1>14, PacketsFinite DEF SeenOf
<1>16. /\ epoch_packet_count = Cardinality(Seen(epoch, n))
       /\ \A f \in Flows : ideal[f] = Cardinality(SeenOf(epoch, n, f))
       /\ config.has_memory =>
             /\ \A r \in FullRows : \A f \in Flows :
                   ideal[f] <= full[r][FullCell[r][f]]
             /\ \A r \in FullRows : \A c \in FullCells :
                   full[r][c] <= epoch_packet_count
  BY <1>1 DEF IInv, Counts
<1>17. epoch_packet_count' = Cardinality(Seen(epoch, n + 1))
  BY <1>6, <1>12, <1>15, <1>16, FS_AddElement
<1>18. \A f \in Flows : ideal'[f] = Cardinality(SeenOf(epoch, n + 1, f))
  <2> SUFFICES ASSUME NEW f \in Flows
               PROVE  ideal'[f] = Cardinality(SeenOf(epoch, n + 1, f))
    OBVIOUS
  <2>1. CASE f = g
    <3>1. Cardinality(SeenOf(epoch, n, f) \cup {n})
            = Cardinality(SeenOf(epoch, n, f)) + 1
      BY <1>15, FS_AddElement
    <3>2. ideal'[f] = ideal[f] + 1
      BY <1>5, <1>6, <1>7, <2>1
    <3> QED  BY <1>13, <1>16, <2>1, <3>1, <3>2
  <2>2. CASE f # g
    <3>1. ideal'[f] = ideal[f]
      BY <1>5, <1>6, <1>7, <2>2
    <3>2. SeenOf(epoch, n + 1, f) = SeenOf(epoch, n, f)
      BY <1>13, <2>2
    <3> QED  BY <1>16, <3>1, <3>2
  <2> QED  BY <2>1, <2>2
<1>19. ASSUME config.has_memory
       PROVE  /\ \A r \in FullRows : \A f \in Flows :
                    ideal'[f] <= full'[r][FullCell[r][f]]
              /\ \A r \in FullRows : \A c \in FullCells :
                    full'[r][c] <= epoch_packet_count'
  <2>1. ASSUME NEW r \in FullRows, NEW c \in FullCells
        PROVE  full'[r][c] = IF c = FullCell[r][g] THEN full[r][c] + 1
                             ELSE full[r][c]
    BY <1>5, <1>6, <1>7, <1>8, <1>19, FullAssumption
  <2>2. ASSUME NEW r \in FullRows, NEW f \in Flows
        PROVE  ideal'[f] <= full'[r][FullCell[r][f]]
    <3>1. FullCell[r][f] \in FullCells
      BY FullAssumption
    <3>2. ideal'[f] = IF f = g THEN ideal[f] + 1 ELSE ideal[f]
      BY <1>5, <1>6, <1>7
    <3>3. ideal[f] <= full[r][FullCell[r][f]]
      BY <1>16, <1>19
    <3>4. full[r][FullCell[r][f]] \in Nat /\ ideal[f] \in Nat
      BY <1>7, <3>1
    <3> QED  BY <2>1, <3>1, <3>2, <3>3, <3>4
  <2>3. ASSUME NEW r \in FullRows, NEW c \in FullCells
        PROVE  full'[r][c] <= epoch_packet_count'
    <3>1. full[r][c] \in Nat /\ full[r][c] <= epoch_packet_count
      BY <1>7, <1>16, <1>19
    <3> QED  BY <1>6, <1>7, <2>1, <3>1
  <2> QED  BY <2>2, <2>3
<1>20. Counts'
  <2>1. /\ epoch' = epoch /\ config' = config
        /\ Seen(epoch, packet_index)' = Seen(epoch, n + 1)
    BY <1>1, FixedFacts DEF Seen
  <2>2. \A f : SeenOf(epoch, packet_index, f)' = SeenOf(epoch, n + 1, f)
    BY <1>1, <2>1, FixedFacts DEF SeenOf
  <2> QED  BY <1>17, <1>18, <1>19, <2>1, <2>2 DEF Counts
<1>21. ReportInv'
  BY <1>1, ReportsKept DEF IInv
<1> QED  BY <1>9, <1>10, <1>20, <1>21 DEF IInv

-----------------------------------------------------------------------------
(* The summary of an epoch.                                                *)

\* A finite set, cut in two.
LEMMA CutInTwo ==
    ASSUME NEW A, NEW B, IsFiniteSet(A)
    PROVE  /\ IsFiniteSet(A \cap B) /\ IsFiniteSet(A \ B)
           /\ Cardinality(A \cap B) \in Nat /\ Cardinality(A \ B) \in Nat
           /\ Cardinality(A \cap B) + Cardinality(A \ B) = Cardinality(A)
<1>1. IsFiniteSet(A \cap B) /\ IsFiniteSet(A \ B)
  BY FS_Intersection, FS_Difference
<1>2. /\ Cardinality(A) \in Nat /\ Cardinality(A \cap B) \in Nat
      /\ Cardinality(A \ B) \in Nat
  BY <1>1, FS_CardinalityType
<1>3. Cardinality(A \ B) = Cardinality(A) - Cardinality(A \cap B)
  BY FS_Difference
<1> QED  BY <1>1, <1>2, <1>3

\* A detector counts each flow once: the heavy ones as found or missed, the
\* others as reported or not.
LEMMA ClassifiedCounts ==
    ASSUME NEW flows, IsFiniteSet(flows),
           NEW real \in SUBSET flows, NEW detected \in SUBSET flows
    PROVE  /\ Classified(real, detected, flows).tp
                + Classified(real, detected, flows).fn = Cardinality(real)
           /\ Classified(real, detected, flows).fp
                + Classified(real, detected, flows).tn
              = Cardinality(flows \ real)
           /\ Classified(real, detected, flows).fn
                = Cardinality(real \ detected)
<1> DEFINE d == Classified(real, detected, flows)
<1>1. /\ d.tp = Cardinality(real \cap detected)
      /\ d.fn = Cardinality(real \ detected)
      /\ d.fp = Cardinality(detected \ real)
      /\ d.tn = Cardinality(flows \ (real \cup detected))
  BY DEF Classified, reset, Outcomes
<1>2. IsFiniteSet(real) /\ IsFiniteSet(flows \ real)
  BY FS_Subset, FS_Difference
<1>3. /\ detected \ real = (flows \ real) \cap detected
      /\ flows \ (real \cup detected) = (flows \ real) \ detected
  OBVIOUS
<1>4. /\ Cardinality(real \cap detected) + Cardinality(real \ detected)
            = Cardinality(real)
      /\ Cardinality((flows \ real) \cap detected)
              + Cardinality((flows \ real) \ detected)
            = Cardinality(flows \ real)
  BY <1>2, CutInTwo
<1> QED  BY <1>1, <1>3, <1>4

\* A detector's counters are natural numbers.
LEMMA ClassifiedType ==
    ASSUME NEW flows, IsFiniteSet(flows),
           NEW real \in SUBSET flows, NEW detected \in SUBSET flows
    PROVE  Classified(real, detected, flows) \in [Outcomes -> Nat]
<1>1. /\ Cardinality(real \cap detected) \in Nat
      /\ Cardinality(real \ detected) \in Nat
      /\ Cardinality(detected \ real) \in Nat
      /\ Cardinality(flows \ (real \cup detected)) \in Nat
  <2>1. /\ IsFiniteSet(real \cap detected) /\ IsFiniteSet(real \ detected)
        /\ IsFiniteSet(detected \ real)
        /\ IsFiniteSet(flows \ (real \cup detected))
    <3>1. /\ real \cap detected \subseteq flows /\ real \ detected \subseteq flows
          /\ detected \ real \subseteq flows
          /\ flows \ (real \cup detected) \subseteq flows
      OBVIOUS
    <3> QED  BY <3>1, FS_Subset
  <2> QED  BY <2>1, FS_CardinalityType
<1>2. reset \in [Outcomes -> Nat]
  BY DEF reset
<1> QED  BY <1>1, <1>2 DEF Classified

\* The answer of the undivided sketch is one of the flow's counters.
LEMMA FullQuery ==
    ASSUME NEW sk \in [FullRows -> [FullCells -> Nat]], NEW f \in Flows
    PROVE  /\ Full!Query(sk, f) \in Nat
           /\ \E r \in FullRows : Full!Query(sk, f) = sk[r][FullCell[r][f]]
<1> DEFINE counters == {sk[r][FullCell[r][f]] : r \in FullRows}
<1>1. counters \in SUBSET Nat /\ counters # {}
  <2>1. \A r \in FullRows : FullCell[r][f] \in FullCells
    BY FullAssumption
  <2> QED  BY <2>1, FullAssumption
<1>2. \E v \in counters : \A w \in counters : v <= w
  <2> HIDE DEF counters
  <2> QED  BY <1>1, LeastElement
<1>3. Full!Query(sk, f) \in counters
  BY <1>2 DEF Full!Query
<1> QED  BY <1>1, <1>3

\* What is at least a heavy flow's count is heavy too.
LEMMA HeavyMonotone ==
    ASSUME NEW a \in Nat, NEW b \in Nat, a <= b, IsHeavy(a),
           epoch_packet_count \in Nat
    PROVE  IsHeavy(b)
<1>1. a * RatioDen <= b * RatioDen
  <2>1. \A d \in Nat : a * d <= b * d
    <3> SUFFICES ASSUME NEW d \in Nat PROVE a * d <= b * d
      OBVIOUS
    <3>1. b - a \in Nat /\ b = a + (b - a)
      OBVIOUS
    <3>2. \A c \in Nat : (a + c) * d = a * d + c * d /\ c * d \in Nat
      OBVIOUS
    <3>3. b * d = a * d + (b - a) * d /\ (b - a) * d \in Nat
      BY <3>1, <3>2
    <3>4. a * d \in Nat
      OBVIOUS
    <3> QED  BY <3>3, <3>4
  <2> QED  BY <2>1, RatioAssumption
<1>2. /\ a * RatioDen \in Int /\ b * RatioDen \in Int
      /\ epoch_packet_count * RatioNum \in Int
  BY RatioAssumption
<1> QED  BY <1>1, <1>2 DEF IsHeavy

\* The flows of an epoch are finitely many.
LEMMA FlowsFinite ==
    ASSUME Typed, NEW e
    PROVE  IsFiniteSet(FlowsIn(e)) /\ FlowsIn(e) \in SUBSET Flows
<1>1. PacketsIn(e) \in SUBSET (1 .. Len(packets))
  BY TraceFacts DEF PacketsIn
<1> DEFINE flowOf == [k \in 1 .. Len(packets) |-> packets[k].flow]
           flows == {packets[k].flow : k \in 1 .. Len(packets)}
<1>2. IsFiniteSet(flows)
  <2>1. flowOf \in Seq(flows) /\ Len(flowOf) = Len(packets)
    BY TraceFacts
  <2>2. \A f \in flows : \E k \in 1 .. Len(flowOf) : flowOf[k] = f
    BY <2>1
  <2> HIDE DEF flowOf, flows
  <2> QED  BY <2>1, <2>2 DEF IsFiniteSet
<1>3. FlowsIn(e) \in SUBSET flows
  BY <1>1 DEF FlowsIn
<1>4. IsFiniteSet(FlowsIn(e))
  <2> HIDE DEF flows
  <2> QED  BY <1>2, <1>3, FS_Subset
<1>5. FlowsIn(e) \in SUBSET Flows
  BY <1>1, TraceFacts DEF FlowsIn
<1> QED  BY <1>4, <1>5

\* At the end of an epoch everything of it has been counted.
LEMMA EpochCounted ==
    ASSUME IInv, pc = "packets", ~MorePackets
    PROVE  /\ SplitAt(StartOf(epoch + 1))
           /\ epoch_packet_count = Cardinality(PacketsIn(epoch))
           /\ {f \in Flows : ideal[f] > 0} = FlowsIn(epoch)
           /\ {f \in FlowsIn(epoch) : IsHeavy(ideal[f])} = HeavyIn(epoch)
           /\ \A f \in Flows : ideal[f] = CountIn(epoch, f)
           /\ Seen(epoch, packet_index) = PacketsIn(epoch)
<1> DEFINE n == packet_index
<1>1. /\ Typed /\ epoch \in Nat /\ n \in 1 .. Len(packets) + 1
      /\ packets # <<>>
      /\ \A k \in 1 .. Len(packets) :
            /\ k < n => packets[k].ts < StartOf(epoch) + Duration
            /\ k >= n => packets[k].ts >= StartOf(epoch)
      /\ epoch_packet_count = Cardinality(Seen(epoch, n))
      /\ \A f \in Flows : ideal[f] = Cardinality(SeenOf(epoch, n, f))
  BY DEF IInv, Typed, Position, Counts
<1>2. /\ Duration \in Nat /\ Len(packets) \in Nat
      /\ \A k \in 1 .. Len(packets) :
            packets[k].ts \in Nat /\ packets[k].flow \in Flows
      /\ DOMAIN packets = 1 .. Len(packets)
      /\ \A k \in 1 .. Len(packets) : \A j \in 1 .. k :
            packets[j].ts <= packets[k].ts
  BY <1>1, TraceFacts
<1>3. /\ StartOf(epoch) \in Nat
      /\ StartOf(epoch + 1) = StartOf(epoch) + Duration
  BY <1>1, EpochFacts
<1>4. \A k \in 1 .. Len(packets) :
        k >= n => ~(packets[k].ts < StartOf(epoch) + Duration)
  <2> SUFFICES ASSUME NEW k \in 1 .. Len(packets), k >= n,
                      packets[k].ts < StartOf(epoch) + Duration
               PROVE  FALSE
    OBVIOUS
  <2>1. n \in 1 .. k /\ n <= Len(packets) /\ n \in 1 .. Len(packets)
    BY <1>1, <1>2
  <2>2. packets[n].ts <= packets[k].ts
    BY <1>2, <2>1
  <2>3. packets[n].ts \in Nat /\ packets[k].ts \in Nat
    BY <1>2, <2>1
  <2>4. packets[n].ts < StartOf(epoch) + Duration
    BY <1>2, <1>3, <2>2, <2>3
  <2> QED  BY <2>1, <2>4 DEF MorePackets
<1>5. SplitAt(StartOf(epoch + 1))
  <2> SUFFICES ASSUME NEW k \in 1 .. Len(packets)
               PROVE  k < packet_index <=> packets[k].ts < StartOf(epoch + 1)
    BY DEF SplitAt
  <2>1. k < n \/ k >= n
    BY <1>1, <1>2
  <2> QED  BY <1>1, <1>2, <1>3, <1>4, <2>1
<1>6. Seen(epoch, n) = PacketsIn(epoch)
  <2>1. ASSUME NEW k \in PacketsIn(epoch) PROVE k < n
    <3>1. k \in 1 .. Len(packets) /\ packets[k].ts < StartOf(epoch) + Duration
      BY <1>2 DEF PacketsIn
    <3> QED  BY <1>1, <1>2, <1>4, <3>1
  <2> QED  BY <2>1 DEF Seen
<1>7. epoch_packet_count = Cardinality(PacketsIn(epoch))
  BY <1>1, <1>6
<1>8. \A f \in Flows : ideal[f] = CountIn(epoch, f)
  BY <1>1, <1>6 DEF SeenOf, CountIn
<1>9. ASSUME NEW f \in Flows
      PROVE  CountIn(epoch, f) > 0 <=> f \in FlowsIn(epoch)
  <2> DEFINE S == {k \in PacketsIn(epoch) : packets[k].flow = f}
  <2>1. S \in SUBSET (1 .. Len(packets))
    BY <1>2 DEF PacketsIn
  <2>2. IsFiniteSet(S) /\ Cardinality(S) \in Nat
    <3> HIDE DEF S
    <3> QED  BY <1>1, <2>1, PacketsFinite
  <2>3. Cardinality(S) = 0 <=> S = {}
    <3> HIDE DEF S
    <3> QED  BY <2>2, FS_EmptySet
  <2>4. S # {} <=> f \in FlowsIn(epoch)
    BY DEF FlowsIn
  <2>5. CountIn(epoch, f) = Cardinality(S)
    BY DEF CountIn
  <2> HIDE DEF S
  <2> QED  BY <2>2, <2>3, <2>4, <2>5
<1>10. FlowsIn(epoch) \in SUBSET Flows
  BY <1>1, FlowsFinite
<1>11. {f \in Flows : ideal[f] > 0} = FlowsIn(epoch)
  BY <1>8, <1>9, <1>10
<1>12. {f \in FlowsIn(epoch) : IsHeavy(ideal[f])} = HeavyIn(epoch)
  BY <1>7, <1>8, <1>10 DEF IsHeavy, HeavyIn
<1> QED  BY <1>5, <1>6, <1>7, <1>8, <1>11, <1>12

\* The summary of an epoch is what the three properties ask for.
LEMMA SummaryOfEpoch ==
    ASSUME IInv, pc = "packets", ~MorePackets, NEW reports
    PROVE  /\ Counted(Summary(reports), epoch)
           /\ Comparable(Summary(reports), epoch)
           /\ Overestimated(Summary(reports))
<1> DEFINE s == Summary(reports)
           flows == FlowsIn(epoch)
           real == HeavyIn(epoch)
           found == {f \in flows : IsHeavy(Full!Query(full, f))}
<1>1. /\ epoch_packet_count = Cardinality(PacketsIn(epoch))
      /\ {f \in Flows : ideal[f] > 0} = flows
      /\ {f \in flows : IsHeavy(ideal[f])} = real
  BY EpochCounted
<1>0. s = Summary(reports) /\ found = {f \in flows : IsHeavy(Full!Query(full, f))}
  OBVIOUS
<1>3. /\ IsFiniteSet(flows) /\ flows \in SUBSET Flows
      /\ real \in SUBSET flows /\ found \in SUBSET flows
      /\ \A f \in real : IsHeavy(ideal[f])
  BY <1>1, FlowsFinite DEF IInv
<1> HIDE DEF s, flows, real, found
<1>2. /\ s.epoch_id = epoch
      /\ s.total_packets = epoch_packet_count
      /\ s.total_flows = Cardinality(flows)
      /\ \E detected \in SUBSET flows :
           s.disketch_detector = Classified(real, detected, flows)
      /\ DOMAIN s.flow_metrics = real
      /\ config.has_memory =>
           /\ s.full_sketch_detector = Classified(real, found, flows)
           /\ \A f \in real :
                 /\ s.flow_metrics[f].ideal = ideal[f]
                 /\ s.flow_metrics[f].full_sketch = Full!Query(full, f)
      /\ ~config.has_memory => s.full_sketch_detector = reset
  BY <1>0, <1>1 DEF Summary
<1>4. \A detected \in SUBSET flows :
        LET d == Classified(real, detected, flows)
        IN  /\ d.tp + d.fn = Cardinality(real)
            /\ d.fp + d.tn = Cardinality(flows \ real)
            /\ d.fn = Cardinality(real \ detected)
  BY <1>3, ClassifiedCounts
<1>5. /\ s.disketch_detector.tp + s.disketch_detector.fn = Cardinality(real)
      /\ s.disketch_detector.fp + s.disketch_detector.tn
            = Cardinality(flows \ real)
  BY <1>2, <1>4
<1>6. config.has_memory =>
        /\ s.full_sketch_detector.tp + s.full_sketch_detector.fn
              = Cardinality(real)
        /\ s.full_sketch_detector.fp + s.full_sketch_detector.tn
              = Cardinality(flows \ real)
        /\ s.full_sketch_detector.fn = Cardinality(real \ found)
  <2> SUFFICES ASSUME config.has_memory
               PROVE  /\ s.full_sketch_detector.tp + s.full_sketch_detector.fn
                            = Cardinality(real)
                      /\ s.full_sketch_detector.fp + s.full_sketch_detector.tn
                            = Cardinality(flows \ real)
                      /\ s.full_sketch_detector.fn = Cardinality(real \ found)
    OBVIOUS
  <2>1. s.full_sketch_detector = Classified(real, found, flows)
    BY <1>2
  <2> QED  BY <1>3, <1>4, <2>1
<1>7. ASSUME config.has_memory, NEW f \in Flows
      PROVE  /\ ideal[f] \in Nat /\ epoch_packet_count \in Nat
             /\ Full!Query(full, f) \in Nat
             /\ ideal[f] <= Full!Query(full, f)
             /\ Full!Query(full, f) <= epoch_packet_count
  <2>1. /\ full \in [FullRows -> [FullCells -> Nat]]
        /\ ideal[f] \in Nat /\ epoch_packet_count \in Nat
    BY DEF IInv, Typed
  <2>2. PICK r \in FullRows : Full!Query(full, f) = full[r][FullCell[r][f]]
    BY <2>1, FullQuery
  <2>3. FullCell[r][f] \in FullCells
    BY FullAssumption
  <2>4. /\ ideal[f] <= full[r][FullCell[r][f]]
        /\ full[r][FullCell[r][f]] <= epoch_packet_count
    BY <1>7, <2>3 DEF IInv, Counts
  <2> QED  BY <2>1, <2>2, <2>3, <2>4, FullQuery
<1>8. config.has_memory => real \ found = {}
  <2> SUFFICES ASSUME config.has_memory, NEW f \in real PROVE f \in found
    OBVIOUS
  <2>1. f \in Flows /\ f \in flows /\ IsHeavy(ideal[f])
    BY <1>3
  <2>2. /\ ideal[f] \in Nat /\ epoch_packet_count \in Nat
        /\ Full!Query(full, f) \in Nat
        /\ ideal[f] <= Full!Query(full, f)
    BY <1>7, <2>1
  <2>3. IsHeavy(Full!Query(full, f))
    BY <2>1, <2>2, HeavyMonotone
  <2> QED  BY <2>1, <2>3 DEF found
<1>9. Counted(s, epoch)
  BY <1>1, <1>2 DEF Counted, flows
<1>10. Comparable(s, epoch)
  <2>1. reset \in [Outcomes -> Nat]
    BY DEF reset
  <2>2. /\ s.disketch_detector \in [Outcomes -> Nat]
        /\ s.full_sketch_detector \in [Outcomes -> Nat]
    BY <1>2, <1>3, <2>1, ClassifiedType
  <2> QED  BY <1>2, <1>5, <1>6, <2>2 DEF Comparable, flows, real
<1>11. Overestimated(s)
  <2> SUFFICES ASSUME config.has_memory
               PROVE  /\ s.full_sketch_detector.fn = 0
                      /\ \A f \in DOMAIN s.flow_metrics :
                            /\ s.flow_metrics[f].ideal
                                  <= s.flow_metrics[f].full_sketch
                            /\ s.flow_metrics[f].full_sketch
                                  <= s.total_packets
    BY DEF Overestimated
  <2>1. s.full_sketch_detector.fn = 0
    BY <1>6, <1>8, FS_EmptySet
  <2>2. \A f \in real : f \in Flows
    BY <1>3
  <2> QED  BY <1>2, <1>7, <2>1, <2>2
<1> QED  BY <1>9, <1>10, <1>11 DEF s

\* One more summary.
LEMMA EndEpochIInv == IInv /\ EndEpoch => IInv'
<1> SUFFICES ASSUME IInv, EndEpoch PROVE IInv'
  OBVIOUS
<1>0. /\ UNCHANGED <<fixed, packet_index, full, ideal, epoch_packet_count>>
      /\ pc = "packets" /\ ~MorePackets /\ pc' = "epoch"
      /\ epoch' = epoch + 1
      /\ \E reports : report' = Append(report, Summary(reports))
  BY DEF EndEpoch
<1>1. PICK reports : report' = Append(report, Summary(reports))
  BY <1>0
<1>2. /\ epoch \in Nat /\ epoch < TotalEpochs /\ packets # <<>>
      /\ Len(report) = epoch
      /\ \A e \in 1 .. Len(report) :
            /\ Counted(report[e], e - 1) /\ Comparable(report[e], e - 1)
            /\ Overestimated(report[e])
  BY <1>0 DEF IInv, Typed, Position, ReportInv
<1>3. Typed'
  BY <1>0, <1>2 DEF IInv, Typed, fixed
<1>4. Position'
  <2>1. SplitAt(StartOf(epoch + 1))
    BY <1>0, EpochCounted
  <2>2. TotalEpochs \in Nat
    BY <1>2, EpochFacts DEF IInv
  <2>3. /\ packets' # <<>> /\ epoch' <= TotalEpochs'
        /\ SplitAt(StartOf(epoch))'
    BY <1>0, <1>2, <2>1, <2>2, FixedFacts DEF SplitAt
  <2> QED  BY <1>0, <2>3 DEF Position
<1>5. Counts'
  BY <1>0 DEF Counts
<1>6. ReportInv'
  <2> DEFINE s == Summary(reports)
  <2>1. Counted(s, epoch) /\ Comparable(s, epoch) /\ Overestimated(s)
    BY <1>0, SummaryOfEpoch
  <2> HIDE DEF s
  <2>2. PICK S : report \in Seq(S)
    BY DEF IInv, ReportInv
  <2> DEFINE T == S \cup {s}
  <2>3. report \in Seq(T) /\ s \in T
    BY <2>2
  <2>4. report' = Append(report, s)
    BY <1>1 DEF s
  <2> HIDE DEF T
  <2>5. /\ report' \in Seq(T)
        /\ Len(report') = Len(report) + 1
        /\ \A e \in 1 .. Len(report) : report'[e] = report[e]
        /\ report'[Len(report) + 1] = s
    BY <2>3, <2>4
  <2>6. ASSUME NEW e \in 1 .. Len(report')
        PROVE  /\ Counted(report'[e], e - 1) /\ Comparable(report'[e], e - 1)
               /\ Overestimated(report'[e])
    <3>1. CASE e \in 1 .. Len(report)
      BY <1>2, <2>5, <3>1
    <3>2. CASE e = Len(report) + 1
      <4>1. report'[e] = s /\ e - 1 = epoch
        BY <1>2, <2>5, <3>2
      <4> QED  BY <2>1, <4>1
    <3> QED  BY <1>2, <2>5, <3>1, <3>2
  <2>7. \A x, e : /\ Counted(x, e)' <=> Counted(x', e')
                  /\ Comparable(x, e)' <=> Comparable(x', e')
                  /\ Overestimated(x)' <=> Overestimated(x')
    <3>1. /\ config' = config
          /\ \A e : /\ PacketsIn(e)' = PacketsIn(e) /\ FlowsIn(e)' = FlowsIn(e)
                    /\ HeavyIn(e)' = HeavyIn(e)
      BY <1>0, FixedFacts
    <3>2. \A x, e : Counted(x, e)' <=> Counted(x', e')
      BY <3>1 DEF Counted
    <3>3. \A x, e : Comparable(x, e)' <=> Comparable(x', e')
      BY <3>1 DEF Comparable, Outcomes, reset
    <3>4. \A x : Overestimated(x)' <=> Overestimated(x')
      BY <3>1 DEF Overestimated
    <3> QED  BY <3>2, <3>3, <3>4
  <2> QED  BY <1>0, <1>2, <2>5, <2>6, <2>7 DEF ReportInv
<1> QED  BY <1>3, <1>4, <1>5, <1>6 DEF IInv

-----------------------------------------------------------------------------
(* The theorems.                                                           *)

\* After the last epoch.
LEMMA FinishIInv == IInv /\ Finish => IInv'
<1> SUFFICES ASSUME IInv, Finish PROVE IInv'
  OBVIOUS
<1>0. /\ UNCHANGED <<fixed, packet_index, epoch, frags, full, ideal,
                     epoch_packet_count, report>>
      /\ pc = "epoch" /\ pc' = "done" /\ epoch >= TotalEpochs
  BY DEF Finish
<1>1. Typed'
  BY <1>0 DEF IInv, Typed, fixed
<1>2. Position'
  <2>1. /\ packets # <<>> /\ epoch <= TotalEpochs /\ epoch \in Nat
        /\ SplitAt(StartOf(epoch))
    BY <1>0 DEF IInv, Typed, Position
  <2>2. epoch = TotalEpochs
    BY <1>0, <2>1, EpochFacts DEF IInv
  <2>3. /\ packets' # <<>> /\ epoch' = TotalEpochs' /\ SplitAt(StartOf(epoch))'
    BY <1>0, <2>1, <2>2, FixedFacts DEF SplitAt
  <2> QED  BY <1>0, <2>3 DEF Position
<1>3. Counts'
  BY <1>0 DEF Counts
<1>4. ReportInv'
  BY <1>0, ReportsKept DEF IInv
<1> QED  BY <1>1, <1>2, <1>3, <1>4 DEF IInv

\* No step of run, and no stuttering step, breaks the invariant.
LEMMA NextIInv == IInv /\ [Next]_vars => IInv'
<1> SUFFICES ASSUME IInv, [Next]_vars PROVE IInv'
  OBVIOUS
<1>1. CASE UNCHANGED vars
  <2>1. /\ UNCHANGED <<fixed, pc, packet_index, epoch, frags, full, ideal,
                       epoch_packet_count, report>>
    BY <1>1 DEF vars
  <2>2. Typed'
    BY <2>1 DEF IInv, Typed, fixed
  <2>3. Position'
    BY <2>1, FixedFacts DEF IInv, Position, SplitAt
  <2>4. Counts'
    <3>1. Seen(epoch, packet_index)' = Seen(epoch, packet_index)
      BY <2>1, FixedFacts DEF Seen
    <3>2. \A f : SeenOf(epoch, packet_index, f)' = SeenOf(epoch, packet_index, f)
      BY <2>1, <3>1, FixedFacts DEF SeenOf
    <3>3. config' = config
      BY <2>1, FixedFacts
    <3> QED  BY <2>1, <3>1, <3>2, <3>3 DEF IInv, Counts
  <2>5. ReportInv'
    BY <2>1, ReportsKept DEF IInv
  <2> QED  BY <2>2, <2>3, <2>4, <2>5 DEF IInv
<1>2. CASE Start
  BY <1>2, StartIInv
<1>3. CASE BeginEpochs
  BY <1>3, BeginEpochsIInv
<1>4. CASE NextPacket
  BY <1>4, NextPacketIInv
<1>5. CASE EndEpoch
  BY <1>5, EndEpochIInv
<1>6. CASE Finish
  BY <1>6, FinishIInv
<1>7. CASE Returned
  BY <1>1, <1>7 DEF Returned
<1> QED  BY <1>1, <1>2, <1>3, <1>4, <1>5, <1>6, <1>7 DEF Next

\* The invariant holds in every run.
LEMMA Invariance == Spec => []IInv
BY InitIInv, NextIInv, PTL DEF Spec

\* For every trace sorted by time, every epoch duration and every bound on
\* the epochs, a packet is counted in the one epoch its timestamp belongs to
\* and, without a bound, none is left over (DiSketch.cpp:20-23, 60-82).
THEOREM EachPacketInItsEpoch == Spec => []EpochPartition
<1>1. IInv => EpochPartition
  <2> SUFFICES ASSUME IInv PROVE EpochPartition
    OBVIOUS
  <2>1. \A e \in 1 .. Len(report) :
          /\ report[e].epoch_id = e - 1
          /\ report[e].total_packets = Cardinality(PacketsIn(e - 1))
          /\ report[e].total_flows = Cardinality(FlowsIn(e - 1))
    BY DEF IInv, ReportInv, Counted
  <2>2. ASSUME pc = "done", config.max_epochs = 0
        PROVE  packet_index = Len(packets) + 1
    <3>1. CASE packets = <<>>
      BY <2>2, <3>1 DEF IInv, Position
    <3>2. CASE packets # <<>>
      <4>1. epoch = TotalEpochs /\ SplitAt(StartOf(epoch))
        BY <2>2, <3>2 DEF IInv, Position
      <4>2. LastTs < StartOf(epoch)
        BY <2>2, <3>2, <4>1, EpochFacts DEF IInv
      <4>3. Len(packets) \in Nat /\ packet_index \in 1 .. Len(packets) + 1
        BY TraceFacts DEF IInv, Typed
      <4>4. Len(packets) \in 1 .. Len(packets)
        BY <3>2, <4>3, TraceFacts DEF IInv
      <4>5. Len(packets) < packet_index
        BY <4>1, <4>2, <4>4 DEF SplitAt, LastTs
      <4> QED  BY <4>3, <4>5
    <3> QED  BY <3>1, <3>2
  <2> QED  BY <2>1, <2>2 DEF EpochPartition
<1> QED  BY <1>1, Invariance, PTL

\* For every trace and threshold both detectors classify each flow of an
\* epoch once, and against the same heavy flows (DiSketch.cpp:113-172).
THEOREM SameHeavyFlows == Spec => []DetectorsComparable
<1>1. IInv => DetectorsComparable
  BY DEF IInv, ReportInv, Comparable, DetectorsComparable
<1> QED  BY <1>1, Invariance, PTL

\* For every size and hash of an undivided CountMin its answers in an epoch
\* are at least the exact counts and at most the epoch's packets, and no
\* heavy flow is missed (DiSketch.cpp:51-53, 135-151).
THEOREM NoHeavyFlowMissed == Spec => []FullSketchOverestimates
<1>1. IInv => FullSketchOverestimates
  BY DEF IInv, ReportInv, Overestimated, FullSketchOverestimates
<1> QED  BY <1>1, Invariance, PTL

\* A multiple of d reaches x when its factor reaches x / d, rounded up.
LEMMA Ceiling ==
    ASSUME NEW v \in Nat, NEW x \in Nat, NEW d \in Nat \ {0}
    PROVE  v * d >= x <=> v >= -((-x) \div d)
<1> DEFINE q == (-x) \div d
<1>1. q \in Int /\ q * d <= -x /\ -x < q * d + d
  OBVIOUS
<1> HIDE DEF q
<1>2. PICK c \in Int : c = -q
  BY <1>1
<1>3. c * d = -(q * d)
  BY <1>1, <1>2
<1>4. CASE v >= c
  <2>1. v * d >= c * d
    BY <1>2, <1>4
  <2> QED  BY <1>1, <1>2, <1>3, <1>4, <2>1
<1>5. CASE v < c
  <2>1. v + 1 <= c
    BY <1>2, <1>5
  <2>2. (v + 1) * d <= c * d /\ (v + 1) * d = v * d + d
    BY <1>2, <2>1
  <2> QED  BY <1>1, <1>2, <1>3, <1>5, <2>2
<1> QED  BY <1>2, <1>4, <1>5 DEF q

\* A flow is heavy when its count reaches the share, rounded up.
LEMMA HeavyFromThreshold ==
    ASSUME NEW v \in Nat, epoch_packet_count \in Nat
    PROVE  IsHeavy(v)
              <=> v >= -((-(epoch_packet_count * RatioNum)) \div RatioDen)
<1>1. epoch_packet_count * RatioNum \in Nat
  BY RatioAssumption
<1>2. RatioDen \in Nat \ {0}
  BY RatioAssumption
<1> QED  BY <1>1, <1>2, Ceiling DEF IsHeavy

\* For every trace and ratio run's own classification is that of detect with
\* the threshold rounded up (DiSketch.cpp:113-168,
\* HeavyHitterDetector.cpp:9-37).
THEOREM SameAsDetect == Spec => ClassifiedAsDetected
<1> DEFINE share == -((-(epoch_packet_count * RatioNum)) \div RatioDen)
           counts == [f \in FlowsIn(epoch) |-> CountIn(epoch, f)]
           answers == [f \in FlowsIn(epoch) |-> Full!Query(full, f)]
           s == report'[Len(report')]
<1>1. ASSUME IInv, EndEpoch, config.has_memory
      PROVE  /\ s.total_packets = epoch_packet_count
             /\ s.full_sketch_detector = detect(counts, answers, share)
  <2>1. pc = "packets" /\ ~MorePackets
    BY <1>1 DEF EndEpoch
  <2>2. PICK reports : report' = Append(report, Summary(reports))
    BY <1>1 DEF EndEpoch
  <2>3. s = Summary(reports)
    <3>1. PICK S : report \in Seq(S)
      BY <1>1 DEF IInv, ReportInv
    <3> DEFINE T == S \cup {Summary(reports)}
    <3>2. report \in Seq(T) /\ Summary(reports) \in T
      BY <3>1
    <3> HIDE DEF T
    <3> QED  BY <2>2, <3>2
  <2>4. /\ {f \in Flows : ideal[f] > 0} = FlowsIn(epoch)
        /\ {f \in FlowsIn(epoch) : IsHeavy(ideal[f])} = HeavyIn(epoch)
        /\ \A f \in Flows : ideal[f] = CountIn(epoch, f)
    BY <1>1, <2>1, EpochCounted
  <2>5. FlowsIn(epoch) \in SUBSET Flows
    BY <1>1, FlowsFinite DEF IInv
  <2>6. ASSUME NEW f \in FlowsIn(epoch)
        PROVE  /\ IsHeavy(ideal[f]) <=> CountIn(epoch, f) >= share
               /\ IsHeavy(Full!Query(full, f)) <=> Full!Query(full, f) >= share
    <3>1. /\ ideal[f] \in Nat /\ epoch_packet_count \in Nat
          /\ Full!Query(full, f) \in Nat
      BY <1>1, <2>5, FullQuery DEF IInv, Typed
    <3> QED  BY <2>4, <2>5, <3>1, HeavyFromThreshold
  <2> HIDE DEF share, s
  <2> DEFINE found == {f \in FlowsIn(epoch) : IsHeavy(Full!Query(full, f))}
  <2>7. /\ Summary(reports).total_packets = epoch_packet_count
        /\ Summary(reports).full_sketch_detector
              = Classified(HeavyIn(epoch), found, FlowsIn(epoch))
    BY <1>1, <2>4 DEF Summary
  <2>8. detect(counts, answers, share)
           = Classified({f \in FlowsIn(epoch) : CountIn(epoch, f) >= share},
                        {f \in FlowsIn(epoch) : Full!Query(full, f) >= share},
                        FlowsIn(epoch))
    <3>1. /\ DOMAIN counts = FlowsIn(epoch)
          /\ {f \in FlowsIn(epoch) : counts[f] >= share}
                = {f \in FlowsIn(epoch) : CountIn(epoch, f) >= share}
          /\ {f \in FlowsIn(epoch) : answers[f] >= share}
                = {f \in FlowsIn(epoch) : Full!Query(full, f) >= share}
      OBVIOUS
    <3> HIDE DEF counts, answers
    <3> QED  BY <3>1 DEF detect
  <2>9. /\ {f \in FlowsIn(epoch) : CountIn(epoch, f) >= share} = HeavyIn(epoch)
        /\ {f \in FlowsIn(epoch) : Full!Query(full, f) >= share} = found
    BY <2>4, <2>6
  <2> HIDE DEF counts, answers, found
  <2> QED  BY <2>3, <2>7, <2>8, <2>9
<1>2. ASSUME IInv, [Next]_vars, Closes, config.has_memory
      PROVE  s.full_sketch_detector
                = detect(counts, answers,
                         -((-(s.total_packets * RatioNum)) \div RatioDen))
  <2>1. EndEpoch
    BY <1>2 DEF Closes, Next, Start, BeginEpochs, NextPacket, Finish,
                Returned, vars
  <2>2. /\ s.total_packets = epoch_packet_count
        /\ s.full_sketch_detector = detect(counts, answers, share)
    BY <1>1, <1>2, <2>1
  <2> HIDE DEF s, counts, answers
  <2> QED  BY <2>2
<1>3. IInv /\ [Next]_vars => [Closes =>
        LET e == report'[Len(report')]
            counted == [f \in FlowsIn(epoch) |-> CountIn(epoch, f)]
            answered == [f \in FlowsIn(epoch) |-> Full!Query(full, f)]
            threshold == -((-(e.total_packets * RatioNum)) \div RatioDen)
        IN  config.has_memory =>
                e.full_sketch_detector = detect(counted, answered, threshold)
      ]_vars
  BY <1>2
<1> QED  BY <1>3, Invariance, PTL DEF Spec, ClassifiedAsDetected

\* Every step of every run brings it nearer to its end, whatever the trace
\* (DiSketch.cpp:44-97).
THEOREM RunProgresses == Spec => RunAdvances
<1>1. ASSUME IInv, Next, ~UNCHANGED vars
      PROVE  Distance' > Distance
  <2>1. packet_index \in Int /\ epoch \in Int
    BY <1>1, TraceFacts DEF IInv, Typed
  <2>2. CASE Start
    <3>1. /\ pc = "start" /\ pc' \in {"done", "epoch"}
          /\ packet_index' = packet_index /\ epoch' = epoch
      BY <2>2 DEF Start
    <3> QED  BY <2>1, <3>1 DEF Distance
  <2>3. CASE BeginEpochs
    <3>1. /\ pc = "epoch" /\ pc' = "packets"
          /\ packet_index' = packet_index /\ epoch' = epoch
      BY <2>3 DEF BeginEpochs
    <3> QED  BY <2>1, <3>1 DEF Distance
  <2>4. CASE NextPacket
    <3>1. /\ pc = "packets" /\ pc' = "packets"
          /\ packet_index' = packet_index + 1 /\ epoch' = epoch
      BY <2>4 DEF NextPacket
    <3> QED  BY <2>1, <3>1 DEF Distance
  <2>5. CASE EndEpoch
    <3>1. /\ pc = "packets" /\ pc' = "epoch"
          /\ packet_index' = packet_index /\ epoch' = epoch + 1
      BY <2>5 DEF EndEpoch
    <3> QED  BY <2>1, <3>1 DEF Distance
  <2>6. CASE Finish
    <3>1. /\ pc = "epoch" /\ pc' = "done"
          /\ packet_index' = packet_index /\ epoch' = epoch
      BY <2>6 DEF Finish
    <3> QED  BY <2>1, <3>1 DEF Distance
  <2> QED  BY <1>1, <2>2, <2>3, <2>4, <2>5, <2>6 DEF Next, Returned
<1>2. IInv /\ [Next]_vars => [Distance' > Distance]_vars
  BY <1>1
<1> QED  BY <1>2, Invariance, PTL DEF Spec, RunAdvances

\* What the simulator program does to the run's state is DiSketch::run, or
\* nothing: whatever holds of run holds in the program
\* (disketch_simulator.cpp:37-106).
THEOREM SimulatorImplementsRun == SimSpec => Spec
<1>1. SimInit => Init
  BY DEF SimInit
<1>2. [SimNext]_simVars => [Next]_vars
  BY DEF SimNext, ParseOptions, ReadConfig, ReadPackets, Run, Emit, Exited,
         GoOn, Return, Next, simVars
<1> QED  BY <1>1, <1>2, PTL DEF SimSpec, Spec

-----------------------------------------------------------------------------
(* The totals.                                                             *)

\* When something has been printed, it was the totals of a whole run.
SimInv ==
    /\ stage = "run" => packets # <<>>
    /\ printed # <<>> =>
          /\ stage = "exited" /\ exit_code = 0
          /\ pc = "done" /\ packets # <<>>
          /\ printed = <<[method |-> "FullSketch",
                          detector |-> Total("full_sketch_detector")],
                         [method |-> "DiSketch",
                          detector |-> Total("disketch_detector")]>>

\* Nothing is printed before the end, and then the run's state is final.
LEMMA SimInvariance == SimSpec => []SimInv
<1>1. SimInit => SimInv
  BY DEF SimInit, SimInv
<1>2. SimInv /\ [SimNext]_simVars => SimInv'
  <2> SUFFICES ASSUME SimInv, [SimNext]_simVars PROVE SimInv'
    OBVIOUS
  <2>1. ASSUME UNCHANGED vars
        PROVE  /\ packets' = packets /\ pc' = pc
               /\ \A field : Total(field)' = Total(field')
    <3>1. packets' = packets /\ pc' = pc /\ report' = report
      BY <2>1 DEF vars, fixed
    <3> QED  BY <3>1 DEF Total, Outcomes
  <2>2. CASE UNCHANGED simVars
    <3>1. UNCHANGED <<vars, stage, exit_code, printed>>
      BY <2>2 DEF simVars
    <3> QED  BY <2>1, <3>1 DEF SimInv
  <2>3. CASE ParseOptions \/ ReadConfig \/ ReadPackets
    <3>1. /\ UNCHANGED <<vars, printed>> /\ stage # "exited"
          /\ stage' = "run" => packets # <<>>
      BY <2>3 DEF ParseOptions, ReadConfig, ReadPackets, GoOn, Return
    <3> QED  BY <2>1, <3>1 DEF SimInv
  <2>4. CASE Run
    <3>1. stage = "run" /\ UNCHANGED <<stage, exit_code, printed>>
      BY <2>4 DEF Run
    <3>2. packets' = packets
      BY <2>4 DEF Run, Start, BeginEpochs, NextPacket, EndEpoch, Finish, fixed
    <3> QED  BY <3>1, <3>2 DEF SimInv
  <2>5. CASE Emit
    <3>1. /\ stage = "run" /\ stage' = "exited" /\ exit_code' = 0
          /\ pc = "done" /\ UNCHANGED vars
          /\ printed' = <<[method |-> "FullSketch",
                           detector |-> Total("full_sketch_detector")],
                          [method |-> "DiSketch",
                           detector |-> Total("disketch_detector")]>>
      BY <2>5 DEF Emit
    <3> QED  BY <2>1, <3>1 DEF SimInv
  <2>6. CASE Exited
    BY <2>2, <2>6 DEF Exited
  <2> QED  BY <2>2, <2>3, <2>4, <2>5, <2>6 DEF SimNext
<1> QED  BY <1>1, <1>2, PTL DEF SimSpec

\* Do the counters of d account for all epochs of the trace?
Accounts(d) ==
    /\ d.tp + d.fn = SumOfEpochs(LAMBDA e : Cardinality(HeavyIn(e)))
    /\ d.fp + d.tn = SumOfEpochs(LAMBDA e : Cardinality(FlowsIn(e)))
                       - SumOfEpochs(LAMBDA e : Cardinality(HeavyIn(e)))

\* If the detectors of all epochs account for their epochs, their totals
\* account for the trace.
LEMMA TotalAccounts ==
    ASSUME IInv, pc = "done", packets # <<>>, NEW field,
           \A e \in 1 .. Len(report) :
              /\ report[e][field] \in [Outcomes -> Nat]
              /\ report[e][field].tp + report[e][field].fn
                    = Cardinality(HeavyIn(e - 1))
              /\ report[e][field].fp + report[e][field].tn
                    = Cardinality(FlowsIn(e - 1) \ HeavyIn(e - 1))
    PROVE  Accounts(Total(field))
<1> DEFINE D == 1 .. TotalEpochs
           Sum(fun) == SumFunctionOnSet(fun, D)
           count(o) == [e \in D |-> report[e][field][o]]
           heavy == [e \in D |-> Cardinality(HeavyIn(e - 1))]
           rest == [e \in D |-> Cardinality(FlowsIn(e - 1) \ HeavyIn(e - 1))]
           all == [e \in D |-> Cardinality(FlowsIn(e - 1))]
<1>1. /\ TotalEpochs \in Nat /\ Len(report) = TotalEpochs
      /\ DOMAIN report = D
  <2>1. /\ epoch = TotalEpochs /\ Len(report) = epoch
        /\ \E S : report \in Seq(S)
    BY DEF IInv, Position, ReportInv
  <2>2. TotalEpochs \in Nat
    BY EpochFacts DEF IInv
  <2>3. DOMAIN report = 1 .. Len(report)
    BY <2>1
  <2> QED  BY <2>1, <2>2, <2>3
<1>2. IsFiniteSet(D)
  BY <1>1, FS_Interval
<1>3. ASSUME NEW e \in D
      PROVE  /\ heavy[e] \in Nat /\ rest[e] \in Nat
             /\ all[e] = heavy[e] + rest[e]
  <2> DEFINE F == FlowsIn(e - 1)
             H == HeavyIn(e - 1)
  <2>1. IsFiniteSet(F) /\ H = F \cap H
    BY FlowsFinite DEF IInv, HeavyIn
  <2>2. /\ Cardinality(F \cap H) \in Nat /\ Cardinality(F \ H) \in Nat
        /\ Cardinality(F \cap H) + Cardinality(F \ H) = Cardinality(F)
    <3> HIDE DEF F, H
    <3> QED  BY <2>1, CutInTwo
  <2>3. /\ heavy[e] = Cardinality(H) /\ rest[e] = Cardinality(F \ H)
        /\ all[e] = Cardinality(F)
    OBVIOUS
  <2> HIDE DEF F, H, heavy, rest, all
  <2> QED  BY <2>1, <2>2, <2>3
<1>4. ASSUME NEW e \in D
      PROVE  /\ count("tp")[e] \in Nat /\ count("fn")[e] \in Nat
             /\ count("fp")[e] \in Nat /\ count("tn")[e] \in Nat
             /\ heavy[e] = count("tp")[e] + count("fn")[e]
             /\ rest[e] = count("fp")[e] + count("tn")[e]
  BY <1>1 DEF Outcomes
<1>5. /\ Total(field).tp = Sum(count("tp")) /\ Total(field).fn = Sum(count("fn"))
      /\ Total(field).fp = Sum(count("fp")) /\ Total(field).tn = Sum(count("tn"))
  BY <1>1 DEF Total, Outcomes, SumFunction
<1>6. /\ SumOfEpochs(LAMBDA e : Cardinality(HeavyIn(e))) = Sum(heavy)
      /\ SumOfEpochs(LAMBDA e : Cardinality(FlowsIn(e))) = Sum(all)
  BY DEF SumOfEpochs, SumFunction
<1> HIDE DEF D, count, heavy, rest, all
<1>7. /\ Sum(heavy) = Sum(count("tp")) + Sum(count("fn"))
      /\ Sum(rest) = Sum(count("fp")) + Sum(count("tn"))
      /\ Sum(all) = Sum(heavy) + Sum(rest)
  <2>1. Sum(heavy) = Sum(count("tp")) + Sum(count("fn"))
    BY <1>2, <1>4, SumAdd
  <2>2. Sum(rest) = Sum(count("fp")) + Sum(count("tn"))
    BY <1>2, <1>4, SumAdd
  <2>3. Sum(all) = Sum(heavy) + Sum(rest)
    BY <1>2, <1>3, SumAdd
  <2> QED  BY <2>1, <2>2, <2>3
<1>8. Sum(heavy) \in Nat /\ Sum(rest) \in Nat
  BY <1>2, <1>3, SumType
<1> HIDE DEF Sum
<1> QED  BY <1>5, <1>6, <1>7, <1>8 DEF Accounts

\* The totals of nothing.
LEMMA TotalOfResets ==
    ASSUME IInv, \A e \in 1 .. Len(report) : report[e].full_sketch_detector = reset
    PROVE  Total("full_sketch_detector") = reset
<1>1. DOMAIN report = 1 .. Len(report) /\ Len(report) \in Nat
  BY DEF IInv, ReportInv
<1>2. IsFiniteSet(DOMAIN report)
  BY <1>1, FS_Interval
<1>3. ASSUME NEW o \in Outcomes
      PROVE  SumFunction([e \in DOMAIN report |->
                             report[e]["full_sketch_detector"][o]]) = 0
  <2> DEFINE zeros == [e \in DOMAIN report |-> report[e]["full_sketch_detector"][o]]
  <2>1. \A e \in DOMAIN report : zeros[e] = 0
    BY <1>1 DEF reset
  <2>2. DOMAIN zeros = DOMAIN report
    OBVIOUS
  <2> HIDE DEF zeros
  <2>3. SumFunctionOnSet(zeros, DOMAIN report) = 0
    BY <1>2, <2>1, SumOfZeros
  <2>4. SumFunction(zeros) = 0
    BY <2>2, <2>3 DEF SumFunction
  <2> QED  BY <2>4 DEF zeros
<1> QED  BY <1>3 DEF Total, reset

\* For every trace, ratio and configuration: what is printed accounts for
\* every flow of every epoch once, and for its heavy flows as such
\* (disketch_simulator.cpp:12-35, 90-104).
THEOREM TotalsAccount == SimSpec => []TotalsAccountForTrace
<1>1. ASSUME IInv, SimInv, printed # <<>>
      PROVE  TotalsAccountForTrace
  <2> DEFINE full_ == Total("full_sketch_detector")
             dis == Total("disketch_detector")
  <2>1. /\ exit_code = 0 /\ pc = "done" /\ packets # <<>>
        /\ printed = <<[method |-> "FullSketch", detector |-> full_],
                       [method |-> "DiSketch", detector |-> dis]>>
    BY <1>1 DEF SimInv
  <2>2. \A e \in 1 .. Len(report) : Comparable(report[e], e - 1)
    BY <1>1 DEF IInv, ReportInv
  <2>3. Accounts(dis)
    BY <1>1, <2>1, <2>2, TotalAccounts DEF Comparable
  <2>4. IF config.has_memory THEN Accounts(full_) ELSE full_ = reset
    <3>1. CASE config.has_memory
      BY <1>1, <2>1, <2>2, <3>1, TotalAccounts DEF Comparable
    <3>2. CASE ~config.has_memory
      BY <1>1, <2>2, <3>2, TotalOfResets DEF Comparable
    <3> QED  BY <3>1, <3>2
  <2> HIDE DEF full_, dis
  <2>5. /\ printed[1].detector = full_ /\ printed[2].detector = dis
        /\ [k \in DOMAIN printed |-> printed[k].method]
              = <<"FullSketch", "DiSketch">>
    BY <2>1
  <2> QED  BY <2>1, <2>3, <2>4, <2>5 DEF TotalsAccountForTrace, Accounts
<1>2. IInv /\ SimInv => TotalsAccountForTrace
  BY <1>1 DEF TotalsAccountForTrace
<1> QED  BY <1>2, Invariance, SimInvariance, SimulatorImplementsRun, PTL

=============================================================================
