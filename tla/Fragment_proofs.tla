--------------------------- MODULE Fragment_proofs ---------------------------
(***************************************************************************)
(* What each method of class Fragment does to the fields of the object,    *)
(* for every setting, seed, sketch size and time.                          *)
(***************************************************************************)
EXTENDS Fragment, Arithmetic_proofs

-----------------------------------------------------------------------------
(* Sketches, for every placement of the flows.                             *)

\* The initial sketch is one.
LEMMA EmptySketchType == EmptySketch \in Sketches
BY DEF EmptySketch, Sketches

\* Counting a packet keeps every counter a natural number.
LEMMA UpdateType ==
    ASSUME NEW sk \in Sketches, NEW f \in Flows
    PROVE  Update(sk, f) \in Sketches
BY CellAssumption DEF Update, Sketches

\* query returns the least of the flow's counters.
LEMMA QueryIsLeast ==
    ASSUME NEW sk \in Sketches, NEW f \in Flows
    PROVE  /\ Query(sk, f) \in Nat
           /\ \E r \in Rows : Query(sk, f) = sk[r][Cell[r][f]]
           /\ \A r \in Rows : Query(sk, f) <= sk[r][Cell[r][f]]
<1> DEFINE counters == {sk[r][Cell[r][f]] : r \in Rows}
<1>1. counters \in SUBSET Nat /\ counters # {}
  BY CellAssumption, RowsAssumption DEF Sketches
<1>2. \E v \in counters : \A w \in counters : v <= w
  <2> HIDE DEF counters
  <2> QED  BY <1>1, LeastElement
<1>3. /\ Query(sk, f) \in counters
      /\ \A w \in counters : Query(sk, f) <= w
  BY <1>2 DEF Query
<1> QED BY <1>1, <1>3

\* A packet raises the least counter of its own flow by exactly one, whatever
\* other flows share its counters: new_ - old_ of update_sketch_and_rho
\* (Fragment.cpp:183-191) is 1 for a CountMin.  It is for a CountSketch where
\* no flows collide; elsewhere its signed counters answer something else.
LEMMA UpdateRaisesQueryByOne ==
    ASSUME NEW sk \in Sketches, NEW f \in Flows
    PROVE  Query(Update(sk, f), f) = Query(sk, f) + 1
<1> DEFINE up == Update(sk, f)
<1>1. up \in Sketches
  BY UpdateType
<1>2. \A r \in Rows : up[r][Cell[r][f]] = sk[r][Cell[r][f]] + 1
  BY CellAssumption DEF Update, Sketches
<1>3. \A r \in Rows : sk[r][Cell[r][f]] \in Nat
  BY CellAssumption DEF Sketches
<1>4. PICK r \in Rows : Query(sk, f) = sk[r][Cell[r][f]]
  BY QueryIsLeast
<1>5. PICK q \in Rows : Query(up, f) = up[q][Cell[q][f]]
  BY <1>1, QueryIsLeast
<1>6. Query(up, f) <= up[r][Cell[r][f]]
  BY <1>1, QueryIsLeast
<1>7. Query(sk, f) <= sk[q][Cell[q][f]]
  BY QueryIsLeast
<1> HIDE DEF up
<1>8. Query(up, f) = Query(sk, f) + 1
  BY <1>2, <1>3, <1>4, <1>5, <1>6, <1>7
<1> QED BY <1>8 DEF up

-----------------------------------------------------------------------------
(* Sampling.                                                               *)

\* A flow is sampled in exactly one subepoch or, if it is boosted and there
\* are at least two, in exactly two different ones: the second sample is
\* never the first one over again (Fragment.cpp:133-152).
THEOREM WindowsOfFlow ==
    ASSUME NEW f \in Flows, NEW seed \in HashSeeds, NEW total \in Nat \ {0},
           NEW single_hop \in BOOLEAN, NEW boost \in BOOLEAN
    PROVE  \E a \in 0 .. total - 1, b \in 0 .. total - 1 :
              /\ Windows(f, seed, total, single_hop, boost) = {a, b}
              /\ (boost /\ single_hop /\ total >= 2) <=> a # b
<1> DEFINE a == seed[f] % total
           h == total \div 2
           b == (a + h) % total
           T == boost /\ single_hop /\ total >= 2
           W == Windows(f, seed, total, single_hop, boost)
<1>1. a \in 0 .. total - 1
  BY RemainderBounds DEF HashSeeds
<1>2. h \in Nat /\ h < total /\ (total >= 2 => h >= 1)
  OBVIOUS
<1>3. b \in 0 .. total - 1
  <2>1. a + h \in Nat
    BY <1>1, <1>2
  <2> QED BY <2>1, RemainderBounds
<1>4. ASSUME T PROVE a # b
  <2> HIDE DEF a, h
  <2>1. /\ a + h \in Nat
        /\ a + h < total + total
    BY <1>1, <1>2
  <2>2. a + h = ((a + h) \div total) * total + b
    BY <2>1, RemainderBounds
  <2> HIDE DEF b
  <2>3. CASE a + h < total
    <3>1. (a + h) \div total = 0
      BY <2>1, <2>3, DivisionUnique
    <3>2. b = a + h
      BY <2>2, <3>1, <1>1, <1>2, <1>3
    <3> QED BY <3>2, <1>1, <1>2, <1>4
  <2>4. CASE a + h >= total
    <3>1. (a + h) \div total = 1
      BY <2>1, <2>4, DivisionUnique
    <3>2. b = a + h - total
      BY <2>2, <3>1, <1>1, <1>2, <1>3
    <3> QED BY <3>2, <1>1, <1>2
  <2> QED BY <2>3, <2>4, <1>1, <1>2
<1>5. \A i : ShouldTrack(f, seed, i, total, single_hop, boost)
                <=> i = a \/ (T /\ i = b)
  BY DEF ShouldTrack, Larger
<1>6. CASE T
  <2>1. W = {a, b}
    BY <1>1, <1>3, <1>5, <1>6 DEF Windows
  <2> HIDE DEF a, b, W
  <2> QED BY <1>1, <1>3, <1>4, <1>6, <2>1 DEF W
<1>7. CASE ~T
  <2>1. W = {a, a}
    BY <1>1, <1>5, <1>7 DEF Windows
  <2> HIDE DEF a, b, W
  <2> QED BY <1>1, <1>7, <2>1 DEF W
<1> QED BY <1>6, <1>7

-----------------------------------------------------------------------------
(* The stored rho.                                                         *)

\* A rounded-down root is a natural number.
LEMMA SquareRootType ==
    ASSUME NEW n \in Int
    PROVE  SquareRoot(n) \in Nat
<1> DEFINE S == {r \in 1..n : r * r <= n}
<1>1. IsFiniteSet(1..n)
  BY FS_Interval
<1>2. IsFiniteSet(S) /\ Cardinality(S) \in Nat
  <2> HIDE DEF S
  <2>1. S \in SUBSET (1..n)
    BY DEF S
  <2> QED BY <1>1, <2>1, FS_Subset, FS_CardinalityType
<1> QED BY <1>2 DEF SquareRoot

\* The stored rho of a record is an integer, for every kind of sketch.
LEMMA RhoEstimateType ==
    ASSUME NEW cfg \in FragmentSettings, NEW rho \in Nat
    PROVE  RhoEstimate(cfg, rho) \in Nat
<1>1. RhoScale * rho \in Nat /\ RhoScale * RhoScale * rho \in Nat
  BY RhoScaleAssumption
<1>2. SquareRoot(RhoScale * RhoScale * rho) \in Nat
  BY <1>1, SquareRootType
<1>3. cfg.kind \in SketchKinds
  BY DEF FragmentSettings
<1> QED BY <1>1, <1>2, <1>3 DEF RhoEstimate, SketchKinds

-----------------------------------------------------------------------------
(* The methods.                                                            *)

\* The record flush_current emits.
NewRecord(cfg, s) ==
    [fragment_index |-> cfg.index, epoch_id |-> s.epoch_id,
     subepoch_id |-> s.current_subepoch, total_subepochs |-> s.subepoch_count,
     hash_seed |-> s.hash_seed, packet_count |-> s.packet_counter,
     rho_estimate |-> RhoEstimate(cfg, s.current_rho), snapshot |-> s.sketch]

\* The record flush_current emits is a SubepochRecord (Fragment.cpp:109-118).
LEMMA NewRecordType ==
    ASSUME NEW cfg \in FragmentSettings, NEW s \in FragmentStates
    PROVE  NewRecord(cfg, s) \in SubepochRecords
<1>1. RhoEstimate(cfg, s.current_rho) \in Nat
  BY RhoEstimateType DEF FragmentStates
<1> QED BY <1>1 DEF NewRecord, SubepochRecords, FragmentStates, FragmentSettings

\* flush_current changes the records, the sketch and rho only, and only
\* when packets were counted (Fragment.cpp:104-123).
LEMMA FlushCurrentEffect ==
    ASSUME NEW cfg \in FragmentSettings, NEW s \in FragmentStates
    PROVE  LET r == FlushCurrent(cfg, s)
           IN  /\ r \in FragmentStates
               /\ r.subepoch_count = s.subepoch_count
               /\ r.subepoch_duration = s.subepoch_duration
               /\ r.epoch_id = s.epoch_id
               /\ r.epoch_start = s.epoch_start
               /\ r.current_subepoch = s.current_subepoch
               /\ r.packet_counter = s.packet_counter
               /\ r.hash_seed = s.hash_seed
               /\ s.packet_counter = 0 => r = s
               /\ s.packet_counter # 0 =>
                     /\ r.emitted_records =
                           Append(s.emitted_records, NewRecord(cfg, s))
                     /\ r.sketch = EmptySketch
                     /\ r.current_rho = 0
<1>1. CASE s.packet_counter = 0
  BY <1>1 DEF FlushCurrent
<1>2. CASE s.packet_counter # 0
  <2>1. FlushCurrent(cfg, s) =
          [s EXCEPT !.emitted_records = Append(@, NewRecord(cfg, s)),
                    !.sketch = EmptySketch, !.current_rho = 0]
    BY <1>2 DEF FlushCurrent, NewRecord
  <2>2. Append(s.emitted_records, NewRecord(cfg, s)) \in Seq(SubepochRecords)
    BY NewRecordType DEF FragmentStates
  <2> DEFINE recs == Append(s.emitted_records, NewRecord(cfg, s))
  <2> HIDE DEF recs
  <2>3. FlushCurrent(cfg, s) =
          [s EXCEPT !.emitted_records = recs, !.sketch = EmptySketch,
                    !.current_rho = 0]
    BY <2>1 DEF recs
  <2>4. recs \in Seq(SubepochRecords)
    BY <2>2 DEF recs
  <2>5. FlushCurrent(cfg, s) \in FragmentStates
    <3>1. EmptySketch \in Sketches /\ 0 \in Nat
      BY EmptySketchType
    <3>2. [s EXCEPT !.emitted_records = recs] \in FragmentStates
      BY <2>4 DEF FragmentStates
    <3>3. [[s EXCEPT !.emitted_records = recs] EXCEPT !.sketch = EmptySketch]
            \in FragmentStates
      BY <3>1, <3>2 DEF FragmentStates
    <3>4. [[[s EXCEPT !.emitted_records = recs] EXCEPT !.sketch = EmptySketch]
             EXCEPT !.current_rho = 0] \in FragmentStates
      BY <3>1, <3>3 DEF FragmentStates
    <3> QED BY <2>3, <3>4
  <2>6. /\ FlushCurrent(cfg, s).emitted_records = recs
        /\ FlushCurrent(cfg, s).sketch = EmptySketch
        /\ FlushCurrent(cfg, s).current_rho = 0
    BY <2>3 DEF FragmentStates
  <2>7. /\ FlushCurrent(cfg, s).subepoch_count = s.subepoch_count
        /\ FlushCurrent(cfg, s).subepoch_duration = s.subepoch_duration
        /\ FlushCurrent(cfg, s).epoch_id = s.epoch_id
        /\ FlushCurrent(cfg, s).epoch_start = s.epoch_start
        /\ FlushCurrent(cfg, s).current_subepoch = s.current_subepoch
        /\ FlushCurrent(cfg, s).packet_counter = s.packet_counter
        /\ FlushCurrent(cfg, s).hash_seed = s.hash_seed
    BY <2>3 DEF FragmentStates
  <2> QED BY <1>2, <2>5, <2>6, <2>7 DEF recs
<1> QED BY <1>1, <1>2

\* flush_until advances to the target, forgets the packet counter on the
\* way, and leaves the object alone when the target is not ahead
\* (Fragment.cpp:125-131).
LEMMA FlushUntilEffect ==
    ASSUME NEW cfg \in FragmentSettings, NEW s \in FragmentStates,
           NEW target \in Nat
    PROVE  LET r == FlushUntil(cfg, s, target)
           IN  /\ r \in FragmentStates
               /\ r.subepoch_count = s.subepoch_count
               /\ r.subepoch_duration = s.subepoch_duration
               /\ r.epoch_id = s.epoch_id
               /\ r.epoch_start = s.epoch_start
               /\ r.hash_seed = s.hash_seed
               /\ target <= s.current_subepoch => r = s
               /\ s.current_subepoch < target =>
                     /\ r.current_subepoch = target
                     /\ r.packet_counter = 0
                     /\ r.emitted_records = FlushCurrent(cfg, s).emitted_records
                     /\ r.sketch = FlushCurrent(cfg, s).sketch
                     /\ r.current_rho = FlushCurrent(cfg, s).current_rho
<1>0. s.current_subepoch \in Nat
  BY DEF FragmentStates
<1>1. CASE target <= s.current_subepoch
  BY <1>0, <1>1 DEF FlushUntil
<1>2. CASE s.current_subepoch < target
  <2>1. FlushUntil(cfg, s, target) =
          [FlushCurrent(cfg, s) EXCEPT !.current_subepoch = target,
                                       !.packet_counter = 0]
    BY <1>2 DEF FlushUntil
  <2> DEFINE p == FlushCurrent(cfg, s)
             q == FlushUntil(cfg, s, target)
  <2>2. /\ p \in FragmentStates
        /\ p.subepoch_count = s.subepoch_count
        /\ p.subepoch_duration = s.subepoch_duration
        /\ p.epoch_id = s.epoch_id
        /\ p.epoch_start = s.epoch_start
        /\ p.hash_seed = s.hash_seed
    BY FlushCurrentEffect
  <2> HIDE DEF p, q
  <2>3. q = [p EXCEPT !.current_subepoch = target, !.packet_counter = 0]
    BY <2>1 DEF p, q
  <2>4. q \in FragmentStates
    BY <2>2, <2>3 DEF FragmentStates
  <2>5. /\ q.subepoch_count = p.subepoch_count
        /\ q.subepoch_duration = p.subepoch_duration
        /\ q.epoch_id = p.epoch_id
        /\ q.epoch_start = p.epoch_start
        /\ q.hash_seed = p.hash_seed
        /\ q.current_subepoch = target
        /\ q.packet_counter = 0
        /\ q.emitted_records = p.emitted_records
        /\ q.sketch = p.sketch
        /\ q.current_rho = p.current_rho
    BY <2>2, <2>3 DEF FragmentStates
  <2>6. ~(target <= s.current_subepoch)
    BY <1>0, <1>2
  <2> QED BY <2>2, <2>4, <2>5, <2>6 DEF p, q
<1> QED BY <1>0, <1>1, <1>2

\* What a packet adds to rho: CountMin's sum of counters grows by one,
\* CountSketch's sum of squares by (q + 1)^2 - q^2.
RhoGain(cfg, sk, f) ==
    CASE cfg.kind = "CountMin" -> 1
      [] cfg.kind = "CountSketch" -> 2 * Query(sk, f) + 1
      [] cfg.kind = "UnivMon" -> 0

\* Counting a packet touches the sketch and rho only (Fragment.cpp:177-219).
LEMMA UpdateSketchAndRhoEffect ==
    ASSUME NEW cfg \in FragmentSettings, NEW s \in FragmentStates,
           NEW f \in Flows
    PROVE  LET r == UpdateSketchAndRho(cfg, s, f)
           IN  /\ r \in FragmentStates
               /\ r.subepoch_count = s.subepoch_count
               /\ r.subepoch_duration = s.subepoch_duration
               /\ r.epoch_id = s.epoch_id
               /\ r.epoch_start = s.epoch_start
               /\ r.current_subepoch = s.current_subepoch
               /\ r.packet_counter = s.packet_counter
               /\ r.hash_seed = s.hash_seed
               /\ r.emitted_records = s.emitted_records
               /\ r.sketch = Update(s.sketch, f)
               /\ r.current_rho = s.current_rho + RhoGain(cfg, s.sketch, f)
<1> DEFINE sk == Update(s.sketch, f)
           old == Query(s.sketch, f)
           new == Query(sk, f)
           gain == CASE cfg.kind = "CountMin" -> new - old
                     [] cfg.kind = "CountSketch" -> new * new - old * old
                     [] cfg.kind = "UnivMon" -> 0
           rho == s.current_rho + gain
           r == UpdateSketchAndRho(cfg, s, f)
<1>1. s.sketch \in Sketches /\ s.current_rho \in Nat /\ cfg.kind \in SketchKinds
  BY DEF FragmentStates, FragmentSettings
<1>2. sk \in Sketches
  BY <1>1, UpdateType
<1>3. old \in Nat /\ new \in Nat
  BY <1>1, <1>2, QueryIsLeast
<1>4. new - old = 1 /\ new * new - old * old = 2 * old + 1
  <2>1. new = old + 1
    BY <1>1, UpdateRaisesQueryByOne
  <2> HIDE DEF old, new
  <2>2. new - old = 1
    BY <1>3, <2>1
  <2>3. new * new = old * old + 2 * old + 1
    BY <1>3, <2>1
  <2>4. old * old \in Nat /\ 2 * old \in Nat
    BY <1>3
  <2>5. new * new - old * old = 2 * old + 1
    <3> DEFINE oo == old * old
               nn == new * new
    <3> HIDE DEF oo, nn
    <3> QED BY <1>3, <2>3, <2>4 DEF oo, nn
  <2> QED BY <1>3, <2>2, <2>5
<1>5. gain \in Nat /\ gain = RhoGain(cfg, s.sketch, f)
  <2>1. gain = CASE cfg.kind = "CountMin" -> 1
                 [] cfg.kind = "CountSketch" -> 2 * old + 1
                 [] cfg.kind = "UnivMon" -> 0
    <3> HIDE DEF old, new, sk
    <3> QED BY <1>4
  <2>2. 2 * old + 1 \in Nat
    BY <1>3
  <2>3. gain = RhoGain(cfg, s.sketch, f)
    BY <2>1 DEF RhoGain
  <2> HIDE DEF gain, old
  <2> QED BY <1>1, <2>1, <2>2, <2>3 DEF SketchKinds
<1>6. rho \in Nat
  <2> HIDE DEF gain
  <2> QED BY <1>1, <1>5
<1>7. r = [[s EXCEPT !.sketch = sk] EXCEPT !.current_rho = rho]
  BY DEF UpdateSketchAndRho, FragmentStates
<1>11. rho = s.current_rho + RhoGain(cfg, s.sketch, f)
  <2> HIDE DEF gain
  <2> QED BY <1>5
<1> HIDE DEF sk, rho, r
<1>8. [s EXCEPT !.sketch = sk] \in FragmentStates
  BY <1>2 DEF FragmentStates
<1>9. r \in FragmentStates
  BY <1>6, <1>7, <1>8 DEF FragmentStates
<1>10. /\ r.subepoch_count = s.subepoch_count
       /\ r.subepoch_duration = s.subepoch_duration
       /\ r.epoch_id = s.epoch_id
       /\ r.epoch_start = s.epoch_start
       /\ r.current_subepoch = s.current_subepoch
       /\ r.packet_counter = s.packet_counter
       /\ r.hash_seed = s.hash_seed
       /\ r.emitted_records = s.emitted_records
       /\ r.sketch = sk
       /\ r.current_rho = rho
  BY <1>7 DEF FragmentStates
<1> QED BY <1>9, <1>11, <1>10 DEF r, sk

\* begin_epoch leaves only the number of subepochs of what was there before
\* (Fragment.cpp:46-58).
LEMMA BeginEpochType ==
    ASSUME NEW cfg \in FragmentSettings, NEW s \in FragmentStates,
           s.subepoch_count # 0, NEW id \in Nat, NEW start \in Nat,
           NEW seed \in HashSeeds
    PROVE  /\ BeginEpoch(cfg, s, id, start, seed) \in FragmentStates
           /\ BeginEpoch(cfg, s, id, start, seed).subepoch_duration >= 1
<1> DEFINE dur == Larger(1, cfg.epoch_duration \div s.subepoch_count)
<1>1. s.subepoch_count \in Nat \ {0} /\ cfg.epoch_duration \in Nat
  BY DEF FragmentStates, FragmentSettings
<1>2. cfg.epoch_duration \div s.subepoch_count \in Nat
  BY <1>1, DivisionBounds
<1>3. dur \in Nat /\ dur >= 1
  BY <1>2 DEF Larger
<1>4. <<>> \in Seq(SubepochRecords)
  OBVIOUS
<1> HIDE DEF dur
<1>5. BeginEpoch(cfg, s, id, start, seed) =
        [subepoch_count |-> s.subepoch_count, subepoch_duration |-> dur,
         epoch_id |-> id, epoch_start |-> start, current_subepoch |-> 0,
         packet_counter |-> 0, current_rho |-> 0, hash_seed |-> seed,
         sketch |-> EmptySketch, emitted_records |-> <<>>]
  BY DEF BeginEpoch, dur
<1> QED BY <1>1, <1>3, <1>4, <1>5, EmptySketchType DEF FragmentStates

\* The constructor's object is one, with at least one subepoch.
LEMMA NewFragmentType ==
    ASSUME NEW cfg \in FragmentSettings
    PROVE  /\ NewFragment(cfg) \in FragmentStates
           /\ NewFragment(cfg).subepoch_count >= kMinSubepoch
<1>1. [f \in Flows |-> 0] \in HashSeeds
  BY DEF HashSeeds
<1>2. <<>> \in Seq(SubepochRecords)
  OBVIOUS
<1>3. /\ Larger(kMinSubepoch, cfg.initial_subepoch) \in Nat
      /\ Larger(kMinSubepoch, cfg.initial_subepoch) >= kMinSubepoch
  BY DEF Larger, kMinSubepoch, FragmentSettings
<1> QED BY <1>1, <1>2, <1>3, EmptySketchType DEF NewFragment, FragmentStates

\* The subepoch of a packet is one of the epoch's, and no later packet has
\* an earlier one.
LEMMA SubepochIndexBounds ==
    ASSUME NEW s \in FragmentStates, s.subepoch_count >= 1,
           s.subepoch_duration >= 1, NEW t \in Nat, t >= s.epoch_start
    PROVE  /\ SubepochIndex(s, t) \in 0 .. s.subepoch_count - 1
           /\ \A u \in Nat : t <= u => SubepochIndex(s, t) <= SubepochIndex(s, u)
<1>1. /\ s.subepoch_duration \in Nat \ {0}
      /\ s.subepoch_count \in Nat
      /\ s.epoch_start \in Nat
  BY DEF FragmentStates
<1>2. ASSUME NEW u \in Nat, t <= u
      PROVE  /\ (t - s.epoch_start) \div s.subepoch_duration \in Nat
             /\ (u - s.epoch_start) \div s.subepoch_duration \in Nat
             /\ (t - s.epoch_start) \div s.subepoch_duration
                  <= (u - s.epoch_start) \div s.subepoch_duration
  <2>1. /\ t - s.epoch_start \in Nat
        /\ u - s.epoch_start \in Nat
        /\ t - s.epoch_start <= u - s.epoch_start
    BY <1>1, <1>2
  <2> QED BY <1>1, <2>1, DivisionBounds, DivisionMonotone
<1>3. SubepochIndex(s, t) \in 0 .. s.subepoch_count - 1
  <2>1. (t - s.epoch_start) \div s.subepoch_duration \in Nat
    BY <1>2
  <2> QED BY <1>1, <2>1 DEF SubepochIndex, Smaller
<1>4. ASSUME NEW u \in Nat, t <= u
      PROVE  SubepochIndex(s, t) <= SubepochIndex(s, u)
  <2> DEFINE p == (t - s.epoch_start) \div s.subepoch_duration
             q == (u - s.epoch_start) \div s.subepoch_duration
  <2>1. p \in Nat /\ q \in Nat /\ p <= q
    BY <1>2, <1>4
  <2>2. /\ SubepochIndex(s, t) = Smaller(p, s.subepoch_count - 1)
        /\ SubepochIndex(s, u) = Smaller(q, s.subepoch_count - 1)
    BY DEF SubepochIndex
  <2> HIDE DEF p, q
  <2> QED BY <1>1, <2>1, <2>2 DEF Smaller
<1> QED BY <1>3, <1>4

\* process_packet first advances to the packet's subepoch, then counts the
\* packet if its flow is sampled there (Fragment.cpp:60-81).
LEMMA ProcessPacketEffect ==
    ASSUME NEW cfg \in FragmentSettings, NEW s \in FragmentStates,
           NEW f \in Flows, NEW t \in Nat, NEW single_hop \in BOOLEAN,
           t >= s.epoch_start, SubepochIndex(s, t) \in Nat
    PROVE  LET i == SubepochIndex(s, t)
               q == FlushUntil(cfg, s, i)
               r == ProcessPacket(cfg, s, f, t, single_hop)
           IN  /\ r \in FragmentStates
               /\ r.subepoch_count = q.subepoch_count
               /\ r.subepoch_duration = q.subepoch_duration
               /\ r.epoch_id = q.epoch_id
               /\ r.epoch_start = q.epoch_start
               /\ r.hash_seed = q.hash_seed
               /\ r.current_subepoch = q.current_subepoch
               /\ r.emitted_records = q.emitted_records
               /\ IF ShouldTrack(f, s.hash_seed, i, s.subepoch_count,
                                 single_hop, cfg.boost_single_hop)
                  THEN /\ r.sketch = Update(q.sketch, f)
                       /\ r.packet_counter = q.packet_counter + 1
                       /\ r.current_rho =
                             q.current_rho + RhoGain(cfg, q.sketch, f)
                  ELSE r = q
<1> DEFINE i == SubepochIndex(s, t)
           q == FlushUntil(cfg, s, i)
           tracked == ShouldTrack(f, s.hash_seed, i, s.subepoch_count,
                                  single_hop, cfg.boost_single_hop)
           r == ProcessPacket(cfg, s, f, t, single_hop)
<1>1. q \in FragmentStates
  BY FlushUntilEffect
<1>2. ~(t < s.epoch_start)
  BY DEF FragmentStates
<1>3. r = IF tracked
          THEN [UpdateSketchAndRho(cfg, q, f) EXCEPT !.packet_counter = @ + 1]
          ELSE q
  BY <1>2 DEF ProcessPacket
<1>5. CASE tracked
  <2> DEFINE u == UpdateSketchAndRho(cfg, q, f)
             n == q.packet_counter + 1
  <2> HIDE DEF q
  <2>1. /\ u \in FragmentStates
        /\ u.subepoch_count = q.subepoch_count
        /\ u.subepoch_duration = q.subepoch_duration
        /\ u.epoch_id = q.epoch_id
        /\ u.epoch_start = q.epoch_start
        /\ u.current_subepoch = q.current_subepoch
        /\ u.packet_counter = q.packet_counter
        /\ u.hash_seed = q.hash_seed
        /\ u.emitted_records = q.emitted_records
        /\ u.sketch = Update(q.sketch, f)
        /\ u.current_rho = q.current_rho + RhoGain(cfg, q.sketch, f)
    BY <1>1, UpdateSketchAndRhoEffect
  <2> HIDE DEF u, r, tracked
  <2>2. n \in Nat
    <3>1. q.packet_counter \in Nat
      BY <1>1 DEF FragmentStates
    <3> QED BY <3>1
  <2>3. r = [u EXCEPT !.packet_counter = n]
    BY <1>3, <1>5, <2>1 DEF u, FragmentStates
  <2> HIDE DEF n
  <2>4. r \in FragmentStates
    BY <2>1, <2>2, <2>3 DEF FragmentStates
  <2>5. /\ r.subepoch_count = u.subepoch_count
        /\ r.subepoch_duration = u.subepoch_duration
        /\ r.epoch_id = u.epoch_id
        /\ r.epoch_start = u.epoch_start
        /\ r.hash_seed = u.hash_seed
        /\ r.current_subepoch = u.current_subepoch
        /\ r.emitted_records = u.emitted_records
        /\ r.sketch = u.sketch
        /\ r.current_rho = u.current_rho
        /\ r.packet_counter = n
    BY <2>1, <2>3 DEF FragmentStates
  <2> QED BY <1>5, <2>1, <2>4, <2>5 DEF q, r, tracked, n
<1>6. CASE ~tracked
  <2>1. r = q
    BY <1>3, <1>6
  <2> HIDE DEF q, r
  <2>2. /\ r.subepoch_count = q.subepoch_count
        /\ r.subepoch_duration = q.subepoch_duration
        /\ r.epoch_id = q.epoch_id
        /\ r.epoch_start = q.epoch_start
        /\ r.hash_seed = q.hash_seed
        /\ r.current_subepoch = q.current_subepoch
        /\ r.emitted_records = q.emitted_records
    BY <2>1
  <2> QED BY <1>1, <1>6, <2>1, <2>2 DEF q, r, tracked
<1> QED BY <1>5, <1>6

\* The settings the configuration parser and the width of uint32_t allow:
\* the parser raises max_subepoch to initial_subepoch (ConfigParser.cpp:87-89)
\* but does not ask initial_subepoch to be positive.
SoundSetting(cfg) ==
    /\ cfg.initial_subepoch >= kMinSubepoch
    /\ cfg.initial_subepoch <= cfg.max_subepoch
    /\ 2 * cfg.max_subepoch <= UintLimit

\* adjust_subepoch changes the number of subepochs only, and keeps it
\* between the least and the configured number, for every average rho
\* (Fragment.cpp:221-237).
THEOREM AdjustSubepochInBounds ==
    ASSUME NEW cfg \in FragmentSettings, SoundSetting(cfg),
           NEW s \in FragmentStates, NEW rho_sum, NEW n,
           kMinSubepoch <= s.subepoch_count,
           s.subepoch_count <= cfg.max_subepoch
    PROVE  \E next \in kMinSubepoch .. cfg.max_subepoch :
              AdjustSubepoch(cfg, s, rho_sum, n) =
                [s EXCEPT !.subepoch_count = next]
<1> DEFINE count == s.subepoch_count
           up == /\ rho_sum > 2 * cfg.rho_target * n
                 /\ count < cfg.max_subepoch
           down == /\ 2 * rho_sum < cfg.rho_target * n
                   /\ count > kMinSubepoch
           doubled == Smaller(cfg.max_subepoch, (2 * count) % UintLimit)
           halved == Larger(kMinSubepoch, count \div 2)
           next == IF cfg.kind = "UnivMon" THEN cfg.initial_subepoch
                   ELSE IF up THEN doubled
                   ELSE IF down THEN halved ELSE count
           bounds == kMinSubepoch .. cfg.max_subepoch
<1>1. AdjustSubepoch(cfg, s, rho_sum, n) = [s EXCEPT !.subepoch_count = next]
  BY DEF AdjustSubepoch
<1>2. /\ count \in Nat /\ cfg.max_subepoch \in Nat
      /\ cfg.initial_subepoch \in Nat
      /\ kMinSubepoch <= cfg.initial_subepoch
      /\ cfg.initial_subepoch <= cfg.max_subepoch
      /\ 2 * cfg.max_subepoch <= UintLimit
      /\ UintLimit \in Nat \ {0}
      /\ 1 <= count /\ count <= cfg.max_subepoch
  BY UintLimitAssumption
     DEF FragmentStates, FragmentSettings, SoundSetting, kMinSubepoch
<1>3. ASSUME up PROVE doubled \in bounds
  <2>1. count < cfg.max_subepoch
    BY <1>3
  <2> HIDE DEF up, count
  <2>2. 2 * count \in Nat /\ 2 * count < UintLimit
    BY <1>2, <2>1
  <2>3. (2 * count) % UintLimit = 2 * count
    BY <1>2, <2>2, RemainderOfSmall
  <2> QED BY <1>2, <2>2, <2>3 DEF Smaller, kMinSubepoch
<1>4. halved \in bounds
  <2>1. count \div 2 \in Nat /\ count \div 2 <= count
    BY <1>2
  <2> QED BY <1>2, <2>1 DEF Larger, kMinSubepoch
<1>5. cfg.initial_subepoch \in bounds /\ count \in bounds
  BY <1>2 DEF kMinSubepoch
<1> HIDE DEF up, down, doubled, halved, count
<1>6. next \in bounds
  BY <1>3, <1>4, <1>5
<1> HIDE DEF next
<1> QED BY <1>1, <1>6

\* Whatever the setting, it leaves a natural number and changes nothing else.
LEMMA AdjustSubepochType ==
    ASSUME NEW cfg \in FragmentSettings, NEW s \in FragmentStates,
           NEW rho_sum, NEW n
    PROVE  \E next \in Nat :
              AdjustSubepoch(cfg, s, rho_sum, n) =
                [s EXCEPT !.subepoch_count = next]
<1> DEFINE count == s.subepoch_count
           up == /\ rho_sum > 2 * cfg.rho_target * n
                 /\ count < cfg.max_subepoch
           down == /\ 2 * rho_sum < cfg.rho_target * n
                   /\ count > kMinSubepoch
           doubled == Smaller(cfg.max_subepoch, (2 * count) % UintLimit)
           halved == Larger(kMinSubepoch, count \div 2)
           next == IF cfg.kind = "UnivMon" THEN cfg.initial_subepoch
                   ELSE IF up THEN doubled
                   ELSE IF down THEN halved ELSE count
<1>1. AdjustSubepoch(cfg, s, rho_sum, n) = [s EXCEPT !.subepoch_count = next]
  BY DEF AdjustSubepoch
<1>2. /\ cfg.initial_subepoch \in Nat /\ cfg.max_subepoch \in Nat
      /\ count \in Nat
  BY DEF FragmentSettings, FragmentStates
<1>3. doubled \in Nat
  <2>1. (2 * count) % UintLimit \in Nat
    BY <1>2, UintLimitAssumption, RemainderBounds
  <2> QED BY <1>2, <2>1 DEF Smaller
<1>4. halved \in Nat
  <2>1. count \div 2 \in Nat
    BY <1>2, DivisionBounds
  <2> QED BY <2>1 DEF Larger, kMinSubepoch
<1> HIDE DEF up, down, doubled, halved, count
<1>5. next \in Nat
  BY <1>2, <1>3, <1>4
<1> QED BY <1>1, <1>5

\* close_epoch flushes what is left and then chooses the next number of
\* subepochs: its report holds the flushed records (Fragment.cpp:83-102).
LEMMA CloseEpochEffect ==
    ASSUME NEW cfg \in FragmentSettings, NEW s \in FragmentStates,
           s.current_subepoch < s.subepoch_count
    PROVE  LET recs == FlushCurrent(cfg, s).emitted_records
           IN  /\ CloseEpoch(cfg, s) \in FragmentStates
               /\ /\ SoundSetting(cfg)
                  /\ kMinSubepoch <= s.subepoch_count
                  /\ s.subepoch_count <= cfg.max_subepoch
                  => CloseEpoch(cfg, s).subepoch_count
                        \in kMinSubepoch .. cfg.max_subepoch
               /\ CloseEpoch(cfg, s).emitted_records = recs
               /\ CloseEpoch(cfg, s).sketch = FlushCurrent(cfg, s).sketch
               /\ CloseEpoch(cfg, s).current_rho =
                     FlushCurrent(cfg, s).current_rho
               /\ recs \in Seq(SubepochRecords)
               /\ ClosingReport(cfg, s) = [epoch_id |-> s.epoch_id,
                                           records |-> recs]
<1> DEFINE recs == FlushCurrent(cfg, s).emitted_records
           p == FlushUntil(cfg, s, s.subepoch_count)
           q == FlushAll(cfg, s)
<1>1. s.subepoch_count \in Nat /\ s.epoch_id \in Nat
  BY DEF FragmentStates
<1>2. /\ p \in FragmentStates
      /\ p.subepoch_count = s.subepoch_count
      /\ p.packet_counter = 0
      /\ p.emitted_records = recs
      /\ p.sketch = FlushCurrent(cfg, s).sketch
      /\ p.current_rho = FlushCurrent(cfg, s).current_rho
  BY <1>1, FlushUntilEffect
<1>3. q = p
  <2> HIDE DEF p
  <2>1. FlushCurrent(cfg, p) = p
    BY <1>2, FlushCurrentEffect
  <2> QED BY <2>1 DEF FlushAll, p
<1>4. recs \in Seq(SubepochRecords)
  <2> HIDE DEF p, recs
  <2> QED BY <1>2 DEF FragmentStates
<1> DEFINE sound == /\ SoundSetting(cfg)
                    /\ kMinSubepoch <= s.subepoch_count
                    /\ s.subepoch_count <= cfg.max_subepoch
<1>5. PICK next \in Nat :
          /\ CloseEpoch(cfg, s) = [q EXCEPT !.subepoch_count = next]
          /\ sound => next \in kMinSubepoch .. cfg.max_subepoch
  <2>1. CloseEpoch(cfg, s) =
          AdjustSubepoch(cfg, q, RhoSum(q.emitted_records),
                         Larger(1, Len(q.emitted_records)))
    BY DEF CloseEpoch
  <2> HIDE DEF p, q, recs
  <2>2. CASE sound
    <3>1. PICK next \in kMinSubepoch .. cfg.max_subepoch :
              CloseEpoch(cfg, s) = [q EXCEPT !.subepoch_count = next]
      BY <1>2, <1>3, <2>1, <2>2, AdjustSubepochInBounds
    <3>2. next \in Nat
      BY DEF FragmentSettings, kMinSubepoch
    <3> QED BY <3>1, <3>2
  <2>3. CASE ~sound
    BY <1>2, <1>3, <2>1, <2>3, AdjustSubepochType
  <2> QED BY <2>2, <2>3
<1>6. next \in Nat
  BY <1>5
<1>7. ClosingReport(cfg, s) = [epoch_id |-> s.epoch_id, records |-> recs]
  BY <1>2, <1>3 DEF ClosingReport
<1> HIDE DEF p, q, recs
<1>8. /\ CloseEpoch(cfg, s) \in FragmentStates
      /\ CloseEpoch(cfg, s).subepoch_count = next
      /\ CloseEpoch(cfg, s).emitted_records = recs
      /\ CloseEpoch(cfg, s).sketch = p.sketch
      /\ CloseEpoch(cfg, s).current_rho = p.current_rho
  BY <1>2, <1>3, <1>5, <1>6 DEF FragmentStates
<1>9. sound => CloseEpoch(cfg, s).subepoch_count
                  \in kMinSubepoch .. cfg.max_subepoch
  <2> HIDE DEF sound
  <2> QED BY <1>5, <1>8
<1> QED BY <1>2, <1>4, <1>7, <1>8, <1>9 DEF recs

-----------------------------------------------------------------------------
(* The records of an epoch.                                                *)

\* The records carry the labels of the epoch in which their packets were
\* sampled, name subepochs before bound in order, and are not empty.
GoodRecords(cfg, s, records, bound) ==
    /\ \A k \in DOMAIN records :
          /\ records[k].fragment_index = cfg.index
          /\ records[k].epoch_id = s.epoch_id
          /\ records[k].total_subepochs = s.subepoch_count
          /\ records[k].hash_seed = s.hash_seed
          /\ records[k].subepoch_id < bound
          /\ records[k].packet_count > 0
          /\ records[k].snapshot # EmptySketch
    /\ \A j, k \in DOMAIN records :
          j < k => records[j].subepoch_id < records[k].subepoch_id

\* Between two calls: the flushed subepochs are those before the current
\* one, and the counter tells whether the sketch has counted anything.
Orderly(cfg, s) ==
    /\ GoodRecords(cfg, s, s.emitted_records, s.current_subepoch)
    /\ s.packet_counter = 0 <=> s.sketch = EmptySketch

\* The elements of an extended sequence.
LEMMA AppendElements ==
    ASSUME NEW S, NEW records \in Seq(S), NEW x \in S
    PROVE  LET ext == Append(records, x)
           IN  /\ ext \in Seq(S)
               /\ DOMAIN ext = 1 .. Len(records) + 1
               /\ DOMAIN records = 1 .. Len(records)
               /\ Len(records) \in Nat
               /\ \A k \in DOMAIN records : ext[k] = records[k]
               /\ ext[Len(records) + 1] = x
OBVIOUS

\* Each element of a sequence of records is a record.
LEMMA RecordElements ==
    ASSUME NEW records \in Seq(SubepochRecords), NEW k \in DOMAIN records
    PROVE  /\ records[k].subepoch_id \in Nat
           /\ records[k].snapshot \in Sketches
<1>1. records[k] \in SubepochRecords
  OBVIOUS
<1> QED BY <1>1 DEF SubepochRecords

\* Flushing the current subepoch adds a record of it, if it counted
\* anything, after all the others.
LEMMA FlushCurrentRecords ==
    ASSUME NEW cfg \in FragmentSettings, NEW s \in FragmentStates,
           Orderly(cfg, s)
    PROVE  /\ GoodRecords(cfg, s, FlushCurrent(cfg, s).emitted_records,
                          s.current_subepoch + 1)
           /\ FlushCurrent(cfg, s).sketch = EmptySketch
<1> DEFINE old == s.emitted_records
           ext == Append(old, NewRecord(cfg, s))
<1>1. /\ s.current_subepoch \in Nat
      /\ s.packet_counter \in Nat
      /\ old \in Seq(SubepochRecords)
  BY DEF FragmentStates
<1>2. \A k \in DOMAIN old : old[k].subepoch_id \in Nat
  <2> HIDE DEF old
  <2> QED BY <1>1, RecordElements
<1>3. CASE s.packet_counter = 0
  <2>1. FlushCurrent(cfg, s) = s /\ s.sketch = EmptySketch
    BY <1>3, FlushCurrentEffect DEF Orderly
  <2>2. GoodRecords(cfg, s, old, s.current_subepoch + 1)
    BY <1>1, <1>2 DEF Orderly, GoodRecords
  <2> QED BY <2>1, <2>2
<1>4. CASE s.packet_counter # 0
  <2>1. /\ FlushCurrent(cfg, s).emitted_records = ext
        /\ FlushCurrent(cfg, s).sketch = EmptySketch
    BY <1>4, FlushCurrentEffect
  <2>2. /\ DOMAIN ext = 1 .. Len(old) + 1
        /\ DOMAIN old = 1 .. Len(old)
        /\ Len(old) \in Nat
        /\ \A k \in DOMAIN old : ext[k] = old[k]
        /\ ext[Len(old) + 1] = NewRecord(cfg, s)
    BY <1>1, NewRecordType, AppendElements
  <2>3. GoodRecords(cfg, s, old, s.current_subepoch) /\ s.sketch # EmptySketch
    BY <1>4 DEF Orderly
  <2> DEFINE n == Len(old) + 1
             new == NewRecord(cfg, s)
  <2>4. /\ new.fragment_index = cfg.index
        /\ new.epoch_id = s.epoch_id
        /\ new.total_subepochs = s.subepoch_count
        /\ new.hash_seed = s.hash_seed
        /\ new.subepoch_id = s.current_subepoch
        /\ new.packet_count = s.packet_counter
        /\ new.snapshot = s.sketch
    BY DEF NewRecord
  <2>5. ASSUME NEW k \in DOMAIN ext PROVE k \in DOMAIN old \/ k = n
    BY <2>2
  <2> HIDE DEF ext, new
  <2>6. ASSUME NEW k \in DOMAIN ext
        PROVE  /\ ext[k].fragment_index = cfg.index
               /\ ext[k].epoch_id = s.epoch_id
               /\ ext[k].total_subepochs = s.subepoch_count
               /\ ext[k].hash_seed = s.hash_seed
               /\ ext[k].subepoch_id < s.current_subepoch + 1
               /\ ext[k].packet_count > 0
               /\ ext[k].snapshot # EmptySketch
    <3>1. CASE k \in DOMAIN old
      BY <3>1, <1>1, <1>2, <2>2, <2>3 DEF GoodRecords
    <3>2. CASE k = n
      BY <3>2, <1>1, <1>4, <2>2, <2>3, <2>4 DEF new
    <3> QED BY <2>5, <3>1, <3>2
  <2>7. ASSUME NEW j \in DOMAIN ext, NEW k \in DOMAIN ext, j < k
        PROVE  ext[j].subepoch_id < ext[k].subepoch_id
    <3>1. j \in DOMAIN old
      BY <2>2, <2>7
    <3>2. CASE k \in DOMAIN old
      BY <3>1, <3>2, <2>2, <2>3, <2>7 DEF GoodRecords
    <3>3. CASE k = n
      BY <3>1, <3>3, <2>2, <2>3, <2>4 DEF GoodRecords, new
    <3> QED BY <2>5, <3>2, <3>3
  <2>8. GoodRecords(cfg, s, ext, s.current_subepoch + 1)
    BY <2>6, <2>7 DEF GoodRecords
  <2> QED BY <2>1, <2>8
<1> QED BY <1>3, <1>4

\* However many subepochs flush_until skips, the object stays orderly.
LEMMA FlushUntilOrderly ==
    ASSUME NEW cfg \in FragmentSettings, NEW s \in FragmentStates,
           Orderly(cfg, s), NEW target \in Nat
    PROVE  Orderly(cfg, FlushUntil(cfg, s, target))
<1> DEFINE r == FlushUntil(cfg, s, target)
           recs == FlushCurrent(cfg, s).emitted_records
<1>1. s.current_subepoch \in Nat
  BY DEF FragmentStates
<1>2. CASE target <= s.current_subepoch
  <2>1. r = s
    BY <1>2, FlushUntilEffect
  <2> QED BY <2>1
<1>3. CASE s.current_subepoch < target
  <2>1. /\ r.subepoch_count = s.subepoch_count
        /\ r.epoch_id = s.epoch_id
        /\ r.hash_seed = s.hash_seed
        /\ r.current_subepoch = target
        /\ r.packet_counter = 0
        /\ r.emitted_records = recs
        /\ r.sketch = EmptySketch
    <3>1. /\ r.subepoch_count = s.subepoch_count
          /\ r.epoch_id = s.epoch_id
          /\ r.hash_seed = s.hash_seed
      BY FlushUntilEffect
    <3>2. /\ r.current_subepoch = target
          /\ r.packet_counter = 0
          /\ r.emitted_records = recs
          /\ r.sketch = FlushCurrent(cfg, s).sketch
      BY <1>3, FlushUntilEffect
    <3>3. FlushCurrent(cfg, s).sketch = EmptySketch
      BY FlushCurrentRecords
    <3> HIDE DEF r, recs
    <3> QED BY <3>1, <3>2, <3>3
  <2>2. /\ GoodRecords(cfg, s, recs, s.current_subepoch + 1)
        /\ \A k \in DOMAIN recs : recs[k].subepoch_id \in Nat
    <3>1. recs \in Seq(SubepochRecords)
      BY FlushCurrentEffect DEF FragmentStates
    <3> HIDE DEF recs
    <3>2. \A k \in DOMAIN recs : recs[k].subepoch_id \in Nat
      BY <3>1, RecordElements
    <3> QED BY <3>2, FlushCurrentRecords DEF recs
  <2> HIDE DEF r, recs
  <2>3. GoodRecords(cfg, r, recs, target)
    BY <1>1, <1>3, <2>1, <2>2 DEF GoodRecords
  <2>4. Orderly(cfg, r)
    BY <2>1, <2>3 DEF Orderly
  <2> QED BY <2>4 DEF r
<1> QED BY <1>1, <1>2, <1>3

\* A sketch that has counted a packet is not empty.
LEMMA UpdateNotEmpty ==
    ASSUME NEW sk \in Sketches, NEW f \in Flows
    PROVE  Update(sk, f) # EmptySketch
<1>1. PICK r \in Rows : TRUE
  BY RowsAssumption
<1>2. /\ Update(sk, f)[r][Cell[r][f]] = sk[r][Cell[r][f]] + 1
      /\ sk[r][Cell[r][f]] \in Nat
      /\ EmptySketch[r][Cell[r][f]] = 0
  BY CellAssumption DEF Update, Sketches, EmptySketch
<1> QED BY <1>2

\* So does process_packet.
LEMMA ProcessPacketOrderly ==
    ASSUME NEW cfg \in FragmentSettings, NEW s \in FragmentStates,
           Orderly(cfg, s), NEW f \in Flows, NEW t \in Nat,
           NEW single_hop \in BOOLEAN,
           t >= s.epoch_start, SubepochIndex(s, t) \in Nat
    PROVE  Orderly(cfg, ProcessPacket(cfg, s, f, t, single_hop))
<1> DEFINE i == SubepochIndex(s, t)
           q == FlushUntil(cfg, s, i)
           r == ProcessPacket(cfg, s, f, t, single_hop)
<1>1. q \in FragmentStates /\ Orderly(cfg, q)
  BY FlushUntilEffect, FlushUntilOrderly
<1>2. /\ r.subepoch_count = q.subepoch_count
      /\ r.epoch_id = q.epoch_id
      /\ r.hash_seed = q.hash_seed
      /\ r.current_subepoch = q.current_subepoch
      /\ r.emitted_records = q.emitted_records
      /\ \/ /\ r.sketch = Update(q.sketch, f)
            /\ r.packet_counter = q.packet_counter + 1
         \/ r = q
  BY ProcessPacketEffect
<1> HIDE DEF q, r
<1>3. GoodRecords(cfg, r, r.emitted_records, r.current_subepoch)
  BY <1>1, <1>2 DEF Orderly, GoodRecords
<1>4. r.packet_counter = 0 <=> r.sketch = EmptySketch
  <2>1. q.sketch \in Sketches /\ q.packet_counter \in Nat
    BY <1>1 DEF FragmentStates
  <2>2. Update(q.sketch, f) # EmptySketch
    BY <2>1, UpdateNotEmpty
  <2> QED BY <1>1, <1>2, <2>1, <2>2 DEF Orderly
<1>5. Orderly(cfg, r)
  BY <1>3, <1>4 DEF Orderly
<1> QED BY <1>5 DEF r

-----------------------------------------------------------------------------
(* The samples of an epoch.                                                *)

\* No two records of an epoch are of the same subepoch, so that each one's
\* snapshot is the one found under its number.
LEMMA SnapshotOfRecord ==
    ASSUME NEW cfg, NEW s, NEW bound, NEW records \in Seq(SubepochRecords),
           GoodRecords(cfg, s, records, bound)
    PROVE  /\ DOMAIN SnapshotsOf(records) =
                 {records[k].subepoch_id : k \in DOMAIN records}
           /\ \A k \in DOMAIN records :
                 SnapshotsOf(records)[records[k].subepoch_id] =
                     records[k].snapshot
<1>1. DOMAIN SnapshotsOf(records) =
          {records[k].subepoch_id : k \in DOMAIN records}
  BY DEF SnapshotsOf
<1>2. ASSUME NEW k \in DOMAIN records
      PROVE  SnapshotsOf(records)[records[k].subepoch_id] = records[k].snapshot
  <2> DEFINE i == records[k].subepoch_id
             c == CHOOSE j \in DOMAIN records : records[j].subepoch_id = i
  <2>1. SnapshotsOf(records)[i] = records[c].snapshot
    BY DEF SnapshotsOf
  <2>2. c \in DOMAIN records /\ records[c].subepoch_id = i
    OBVIOUS
  <2> HIDE DEF c
  <2>3. /\ DOMAIN records \subseteq Nat
        /\ \A j \in DOMAIN records : records[j].subepoch_id \in Nat
    BY RecordElements
  <2>4. ~(c < k) /\ ~(k < c)
    BY <2>2, <2>3 DEF GoodRecords
  <2>5. c = k
    BY <2>2, <2>3, <2>4
  <2> QED BY <2>1, <2>5
<1> QED BY <1>1, <1>2

\* SampleOf in terms of the records.
LEMMA SampleCases ==
    ASSUME NEW cfg \in FragmentSettings, NEW s \in FragmentStates,
           Orderly(cfg, s), NEW i \in Nat
    PROVE  /\ i = s.current_subepoch => SampleOf(s, i) = s.sketch
           /\ \A k \in DOMAIN s.emitted_records :
                 s.emitted_records[k].subepoch_id = i
                    => /\ i < s.current_subepoch
                       /\ SampleOf(s, i) = s.emitted_records[k].snapshot
                       /\ SampleOf(s, i) # EmptySketch
           /\ \/ i = s.current_subepoch
              \/ \E k \in DOMAIN s.emitted_records :
                    s.emitted_records[k].subepoch_id = i
              \/ SampleOf(s, i) = EmptySketch
<1> DEFINE records == s.emitted_records
<1>1. /\ records \in Seq(SubepochRecords)
      /\ s.current_subepoch \in Nat
      /\ GoodRecords(cfg, s, records, s.current_subepoch)
  BY DEF FragmentStates, Orderly
<1>2. i = s.current_subepoch => SampleOf(s, i) = s.sketch
  BY DEF SampleOf
<1>3. ASSUME NEW k \in DOMAIN records, records[k].subepoch_id = i
      PROVE  /\ i < s.current_subepoch
             /\ SampleOf(s, i) = records[k].snapshot
             /\ SampleOf(s, i) # EmptySketch
  <2>1. i < s.current_subepoch /\ records[k].snapshot # EmptySketch
    BY <1>1, <1>3 DEF GoodRecords
  <2>2. SnapshotsOf(records)[i] = records[k].snapshot
    <3> HIDE DEF records
    <3> QED BY <1>1, <1>3, SnapshotOfRecord
  <2>3. SampleOf(s, i) = SnapshotsOf(records)[i]
    BY <1>1, <1>3, <2>1 DEF SampleOf
  <2> QED BY <2>1, <2>2, <2>3
<1>4. ASSUME i # s.current_subepoch,
             ~ \E k \in DOMAIN records : records[k].subepoch_id = i
      PROVE  SampleOf(s, i) = EmptySketch
  BY <1>4 DEF SampleOf
<1> QED BY <1>2, <1>3, <1>4

\* The records after flush_current are the subepochs with samples.
LEMMA FlushedSamples ==
    ASSUME NEW cfg \in FragmentSettings, NEW s \in FragmentStates,
           Orderly(cfg, s)
    PROVE  LET recs == FlushCurrent(cfg, s).emitted_records
           IN  /\ recs \in Seq(SubepochRecords)
               /\ GoodRecords(cfg, s, recs, s.current_subepoch + 1)
               /\ \A k \in DOMAIN recs :
                     recs[k].snapshot = SampleOf(s, recs[k].subepoch_id)
               /\ \A i \in Nat : SampleOf(s, i) # EmptySketch
                     => \E k \in DOMAIN recs : recs[k].subepoch_id = i
<1> DEFINE old == s.emitted_records
           recs == FlushCurrent(cfg, s).emitted_records
           n == Len(old) + 1
<1>1. /\ old \in Seq(SubepochRecords)
      /\ s.packet_counter \in Nat
      /\ s.current_subepoch \in Nat
      /\ cfg \in FragmentSettings
  BY DEF FragmentStates
<1>2. /\ recs \in Seq(SubepochRecords)
      /\ GoodRecords(cfg, s, recs, s.current_subepoch + 1)
  BY <1>1, FlushCurrentEffect, FlushCurrentRecords DEF FragmentStates
<1>3. \A k \in DOMAIN old :
          /\ old[k].subepoch_id \in Nat
          /\ old[k].snapshot = SampleOf(s, old[k].subepoch_id)
  <2>1. \A k \in DOMAIN old : old[k].subepoch_id \in Nat
    <3> HIDE DEF old
    <3> QED BY <1>1, RecordElements
  <2> QED BY <2>1, SampleCases
<1>4. SampleOf(s, s.current_subepoch) = s.sketch
  BY DEF SampleOf
<1>5. CASE s.packet_counter = 0
  <2>1. recs = old /\ s.sketch = EmptySketch
    BY <1>1, <1>5, FlushCurrentEffect DEF Orderly
  <2>2. ASSUME NEW i \in Nat, SampleOf(s, i) # EmptySketch
        PROVE  \E k \in DOMAIN old : old[k].subepoch_id = i
    BY <1>4, <2>1, <2>2, SampleCases
  <2> HIDE DEF old, recs
  <2>3. /\ \A k \in DOMAIN recs :
              recs[k].snapshot = SampleOf(s, recs[k].subepoch_id)
        /\ \A i \in Nat : SampleOf(s, i) # EmptySketch
              => \E k \in DOMAIN recs : recs[k].subepoch_id = i
    BY <1>3, <2>1, <2>2
  <2> QED BY <1>2, <2>3 DEF recs
<1>6. CASE s.packet_counter # 0
  <2>1. recs = Append(old, NewRecord(cfg, s))
    BY <1>1, <1>6, FlushCurrentEffect
  <2>2. /\ DOMAIN recs = 1 .. Len(old) + 1
        /\ DOMAIN old = 1 .. Len(old)
        /\ Len(old) \in Nat
        /\ \A k \in DOMAIN old : recs[k] = old[k]
        /\ recs[n] = NewRecord(cfg, s)
    BY <1>1, <2>1, NewRecordType, AppendElements
  <2>3. /\ recs[n].subepoch_id = s.current_subepoch
        /\ recs[n].snapshot = s.sketch
    BY <2>2 DEF NewRecord
  <2>4. ASSUME NEW i \in Nat, SampleOf(s, i) # EmptySketch
        PROVE  i = s.current_subepoch
                 \/ \E k \in DOMAIN old : old[k].subepoch_id = i
    BY <2>4, SampleCases
  <2> HIDE DEF old, recs
  <2>5. ASSUME NEW k \in DOMAIN recs
        PROVE  recs[k].snapshot = SampleOf(s, recs[k].subepoch_id)
    <3>1. CASE k \in DOMAIN old
      BY <3>1, <1>3, <2>2
    <3>2. CASE k = n
      BY <3>2, <1>4, <2>3
    <3> QED BY <2>2, <3>1, <3>2
  <2>6. ASSUME NEW i \in Nat, SampleOf(s, i) # EmptySketch
        PROVE  \E k \in DOMAIN recs : recs[k].subepoch_id = i
    <3>1. CASE i = s.current_subepoch
      <4>1. n \in DOMAIN recs
        BY <2>2
      <4> QED BY <3>1, <2>3, <4>1
    <3>2. CASE \E k \in DOMAIN old : old[k].subepoch_id = i
      <4>1. DOMAIN old \subseteq DOMAIN recs
        BY <2>2
      <4> QED BY <3>2, <2>2, <4>1
    <3> QED BY <2>4, <2>6, <3>1, <3>2
  <2> QED BY <1>2, <2>5, <2>6 DEF recs
<1> QED BY <1>1, <1>5, <1>6

\* Flushing moves samples into records; it changes none of them.
LEMMA FlushKeepsSamples ==
    ASSUME NEW cfg \in FragmentSettings, NEW s \in FragmentStates,
           Orderly(cfg, s),
           NEW target \in Nat, NEW i \in Nat
    PROVE  SampleOf(FlushUntil(cfg, s, target), i) = SampleOf(s, i)
<1> DEFINE r == FlushUntil(cfg, s, target)
           recs == FlushCurrent(cfg, s).emitted_records
<1>1. /\ s.current_subepoch \in Nat
      /\ cfg \in FragmentSettings
      /\ s.emitted_records \in Seq(SubepochRecords)
  BY DEF FragmentStates
<1>2. CASE target <= s.current_subepoch
  BY <1>1, <1>2, FlushUntilEffect
<1>3. CASE s.current_subepoch < target
  <2>1. /\ r \in FragmentStates
        /\ Orderly(cfg, r)
        /\ r.current_subepoch = target
        /\ r.emitted_records = recs
        /\ r.sketch = EmptySketch
    <3>1. /\ r \in FragmentStates
          /\ r.current_subepoch = target
          /\ r.emitted_records = recs
          /\ r.sketch = FlushCurrent(cfg, s).sketch
      BY <1>1, <1>3, FlushUntilEffect
    <3>2. FlushCurrent(cfg, s).sketch = EmptySketch
      BY <1>1, FlushCurrentRecords
    <3>3. Orderly(cfg, r)
      BY <1>1, FlushUntilOrderly
    <3> QED BY <3>1, <3>2, <3>3
  <2>2. /\ recs \in Seq(SubepochRecords)
        /\ GoodRecords(cfg, s, recs, s.current_subepoch + 1)
        /\ \A k \in DOMAIN recs :
              recs[k].snapshot = SampleOf(s, recs[k].subepoch_id)
        /\ \A j \in Nat : SampleOf(s, j) # EmptySketch
              => \E k \in DOMAIN recs : recs[k].subepoch_id = j
    BY FlushedSamples
  <2> HIDE DEF r, recs
  <2>3. CASE SampleOf(s, i) # EmptySketch
    <3>1. PICK k \in DOMAIN recs : recs[k].subepoch_id = i
      BY <2>2, <2>3
    <3>2. SampleOf(r, i) = recs[k].snapshot
      BY <2>1, <3>1, SampleCases
    <3>3. SampleOf(r, i) = SampleOf(s, i)
      BY <2>2, <3>1, <3>2
    <3> QED BY <3>3 DEF r
  <2>4. CASE SampleOf(s, i) = EmptySketch
    <3>1. SampleOf(r, i) = EmptySketch
      <4>1. CASE i = target
        BY <2>1, <4>1, SampleCases
      <4>2. CASE i # target
        <5>1. ASSUME NEW k \in DOMAIN recs, recs[k].subepoch_id = i
              PROVE  FALSE
          <6>1. recs[k].snapshot # EmptySketch
            BY <2>2 DEF GoodRecords
          <6> QED BY <2>2, <2>4, <5>1, <6>1
        <5> QED BY <2>1, <4>2, <5>1, SampleCases
      <4> QED BY <4>1, <4>2
    <3> QED BY <2>4, <3>1 DEF r
  <2> QED BY <2>3, <2>4
<1> QED BY <1>1, <1>2, <1>3

\* A packet is added to the sample of its own subepoch, if its flow is
\* sampled there, and to no other, and that subepoch is now the current one
\* (Fragment.cpp:60-81).
LEMMA PacketSamples ==
    ASSUME NEW cfg \in FragmentSettings, NEW s \in FragmentStates,
           Orderly(cfg, s), NEW f \in Flows, NEW t \in Nat,
           NEW single_hop \in BOOLEAN, t >= s.epoch_start,
           SubepochIndex(s, t) \in Nat,
           s.current_subepoch <= SubepochIndex(s, t)
    PROVE  LET i == SubepochIndex(s, t)
               r == ProcessPacket(cfg, s, f, t, single_hop)
               tracked == ShouldTrack(f, s.hash_seed, i, s.subepoch_count,
                                      single_hop, cfg.boost_single_hop)
           IN  /\ r \in FragmentStates
               /\ r.subepoch_count = s.subepoch_count
               /\ r.subepoch_duration = s.subepoch_duration
               /\ r.epoch_id = s.epoch_id
               /\ r.epoch_start = s.epoch_start
               /\ r.hash_seed = s.hash_seed
               /\ r.current_subepoch = i
               /\ \A j \in Nat :
                     SampleOf(r, j) = IF j = i /\ tracked
                                      THEN Update(SampleOf(s, j), f)
                                      ELSE SampleOf(s, j)
<1> DEFINE i == SubepochIndex(s, t)
           q == FlushUntil(cfg, s, i)
           r == ProcessPacket(cfg, s, f, t, single_hop)
           tracked == ShouldTrack(f, s.hash_seed, i, s.subepoch_count,
                                  single_hop, cfg.boost_single_hop)
<1>1. i \in Nat /\ s.current_subepoch \in Nat /\ s.current_subepoch <= i
  BY DEF FragmentStates
<1>2. /\ q \in FragmentStates
      /\ q.current_subepoch = i
      /\ q.subepoch_count = s.subepoch_count
      /\ q.subepoch_duration = s.subepoch_duration
      /\ q.epoch_id = s.epoch_id
      /\ q.epoch_start = s.epoch_start
      /\ q.hash_seed = s.hash_seed
  <2>1. /\ q \in FragmentStates
        /\ q.subepoch_count = s.subepoch_count
        /\ q.subepoch_duration = s.subepoch_duration
        /\ q.epoch_id = s.epoch_id
        /\ q.epoch_start = s.epoch_start
        /\ q.hash_seed = s.hash_seed
        /\ s.current_subepoch < i => q.current_subepoch = i
        /\ i <= s.current_subepoch => q = s
    <3>1. i \in Nat
      BY <1>1
    <3> HIDE DEF i
    <3> QED BY <3>1, FlushUntilEffect
  <2> HIDE DEF i, q
  <2> QED BY <1>1, <2>1
<1>3. \A j \in Nat : SampleOf(q, j) = SampleOf(s, j)
  BY <1>1, FlushKeepsSamples
<1>4. /\ r \in FragmentStates
      /\ r.subepoch_count = q.subepoch_count
      /\ r.subepoch_duration = q.subepoch_duration
      /\ r.epoch_id = q.epoch_id
      /\ r.epoch_start = q.epoch_start
      /\ r.hash_seed = q.hash_seed
      /\ r.current_subepoch = q.current_subepoch
      /\ r.emitted_records = q.emitted_records
      /\ r.sketch = IF tracked THEN Update(q.sketch, f) ELSE q.sketch
  BY ProcessPacketEffect
<1> HIDE DEF i, q, r, tracked
<1>5. \A j \in Nat : j # i => SampleOf(r, j) = SampleOf(q, j)
  BY <1>2, <1>4 DEF SampleOf
<1>6. SampleOf(q, i) = q.sketch /\ SampleOf(r, i) = r.sketch
  BY <1>2, <1>4 DEF SampleOf
<1>7. \A j \in Nat : SampleOf(r, j) = IF j = i /\ tracked
                                      THEN Update(SampleOf(s, j), f)
                                      ELSE SampleOf(s, j)
  BY <1>1, <1>3, <1>4, <1>5, <1>6
<1> QED BY <1>2, <1>4, <1>7 DEF i, r, tracked

=============================================================================
