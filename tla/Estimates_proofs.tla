--------------------------- MODULE Estimates_proofs ---------------------------
(***************************************************************************)
(* Theorems about DiSketch::run: the fragments on the paths and the        *)
(* estimates that are made of their reports, for every configuration and   *)
(* sorted trace and for all seeds.                                         *)
(***************************************************************************)
EXTENDS DiSketch_proofs

(* Fragments and paths.                                                    *)

\* The constructor's arguments of fragment n are those of the configuration.
LEMMA FragmentConfigs ==
    ASSUME Typed, NEW n \in Nodes
    PROVE  /\ Config(n) \in FragmentSettings
           /\ Config(n).index = n
           /\ Config(n).boost_single_hop = config.fragments[n].boost_single_hop
           /\ n \in Nat
<1>1. n \in Nat /\ config.fragments[n] \in FragmentSettings
  BY ConfigsAssumption DEF Typed, Nodes
<1>2. Duration \in Nat \ {0}
  BY TraceFacts
<1>3. Config(n) =
        [config.fragments[n] EXCEPT !.index = n, !.epoch_duration = Duration]
  BY DEF Config
<1> QED  BY <1>1, <1>2, <1>3 DEF FragmentSettings

\* The paths of the flows lead over fragments.
RouteOK == route \in [Flows -> DOMAIN config.paths]

LEMMA PathFacts ==
    ASSUME Typed, RouteOK, NEW f \in Flows
    PROVE  /\ Len(PathOf(f)) \in Nat \ {0}
           /\ DOMAIN PathOf(f) = 1 .. Len(PathOf(f))
           /\ \A h \in 1 .. Len(PathOf(f)) : PathOf(f)[h] \in Nodes
           /\ IsSingleHop(f) \in BOOLEAN
<1>1. PathOf(f) \in Seq(Nodes) \ {<<>>}
  BY ConfigsAssumption DEF Typed, RouteOK, PathOf, Nodes
<1>2. /\ Len(PathOf(f)) \in Nat
      /\ DOMAIN PathOf(f) = 1 .. Len(PathOf(f))
      /\ \A h \in 1 .. Len(PathOf(f)) : PathOf(f)[h] \in Nodes
  BY <1>1, SequenceElements, Zenon
<1>3. Len(PathOf(f)) # 0
  BY <1>1
<1>4. IsSingleHop(f) \in BOOLEAN
  BY DEF IsSingleHop
<1> QED  BY <1>2, <1>3, <1>4

\* What fragment n does with a packet, among all fragments.
OneHop(v, n, f, ts) ==
    [v EXCEPT ![n] = ProcessPacket(Config(n), @, f, ts, IsSingleHop(f))]

\* The loop over the path goes from fragments to fragments, one hop at a
\* time.
LEMMA Walk ==
    ASSUME NEW f, NEW ts, Len(PathOf(f)) \in Nat
    PROVE  \E w : /\ w[0] = frags
                  /\ \A h \in 1 .. Len(PathOf(f)) :
                        w[h] = OneHop(w[h - 1], PathOf(f)[h], f, ts)
                  /\ AlongPath(f, ts) = w[Len(PathOf(f))]
<1> DEFINE path == PathOf(f)
           hop(h, v) == [v EXCEPT ![path[h]] =
                            ProcessPacket(Config(path[h]), @, f, ts, IsSingleHop(f))]
           Steps(n, w) == w = [h \in 0 .. n |->
                                     IF h = 0 THEN frags ELSE hop(h, w[h - 1])]
           Good == {n \in Nat : \E w : Steps(n, w)}
           W == CHOOSE w : w = [h \in 0 .. Len(path) |->
                                    IF h = 0 THEN frags ELSE hop(h, w[h - 1])]
<1>1. AlongPath(f, ts) = W[Len(path)]
  BY DEF AlongPath
<1>2. 0 \in Good
  <2> DEFINE w == [h \in 0 .. 0 |-> frags]
  <2>1. w = [h \in 0 .. 0 |-> IF h = 0 THEN frags ELSE hop(h, w[h - 1])]
    OBVIOUS
  <2> QED  BY <2>1
<1>3. ASSUME NEW n \in Nat, n \in Good
      PROVE  n + 1 \in Good
  <2>1. PICK w : Steps(n, w)
    BY <1>3
  <2> HIDE DEF hop
  <2> DEFINE u == [h \in 0 .. n + 1 |->
                      IF h <= n THEN w[h] ELSE hop(n + 1, w[n])]
  <2>2. \A h \in 0 .. n + 1 :
          u[h] = IF h = 0 THEN frags ELSE hop(h, u[h - 1])
    <3> SUFFICES ASSUME NEW h \in 0 .. n + 1
                 PROVE  u[h] = IF h = 0 THEN frags ELSE hop(h, u[h - 1])
      OBVIOUS
    <3>1. CASE h <= n
      <4>1. u[h] = w[h] /\ (h # 0 => u[h - 1] = w[h - 1])
        BY <3>1
      <4>2. w[h] = IF h = 0 THEN frags ELSE hop(h, w[h - 1])
        BY <2>1, <3>1
      <4> QED  BY <4>1, <4>2
    <3>2. CASE h = n + 1
      <4>1. u[h] = hop(n + 1, w[n]) /\ u[h - 1] = w[n] /\ h # 0
        BY <3>2
      <4> QED  BY <3>2, <4>1
    <3> QED  BY <3>1, <3>2
  <2>3. Steps(n + 1, u)
    BY <2>2
  <2> HIDE DEF u, Steps
  <2>4. \E v : Steps(n + 1, v)
    BY <2>3
  <2> QED  BY <2>4
<1>4. Len(path) \in Good
  <2> HIDE DEF Good
  <2> QED  BY <1>2, <1>3, AllNumbers
<1>5. W = [h \in 0 .. Len(path) |->
              IF h = 0 THEN frags ELSE hop(h, W[h - 1])]
  BY <1>4, Zenon
<1> HIDE DEF W
<1>6. /\ W[0] = frags
      /\ \A h \in 1 .. Len(path) : W[h] = hop(h, W[h - 1])
  <2> HIDE DEF hop
  <2> QED  BY <1>5
<1>7. \A h \in 1 .. Len(path) : W[h] = OneHop(W[h - 1], path[h], f, ts)
  BY <1>6 DEF OneHop
<1> QED  BY <1>1, <1>6, <1>7

-----------------------------------------------------------------------------
(* Samples.                                                                *)

\* Does f share its counter of row r with no other flow?
Alone(r, f) == \A g \in Flows : g # f => Cell[r][g] # Cell[r][f]

\* The counters of f are at least c, and just c where f is alone.
Tracked(sk, f, c) ==
    \A r \in Rows : /\ sk[r][Cell[r][f]] >= c
                    /\ Alone(r, f) => sk[r][Cell[r][f]] = c

LEMMA TrackedEmpty ==
    ASSUME NEW f \in Flows
    PROVE  Tracked(EmptySketch, f, 0)
BY CellAssumption DEF Tracked, EmptySketch

\* Only the packets of f change what is tracked of it.
LEMMA TrackedUpdate ==
    ASSUME NEW sk \in Sketches, NEW f \in Flows, NEW g \in Flows,
           NEW c \in Nat, Tracked(sk, f, c)
    PROVE  Tracked(Update(sk, g), f, IF f = g THEN c + 1 ELSE c)
<1> SUFFICES ASSUME NEW r \in Rows
             PROVE  LET v == Update(sk, g)[r][Cell[r][f]]
                        d == IF f = g THEN c + 1 ELSE c
                    IN  v >= d /\ (Alone(r, f) => v = d)
  BY DEF Tracked
<1>1. /\ sk[r][Cell[r][f]] \in Nat
      /\ Update(sk, g)[r][Cell[r][f]] =
            IF Cell[r][f] = Cell[r][g] THEN sk[r][Cell[r][f]] + 1
            ELSE sk[r][Cell[r][f]]
  BY CellAssumption DEF Sketches, Update
<1>2. /\ sk[r][Cell[r][f]] >= c
      /\ Alone(r, f) => sk[r][Cell[r][f]] = c
  BY DEF Tracked
<1>3. Alone(r, f) /\ f # g => Cell[r][f] # Cell[r][g]
  BY DEF Alone
<1> QED  BY <1>1, <1>2, <1>3

\* A flow that is alone in some row is answered by what is tracked of it.
LEMMA TrackedQuery ==
    ASSUME NEW sk \in Sketches, NEW f \in Flows, NEW c \in Nat,
           Tracked(sk, f, c), \E r \in Rows : Alone(r, f)
    PROVE  Query(sk, f) = c
<1>1. PICK r \in Rows : Alone(r, f)
  OBVIOUS
<1>2. Query(sk, f) <= sk[r][Cell[r][f]] /\ sk[r][Cell[r][f]] = c
  BY <1>1, QueryIsLeast DEF Tracked
<1>3. PICK q \in Rows : Query(sk, f) = sk[q][Cell[q][f]]
  BY QueryIsLeast
<1>4. sk[q][Cell[q][f]] >= c
  BY DEF Tracked
<1>5. Query(sk, f) \in Nat
  BY QueryIsLeast
<1> QED  BY <1>2, <1>3, <1>4, <1>5

-----------------------------------------------------------------------------
(* A packet on its way.                                                    *)

\* What a packet leaves alone.
SameEpoch(s, r) ==
    /\ r.subepoch_count = s.subepoch_count
    /\ r.subepoch_duration = s.subepoch_duration
    /\ r.epoch_start = s.epoch_start
    /\ r.hash_seed = s.hash_seed

\* Fragment n is in the open epoch, and not yet past the subepoch of any
\* packet from the k0-th on.
Open(n, s, k0) ==
    /\ s \in FragmentStates
    /\ s.subepoch_count >= 1
    /\ s.subepoch_duration >= 1
    /\ s.epoch_start = StartOf(epoch)
    /\ Orderly(Config(n), s)
    /\ s.current_subepoch < s.subepoch_count
    /\ \A k \in k0 .. Len(packets) :
          s.current_subepoch <= SubepochIndex(s, packets[k].ts)

\* No packet from the p-th on is of an earlier epoch.
NoneEarlier(p) == \A k \in p .. Len(packets) : packets[k].ts >= StartOf(epoch)

\* The subepoch of every packet to come is one of the epoch's.
LEMMA OpenIndex ==
    ASSUME Typed, NEW n, NEW s, NEW p \in 1 .. Len(packets), Open(n, s, p),
           NoneEarlier(p), NEW k \in p .. Len(packets)
    PROVE  /\ packets[k].ts \in Nat /\ packets[k].ts >= s.epoch_start
           /\ SubepochIndex(s, packets[k].ts) \in 0 .. s.subepoch_count - 1
           /\ \A j \in k .. Len(packets) :
                 SubepochIndex(s, packets[k].ts) <= SubepochIndex(s, packets[j].ts)
<1>1. /\ Len(packets) \in Nat
      /\ \A j \in 1 .. Len(packets) : packets[j].ts \in Nat
      /\ \A j \in 1 .. Len(packets) : \A i \in 1 .. j :
            packets[i].ts <= packets[j].ts
  BY TraceFacts
<1>2. k \in 1 .. Len(packets) /\ \A j \in k .. Len(packets) :
        j \in 1 .. Len(packets) /\ k \in 1 .. j
  BY <1>1
<1>3. /\ packets[k].ts \in Nat /\ packets[k].ts >= s.epoch_start
      /\ \A j \in k .. Len(packets) :
            packets[j].ts \in Nat /\ packets[k].ts <= packets[j].ts
  BY <1>1, <1>2 DEF Open, NoneEarlier
<1>4. /\ s \in FragmentStates /\ s.subepoch_count >= 1
      /\ s.subepoch_duration >= 1
  BY DEF Open
<1>5. /\ SubepochIndex(s, packets[k].ts) \in 0 .. s.subepoch_count - 1
      /\ \A u \in Nat : packets[k].ts <= u =>
            SubepochIndex(s, packets[k].ts) <= SubepochIndex(s, u)
  BY <1>3, <1>4, SubepochIndexBounds
<1> QED  BY <1>3, <1>5

\* Fragment n takes the p-th packet.
LEMMA OpenPacket ==
    ASSUME Typed, RouteOK, NEW n \in Nodes, NEW s,
           NEW p \in 1 .. Len(packets), Open(n, s, p), NoneEarlier(p),
           NEW f \in Flows
    PROVE  LET t == packets[p].ts
               r == ProcessPacket(Config(n), s, f, t, IsSingleHop(f))
           IN  /\ Open(n, r, p)
               /\ SameEpoch(s, r)
               /\ \A j \in Nat :
                     SampleOf(r, j) =
                        IF /\ j = SubepochIndex(s, t)
                           /\ ShouldTrack(f, s.hash_seed, j, s.subepoch_count,
                                  IsSingleHop(f), config.fragments[n].boost_single_hop)
                        THEN Update(SampleOf(s, j), f)
                        ELSE SampleOf(s, j)
<1> DEFINE t == packets[p].ts
           i == SubepochIndex(s, t)
           r == ProcessPacket(Config(n), s, f, t, IsSingleHop(f))
<1>1. /\ Config(n) \in FragmentSettings
      /\ Config(n).boost_single_hop = config.fragments[n].boost_single_hop
      /\ IsSingleHop(f) \in BOOLEAN
  BY FragmentConfigs, PathFacts
<1>2. p \in p .. Len(packets)
  BY TraceFacts
<1>3. /\ t \in Nat /\ t >= s.epoch_start
      /\ i \in 0 .. s.subepoch_count - 1
      /\ \A k \in p .. Len(packets) : i <= SubepochIndex(s, packets[k].ts)
  BY <1>2, OpenIndex
<1>4. /\ s \in FragmentStates /\ s.subepoch_count >= 1
      /\ s.subepoch_duration >= 1 /\ s.epoch_start = StartOf(epoch)
      /\ Orderly(Config(n), s)
      /\ s.current_subepoch <= i
  BY <1>2 DEF Open
<1>5. s.subepoch_count \in Nat
  BY <1>4 DEF FragmentStates
<1>6. i \in Nat /\ i < s.subepoch_count
  BY <1>3, <1>5
<1>7. /\ r \in FragmentStates
      /\ r.subepoch_count = s.subepoch_count
      /\ r.subepoch_duration = s.subepoch_duration
      /\ r.epoch_start = s.epoch_start
      /\ r.hash_seed = s.hash_seed
      /\ r.current_subepoch = i
      /\ \A j \in Nat :
            SampleOf(r, j) =
               IF j = i /\ ShouldTrack(f, s.hash_seed, i, s.subepoch_count,
                                       IsSingleHop(f), Config(n).boost_single_hop)
               THEN Update(SampleOf(s, j), f) ELSE SampleOf(s, j)
  BY <1>1, <1>3, <1>4, <1>6, PacketSamples
<1>8. Orderly(Config(n), r)
  BY <1>1, <1>3, <1>4, <1>6, ProcessPacketOrderly
<1> HIDE DEF i, r, t
<1>9. \A u : SubepochIndex(r, u) = SubepochIndex(s, u)
  BY <1>7 DEF SubepochIndex
<1>10. Open(n, r, p)
  BY <1>3, <1>4, <1>6, <1>7, <1>8, <1>9 DEF Open
<1>11. SameEpoch(s, r)
  BY <1>7 DEF SameEpoch
<1>12. \A j \in Nat :
         SampleOf(r, j) =
            IF j = i /\ ShouldTrack(f, s.hash_seed, j, s.subepoch_count,
                            IsSingleHop(f), config.fragments[n].boost_single_hop)
            THEN Update(SampleOf(s, j), f) ELSE SampleOf(s, j)
  BY <1>1, <1>7
<1> QED  BY <1>10, <1>11, <1>12 DEF i, r, t

\* All fragments are in the epoch that they were in.
OpenAll(v, p) ==
    /\ v \in [Nodes -> FragmentStates]
    /\ \A n \in Nodes : Open(n, v[n], p) /\ SameEpoch(frags[n], v[n])

\* One hop keeps that, and adds the packet to at most one sample.
LEMMA Hop ==
    ASSUME Typed, RouteOK, NEW p \in 1 .. Len(packets), NoneEarlier(p),
           NEW v, OpenAll(v, p), NEW m \in Nodes, NEW f \in Flows
    PROVE  LET t == packets[p].ts
               u == OneHop(v, m, f, t)
           IN  /\ OpenAll(u, p)
               /\ \A n \in Nodes \ {m} : u[n] = v[n]
               /\ \A j \in Nat :
                     SampleOf(u[m], j) =
                        IF j = SubepochIndex(frags[m], t) /\ j \in WindowsAt(f, m)
                        THEN Update(SampleOf(v[m], j), f)
                        ELSE SampleOf(v[m], j)
<1> DEFINE t == packets[p].ts
           r == ProcessPacket(Config(m), v[m], f, t, IsSingleHop(f))
           u == OneHop(v, m, f, t)
<1>1. /\ v \in [Nodes -> FragmentStates]
      /\ Open(m, v[m], p) /\ SameEpoch(frags[m], v[m])
  BY DEF OpenAll
<1>2. u = [v EXCEPT ![m] = r]
  BY DEF OneHop
<1>3. /\ Open(m, r, p) /\ SameEpoch(v[m], r)
      /\ \A j \in Nat :
            SampleOf(r, j) =
               IF /\ j = SubepochIndex(v[m], t)
                  /\ ShouldTrack(f, v[m].hash_seed, j, v[m].subepoch_count,
                         IsSingleHop(f), config.fragments[m].boost_single_hop)
               THEN Update(SampleOf(v[m], j), f) ELSE SampleOf(v[m], j)
  BY <1>1, OpenPacket
<1>4. /\ SubepochIndex(v[m], t) = SubepochIndex(frags[m], t)
      /\ v[m].hash_seed = frags[m].hash_seed
      /\ v[m].subepoch_count = frags[m].subepoch_count
  BY <1>1 DEF SameEpoch, SubepochIndex
<1>5. SubepochIndex(v[m], t) \in 0 .. frags[m].subepoch_count - 1
  <2>1. p \in p .. Len(packets)
    BY TraceFacts
  <2> QED  BY <1>1, <1>4, <2>1, OpenIndex
<1>6. \A j : /\ j = SubepochIndex(frags[m], t)
             /\ ShouldTrack(f, frags[m].hash_seed, j, frags[m].subepoch_count,
                    IsSingleHop(f), config.fragments[m].boost_single_hop)
             <=> j = SubepochIndex(frags[m], t) /\ j \in WindowsAt(f, m)
  BY <1>4, <1>5 DEF WindowsAt, Windows
<1> HIDE DEF r, t
<1>7. /\ u \in [Nodes -> FragmentStates]
      /\ u[m] = r
      /\ \A n \in Nodes \ {m} : u[n] = v[n]
  BY <1>1, <1>2, <1>3 DEF Open
<1> HIDE DEF u
<1>8. OpenAll(u, p)
  <2>1. SameEpoch(frags[m], r)
    BY <1>1, <1>3 DEF SameEpoch
  <2> QED  BY <1>3, <1>7, <2>1 DEF OpenAll
<1>9. \A j \in Nat :
        SampleOf(r, j) =
           IF j = SubepochIndex(frags[m], t) /\ j \in WindowsAt(f, m)
           THEN Update(SampleOf(v[m], j), f) ELSE SampleOf(v[m], j)
  BY <1>3, <1>4, <1>6
<1> QED  BY <1>7, <1>8, <1>9 DEF t, u

\* How often the first h hops of g's path name node n.
Visited(g, n, h) == Cardinality({j \in 1 .. h : PathOf(g)[j] = n})

LEMMA VisitedSteps ==
    ASSUME NEW g, NEW n
    PROVE  /\ Visited(g, n, 0) = 0
           /\ \A h \in Nat :
                 /\ Visited(g, n, h) \in Nat
                 /\ PathOf(g)[h + 1] = n
                       => Visited(g, n, h + 1) = Visited(g, n, h) + 1
                 /\ PathOf(g)[h + 1] # n
                       => Visited(g, n, h + 1) = Visited(g, n, h)
<1> DEFINE S(h) == {j \in 1 .. h : PathOf(g)[j] = n}
<1>1. S(0) = {}
  OBVIOUS
<1>2. ASSUME NEW h \in Nat
      PROVE  /\ IsFiniteSet(S(h)) /\ h + 1 \notin S(h)
             /\ S(h + 1) = IF PathOf(g)[h + 1] = n THEN S(h) \cup {h + 1} ELSE S(h)
  <2>1. IsFiniteSet(1 .. h) /\ S(h) \in SUBSET (1 .. h)
    BY FS_Interval
  <2>2. 1 .. h + 1 = (1 .. h) \cup {h + 1} /\ h + 1 \notin 1 .. h
    OBVIOUS
  <2> QED  BY <2>1, <2>2, FS_Subset
<1>3. \A h : Visited(g, n, h) = Cardinality(S(h))
  BY DEF Visited
<1> HIDE DEF S
<1>4. Visited(g, n, 0) = 0
  BY <1>1, <1>3, FS_EmptySet
<1>5. ASSUME NEW h \in Nat
      PROVE  /\ Visited(g, n, h) \in Nat
             /\ PathOf(g)[h + 1] = n
                   => Visited(g, n, h + 1) = Visited(g, n, h) + 1
             /\ PathOf(g)[h + 1] # n
                   => Visited(g, n, h + 1) = Visited(g, n, h)
  <2>1. Cardinality(S(h)) \in Nat
    BY <1>2, FS_CardinalityType
  <2>2. Cardinality(S(h) \cup {h + 1}) = Cardinality(S(h)) + 1
    BY <1>2, FS_AddElement
  <2> QED  BY <1>2, <1>3, <2>1, <2>2
<1> QED  BY <1>4, <1>5

LEMMA VisitsOfPath ==
    ASSUME Typed, RouteOK, NEW f \in Flows, NEW n
    PROVE  /\ Visits(f, n) = Visited(f, n, Len(PathOf(f)))
           /\ Visits(f, n) \in Nat
<1>1. /\ Len(PathOf(f)) \in Nat
      /\ DOMAIN PathOf(f) = 1 .. Len(PathOf(f))
  BY PathFacts
<1>2. Visits(f, n) = Visited(f, n, Len(PathOf(f)))
  BY <1>1 DEF Visits, Visited
<1> QED  BY <1>1, <1>2, VisitedSteps

\* How much the p-th packet, of flow g, adds to the sample i of node n for
\* flow f, over the first h hops.
Gain(p, g, f, n, i, h) ==
    IF /\ f = g
       /\ i = SubepochIndex(frags[n], packets[p].ts)
       /\ i \in WindowsAt(g, n)
    THEN Visited(g, n, h) ELSE 0

\* What has become of the fragments after h hops.
AfterHops(v, p, g, h) ==
    /\ OpenAll(v, p)
    /\ \A n \in Nodes, f \in Flows, i \in Nat, c \in Nat :
          Tracked(SampleOf(frags[n], i), f, c)
             => Tracked(SampleOf(v[n], i), f, c + Gain(p, g, f, n, i, h))

LEMMA SampleType ==
    ASSUME NEW cfg \in FragmentSettings, NEW s \in FragmentStates,
           Orderly(cfg, s), NEW i \in Nat
    PROVE  SampleOf(s, i) \in Sketches
<1>1. /\ s.sketch \in Sketches
      /\ \A k \in DOMAIN s.emitted_records :
            s.emitted_records[k].snapshot \in Sketches
  BY RecordElements DEF FragmentStates
<1> QED  BY <1>1, SampleCases, EmptySketchType

\* One hop more.
LEMMA HopSamples ==
    ASSUME Typed, RouteOK, NEW p \in 1 .. Len(packets), NoneEarlier(p),
           NEW g \in Flows, NEW h \in Nat, NEW v, AfterHops(v, p, g, h),
           PathOf(g)[h + 1] \in Nodes
    PROVE  AfterHops(OneHop(v, PathOf(g)[h + 1], g, packets[p].ts), p, g, h + 1)
<1> DEFINE m == PathOf(g)[h + 1]
           t == packets[p].ts
           u == OneHop(v, m, g, t)
<1>1. OpenAll(v, p)
  BY DEF AfterHops
<1>2. /\ OpenAll(u, p)
      /\ \A n \in Nodes \ {m} : u[n] = v[n]
      /\ \A j \in Nat :
            SampleOf(u[m], j) =
               IF j = SubepochIndex(frags[m], t) /\ j \in WindowsAt(g, m)
               THEN Update(SampleOf(v[m], j), g) ELSE SampleOf(v[m], j)
  BY <1>1, Hop
<1> HIDE DEF u
<1>3. ASSUME NEW n \in Nodes, NEW f \in Flows, NEW i \in Nat, NEW c \in Nat,
             Tracked(SampleOf(frags[n], i), f, c)
      PROVE  Tracked(SampleOf(u[n], i), f, c + Gain(p, g, f, n, i, h + 1))
  <2>1. Tracked(SampleOf(v[n], i), f, c + Gain(p, g, f, n, i, h))
    BY <1>3 DEF AfterHops
  <2>2. /\ Visited(g, n, h) \in Nat
        /\ m = n => Visited(g, n, h + 1) = Visited(g, n, h) + 1
        /\ m # n => Visited(g, n, h + 1) = Visited(g, n, h)
    BY VisitedSteps
  <2>3. Gain(p, g, f, n, i, h) \in Nat
    BY <2>2 DEF Gain
  <2>4. CASE /\ n = m /\ i = SubepochIndex(frags[m], t) /\ i \in WindowsAt(g, m)
    <3>1. SampleOf(v[n], i) \in Sketches
      <4>1. Config(n) \in FragmentSettings /\ v[n] \in FragmentStates
            /\ Orderly(Config(n), v[n])
        BY <1>1, FragmentConfigs DEF OpenAll, Open
      <4> QED  BY <4>1, SampleType
    <3>2. SampleOf(u[n], i) = Update(SampleOf(v[n], i), g)
      BY <1>2, <2>4
    <3>3. Gain(p, g, f, n, i, h + 1) =
            IF f = g THEN Gain(p, g, f, n, i, h) + 1 ELSE Gain(p, g, f, n, i, h)
      BY <2>2, <2>4 DEF Gain
    <3>4. c + Gain(p, g, f, n, i, h + 1) =
            IF f = g THEN (c + Gain(p, g, f, n, i, h)) + 1
            ELSE c + Gain(p, g, f, n, i, h)
      BY <2>3, <3>3
    <3>5. c + Gain(p, g, f, n, i, h) \in Nat
      BY <2>3
    <3> QED  BY <2>1, <3>1, <3>2, <3>4, <3>5, TrackedUpdate
  <2>5. CASE ~(n = m /\ i = SubepochIndex(frags[m], t) /\ i \in WindowsAt(g, m))
    <3>1. SampleOf(u[n], i) = SampleOf(v[n], i)
      BY <1>2, <2>5
    <3>2. Gain(p, g, f, n, i, h + 1) = Gain(p, g, f, n, i, h)
      BY <2>2, <2>5 DEF Gain
    <3> QED  BY <2>1, <3>1, <3>2
  <2> QED  BY <2>4, <2>5
<1> QED  BY <1>2, <1>3 DEF AfterHops, u

\* The whole path.
LEMMA WalkSamples ==
    ASSUME Typed, RouteOK, NEW p \in 1 .. Len(packets), NoneEarlier(p),
           NEW g \in Flows, frags \in [Nodes -> FragmentStates],
           \A n \in Nodes : Open(n, frags[n], p)
    PROVE  AfterHops(AlongPath(g, packets[p].ts), p, g, Len(PathOf(g)))
<1> DEFINE L == Len(PathOf(g))
           t == packets[p].ts
<1>1. /\ L \in Nat
      /\ \A h \in 1 .. L : PathOf(g)[h] \in Nodes
  BY PathFacts
<1>2. PICK w : /\ w[0] = frags
               /\ \A h \in 1 .. L : w[h] = OneHop(w[h - 1], PathOf(g)[h], g, t)
               /\ AlongPath(g, t) = w[L]
  BY <1>1, Walk
<1> DEFINE Good == {h \in Nat : h <= L => AfterHops(w[h], p, g, h)}
<1>3. 0 \in Good
  <2>1. OpenAll(frags, p)
    BY DEF OpenAll, SameEpoch
  <2>2. \A n \in Nodes, f \in Flows, i \in Nat : Gain(p, g, f, n, i, 0) = 0
    BY VisitedSteps DEF Gain
  <2>3. AfterHops(frags, p, g, 0)
    BY <2>1, <2>2 DEF AfterHops
  <2> QED  BY <1>2, <2>3
<1>4. ASSUME NEW h \in Nat, h \in Good PROVE h + 1 \in Good
  <2> SUFFICES ASSUME h + 1 <= L PROVE AfterHops(w[h + 1], p, g, h + 1)
    OBVIOUS
  <2>1. AfterHops(w[h], p, g, h)
    BY <1>1, <1>4
  <2>2. h + 1 \in 1 .. L /\ (h + 1) - 1 = h
    BY <1>1
  <2>3. /\ w[h + 1] = OneHop(w[h], PathOf(g)[h + 1], g, t)
        /\ PathOf(g)[h + 1] \in Nodes
    BY <1>1, <1>2, <2>2
  <2> QED  BY <2>1, <2>3, HopSamples
<1>5. L \in Good
  <2> HIDE DEF Good
  <2> QED  BY <1>1, <1>3, <1>4, AllNumbers
<1> QED  BY <1>1, <1>2, <1>5

-----------------------------------------------------------------------------
(* The invariants.                                                         *)

\* The fragments, and in an epoch how far they are.
FragInv ==
    /\ RouteOK
    /\ frags \in [Nodes -> FragmentStates]
    /\ pc = "packets" => \A n \in Nodes : Open(n, frags[n], packet_index)

\* The packets of f before the p-th that fall into subepoch i of node n.
InWindow(f, n, i, p) ==
    {k \in SeenOf(epoch, p, f) : SubepochIndex(frags[n], packets[k].ts) = i}

\* What sample i of node n should say of f.
Expected(f, n, i, p) ==
    IF i \in WindowsAt(f, n) THEN Visits(f, n) * Cardinality(InWindow(f, n, i, p))
    ELSE 0

SampleInv ==
    pc = "packets" =>
        \A n \in Nodes, f \in Flows, i \in Nat :
            Tracked(SampleOf(frags[n], i), f, Expected(f, n, i, packet_index))

\* What depends on the configuration and the trace alone.
LEMMA FixedFragments ==
    ASSUME UNCHANGED fixed
    PROVE  /\ Nodes' = Nodes
           /\ \A n : Config(n)' = Config(n)
           /\ \A f : /\ PathOf(f)' = PathOf(f)
                     /\ IsSingleHop(f)' = IsSingleHop(f)
           /\ \A f, n : Visits(f, n)' = Visits(f, n)
<1>1. config' = config /\ route' = route
  BY DEF fixed
<1>2. Duration' = Duration
  BY FixedFacts
<1>3. Nodes' = Nodes /\ \A n : Config(n)' = Config(n)
  BY <1>1, <1>2 DEF Nodes, Config
<1>4. \A f : PathOf(f)' = PathOf(f)
  BY <1>1 DEF PathOf
<1>5. \A f : IsSingleHop(f)' = IsSingleHop(f)
  BY <1>4 DEF IsSingleHop
<1>6. \A f, n : Visits(f, n)' = Visits(f, n)
  BY <1>4 DEF Visits
<1> QED  BY <1>3, <1>4, <1>5, <1>6

\* An open fragment is open after a step as well if it is by the values of
\* before.
LEMMA OpenAfter ==
    ASSUME UNCHANGED <<fixed, epoch>>, NEW n,
           Open(n, frags'[n], packet_index')
    PROVE  Open(n, frags[n], packet_index)'
<1>1. packets' = packets /\ StartOf(epoch)' = StartOf(epoch)
      /\ Config(n)' = Config(n)
  BY FixedFacts, FixedFragments
<1> QED  BY <1>1 DEF Open

LEMMA InitFragInv == Init /\ IInv => FragInv /\ SampleInv
<1> SUFFICES ASSUME Init, IInv PROVE FragInv /\ SampleInv
  OBVIOUS
<1>1. RouteOK /\ pc # "packets"
  BY DEF Init, RouteOK
<1>2. frags = [n \in Nodes |-> NewFragment(Config(n))]
  BY DEF Init
<1>3. \A n \in Nodes : NewFragment(Config(n)) \in FragmentStates
  BY FragmentConfigs, NewFragmentType DEF IInv
<1> QED  BY <1>1, <1>2, <1>3 DEF FragInv, SampleInv

\* A new epoch.
LEMMA BeginEpochsFragInv ==
    IInv /\ FragInv /\ BeginEpochs => FragInv' /\ SampleInv'
<1> SUFFICES ASSUME IInv, FragInv, BeginEpochs PROVE FragInv' /\ SampleInv'
  OBVIOUS
<1>0. /\ UNCHANGED <<fixed, packet_index, epoch>>
      /\ pc = "epoch"
      /\ \A n \in Nodes : frags[n].subepoch_count # 0
  BY DEF BeginEpochs
<1>1. PICK seed \in [Nodes -> Seeds] :
          frags' = [n \in Nodes |-> BeginEpoch(Config(n), frags[n], epoch,
                                               StartOf(epoch), seed[n])]
  BY DEF BeginEpochs
<1>2. /\ packets # <<>> /\ Seen(epoch, packet_index) = {}
      /\ \A k \in 1 .. Len(packets) :
            k >= packet_index => packets[k].ts >= StartOf(epoch)
  BY <1>0, NothingSeen
<1>3. /\ epoch \in Nat /\ packet_index \in 1 .. Len(packets) + 1
      /\ Len(packets) \in Nat /\ StartOf(epoch) \in Nat
      /\ \A k \in 1 .. Len(packets) : packets[k].ts \in Nat
  BY <1>2, TraceFacts, EpochFacts DEF IInv, Typed
<1>4. ASSUME NEW n \in Nodes
      PROVE  /\ frags'[n] \in FragmentStates
             /\ Open(n, frags'[n], packet_index)
             /\ \A i : SampleOf(frags'[n], i) = EmptySketch
  <2> DEFINE s == frags'[n]
  <2>1. s = BeginEpoch(Config(n), frags[n], epoch, StartOf(epoch), seed[n])
    BY <1>1
  <2>2. /\ Config(n) \in FragmentSettings /\ frags[n] \in FragmentStates
        /\ frags[n].subepoch_count # 0 /\ seed[n] \in HashSeeds
    BY <1>0, <1>1, FragmentConfigs, SeedsAssumption DEF IInv, FragInv
  <2>3. s \in FragmentStates /\ s.subepoch_duration >= 1
    BY <1>3, <2>1, <2>2, BeginEpochType
  <2>4. /\ s.subepoch_count = frags[n].subepoch_count
        /\ s.epoch_start = StartOf(epoch)
        /\ s.current_subepoch = 0 /\ s.packet_counter = 0
        /\ s.sketch = EmptySketch /\ s.emitted_records = <<>>
    BY <2>1 DEF BeginEpoch
  <2> HIDE DEF s
  <2>5. s.subepoch_count \in Nat /\ s.subepoch_count >= 1
    BY <2>2, <2>4 DEF FragmentStates
  <2>6. Orderly(Config(n), s)
    BY <2>4 DEF Orderly, GoodRecords
  <2>7. ASSUME NEW k \in packet_index .. Len(packets)
        PROVE  s.current_subepoch <= SubepochIndex(s, packets[k].ts)
    <3>1. packets[k].ts \in Nat /\ packets[k].ts >= s.epoch_start
      BY <1>2, <1>3, <2>4
    <3>2. SubepochIndex(s, packets[k].ts) \in 0 .. s.subepoch_count - 1
      BY <2>3, <2>5, <3>1, SubepochIndexBounds
    <3> QED  BY <2>4, <2>5, <3>2
  <2>8. Open(n, s, packet_index)
    BY <2>3, <2>4, <2>5, <2>6, <2>7 DEF Open
  <2>9. \A i : SampleOf(s, i) = EmptySketch
    BY <2>4 DEF SampleOf
  <2> QED  BY <2>3, <2>8, <2>9 DEF s
<1>5. /\ Nodes' = Nodes /\ packets' = packets /\ RouteOK'
      /\ \A f : SeenOf(epoch, packet_index, f)' = {}
  <2>1. \A f : SeenOf(epoch, packet_index, f) = {}
    BY <1>2 DEF SeenOf
  <2>2. \A f : SeenOf(epoch, packet_index, f)'
                 = SeenOf(epoch, packet_index, f)
    BY <1>0, FixedFacts DEF SeenOf, Seen
  <2>3. RouteOK'
    BY <1>0 DEF FragInv, RouteOK, fixed
  <2> QED  BY <1>0, <2>1, <2>2, <2>3, FixedFacts, FixedFragments
<1>6. FragInv'
  <2>1. frags' \in [Nodes -> FragmentStates]
    BY <1>1, <1>4
  <2>2. \A n \in Nodes : Open(n, frags[n], packet_index)'
    BY <1>0, <1>4, OpenAfter
  <2> QED  BY <1>5, <2>1, <2>2 DEF FragInv
<1>7. ASSUME NEW n \in Nodes, NEW f \in Flows, NEW i \in Nat
      PROVE  Tracked(SampleOf(frags[n], i), f, Expected(f, n, i, packet_index))'
  <2>1. InWindow(f, n, i, packet_index)' = {}
    BY <1>5 DEF InWindow
  <2>2. Cardinality(InWindow(f, n, i, packet_index)') = 0
    BY <2>1, FS_EmptySet
  <2>3. Visits(f, n)' \in Nat
    BY <1>0, FixedFragments, VisitsOfPath DEF IInv, FragInv
  <2>4. Expected(f, n, i, packet_index)' = 0
    BY <2>2, <2>3 DEF Expected
  <2> QED  BY <1>4, <2>4, TrackedEmpty
<1> QED  BY <1>5, <1>6, <1>7 DEF SampleInv

\* Within an epoch the seen packets of a window are finitely many.
LEMMA InWindowFinite ==
    ASSUME Typed, NEW f, NEW n, NEW i, NEW p
    PROVE  /\ IsFiniteSet(InWindow(f, n, i, p))
           /\ Cardinality(InWindow(f, n, i, p)) \in Nat
<1>1. InWindow(f, n, i, p) \in SUBSET (1 .. Len(packets))
  BY TraceFacts DEF InWindow, SeenOf, Seen, PacketsIn
<1> QED  BY <1>1, PacketsFinite

\* One packet more.
LEMMA NextPacketFragInv ==
    IInv /\ FragInv /\ SampleInv /\ NextPacket => FragInv' /\ SampleInv'
<1> SUFFICES ASSUME IInv, FragInv, SampleInv, NextPacket
             PROVE  FragInv' /\ SampleInv'
  OBVIOUS
<1> DEFINE p == packet_index
           g == packets[p].flow
           t == packets[p].ts
           L == Len(PathOf(g))
<1>1. /\ Typed /\ RouteOK /\ pc = "packets" /\ pc' = "packets"
      /\ UNCHANGED <<fixed, epoch>>
      /\ packet_index' = p + 1
      /\ frags \in [Nodes -> FragmentStates]
      /\ \A n \in Nodes : Open(n, frags[n], p)
      /\ \A k \in 1 .. Len(packets) : k >= p => packets[k].ts >= StartOf(epoch)
  BY DEF IInv, FragInv, Position, NextPacket
<1>2. /\ p \in 1 .. Len(packets) /\ ~(t < StartOf(epoch)) /\ g \in Flows
      /\ p \notin Seen(epoch, p)
      /\ \A f \in Flows :
            SeenOf(epoch, p + 1, f)
               = SeenOf(epoch, p, f) \cup (IF f = g THEN {p} ELSE {})
  BY OneMoreSeen
<1>3. frags' = AlongPath(g, t)
  BY <1>2 DEF NextPacket
<1>4. NoneEarlier(p)
  BY <1>1, <1>2, TraceFacts DEF NoneEarlier
<1>5. AfterHops(frags', p, g, L)
  BY <1>1, <1>2, <1>3, <1>4, WalkSamples
<1> HIDE DEF g, t, L
<1>6. /\ frags' \in [Nodes -> FragmentStates]
      /\ \A n \in Nodes : /\ Open(n, frags'[n], p)
                          /\ SameEpoch(frags[n], frags'[n])
      /\ \A n \in Nodes, f \in Flows, i \in Nat, c \in Nat :
            Tracked(SampleOf(frags[n], i), f, c)
               => Tracked(SampleOf(frags'[n], i), f, c + Gain(p, g, f, n, i, L))
  BY <1>5 DEF AfterHops, OpenAll
<1>7. /\ Nodes' = Nodes /\ packets' = packets /\ RouteOK'
      /\ config' = config /\ epoch' = epoch
  BY <1>1, FixedFacts, FixedFragments DEF RouteOK, fixed
<1>8. FragInv'
  <2>1. ASSUME NEW n \in Nodes
        PROVE  Open(n, frags'[n], packet_index')
    <3>1. p + 1 .. Len(packets) \subseteq p .. Len(packets)
      BY <1>2, TraceFacts, <1>1
    <3> QED  BY <1>1, <1>6, <3>1 DEF Open
  <2>2. \A n \in Nodes : Open(n, frags[n], packet_index)'
    BY <1>1, <2>1, OpenAfter
  <2> QED  BY <1>6, <1>7, <2>2 DEF FragInv
<1>9. ASSUME NEW n \in Nodes, NEW f \in Flows, NEW i \in Nat
      PROVE  Tracked(SampleOf(frags[n], i), f, Expected(f, n, i, packet_index))'
  <2> DEFINE here == f = g /\ i = SubepochIndex(frags[n], t)
             old == InWindow(f, n, i, p)
             c == Cardinality(old)
             v == Visits(f, n)
  <2>1. SameEpoch(frags[n], frags'[n])
    BY <1>6
  <2>2. WindowsAt(f, n)' = WindowsAt(f, n)
    BY <1>1, <1>7, <2>1, FixedFragments DEF WindowsAt, SameEpoch
  <2>3. \A u : SubepochIndex(frags'[n], u) = SubepochIndex(frags[n], u)
    BY <2>1 DEF SubepochIndex, SameEpoch
  <2>4. SeenOf(epoch, packet_index, f)'
           = SeenOf(epoch, p, f) \cup (IF f = g THEN {p} ELSE {})
    <3>1. SeenOf(epoch, packet_index, f)' = SeenOf(epoch, p + 1, f)
      BY <1>1, <1>7, FixedFacts DEF SeenOf, Seen
    <3> QED  BY <1>2, <3>1
  <2>5. InWindow(f, n, i, packet_index)' = old \cup (IF here THEN {p} ELSE {})
    <3>1. InWindow(f, n, i, packet_index)'
             = {k \in SeenOf(epoch, p, f) \cup (IF f = g THEN {p} ELSE {}) :
                   SubepochIndex(frags[n], packets[k].ts) = i}
      BY <1>7, <2>3, <2>4 DEF InWindow
    <3> QED  BY <3>1 DEF InWindow, t
  <2>6. /\ IsFiniteSet(old) /\ c \in Nat /\ p \notin old
    <3>1. IsFiniteSet(old) /\ c \in Nat
      BY <1>1, InWindowFinite
    <3>2. p \notin SeenOf(epoch, p, f)
      BY <1>2 DEF SeenOf
    <3> QED  BY <3>1, <3>2 DEF InWindow
  <2>7. Cardinality(InWindow(f, n, i, packet_index)')
           = IF here THEN c + 1 ELSE c
    <3> HIDE DEF here, old
    <3>1. CASE here
      BY <2>5, <2>6, <3>1, FS_AddElement
    <3>2. CASE ~here
      BY <2>5, <2>6, <3>2
    <3> QED  BY <3>1, <3>2
  <2>8. v \in Nat /\ v = Visited(f, n, Len(PathOf(f))) /\ Visits(f, n)' = v
    BY <1>1, VisitsOfPath, FixedFragments
  <2>9. Gain(p, g, f, n, i, L) = IF here /\ i \in WindowsAt(f, n) THEN v ELSE 0
    BY <2>8 DEF Gain, L, t
  <2>10. Expected(f, n, i, p) = IF i \in WindowsAt(f, n) THEN v * c ELSE 0
    BY DEF Expected
  <2>11. Expected(f, n, i, packet_index)' =
            IF i \in WindowsAt(f, n) THEN v * (IF here THEN c + 1 ELSE c) ELSE 0
    BY <2>2, <2>7, <2>8 DEF Expected
  <2>12. Tracked(SampleOf(frags[n], i), f, Expected(f, n, i, p))
    BY <1>1 DEF SampleInv
  <2> HIDE DEF here, c, v
  <2>13. v * c \in Nat /\ v * (c + 1) = v * c + v
    BY <2>6, <2>8
  <2>14. /\ Expected(f, n, i, p) \in Nat
         /\ Expected(f, n, i, packet_index)'
               = Expected(f, n, i, p) + Gain(p, g, f, n, i, L)
    BY <2>8, <2>9, <2>10, <2>11, <2>13
  <2> QED  BY <1>6, <2>12, <2>14
<1> QED  BY <1>7, <1>8, <1>9 DEF SampleInv

\* The end of an epoch.
LEMMA EndEpochFragInv == IInv /\ FragInv /\ EndEpoch => FragInv' /\ SampleInv'
<1> SUFFICES ASSUME IInv, FragInv, EndEpoch PROVE FragInv' /\ SampleInv'
  OBVIOUS
<1>1. /\ Typed /\ RouteOK /\ pc = "packets" /\ pc' = "epoch"
      /\ UNCHANGED fixed
      /\ frags' = [n \in Nodes |-> CloseEpoch(Config(n), frags[n])]
      /\ \A n \in Nodes : Open(n, frags[n], packet_index)
  BY DEF IInv, FragInv, EndEpoch
<1>2. \A n \in Nodes : CloseEpoch(Config(n), frags[n]) \in FragmentStates
  BY <1>1, FragmentConfigs, CloseEpochEffect DEF Open
<1>3. Nodes' = Nodes /\ RouteOK'
  BY <1>1, FixedFragments DEF RouteOK, fixed
<1> QED  BY <1>1, <1>2, <1>3 DEF FragInv, SampleInv

LEMMA NextFragInv ==
    IInv /\ FragInv /\ SampleInv /\ [Next]_vars => FragInv' /\ SampleInv'
<1> SUFFICES ASSUME IInv, FragInv, SampleInv, [Next]_vars
             PROVE  FragInv' /\ SampleInv'
  OBVIOUS
<1>1. CASE Start \/ Finish
  <2>1. UNCHANGED <<fixed, frags>> /\ pc' # "packets"
    BY <1>1 DEF Start, Finish
  <2>2. Nodes' = Nodes /\ RouteOK'
    BY <2>1, FixedFragments DEF FragInv, RouteOK, fixed
  <2> QED  BY <2>1, <2>2 DEF FragInv, SampleInv
<1>2. CASE BeginEpochs
  BY <1>2, BeginEpochsFragInv
<1>3. CASE NextPacket
  BY <1>3, NextPacketFragInv
<1>4. CASE EndEpoch
  BY <1>4, EndEpochFragInv
<1>5. CASE UNCHANGED vars
  <2>1. /\ UNCHANGED <<fixed, epoch, frags, pc, packet_index>>
        /\ packets' = packets
    BY <1>5 DEF vars, fixed
  <2>2. /\ Nodes' = Nodes /\ RouteOK'
    BY <2>1, FixedFragments DEF FragInv, RouteOK, fixed
  <2>3. FragInv'
    BY <2>1, <2>2, OpenAfter DEF FragInv
  <2>4. ASSUME NEW n \in Nodes, NEW f \in Flows, NEW i \in Nat,
               Tracked(SampleOf(frags[n], i), f, Expected(f, n, i, packet_index))
        PROVE  Tracked(SampleOf(frags[n], i), f, Expected(f, n, i, packet_index))'
    <3>1. SeenOf(epoch, packet_index, f)' = SeenOf(epoch, packet_index, f)
      BY <2>1, FixedFacts DEF SeenOf, Seen
    <3>2. InWindow(f, n, i, packet_index)' = InWindow(f, n, i, packet_index)
      BY <2>1, <3>1 DEF InWindow
    <3>3. WindowsAt(f, n)' = WindowsAt(f, n)
      BY <2>1, FixedFacts, FixedFragments DEF WindowsAt
    <3>4. Expected(f, n, i, packet_index)' = Expected(f, n, i, packet_index)
      BY <2>1, <3>2, <3>3, FixedFragments DEF Expected
    <3> QED  BY <2>1, <2>4, <3>4
  <2>5. SampleInv'
    BY <2>1, <2>2, <2>4 DEF SampleInv
  <2> QED  BY <2>3, <2>5
<1> QED  BY <1>1, <1>2, <1>3, <1>4, <1>5 DEF Next, Returned

LEMMA FragInvariance == Spec => [](FragInv /\ SampleInv)
BY InitFragInv, NextFragInv, InitIInv, Invariance, PTL DEF Spec

\* For every configuration, trace and seeds all variables keep their types.
\* That a fragment has subepochs is not among them: see
\* SubepochCountAtLeastMin in FragmentEpochs.
THEOREM TypeCorrect == Spec => []TypeOK
<1>1. IInv /\ FragInv => TypeOK
  <2> SUFFICES ASSUME IInv, FragInv PROVE TypeOK
    OBVIOUS
  <2>1. \A n \in Nodes : frags[n].subepoch_count \in Nat
    BY DEF FragInv, FragmentStates
  <2>2. Len(report) <= epoch
    BY DEF IInv, ReportInv, Typed
  <2> QED  BY <2>1, <2>2
           DEF IInv, Typed, FragInv, RouteOK, TypeOK, Full!Sketches
<1> QED  BY <1>1, Invariance, FragInvariance, PTL

-----------------------------------------------------------------------------
(* Estimates.                                                              *)

\* The reports at the end of an epoch.
Reports == [n \in Nodes |-> ClosingReport(Config(n), frags[n])]

\* The windows of a flow are some of the epoch's subepochs.
LEMMA SomeWindow ==
    ASSUME Typed, RouteOK, NEW n \in Nodes, NEW k, Open(n, frags[n], k),
           NEW f \in Flows
    PROVE  /\ WindowsAt(f, n) # {}
           /\ WindowsAt(f, n) \subseteq 0 .. frags[n].subepoch_count - 1
           /\ frags[n].subepoch_count \in Nat
<1>1. /\ frags[n].hash_seed \in HashSeeds
      /\ frags[n].subepoch_count \in Nat \ {0}
  BY DEF Open, FragmentStates
<1>2. config.fragments[n].boost_single_hop \in BOOLEAN /\ IsSingleHop(f) \in BOOLEAN
  BY FragmentConfigs, PathFacts DEF FragmentSettings
<1>3. PICK a \in 0 .. frags[n].subepoch_count - 1,
           b \in 0 .. frags[n].subepoch_count - 1 : WindowsAt(f, n) = {a, b}
  BY <1>1, <1>2, WindowsOfFlow DEF WindowsAt
<1> QED  BY <1>1, <1>3

\* At the end of an epoch the samples hold what the trace has in their
\* windows.
LEMMA WindowComplete ==
    ASSUME IInv, FragInv, SampleInv, pc = "packets", ~MorePackets,
           NEW f \in Flows, NEW n \in Nodes, NEW i \in WindowsAt(f, n)
    PROVE  /\ CountAt(f, n, i) \in Nat
           /\ Visits(f, n) \in Nat
           /\ Tracked(SampleOf(frags[n], i), f, Visits(f, n) * CountAt(f, n, i))
<1>1. Typed /\ RouteOK /\ Open(n, frags[n], packet_index)
  BY DEF IInv, FragInv
<1>2. i \in Nat
  BY <1>1, SomeWindow
<1>3. Seen(epoch, packet_index) = PacketsIn(epoch)
  BY EpochCounted
<1>4. InWindow(f, n, i, packet_index)
        = {k \in PacketsIn(epoch) : /\ packets[k].flow = f
                                    /\ SubepochIndex(frags[n], packets[k].ts) = i}
  BY <1>3 DEF InWindow, SeenOf
<1>5. CountAt(f, n, i) = Cardinality(InWindow(f, n, i, packet_index))
  BY <1>4 DEF CountAt
<1>6. Expected(f, n, i, packet_index) = Visits(f, n) * CountAt(f, n, i)
  BY <1>5 DEF Expected
<1>7. Tracked(SampleOf(frags[n], i), f, Expected(f, n, i, packet_index))
  BY <1>2 DEF SampleInv
<1> QED  BY <1>1, <1>5, <1>6, <1>7, InWindowFinite, VisitsOfPath

\* The records of a report, as temporal_aggregation sees them.
LEMMA ReportOfNode ==
    ASSUME IInv, FragInv, pc = "packets", NEW n \in Nodes
    PROVE  LET recs == Reports[n].records
               s == frags[n]
           IN  /\ recs \in Seq(SubepochRecords)
               /\ \A k \in DOMAIN recs :
                     /\ recs[k].fragment_index = n
                     /\ recs[k].total_subepochs = s.subepoch_count
                     /\ recs[k].hash_seed = s.hash_seed
                     /\ recs[k].subepoch_id \in 0 .. s.subepoch_count - 1
                     /\ recs[k].snapshot = SampleOf(s, recs[k].subepoch_id)
               /\ \A i \in Nat : SampleOf(s, i) # EmptySketch
                     => \E k \in DOMAIN recs : recs[k].subepoch_id = i
<1> DEFINE s == frags[n]
           recs == FlushCurrent(Config(n), s).emitted_records
<1>1. /\ s \in FragmentStates /\ Orderly(Config(n), s)
      /\ s.current_subepoch < s.subepoch_count
  BY DEF FragInv, Open
<1>2. Config(n) \in FragmentSettings /\ Config(n).index = n
  BY FragmentConfigs DEF IInv
<1>3. Reports[n] = [epoch_id |-> s.epoch_id, records |-> recs]
  BY <1>1, <1>2, CloseEpochEffect DEF Reports
<1>4. /\ recs \in Seq(SubepochRecords)
      /\ GoodRecords(Config(n), s, recs, s.current_subepoch + 1)
      /\ \A k \in DOMAIN recs :
            recs[k].snapshot = SampleOf(s, recs[k].subepoch_id)
      /\ \A i \in Nat : SampleOf(s, i) # EmptySketch
            => \E k \in DOMAIN recs : recs[k].subepoch_id = i
  BY <1>1, <1>2, FlushedSamples
<1> HIDE DEF recs
<1>5. \A k \in DOMAIN recs :
        /\ recs[k].fragment_index = n
        /\ recs[k].total_subepochs = s.subepoch_count
        /\ recs[k].hash_seed = s.hash_seed
        /\ recs[k].subepoch_id < s.current_subepoch + 1
  BY <1>2, <1>4 DEF GoodRecords
<1>6. \A k \in DOMAIN recs : recs[k].subepoch_id \in Nat
  BY <1>4, RecordElements
<1>7. s.current_subepoch \in Nat /\ s.subepoch_count \in Nat
  BY <1>1 DEF FragmentStates
<1>8. \A k \in DOMAIN recs : recs[k].subepoch_id \in 0 .. s.subepoch_count - 1
  <2> HIDE DEF s
  <2> QED  BY <1>1, <1>5, <1>6, <1>7
<1>9. Reports[n].records = recs
  BY <1>3
<1> QED  BY <1>4, <1>5, <1>8, <1>9

\* The value of a node is the count of one of the flow's windows, scaled up.
LEMMA NodeValueOfWindow ==
    ASSUME IInv, FragInv, SampleInv, pc = "packets", ~MorePackets,
           NEW f \in Flows, NEW n \in Nodes, \E r \in Rows : Alone(r, f)
    PROVE  \E i \in WindowsAt(f, n) :
              NodeValue(f, n, Reports)
                 = frags[n].subepoch_count * Visits(f, n) * CountAt(f, n, i)
<1> DEFINE s == frags[n]
           recs == Reports[n].records
           hop == IsSingleHop(f)
           boost == config.fragments[n].boost_single_hop
           hits == {k \in DOMAIN recs : SamplesFlow(f, recs[k], hop, boost)}
           K == CHOOSE k \in hits : \A j \in hits : k <= j
           m == s.subepoch_count
           V == Visits(f, n)
<1>1. /\ WindowsAt(f, n) # {} /\ WindowsAt(f, n) \subseteq 0 .. m - 1
      /\ m \in Nat
  BY SomeWindow DEF IInv, FragInv
<1>2. /\ recs \in Seq(SubepochRecords)
      /\ \A k \in DOMAIN recs :
            /\ recs[k].fragment_index = n
            /\ recs[k].total_subepochs = m
            /\ recs[k].hash_seed = s.hash_seed
            /\ recs[k].subepoch_id \in 0 .. m - 1
            /\ recs[k].snapshot = SampleOf(s, recs[k].subepoch_id)
      /\ \A i \in Nat : SampleOf(s, i) # EmptySketch
            => \E k \in DOMAIN recs : recs[k].subepoch_id = i
  BY ReportOfNode
<1>3. \A i \in WindowsAt(f, n) :
        /\ CountAt(f, n, i) \in Nat /\ V \in Nat
        /\ Tracked(SampleOf(s, i), f, V * CountAt(f, n, i))
  BY WindowComplete
<1>4. NodeValue(f, n, Reports) = TemporalAggregation(f, Reports[n], hop, boost)
  <2>1. n \in DOMAIN Reports
    BY DEF Reports
  <2>2. recs # <<>> => 1 \in DOMAIN recs
    BY <1>2
  <2> QED  BY <1>2, <2>1, <2>2 DEF NodeValue
<1>5. TemporalAggregation(f, Reports[n], hop, boost) =
        IF hits = {} THEN 0
        ELSE Query(recs[K].snapshot, f) * recs[K].total_subepochs
  BY DEF TemporalAggregation
<1>6. \A k \in DOMAIN recs :
        SamplesFlow(f, recs[k], hop, boost) <=> recs[k].subepoch_id \in WindowsAt(f, n)
  BY <1>2 DEF SamplesFlow, WindowsAt, Windows
<1>7. CASE hits = {}
  <2>1. PICK i \in WindowsAt(f, n) : TRUE
    BY <1>1
  <2>2. i \in Nat
    BY <1>1
  <2>3. SampleOf(s, i) = EmptySketch
    BY <1>2, <1>6, <1>7, <2>2
  <2>4. /\ CountAt(f, n, i) \in Nat /\ V \in Nat /\ V * CountAt(f, n, i) \in Nat
        /\ Tracked(EmptySketch, f, V * CountAt(f, n, i))
    BY <1>3, <2>3
  <2>5. V * CountAt(f, n, i) = 0
    <3>1. Query(EmptySketch, f) = 0
      BY TrackedEmpty, TrackedQuery, EmptySketchType
    <3>2. Query(EmptySketch, f) = V * CountAt(f, n, i)
      BY <2>4, TrackedQuery, EmptySketchType
    <3> QED  BY <3>1, <3>2
  <2>6. m * V * CountAt(f, n, i) = 0
    <3> DEFINE c == CountAt(f, n, i)
    <3> HIDE DEF m, V, c
    <3>1. m * V * c = m * (V * c)
      BY <1>1, <2>4 DEF c
    <3> QED  BY <1>1, <2>5, <3>1 DEF c
  <2> QED  BY <1>4, <1>5, <1>7, <2>6
<1>8. CASE hits # {}
  <2>1. K \in hits
    <3>1. DOMAIN recs \in SUBSET Nat
      BY <1>2
    <3>2. \E k \in hits : \A j \in hits : k <= j
      <4>1. hits \in SUBSET Nat
        BY <3>1
      <4> HIDE DEF hits
      <4> QED  BY <1>8, <4>1, LeastElement
    <3> HIDE DEF hits
    <3> QED  BY <3>2
  <2> HIDE DEF K
  <2> DEFINE i == recs[K].subepoch_id
             c == CountAt(f, n, i)
  <2>2. /\ i \in WindowsAt(f, n)
        /\ recs[K].snapshot = SampleOf(s, i) /\ recs[K].total_subepochs = m
    BY <1>2, <1>6, <2>1
  <2>3. recs[K].snapshot \in Sketches
    BY <1>2, <2>1, RecordElements
  <2> HIDE DEF recs, i
  <2>4. c \in Nat /\ V \in Nat /\ Tracked(recs[K].snapshot, f, V * c)
    BY <1>3, <2>2
  <2>5. V * c \in Nat
    BY <2>4
  <2>6. Query(recs[K].snapshot, f) = V * c
    BY <2>3, <2>4, <2>5, TrackedQuery
  <2>7. (V * c) * m = m * V * c
    <3> HIDE DEF m, V, c
    <3> QED  BY <1>1, <2>4
  <2>8. NodeValue(f, n, Reports) = m * V * c
    BY <1>4, <1>5, <1>8, <2>2, <2>6, <2>7
  <2> QED  BY <2>2, <2>8
<1> QED  BY <1>7, <1>8

\* What the last summary says of a flow comes from these reports alone.
LEMMA ClosingEstimate ==
    ASSUME IInv, EndEpoch, NEW f \in DOMAIN LastMetrics
    PROVE  /\ f \in Flows
           /\ CountIn(epoch, f) \in Nat \ {0}
           /\ LastMetrics[f].disketch
                 = Combine(Positive([h \in DOMAIN PathOf(f) |->
                                        NodeValue(f, PathOf(f)[h], Reports)]))
<1> DEFINE s == report'[Len(report')]
           flows == {g \in Flows : ideal[g] > 0}
           real == {g \in flows : IsHeavy(ideal[g])}
<1>1. report' = Append(report, Summary(Reports)) /\ pc = "packets" /\ ~MorePackets
  BY DEF EndEpoch, Reports
<1>2. s = Summary(Reports)
  <2>1. PICK S : report \in Seq(S)
    BY DEF IInv, ReportInv
  <2> DEFINE T == S \cup {Summary(Reports)}
  <2>2. report \in Seq(T) /\ Summary(Reports) \in T
    BY <2>1
  <2> HIDE DEF T
  <2> QED  BY <1>1, <2>2
<1>3. DOMAIN Summary(Reports).flow_metrics = real
  BY DEF Summary
<1>4. \A g \in real :
        Summary(Reports).flow_metrics[g].disketch = SpatialAggregation(g, Reports)
  BY DEF Summary
<1>5. f \in real /\ LastMetrics[f].disketch = SpatialAggregation(f, Reports)
  <2> HIDE DEF s, real
  <2>1. LastMetrics = Summary(Reports).flow_metrics
    BY <1>2 DEF LastMetrics, s
  <2> QED  BY <2>1, <1>3, <1>4
<1>6. f \in Flows /\ ideal[f] > 0
  BY <1>5
<1>7. ideal[f] = CountIn(epoch, f) /\ ideal[f] \in Nat
  BY <1>1, <1>6, EpochCounted DEF IInv, Typed
<1> QED  BY <1>5, <1>6, <1>7 DEF SpatialAggregation

\* Every flow is alone in some row of a fragment's sketch.  The hashes are
\* fixed and not the code's to choose, and a flow that shares each of its
\* counters may be overestimated.
NoFlowHidden == \A f \in Flows : \E r \in Rows : Alone(r, f)

\* Only the end of an epoch closes it.
LEMMA OnlyEndEpochCloses ==
    ASSUME [Next]_vars, Closes
    PROVE  EndEpoch /\ pc = "packets" /\ ~MorePackets
<1>1. EndEpoch
  BY DEF Closes, Next, Start, BeginEpochs, NextPacket, Finish, Returned, vars
<1> QED  BY <1>1 DEF EndEpoch

\* If no other flow covers it in all rows, the estimate of a flow that is
\* sampled in one window per node is what the trace has in these windows,
\* for every trace, configuration and seed and however the rho of the
\* fragments have changed their numbers of subepochs (DiSketch.cpp:77,
\* 271-332).
THEOREM EstimatesFollowTrace ==
    ASSUME NoFlowHidden
    PROVE  Spec => EstimatesFromTrace
<1> DEFINE value(f, n) == LET i == CHOOSE i \in WindowsAt(f, n) : TRUE
                          IN  frags[n].subepoch_count * Visits(f, n)
                                                      * CountAt(f, n, i)
<1>1. ASSUME IInv, FragInv, SampleInv, [Next]_vars, Closes,
             NEW f \in DOMAIN LastMetrics,
             \A h \in DOMAIN PathOf(f) : Cardinality(WindowsAt(f, PathOf(f)[h])) = 1
      PROVE  LastMetrics[f].disketch
                = Combine(Positive([h \in DOMAIN PathOf(f) |-> value(f, PathOf(f)[h])]))
  <2>1. EndEpoch /\ pc = "packets" /\ ~MorePackets
    BY <1>1, OnlyEndEpochCloses
  <2>2. /\ f \in Flows
        /\ LastMetrics[f].disketch
              = Combine(Positive([h \in DOMAIN PathOf(f) |->
                                     NodeValue(f, PathOf(f)[h], Reports)]))
    BY <1>1, <2>1, ClosingEstimate
  <2>3. ASSUME NEW h \in DOMAIN PathOf(f)
        PROVE  NodeValue(f, PathOf(f)[h], Reports) = value(f, PathOf(f)[h])
    <3> DEFINE n == PathOf(f)[h]
               i == CHOOSE i \in WindowsAt(f, n) : TRUE
    <3>1. n \in Nodes
      BY <1>1, <2>2, PathFacts DEF IInv, FragInv
    <3>2. \E r \in Rows : Alone(r, f)
      BY <2>2 DEF NoFlowHidden
    <3>3. PICK j \in WindowsAt(f, n) :
             NodeValue(f, n, Reports)
                = frags[n].subepoch_count * Visits(f, n) * CountAt(f, n, j)
      BY <1>1, <2>1, <2>2, <3>1, <3>2, NodeValueOfWindow
    <3>4. \A k \in WindowsAt(f, n) : k = j
      <4>1. IsFiniteSet(WindowsAt(f, n))
        <5> HIDE DEF n
        <5>1. Typed /\ RouteOK /\ Open(n, frags[n], packet_index)
          BY <1>1, <2>1, <3>1 DEF IInv, FragInv
        <5>2. /\ WindowsAt(f, n) \subseteq 0 .. frags[n].subepoch_count - 1
              /\ frags[n].subepoch_count \in Nat
          BY <2>2, <3>1, <5>1, SomeWindow
        <5>3. IsFiniteSet(0 .. frags[n].subepoch_count - 1)
          <6>1. 0 \in Int /\ frags[n].subepoch_count - 1 \in Int
            BY <5>2
          <6> QED  BY <6>1, FS_Interval, Zenon
        <5> QED  BY <5>2, <5>3, FS_Subset
      <4>2. \E x : WindowsAt(f, n) = {x}
        BY <1>1, <4>1, FS_Singleton
      <4> QED  BY <4>2
    <3>5. i = j
      BY <3>4
    <3> HIDE DEF n, i
    <3> QED  BY <3>3, <3>5 DEF n, i
  <2>4. [h \in DOMAIN PathOf(f) |-> NodeValue(f, PathOf(f)[h], Reports)]
           = [h \in DOMAIN PathOf(f) |-> value(f, PathOf(f)[h])]
    <3> HIDE DEF value
    <3> QED  BY <2>3
  <2> HIDE DEF value
  <2> QED  BY <2>2, <2>4
<1>2. IInv /\ FragInv /\ SampleInv /\ [Next]_vars => [Closes =>
        \A f \in DOMAIN LastMetrics :
            LET path == PathOf(f)
                values == [h \in DOMAIN path |-> value(f, path[h])]
            IN  (\A h \in DOMAIN path :
                    Cardinality(WindowsAt(f, path[h])) = 1)
                => LastMetrics[f].disketch = Combine(Positive(values))
      ]_vars
  <2> HIDE DEF value
  <2> QED  BY <1>1
<1> QED  BY <1>2, Invariance, FragInvariance, PTL DEF Spec, EstimatesFromTrace

\* The least, the median and the mean of equal values are that value.
LEMMA CombineConstant ==
    ASSUME config.sketch_kind \in SketchKinds,
           NEW L \in Nat \ {0}, NEW v \in Nat \ {0}
    PROVE  Combine(Positive([h \in 1 .. L |-> v])) = v
<1> DEFINE values == [h \in 1 .. L |-> v]
           n == Cardinality(DOMAIN values)
           S == Bijection(1 .. n, DOMAIN values)
           InOrder(p) == \A j, k \in 1 .. n : j <= k => values[p[j]] <= values[p[k]]
           order == CHOOSE p \in S : InOrder(p)
           mid == n \div 2
<1>1. Positive(values) = values
  BY DEF Positive
<1>2. n = L /\ DOMAIN values = 1 .. L
  BY FS_Interval
<1>3. order \in [1 .. L -> 1 .. L]
  <2> DEFINE id == [j \in 1 .. L |-> j]
  <2> HIDE DEF n
  <2>1. id \in S
    BY <1>2 DEF Bijection, Injection, Surjection, IsInjective
  <2>2. InOrder(id)
    BY <1>2
  <2>3. order \in S
    <3> HIDE DEF S, InOrder, id
    <3> QED  BY <2>1, <2>2
  <2> HIDE DEF order
  <2> QED  BY <1>2, <2>3 DEF Bijection, Injection
<1>4. Combine(values) =
        CASE n = 0 -> 0
          [] n > 0 /\ config.sketch_kind = "CountMin" -> values[order[1]]
          [] n > 0 /\ config.sketch_kind = "CountSketch" ->
                IF n % 2 = 1 THEN values[order[mid + 1]]
                ELSE (values[order[mid]] + values[order[mid + 1]]) \div 2
          [] n > 0 /\ config.sketch_kind = "UnivMon" ->
                SumFunction(values) \div n
  <2> HIDE DEF values
  <2> QED  BY DEF Combine
<1> HIDE DEF n, order
<1>5. \A k \in 1 .. L : values[order[k]] = v
  BY <1>3
<1>6. CASE config.sketch_kind = "CountMin"
  <2>1. 1 \in 1 .. L
    OBVIOUS
  <2> HIDE DEF values
  <2> QED  BY <1>1, <1>2, <1>4, <1>5, <1>6, <2>1 DEF values
<1>7. CASE config.sketch_kind = "CountSketch"
  <2>1. L % 2 = 1 => mid + 1 \in 1 .. L
    BY <1>2
  <2>2. L % 2 # 1 => mid \in 1 .. L /\ mid + 1 \in 1 .. L
    BY <1>2
  <2>3. (v + v) \div 2 = v
    OBVIOUS
  <2>4. Combine(values) =
          IF L % 2 = 1 THEN values[order[mid + 1]]
          ELSE (values[order[mid]] + values[order[mid + 1]]) \div 2
    <3> HIDE DEF values, mid
    <3> QED  BY <1>2, <1>4, <1>7
  <2> HIDE DEF values, mid
  <2> QED  BY <1>1, <1>5, <2>1, <2>2, <2>3, <2>4 DEF values
<1>8. CASE config.sketch_kind = "UnivMon"
  <2>1. SumFunction(values) = L * v
    <3>1. /\ IsFiniteSet(1 .. L) /\ Cardinality(1 .. L) = L
          /\ \A x \in 1 .. L : values[x] = v
      BY FS_Interval
    <3> HIDE DEF values
    <3>2. SumFunctionOnSet(values, 1 .. L) = Cardinality(1 .. L) * v
      BY <3>1, SumOfConstant
    <3>3. SumFunction(values) = SumFunctionOnSet(values, 1 .. L)
      BY <1>2 DEF SumFunction
    <3> QED  BY <3>1, <3>2, <3>3
  <2>2. (L * v) \div L = v
    <3>1. L * v \in Nat /\ v * L = L * v /\ L * v < v * L + L
      OBVIOUS
    <3>2. v * L <= L * v
      BY <3>1
    <3> QED  BY <3>1, <3>2, DivisionUnique
  <2>3. Combine(values) = SumFunction(values) \div L
    <3> HIDE DEF values, mid
    <3> QED  BY <1>2, <1>4, <1>8
  <2> QED  BY <1>1, <2>1, <2>2, <2>3
<1> QED  BY <1>6, <1>7, <1>8 DEF SketchKinds

\* Equally many packets in all subepochs make up the flow's count.
LEMMA EvenCount ==
    ASSUME IInv, FragInv, pc = "packets", NEW f \in Flows, NEW n \in Nodes,
           \A i \in 0 .. frags[n].subepoch_count - 1 :
                CountAt(f, n, i) = CountAt(f, n, 0)
    PROVE  /\ CountAt(f, n, 0) \in Nat
           /\ CountIn(epoch, f) = frags[n].subepoch_count * CountAt(f, n, 0)
<1> DEFINE m == frags[n].subepoch_count
           c == CountAt(f, n, 0)
           P == {k \in PacketsIn(epoch) : packets[k].flow = f}
           part == [k \in P |-> SubepochIndex(frags[n], packets[k].ts)]
<1>1. Typed /\ Open(n, frags[n], packet_index)
  BY DEF IInv, FragInv
<1>2. /\ frags[n] \in FragmentStates /\ m \in Nat
      /\ m >= 1 /\ frags[n].subepoch_duration >= 1
      /\ frags[n].epoch_start = StartOf(epoch)
  BY <1>1 DEF Open, FragmentStates
<1>3. P \in SUBSET (1 .. Len(packets))
  BY <1>1, TraceFacts DEF PacketsIn
<1>4. IsFiniteSet(P)
  BY <1>1, <1>3, PacketsFinite
<1>5. part \in [P -> 0 .. m - 1]
  <2> SUFFICES ASSUME NEW k \in P
               PROVE  SubepochIndex(frags[n], packets[k].ts) \in 0 .. m - 1
    OBVIOUS
  <2>1. packets[k].ts \in Nat
    BY <1>1, <1>3, TraceFacts
  <2>2. packets[k].ts >= frags[n].epoch_start
    <3>1. StartOf(epoch) <= packets[k].ts
      BY DEF PacketsIn
    <3>2. frags[n].epoch_start \in Nat
      BY <1>2 DEF FragmentStates
    <3> QED  BY <1>2, <2>1, <3>1, <3>2
  <2> QED  BY <1>2, <2>1, <2>2, SubepochIndexBounds
<1>6. \A i \in 0 .. m - 1 : Cardinality({k \in P : part[k] = i}) = CountAt(f, n, i)
  <2> SUFFICES ASSUME NEW i \in 0 .. m - 1
               PROVE  Cardinality({k \in P : part[k] = i}) = CountAt(f, n, i)
    OBVIOUS
  <2>1. {k \in P : part[k] = i} =
           {k \in PacketsIn(epoch) :
               /\ packets[k].flow = f
               /\ SubepochIndex(frags[n], packets[k].ts) = i}
    OBVIOUS
  <2> HIDE DEF P, part
  <2> QED  BY <2>1 DEF CountAt
<1>7. c \in Nat
  <2>1. {k \in PacketsIn(epoch) :
               /\ packets[k].flow = f
               /\ SubepochIndex(frags[n], packets[k].ts) = 0}
           \in SUBSET (1 .. Len(packets))
    BY <1>1, TraceFacts DEF PacketsIn
  <2> QED  BY <1>1, <2>1, PacketsFinite DEF CountAt
<1>8. \A i \in 0 .. m - 1 : Cardinality({k \in P : part[k] = i}) = c
  <2> HIDE DEF P, part
  <2> QED  BY <1>6
<1>9. CountIn(epoch, f) = Cardinality(P)
  BY DEF CountIn
<1> HIDE DEF P, part, m, c
<1>10. Cardinality(P) = m * c
  BY <1>2, <1>4, <1>5, <1>7, <1>8, EqualParts
<1> QED  BY <1>7, <1>9, <1>10 DEF m, c

\* If no other flow covers it in all rows, a flow that is spread evenly over
\* the subepochs of each node is estimated exactly, for every trace,
\* configuration, seed and number of nodes and subepochs, times the number
\* of its visits to each of them (README.md:24, Fragment.cpp:170-172).
THEOREM EvenFlowsEstimatedExactly ==
    ASSUME NoFlowHidden
    PROVE  Spec => EvenFlowsExact
<1>1. ASSUME IInv, FragInv, SampleInv, [Next]_vars, Closes,
             NEW f \in DOMAIN LastMetrics,
             \A h \in DOMAIN PathOf(f) :
                LET n == PathOf(f)[h]
                IN  /\ Visits(f, n) = Visits(f, PathOf(f)[1])
                    /\ \A i \in 0 .. frags[n].subepoch_count - 1 :
                          CountAt(f, n, i) = CountAt(f, n, 0)
      PROVE  LastMetrics[f].disketch
                = Visits(f, PathOf(f)[1]) * CountIn(epoch, f)
  <2> DEFINE L == Len(PathOf(f))
             V == Visits(f, PathOf(f)[1])
             C == CountIn(epoch, f)
             value == V * C
  <2>1. EndEpoch /\ pc = "packets" /\ ~MorePackets
    BY <1>1, OnlyEndEpochCloses
  <2>2. /\ f \in Flows
        /\ C \in Nat \ {0}
        /\ LastMetrics[f].disketch
              = Combine(Positive([h \in DOMAIN PathOf(f) |->
                                     NodeValue(f, PathOf(f)[h], Reports)]))
    BY <1>1, <2>1, ClosingEstimate
  <2>3. Typed /\ RouteOK
    BY <1>1 DEF IInv, FragInv
  <2>4. /\ L \in Nat \ {0} /\ DOMAIN PathOf(f) = 1 .. L
        /\ \A h \in 1 .. L : PathOf(f)[h] \in Nodes
    BY <2>2, <2>3, PathFacts
  <2>5. V \in Nat \ {0}
    <3> DEFINE H == {h \in DOMAIN PathOf(f) : PathOf(f)[h] = PathOf(f)[1]}
    <3>1. H # {} /\ H \in SUBSET (1 .. L)
      BY <2>4
    <3>2. IsFiniteSet(H)
      <4> HIDE DEF H, L
      <4>1. IsFiniteSet(1 .. L)
        BY <2>4, FS_Interval
      <4> QED  BY <3>1, <4>1, FS_Subset
    <3>3. Cardinality(H) \in Nat /\ Cardinality(H) # 0
      <4> HIDE DEF H
      <4> QED  BY <3>1, <3>2, FS_EmptySet, FS_CardinalityType
    <3> QED  BY <3>3 DEF Visits
  <2>6. value \in Nat \ {0}
    <3> HIDE DEF V, C
    <3> QED  BY <2>2, <2>5
  <2>7. ASSUME NEW h \in 1 .. L
        PROVE  NodeValue(f, PathOf(f)[h], Reports) = value
    <3> DEFINE n == PathOf(f)[h]
               m == frags[n].subepoch_count
               c == CountAt(f, n, 0)
    <3>1. n \in Nodes /\ (\E r \in Rows : Alone(r, f))
      BY <2>2, <2>4 DEF NoFlowHidden
    <3>2. /\ Visits(f, n) = V
          /\ \A i \in 0 .. m - 1 : CountAt(f, n, i) = c
      BY <1>1, <2>4
    <3> HIDE DEF n
    <3>3. PICK i \in WindowsAt(f, n) :
             NodeValue(f, n, Reports) = m * Visits(f, n) * CountAt(f, n, i)
      BY <1>1, <2>1, <2>2, <3>1, NodeValueOfWindow
    <3>4. WindowsAt(f, n) \subseteq 0 .. m - 1 /\ m \in Nat
      <4>1. Open(n, frags[n], packet_index)
        BY <1>1, <2>1, <3>1 DEF FragInv
      <4> QED  BY <2>2, <2>3, <3>1, <4>1, SomeWindow
    <3>5. CountAt(f, n, i) = c
      BY <3>2, <3>4
    <3>6. c \in Nat /\ C = m * c
      BY <1>1, <2>1, <2>2, <3>1, <3>2, EvenCount
    <3>7. m * V * c = V * (m * c)
      <4> HIDE DEF m, c, V
      <4> QED  BY <2>5, <3>4, <3>6
    <3>8. NodeValue(f, n, Reports) = value
      <4> HIDE DEF m, c, V, C
      <4> QED  BY <3>2, <3>3, <3>5, <3>6, <3>7 DEF value
    <3> QED  BY <3>8 DEF n
  <2>8. [h \in DOMAIN PathOf(f) |-> NodeValue(f, PathOf(f)[h], Reports)]
           = [h \in 1 .. L |-> value]
    <3> HIDE DEF value, L
    <3> QED  BY <2>4, <2>7
  <2>9. config.sketch_kind \in SketchKinds
    BY <2>3, ConfigsAssumption DEF Typed
  <2>10. Combine(Positive([h \in 1 .. L |-> value])) = value
    <3> HIDE DEF value, L
    <3> QED  BY <2>4, <2>6, <2>9, CombineConstant
  <2> HIDE DEF L
  <2> QED  BY <2>2, <2>8, <2>10
<1>2. IInv /\ FragInv /\ SampleInv /\ [Next]_vars => [Closes =>
        \A f \in DOMAIN LastMetrics :
            (\A h \in DOMAIN PathOf(f) :
                LET n == PathOf(f)[h]
                IN  /\ Visits(f, n) = Visits(f, PathOf(f)[1])
                    /\ \A i \in 0 .. frags[n].subepoch_count - 1 :
                          CountAt(f, n, i) = CountAt(f, n, 0))
            => LastMetrics[f].disketch
                  = Visits(f, PathOf(f)[1]) * CountIn(epoch, f)
      ]_vars
  BY <1>1
<1> QED  BY <1>2, Invariance, FragInvariance, PTL DEF Spec, EvenFlowsExact

=============================================================================
