------------------------- MODULE ConfigFile_proofs -------------------------
(***************************************************************************)
(* Theorems about a configuration file: what ConfigParser::parse           *)
(* guarantees of every text that it accepts, and what is left of the file  *)
(* however it is rewritten, read and cut short.                            *)
(***************************************************************************)
EXTENDS ConfigFile, Arithmetic_proofs, SequenceTheorems

(* Texts.                                                                  *)

\* The lines a text is made of.
Lines == UNION {[{key} -> LineValues[key]] : key \in DOMAIN LineValues}

LEMMA TextOfLines ==
    ASSUME NEW lines
    PROVE  IsText(lines) <=> lines \in Seq(Lines)
<1>1. \A line : IsLine(line) <=> line \in Lines
  BY DEF IsLine, Lines
<1> DEFINE S == {lines[k] : k \in DOMAIN lines}
<1>2. ASSUME IsText(lines) PROVE lines \in Seq(Lines)
  <2>1. lines \in Seq(S) /\ \A k \in DOMAIN lines : lines[k] \in Lines
    BY <1>1, <1>2 DEF IsText
  <2>2. S \subseteq Lines
    BY <2>1
  <2> HIDE DEF S
  <2> QED  BY <2>1, <2>2, SeqMonotonic
<1>3. ASSUME lines \in Seq(Lines) PROVE IsText(lines)
  <2>1. /\ Len(lines) \in Nat /\ DOMAIN lines = 1 .. Len(lines)
        /\ lines \in [1 .. Len(lines) -> Lines]
    BY <1>3, LenProperties
  <2>2. lines \in Seq(S)
    <3>1. lines \in [1 .. Len(lines) -> S]
      BY <2>1
    <3> HIDE DEF S
    <3> QED  BY <2>1, <3>1, SeqDef
  <2>3. \A k \in DOMAIN lines : IsLine(lines[k])
    BY <1>1, <2>1
  <2> QED  BY <2>2, <2>3 DEF IsText
<1> QED  BY <1>2, <1>3

\* What holds of the empty text, and of a text with one line more if it
\* holds of the text, holds of every text.
LEMMA TextInduction ==
    ASSUME NEW S, NEW Good, <<>> \in Good,
           \A s \in Seq(S), x \in S : s \in Good => Append(s, x) \in Good
    PROVE  \A s \in Seq(S) : s \in Good
<1> DEFINE N == {n \in Nat : \A s \in Seq(S) : Len(s) = n => s \in Good}
<1>1. 0 \in N
  <2>1. \A s \in Seq(S) : Len(s) = 0 => s = <<>>
    BY EmptySeq
  <2> QED  BY <2>1
<1>2. ASSUME NEW n \in Nat, n \in N
      PROVE  n + 1 \in N
  <2> SUFFICES ASSUME NEW s \in Seq(S), Len(s) = n + 1
               PROVE  s \in Good
    OBVIOUS
  <2>1. s # <<>>
    BY EmptySeq
  <2>2. PICK t \in Seq(S), x \in S : s = Append(t, x)
    BY <2>1, SequenceEmptyOrAppend
  <2>3. Len(t) = n
    BY <2>2, AppendProperties, LenProperties
  <2>4. t \in Good
    BY <1>2, <2>3
  <2> QED  BY <2>2, <2>4
<1>3. \A n \in Nat : n \in N
  <2> HIDE DEF N
  <2> QED  BY <1>1, <1>2, AllNumbers
<1> QED  BY <1>3, LenProperties

-----------------------------------------------------------------------------
(* What parse accepts.                                                     *)

\* A finite set of numbers has a largest one.  Of the sets of the elements
\* above an element, a smallest one exists, because inclusion is well-founded
\* on the subsets of a finite set; that element has nothing above it.
LEMMA LatestExists ==
    ASSUME NEW S \in SUBSET Nat, IsFiniteSet(S), S # {}
    PROVE  Latest(S) \in S /\ \A j \in S : j <= Latest(S)
<1> DEFINE After(k) == {j \in S : k < j}
           T == {After(k) : k \in S}
           R == StrictSubsetOrdering(S)
           F == FiniteSubsetsOf(S)
<1>1. T \subseteq F /\ T # {}
  <2>1. FiniteSubsetsOf(S) = SUBSET S
    BY FS_FiniteSubsetsOfFinite
  <2>2. T \subseteq SUBSET S /\ T # {}
    <3> HIDE DEF F, R
    <3> QED  OBVIOUS
  <2> QED  BY <2>1, <2>2
<1>2. IsWellFoundedOn(R, F)
  BY FS_StrictSubsetOrderingWellFounded
<1>3. PICK x \in T : \A y \in T : ~ (<<y, x>> \in R)
  <2> HIDE DEF R, T, F
  <2> QED  BY <1>1, <1>2, WFMin
<1>4. PICK k \in S : \A i : i \in x <=> i \in S /\ k < i
  BY <1>3, Zenon
<1>5. \A j \in S : j <= k
  <2> SUFFICES ASSUME NEW j \in S, k < j  PROVE FALSE
    OBVIOUS
  <2>1. PICK y \in T : \A i : i \in y <=> i \in S /\ j < i
    <3>1. After(j) \in T
      OBVIOUS
    <3>2. \A i : i \in After(j) <=> i \in S /\ j < i
      BY Zenon
    <3> HIDE DEF T, After
    <3> QED  BY <3>1, <3>2, Zenon
  <2>2. j \in x /\ j \notin y
    BY <1>4, <2>1
  <2>3. y \subseteq x
    <3> SUFFICES ASSUME NEW i \in y  PROVE i \in x
      BY Zenon
    <3>1. i \in S /\ j < i
      BY <2>1, Zenon
    <3>2. k < i
      BY <3>1
    <3> QED  BY <3>1, <3>2, <1>4, Zenon
  <2>4. <<y, x>> \in R
    BY <2>2, <2>3, <1>1 DEF StrictSubsetOrdering, FiniteSubsetsOf
  <2> QED  BY <2>4, <1>3
<1> QED  BY <1>5 DEF Latest

\* GetValue gives a value of the key's kind, or the default.
LEMMA ValueIn ==
    ASSUME NEW lines, IsText(lines), NEW s, NEW key \in DOMAIN LineValues,
           NEW default \in LineValues[key]
    PROVE  Value(lines, s, key, default) \in LineValues[key]
<1> DEFINE ks == {k \in DOMAIN lines :
                    DOMAIN lines[k] = {key} /\ SectionAt(lines, k) = s}
<1>1. CASE ks = {}
  BY <1>1 DEF Value
<1>2. CASE ks # {}
  <2>1. ks \in SUBSET Nat /\ IsFiniteSet(ks)
    <3>1. ks \in SUBSET (1 .. Len(lines)) /\ Len(lines) \in Nat
      BY LenProperties DEF IsText
    <3> HIDE DEF ks
    <3>2. ks \in SUBSET Nat /\ \A k \in ks : k <= Len(lines)
      BY <3>1
    <3> QED  BY <3>1, <3>2, FS_BoundedSetOfNaturals
  <2>2. Latest(ks) \in ks
    <3> HIDE DEF ks
    <3> QED  BY <1>2, <2>1, LatestExists
  <2>3. PICK k \in DOMAIN lines : k = Latest(ks) /\ DOMAIN lines[k] = {key}
    BY <2>2
  <2>4. PICK other \in DOMAIN LineValues :
            lines[k] \in [{other} -> LineValues[other]]
    BY DEF IsText, IsLine
  <2>5. other = key
    BY <2>3, <2>4
  <2>6. lines[k][key] \in LineValues[key]
    BY <2>4, <2>5
  <2>7. Value(lines, s, key, default) = lines[k][key]
    BY <2>3, <1>2 DEF Value
  <2> QED  BY <2>6, <2>7
<1> QED  BY <1>1, <1>2

\* GetLongValue gives a number for a numeric key.
LEMMA NumberIn ==
    ASSUME NEW lines, IsText(lines), NEW s, NEW key \in NumericKeys,
           NEW default \in Int
    PROVE  Number(lines, s, key, default) \in Int
<1>1. key \in DOMAIN LineValues /\ LineValues[key] = Numbers
  BY DEF LineValues, NumericKeys
<1> DEFINE number == Value(lines, s, key, <<>>)
<1>2. number \in Numbers
  <2>1. <<>> \in LineValues[key]
    BY <1>1 DEF Numbers
  <2>2. Value(lines, s, key, <<>>) \in LineValues[key]
    BY <1>1, <2>1, ValueIn
  <2> QED  BY <1>1, <2>2
<1>3. number # <<>> => number[1] \in Int
  <2> HIDE DEF number
  <2>1. number = <<>> \/ number \in [{1} -> Int]
    BY <1>2 DEF Numbers
  <2> QED  BY <2>1
<1> QED  BY <1>3 DEF Number

\* The conversions of a long keep the width of their results.
LEMMA Narrowing ==
    ASSUME NEW n \in Int
    PROVE  /\ Uint(n) \in 0 .. UintLimit - 1
           /\ Ulong(n) \in 0 .. UlongLimit - 1
BY LimitsAssumption DEF Uint, Ulong

\* A fragment read from any text has a depth, and a ceiling that is not below
\* its start (ConfigParser.cpp:67-88).
LEMMA FragmentTypes ==
    ASSUME NEW lines, IsText(lines), NEW n \in FragmentSections
    PROVE  LET f == FragmentOf(lines, n)
           IN  f.depth >= 1 /\ f.initial_subepoch <= f.max_subepoch
<1> DEFINE number(key, default) == Number(lines, <<"fragment", n>>, key, default)
           initial == Uint(number("initial_subepoch", 1))
           depth == Uint(number("depth", 1))
           max == Uint(number("max_subepoch", initial))
           f == FragmentOf(lines, n)
<1>1. {"initial_subepoch", "depth", "max_subepoch"} \subseteq NumericKeys
  BY DEF NumericKeys
<1>2. initial \in 0 .. UintLimit - 1
  BY <1>1, NumberIn, Narrowing
<1>3. depth \in 0 .. UintLimit - 1
  BY <1>1, NumberIn, Narrowing
<1>4. max \in 0 .. UintLimit - 1
  <2>1. initial \in Int
    BY <1>2
  <2> HIDE DEF initial
  <2> QED  BY <1>1, <2>1, NumberIn, Narrowing
<1>5. /\ f.initial_subepoch = initial
      /\ f.depth = Depth(depth)
      /\ f.max_subepoch = Ceiling(max, initial)
  BY DEF FragmentOf
<1> HIDE DEF initial, depth, max, f
<1>6. f.depth >= 1 /\ f.initial_subepoch <= f.max_subepoch
  BY <1>2, <1>3, <1>4, <1>5, LimitsAssumption DEF Depth, Ceiling
<1> QED  BY <1>6 DEF f

\* A fragment index looked up for a known name is that of a fragment with
\* this name, and no later fragment has it.
LEMMA IndexOfName ==
    ASSUME NEW lines, IsText(lines), NEW name, Named(lines, name) # {}
    PROVE  /\ fragment_index(lines, name) \in Named(lines, name)
           /\ \A n \in Named(lines, name) : n <= fragment_index(lines, name)
<1>1. Named(lines, name) \in SUBSET FragmentSections
  BY DEF Named, Fragments
<1>2. IsFiniteSet(Named(lines, name)) /\ Named(lines, name) \in SUBSET Nat
  BY <1>1, SectionsAssumption, FS_Subset
<1> QED  BY <1>2, LatestExists DEF fragment_index

\* The nodes of a path are a sequence, whatever is in the file.
LEMMA NodesType ==
    ASSUME NEW lines, IsText(lines), NEW p
    PROVE  Nodes(lines, p) \in Seq(Texts)
<1>1. "nodes" \in DOMAIN LineValues /\ LineValues["nodes"] = Seq(Texts)
  BY DEF LineValues
<1>2. <<>> \in Seq(Texts)
  OBVIOUS
<1> QED  BY <1>1, <1>2, ValueIn DEF Nodes

\* What acceptance says about the paths.
LEMMA AcceptedPaths ==
    ASSUME NEW lines, Accepts(lines)
    PROVE  /\ Paths(lines) # {}
           /\ \A p \in Paths(lines) :
                 /\ Nodes(lines, p) # <<>>
                 /\ \A h \in DOMAIN Nodes(lines, p) :
                       Named(lines, Nodes(lines, p)[h]) # {}
BY Zenon DEF Accepts

\* A configuration that parse accepts, from whatever text, has a path, on
\* every path a node, for every hop a fragment, and fragments with a depth and
\* a ceiling that is not below their start (ConfigParser.cpp:83-99, 117-155).
THEOREM AcceptedTextIsWellFormed ==
    ASSUME NEW lines, IsText(lines), Accepts(lines)
    PROVE  WellFormed(ConfigOf(lines))
<1> DEFINE c == ConfigOf(lines)
           hops(p) == [h \in DOMAIN Nodes(lines, p) |->
                         fragment_index(lines, Nodes(lines, p)[h])]
<1>1. /\ c.fragments = [n \in Fragments(lines) |-> FragmentOf(lines, n)]
      /\ c.paths = [p \in Paths(lines) |-> hops(p)]
  BY DEF ConfigOf
<1>4. ASSUME NEW n \in DOMAIN c.fragments
      PROVE  LET f == c.fragments[n]
             IN  f.depth >= 1 /\ f.initial_subepoch <= f.max_subepoch
  <2>1. n \in FragmentSections /\ c.fragments[n] = FragmentOf(lines, n)
    BY <1>1, <1>4 DEF Fragments
  <2> QED  BY <2>1, FragmentTypes
<1>5. DOMAIN c.paths # {}
  BY <1>1, AcceptedPaths
<1>6. ASSUME NEW p \in DOMAIN c.paths
      PROVE  /\ DOMAIN c.paths[p] # {}
             /\ \A h \in DOMAIN c.paths[p] :
                   c.paths[p][h] \in DOMAIN c.fragments
  <2>1. p \in Paths(lines) /\ c.paths[p] = hops(p)
    BY <1>1, <1>6
  <2>2. DOMAIN c.paths[p] = DOMAIN Nodes(lines, p)
    BY <2>1
  <2>3. Nodes(lines, p) \in Seq(Texts) /\ Nodes(lines, p) # <<>>
    BY <2>1, NodesType, AcceptedPaths
  <2>4. DOMAIN Nodes(lines, p) # {}
    <3>1. Len(Nodes(lines, p)) \in Nat \ {0}
      BY <2>3
    <3> QED  BY <2>3, <3>1
  <2>5. ASSUME NEW h \in DOMAIN Nodes(lines, p)
        PROVE  c.paths[p][h] \in DOMAIN c.fragments
    <3>1. Named(lines, Nodes(lines, p)[h]) # {}
      BY <2>1, AcceptedPaths
    <3>2. c.paths[p][h] \in Named(lines, Nodes(lines, p)[h])
      BY <2>1, <3>1, IndexOfName
    <3> QED  BY <3>2, <1>1 DEF Named
  <2> QED  BY <2>2, <2>4, <2>5
<1> HIDE DEF c
<1>7. WellFormed(c)
  BY <1>4, <1>5, <1>6 DEF WellFormed
<1> QED  BY <1>7 DEF c

\* Every hop of an accepted configuration leads to a node with the name that
\* the file gives, the last one with it (ConfigParser.cpp:91, 123-141).
THEOREM AcceptedHopsAsNamed ==
    ASSUME NEW lines, IsText(lines), Accepts(lines),
           NEW p \in Paths(lines), NEW h \in DOMAIN Nodes(lines, p)
    PROVE  LET c == ConfigOf(lines)
               n == c.paths[p][h]
           IN  /\ c.fragments[n].name = Nodes(lines, p)[h]
               /\ \A m \in DOMAIN c.fragments :
                     c.fragments[m].name = c.fragments[n].name => m <= n
<1> DEFINE c == ConfigOf(lines)
           n == fragment_index(lines, Nodes(lines, p)[h])
<1>1. c.fragments = [m \in Fragments(lines) |-> FragmentOf(lines, m)]
  BY DEF ConfigOf
<1>2. c.paths[p][h] = n
  BY DEF ConfigOf
<1>3. Named(lines, Nodes(lines, p)[h]) # {}
  BY AcceptedPaths
<1>4. /\ n \in Named(lines, Nodes(lines, p)[h])
      /\ \A m \in Named(lines, Nodes(lines, p)[h]) : m <= n
  BY <1>3, IndexOfName
<1> HIDE DEF c, n
<1>5. n \in Fragments(lines) /\ FragmentOf(lines, n).name = Nodes(lines, p)[h]
  BY <1>4 DEF Named
<1>6. \A m \in DOMAIN c.fragments :
        c.fragments[m].name = Nodes(lines, p)[h] => m <= n
  BY <1>1, <1>4 DEF Named
<1> QED  BY <1>1, <1>2, <1>5, <1>6 DEF c

-----------------------------------------------------------------------------
(* Settings.                                                               *)

\* One line more of the functional part.
Keep(s, x) == IF IsRemark(x) THEN s ELSE Append(s, x)

\* The loop over the lines.
Walked(w, lines) ==
    /\ w[0] = <<>>
    /\ \A k \in 1 .. Len(lines) : w[k] = Keep(w[k - 1], lines[k])
    /\ Settings(lines) = w[Len(lines)]

LEMMA SettingsWalk ==
    ASSUME NEW lines, Len(lines) \in Nat
    PROVE  \E w : Walked(w, lines)
<1> DEFINE step(k, s) == IF IsRemark(lines[k]) THEN s ELSE Append(s, lines[k])
           Walk(n, w) == w = [k \in 0 .. n |->
                                 IF k = 0 THEN <<>> ELSE step(k, w[k - 1])]
           Good == {n \in Nat : \E w : Walk(n, w)}
           W == CHOOSE w : w = [k \in 0 .. Len(lines) |->
                   IF k = 0 THEN <<>>
                   ELSE IF IsRemark(lines[k]) THEN w[k - 1]
                   ELSE Append(w[k - 1], lines[k])]
<1>1. Settings(lines) = W[Len(lines)]
  BY DEF Settings
<1>2. 0 \in Good
  <2> DEFINE w == [k \in 0 .. 0 |-> <<>>]
  <2>1. w = [k \in 0 .. 0 |-> IF k = 0 THEN <<>> ELSE step(k, w[k - 1])]
    OBVIOUS
  <2> QED  BY <2>1
<1>3. ASSUME NEW n \in Nat, n \in Good
      PROVE  n + 1 \in Good
  <2>1. PICK w : Walk(n, w)
    BY <1>3
  <2> HIDE DEF step
  <2> DEFINE u == [k \in 0 .. n + 1 |->
                      IF k <= n THEN w[k] ELSE step(n + 1, w[n])]
  <2>2. \A k \in 0 .. n + 1 :
          u[k] = IF k = 0 THEN <<>> ELSE step(k, u[k - 1])
    <3> SUFFICES ASSUME NEW k \in 0 .. n + 1
                 PROVE  u[k] = IF k = 0 THEN <<>> ELSE step(k, u[k - 1])
      OBVIOUS
    <3>1. CASE k <= n
      <4>1. u[k] = w[k] /\ (k # 0 => u[k - 1] = w[k - 1])
        BY <3>1
      <4>2. w[k] = IF k = 0 THEN <<>> ELSE step(k, w[k - 1])
        BY <2>1, <3>1
      <4> QED  BY <4>1, <4>2
    <3>2. CASE k = n + 1
      <4>1. u[k] = step(n + 1, w[n]) /\ u[k - 1] = w[n] /\ k # 0
        BY <3>2
      <4> QED  BY <3>2, <4>1
    <3> QED  BY <3>1, <3>2
  <2>3. Walk(n + 1, u)
    BY <2>2
  <2> HIDE DEF u, Walk
  <2>4. \E v : Walk(n + 1, v)
    BY <2>3
  <2> QED  BY <2>4
<1>4. Len(lines) \in Good
  <2> HIDE DEF Good
  <2>1. \A n \in Nat : n \in Good => n + 1 \in Good
    BY <1>3
  <2>2. \A n \in Nat : n \in Good
    BY <1>2, <2>1, AllNumbers
  <2> QED  BY <2>2
<1>5. W = [k \in 0 .. Len(lines) |-> IF k = 0 THEN <<>> ELSE step(k, W[k - 1])]
  BY <1>4, Zenon
<1> HIDE DEF W
<1>6. /\ W[0] = <<>>
      /\ \A k \in 1 .. Len(lines) : W[k] = step(k, W[k - 1])
  <2> HIDE DEF step
  <2> QED  BY <1>5
<1>7. \A k \in 1 .. Len(lines) : W[k] = Keep(W[k - 1], lines[k])
  BY <1>6 DEF Keep
<1> QED  BY <1>1, <1>6, <1>7 DEF Walked

\* Line by line.
LEMMA SettingsSteps ==
    /\ Settings(<<>>) = <<>>
    /\ \A S : \A s \in Seq(S), x \in S :
          Settings(Append(s, x)) = Keep(Settings(s), x)
<1>1. Settings(<<>>) = <<>>
  <2>1. Len(<<>>) = 0
    OBVIOUS
  <2> QED  BY <2>1, SettingsWalk DEF Walked
<1>2. ASSUME NEW S, NEW s \in Seq(S), NEW x \in S
      PROVE  Settings(Append(s, x)) = Keep(Settings(s), x)
  <2> DEFINE n == Len(s)
             ext == Append(s, x)
  <2>1. /\ n \in Nat /\ Len(ext) = n + 1
        /\ \A k \in 1 .. n : ext[k] = s[k]
        /\ ext[n + 1] = x
    BY AppendProperties, LenProperties
  <2> HIDE DEF n, ext
  <2>2. PICK w : Walked(w, s)
    BY <2>1, SettingsWalk DEF n
  <2>3. PICK u : Walked(u, ext)
    <3>1. Len(ext) \in Nat
      BY <2>1
    <3> QED  BY <3>1, SettingsWalk
  <2> DEFINE Same == {k \in Nat : k <= n => u[k] = w[k]}
  <2>4. 0 \in Same
    BY <2>2, <2>3 DEF Walked
  <2>5. ASSUME NEW k \in Nat, k \in Same
        PROVE  k + 1 \in Same
    <3> SUFFICES ASSUME k + 1 <= n PROVE u[k + 1] = w[k + 1]
      OBVIOUS
    <3>1. u[k] = w[k]
      BY <2>1, <2>5
    <3>2. k + 1 \in 1 .. n /\ k + 1 \in 1 .. n + 1 /\ (k + 1) - 1 = k
      BY <2>1
    <3>3. w[k + 1] = Keep(w[k], s[k + 1])
      BY <2>2, <3>2 DEF Walked, n
    <3>4. u[k + 1] = Keep(u[k], ext[k + 1])
      BY <2>1, <2>3, <3>2 DEF Walked
    <3> QED  BY <2>1, <3>1, <3>2, <3>3, <3>4
  <2>6. n \in Same
    <3> HIDE DEF Same
    <3> QED  BY <2>1, <2>4, <2>5, AllNumbers
  <2>7. u[n + 1] = Keep(u[n], ext[n + 1])
    <3>1. n + 1 \in 1 .. n + 1 /\ (n + 1) - 1 = n
      BY <2>1
    <3> QED  BY <2>1, <2>3, <3>1 DEF Walked
  <2>8. u[n] = w[n]
    BY <2>1, <2>6
  <2>9. Settings(s) = w[n] /\ Settings(ext) = u[n + 1]
    BY <2>1, <2>2, <2>3 DEF Walked, n
  <2> QED  BY <2>1, <2>7, <2>8, <2>9 DEF ext
<1> QED  BY <1>1, <1>2

\* The functional part of a text has no remarks, and is all that there is of
\* a text without any.
LEMMA SettingsType ==
    ASSUME NEW S, NEW s \in Seq(S)
    PROVE  /\ Settings(s) \in Seq(S)
           /\ \A k \in 1 .. Len(Settings(s)) : ~IsRemark(Settings(s)[k])
<1> DEFINE Good == {r \in Seq(S) :
                      /\ Settings(r) \in Seq(S)
                      /\ \A k \in 1 .. Len(Settings(r)) :
                            ~IsRemark(Settings(r)[k])}
<1>1. <<>> \in Good
  <2>1. Settings(<<>>) = <<>> /\ <<>> \in Seq(S) /\ 1 .. Len(<<>>) = {}
    BY SettingsSteps, EmptySeq
  <2> QED  BY <2>1
<1>2. ASSUME NEW r \in Seq(S), NEW x \in S, r \in Good
      PROVE  Append(r, x) \in Good
  <2> DEFINE t == Settings(r)
  <2>1. t \in Seq(S) /\ \A k \in 1 .. Len(t) : ~IsRemark(t[k])
    BY <1>2
  <2>2. Append(r, x) \in Seq(S) /\ Settings(Append(r, x)) = Keep(t, x)
    BY SettingsSteps, AppendProperties
  <2> HIDE DEF t
  <2>3. CASE IsRemark(x)
    BY <2>1, <2>2, <2>3 DEF Keep
  <2>4. CASE ~IsRemark(x)
    <3>1. /\ Append(t, x) \in Seq(S)
          /\ Len(Append(t, x)) = Len(t) + 1 /\ Len(t) \in Nat
          /\ \A k \in 1 .. Len(t) : Append(t, x)[k] = t[k]
          /\ Append(t, x)[Len(t) + 1] = x
      BY <2>1, AppendProperties, LenProperties
    <3>2. Settings(Append(r, x)) = Append(t, x)
      BY <2>2, <2>4 DEF Keep
    <3>3. \A k \in 1 .. Len(t) + 1 : ~IsRemark(Append(t, x)[k])
      BY <2>1, <2>4, <3>1
    <3> QED  BY <2>2, <3>1, <3>2, <3>3
  <2> QED  BY <2>3, <2>4
<1>3. \A r \in Seq(S) : r \in Good
  <2> HIDE DEF Good
  <2> QED  BY <1>1, <1>2, TextInduction
<1> QED  BY <1>3

LEMMA NothingToDrop ==
    ASSUME NEW S, NEW s \in Seq(S), \A k \in 1 .. Len(s) : ~IsRemark(s[k])
    PROVE  Settings(s) = s
<1> DEFINE Good == {r \in Seq(S) : (\A k \in 1 .. Len(r) : ~IsRemark(r[k]))
                                      => Settings(r) = r}
<1>1. <<>> \in Good
  BY SettingsSteps, EmptySeq
<1>2. ASSUME NEW r \in Seq(S), NEW x \in S, r \in Good
      PROVE  Append(r, x) \in Good
  <2>1. /\ Append(r, x) \in Seq(S)
        /\ Len(Append(r, x)) = Len(r) + 1 /\ Len(r) \in Nat
        /\ \A k \in 1 .. Len(r) : Append(r, x)[k] = r[k]
        /\ Append(r, x)[Len(r) + 1] = x
    BY AppendProperties, LenProperties
  <2> SUFFICES ASSUME \A k \in 1 .. Len(Append(r, x)) :
                         ~IsRemark(Append(r, x)[k])
               PROVE  Settings(Append(r, x)) = Append(r, x)
    BY <2>1
  <2>2. ~IsRemark(x)
    BY <2>1
  <2>3. \A k \in 1 .. Len(r) : ~IsRemark(r[k])
    BY <2>1
  <2>4. Settings(r) = r
    BY <1>2, <2>3
  <2> QED  BY <2>2, <2>4, SettingsSteps DEF Keep
<1>3. \A r \in Seq(S) : r \in Good
  <2> HIDE DEF Good
  <2> QED  BY <1>1, <1>2, TextInduction
<1> QED  BY <1>3

LEMMA OnlyRemarks ==
    ASSUME NEW S, NEW s \in Seq(S), \A k \in 1 .. Len(s) : IsRemark(s[k])
    PROVE  Settings(s) = <<>>
<1> DEFINE Good == {r \in Seq(S) : (\A k \in 1 .. Len(r) : IsRemark(r[k]))
                                      => Settings(r) = <<>>}
<1>1. <<>> \in Good
  BY SettingsSteps, EmptySeq
<1>2. ASSUME NEW r \in Seq(S), NEW x \in S, r \in Good
      PROVE  Append(r, x) \in Good
  <2>1. /\ Append(r, x) \in Seq(S)
        /\ Len(Append(r, x)) = Len(r) + 1 /\ Len(r) \in Nat
        /\ \A k \in 1 .. Len(r) : Append(r, x)[k] = r[k]
        /\ Append(r, x)[Len(r) + 1] = x
    BY AppendProperties, LenProperties
  <2> SUFFICES ASSUME \A k \in 1 .. Len(Append(r, x)) :
                         IsRemark(Append(r, x)[k])
               PROVE  Settings(Append(r, x)) = <<>>
    BY <2>1
  <2>2. IsRemark(x)
    BY <2>1
  <2>3. \A k \in 1 .. Len(r) : IsRemark(r[k])
    BY <2>1
  <2>4. Settings(r) = <<>>
    BY <1>2, <2>3
  <2> QED  BY <2>2, <2>4, SettingsSteps DEF Keep
<1>3. \A r \in Seq(S) : r \in Good
  <2> HIDE DEF Good
  <2> QED  BY <1>1, <1>2, TextInduction
<1> QED  BY <1>3

\* A line after the second part is one after the whole.
LEMMA AppendToConcat ==
    ASSUME NEW S, NEW s \in Seq(S), NEW t \in Seq(S), NEW x \in S
    PROVE  s \o Append(t, x) = Append(s \o t, x)
<1>1. <<x>> \in Seq(S)
  OBVIOUS
<1>2. s \o t \in Seq(S)
  BY ConcatProperties
<1>3. Append(t, x) = t \o <<x>>
  BY AppendIsConcat
<1>4. Append(s \o t, x) = (s \o t) \o <<x>>
  BY <1>2, AppendIsConcat
<1> QED  BY <1>1, <1>3, <1>4, ConcatAssociative

LEMMA SettingsConcat ==
    ASSUME NEW S, NEW s \in Seq(S), NEW t \in Seq(S)
    PROVE  Settings(s \o t) = Settings(s) \o Settings(t)
<1> DEFINE Good == {r \in Seq(S) : Settings(s \o r) = Settings(s) \o Settings(r)}
<1>1. <<>> \in Good
  <2>1. s \o <<>> = s /\ Settings(s) \o <<>> = Settings(s)
    BY SettingsType, ConcatEmptySeq
  <2> QED  BY <2>1, SettingsSteps, EmptySeq
<1>2. ASSUME NEW r \in Seq(S), NEW x \in S, r \in Good
      PROVE  Append(r, x) \in Good
  <2> DEFINE a == Settings(s)
             b == Settings(r)
  <2>1. a \in Seq(S) /\ b \in Seq(S) /\ Append(r, x) \in Seq(S)
    BY SettingsType, AppendProperties
  <2>2. s \o r \in Seq(S) /\ s \o Append(r, x) = Append(s \o r, x)
    BY ConcatProperties, AppendToConcat
  <2>3. Settings(s \o r) = a \o b
    BY <1>2
  <2>4. /\ Settings(s \o Append(r, x)) = Keep(a \o b, x)
        /\ Settings(Append(r, x)) = Keep(b, x)
    BY <2>2, <2>3, SettingsSteps
  <2>5. Keep(a \o b, x) = a \o Keep(b, x)
    <3> HIDE DEF a, b
    <3>1. a \o Append(b, x) = Append(a \o b, x)
      BY <2>1, AppendToConcat
    <3> QED  BY <3>1 DEF Keep
  <2> QED  BY <2>1, <2>4, <2>5
<1>3. \A r \in Seq(S) : r \in Good
  <2> HIDE DEF Good
  <2> QED  BY <1>1, <1>2, TextInduction
<1> QED  BY <1>3

-----------------------------------------------------------------------------
(* Sizes.                                                                  *)

LEMMA LineSizeType ==
    ASSUME NEW x \in Lines
    PROVE  LineSize(x) \in Nat \ {0}
<1>1. PICK key \in DOMAIN LineValues : x \in [{key} -> LineValues[key]]
  BY DEF Lines
<1>2. CASE key = "comment"
  <2>1. LineValues["comment"] = Nat \ {0}
    BY DEF LineValues
  <2>2. x \in [{"comment"} -> Nat \ {0}]
    BY <1>1, <1>2, <2>1
  <2>3. x["comment"] \in Nat \ {0} /\ DOMAIN x = {"comment"}
    BY <2>2
  <2> QED  BY <2>3 DEF LineSize
<1>3. CASE key # "comment"
  BY <1>1, <1>3 DEF LineSize
<1> QED  BY <1>2, <1>3

LEMMA SizeSteps ==
    /\ Size(<<>>) = 0
    /\ \A S \in SUBSET Lines : \A s \in Seq(S), x \in S :
          Size(Append(s, x)) = Size(s) + LineSize(x)
<1>1. Size(<<>>) = 0
  <2>1. DOMAIN [k \in DOMAIN <<>> |-> LineSize(<<>>[k])] = {}
    OBVIOUS
  <2> QED  BY <2>1, SumEmpty DEF Size, SumFunction
<1>2. ASSUME NEW S \in SUBSET Lines, NEW s \in Seq(S), NEW x \in S
      PROVE  Size(Append(s, x)) = Size(s) + LineSize(x)
  <2> DEFINE n == Len(s)
             ext == Append(s, x)
             old == [k \in DOMAIN s |-> LineSize(s[k])]
             new == [k \in DOMAIN ext |-> LineSize(ext[k])]
  <2>1. /\ n \in Nat /\ DOMAIN s = 1 .. n
        /\ DOMAIN ext = 1 .. n + 1
        /\ \A k \in 1 .. n : ext[k] = s[k] /\ s[k] \in S
        /\ ext[n + 1] = x
    BY AppendProperties, LenProperties, ElementOfSeq
  <2> HIDE DEF n, ext
  <2>2. IsFiniteSet(1 .. n) /\ IsFiniteSet(1 .. n + 1)
    BY <2>1, FS_Interval
  <2>3. /\ DOMAIN old = 1 .. n /\ DOMAIN new = 1 .. n + 1
        /\ \A k \in 1 .. n : old[k] \in Nat
        /\ \A k \in 1 .. n : old[k] = new[k]
        /\ \A k \in 1 .. n + 1 : new[k] \in Nat
        /\ new[n + 1] = LineSize(x)
    BY <2>1, LineSizeType
  <2> HIDE DEF old, new
  <2>4. (1 .. n + 1) \ {n + 1} = 1 .. n /\ n + 1 \in 1 .. n + 1
    BY <2>1
  <2>5. SumFunctionOnSet(new, 1 .. n + 1)
           = LineSize(x) + SumFunctionOnSet(new, 1 .. n)
    <3>1. SumFunctionOnSet(new, 1 .. n + 1)
             = new[n + 1] + SumFunctionOnSet(new, (1 .. n + 1) \ {n + 1})
      BY <2>2, <2>3, <2>4, SumRemove
    <3> QED  BY <2>3, <2>4, <3>1
  <2> DEFINE D == 1 .. n
  <2>a. /\ IsFiniteSet(D)
        /\ \A k \in D : old[k] \in Nat
        /\ \A k \in D : old[k] = new[k]
    BY <2>2, <2>3
  <2>6. SumFunctionOnSet(old, 1 .. n) = SumFunctionOnSet(new, 1 .. n)
    <3> HIDE DEF D
    <3>1. SumFunctionOnSet(old, D) = SumFunctionOnSet(new, D)
      BY <2>a, SumCongruent
    <3> QED  BY <3>1 DEF D
  <2>7. SumFunctionOnSet(old, 1 .. n) \in Nat
    <3> HIDE DEF D
    <3>1. SumFunctionOnSet(old, D) \in Nat
      BY <2>a, SumType
    <3> QED  BY <3>1 DEF D
  <2>8. /\ Size(ext) = SumFunctionOnSet(new, 1 .. n + 1)
        /\ Size(s) = SumFunctionOnSet(old, 1 .. n)
    BY <2>3 DEF Size, SumFunction, old, new
  <2>9. LineSize(x) \in Nat
    BY LineSizeType
  <2>10. Size(ext) = Size(s) + LineSize(x)
    BY <2>5, <2>6, <2>7, <2>8, <2>9
  <2> QED  BY <2>10 DEF ext
<1> QED  BY <1>1, <1>2

LEMMA SizeType ==
    ASSUME NEW S \in SUBSET Lines, NEW s \in Seq(S)
    PROVE  Size(s) \in Nat /\ (Size(s) = 0 => s = <<>>)
<1> DEFINE Good == {r \in Seq(S) : Size(r) \in Nat /\ (Size(r) = 0 => r = <<>>)}
<1>1. <<>> \in Good
  BY SizeSteps, EmptySeq
<1>2. ASSUME NEW r \in Seq(S), NEW x \in S, r \in Good
      PROVE  Append(r, x) \in Good
  <2>1. Append(r, x) \in Seq(S) /\ Size(Append(r, x)) = Size(r) + LineSize(x)
    BY SizeSteps, AppendProperties
  <2>2. Size(r) \in Nat /\ LineSize(x) \in Nat \ {0}
    BY <1>2, LineSizeType
  <2> QED  BY <2>1, <2>2
<1>3. \A r \in Seq(S) : r \in Good
  <2> HIDE DEF Good
  <2> QED  BY <1>1, <1>2, TextInduction
<1> QED  BY <1>3

LEMMA SizeConcat ==
    ASSUME NEW S \in SUBSET Lines, NEW s \in Seq(S), NEW t \in Seq(S)
    PROVE  Size(s \o t) = Size(s) + Size(t)
<1> DEFINE Good == {r \in Seq(S) : Size(s \o r) = Size(s) + Size(r)}
<1>1. <<>> \in Good
  <2>1. s \o <<>> = s /\ Size(s) \in Nat
    BY ConcatEmptySeq, SizeType
  <2> QED  BY <2>1, SizeSteps, EmptySeq
<1>2. ASSUME NEW r \in Seq(S), NEW x \in S, r \in Good
      PROVE  Append(r, x) \in Good
  <2>1. /\ Append(r, x) \in Seq(S) /\ s \o r \in Seq(S)
        /\ s \o Append(r, x) = Append(s \o r, x)
    BY AppendProperties, ConcatProperties, AppendToConcat
  <2>2. /\ Size(Append(r, x)) = Size(r) + LineSize(x)
        /\ Size(s \o Append(r, x)) = Size(s \o r) + LineSize(x)
    BY <2>1, SizeSteps
  <2>3. Size(s) \in Nat /\ Size(r) \in Nat /\ LineSize(x) \in Nat
    BY SizeType, LineSizeType
  <2>4. Size(s \o r) = Size(s) + Size(r)
    BY <1>2
  <2>5. Size(s \o Append(r, x)) = Size(s) + Size(Append(r, x))
    BY <2>2, <2>3, <2>4
  <2> QED  BY <2>1, <2>5
<1>3. \A r \in Seq(S) : r \in Good
  <2> HIDE DEF Good
  <2> QED  BY <1>1, <1>2, TextInduction
<1> QED  BY <1>3

-----------------------------------------------------------------------------
(* What is left of a text.                                                 *)

\* Lines with one field.
LEMMA FieldLines ==
    /\ [ignored |-> 0] \in Lines
    /\ [blank |-> 0] \in Lines
    /\ \A v \in Nat \ {0} : [comment |-> v] \in Lines
<1>1. /\ LineValues["ignored"] = {0} /\ "ignored" \in DOMAIN LineValues
      /\ LineValues["blank"] = {0} /\ "blank" \in DOMAIN LineValues
      /\ LineValues["comment"] = Nat \ {0} /\ "comment" \in DOMAIN LineValues
  BY DEF LineValues
<1>2. ASSUME NEW key \in DOMAIN LineValues, NEW line \in [{key} -> LineValues[key]]
      PROVE  line \in Lines
  BY DEF Lines
<1>3. [ignored |-> 0] \in [{"ignored"} -> {0}]
  OBVIOUS
<1>4. [blank |-> 0] \in [{"blank"} -> {0}]
  OBVIOUS
<1>5. \A v \in Nat \ {0} : [comment |-> v] \in [{"comment"} -> Nat \ {0}]
  OBVIOUS
<1> QED  BY <1>1, <1>2, <1>3, <1>4, <1>5

\* What is left of a value is a value of the same kind.
LEMMA TornNumber ==
    ASSUME NEW number \in Numbers, NEW n \in UNION {TornNumbers(m) : m \in Range(number)}
    PROVE  <<n>> \in Numbers
<1>1. PICK m \in Range(number) : n \in TornNumbers(m)
  OBVIOUS
<1>2. m \in Int
  <2>1. number = <<>> \/ number \in [{1} -> Int]
    BY DEF Numbers
  <2>2. CASE number = <<>>
    BY <2>2 DEF Range
  <2>3. CASE number \in [{1} -> Int]
    BY <2>3 DEF Range
  <2> QED  BY <2>1, <2>2, <2>3
<1>3. PICK ten \in Tens : n = IF m < 0 THEN -((-m) \div ten) ELSE m \div ten
  BY <1>1 DEF TornNumbers
<1>4. ten \in Nat \ {0}
  BY TornAssumption
<1>5. n \in Int
  BY <1>2, <1>3, <1>4
<1>6. <<n>> \in [{1} -> Int]
  BY <1>5
<1> QED  BY <1>6 DEF Numbers

LEMMA TornNodes ==
    ASSUME NEW nodes \in Seq(Texts)
    PROVE  /\ \A h \in 0 .. Len(nodes) : SubSeq(nodes, 1, h) \in Seq(Texts)
           /\ \A h \in DOMAIN nodes : \A beginning \in Beginnings[nodes[h]] :
                 Append(SubSeq(nodes, 1, h - 1), beginning) \in Seq(Texts)
<1>1. /\ Len(nodes) \in Nat /\ DOMAIN nodes = 1 .. Len(nodes)
      /\ \A h \in DOMAIN nodes : nodes[h] \in Texts
  BY LenProperties, ElementOfSeq
<1>2. ASSUME NEW h \in 0 .. Len(nodes)
      PROVE  SubSeq(nodes, 1, h) \in Seq(Texts)
  <2>1. \A i \in 1 .. h : nodes[i] \in Texts
    BY <1>1
  <2> QED  BY <1>1, <2>1, SubSeqProperties
<1>3. ASSUME NEW h \in DOMAIN nodes, NEW beginning \in Beginnings[nodes[h]]
      PROVE  Append(SubSeq(nodes, 1, h - 1), beginning) \in Seq(Texts)
  <2>1. beginning \in Texts
    BY <1>1, TornAssumption
  <2>2. h - 1 \in 0 .. Len(nodes)
    BY <1>1
  <2> QED  BY <1>2, <2>1, <2>2, AppendProperties
<1> QED  BY <1>2, <1>3

LEMMA TornValue ==
    ASSUME NEW key \in DOMAIN LineValues,
           key \notin {"blank", "ignored", "comment"},
           NEW value \in LineValues[key], NEW x \in TornValues(key, value)
    PROVE  x \in LineValues[key]
<1>1. CASE key = "section"
  <2>1. key \notin NumericKeys /\ key # "nodes"
    BY <1>1 DEF NumericKeys
  <2>2. TornValues(key, value) = {}
    BY <1>1, <2>1, Zenon DEF TornValues
  <2> QED  BY <2>2, Zenon
<1>2. CASE key \in NumericKeys
  <2>1. LineValues[key] = Numbers
    BY <1>2 DEF LineValues, NumericKeys
  <2>2. key # "section" /\ key # "nodes"
    BY <1>2 DEF NumericKeys
  <2>3. TornValues(key, value) =
            {<<>>} \cup {<<n>> : n \in UNION {TornNumbers(m) : m \in Range(value)}}
    BY <1>2, <2>2, Zenon DEF TornValues
  <2>4. CASE x = <<>>
    BY <2>1, <2>4 DEF Numbers
  <2>5. CASE x # <<>>
    <3>1. PICK n \in UNION {TornNumbers(m) : m \in Range(value)} : x = <<n>>
      BY <2>3, <2>5
    <3> QED  BY <2>1, <3>1, TornNumber
  <2> QED  BY <2>4, <2>5
<1>3. CASE key = "nodes"
  <2>1. LineValues[key] = Seq(Texts)
    BY <1>3 DEF LineValues
  <2>2. key # "section" /\ key \notin NumericKeys
    BY <1>3 DEF NumericKeys
  <2>3. TornValues(key, value) =
            {SubSeq(value, 1, h) : h \in 0 .. Len(value)}
            \cup UNION {{Append(SubSeq(value, 1, h - 1), beginning) :
                            beginning \in Beginnings[value[h]]} :
                        h \in DOMAIN value}
    BY <1>3, <2>2, Zenon DEF TornValues
  <2>4. \/ \E h \in 0 .. Len(value) : x = SubSeq(value, 1, h)
        \/ \E h \in DOMAIN value : \E beginning \in Beginnings[value[h]] :
              x = Append(SubSeq(value, 1, h - 1), beginning)
    BY <2>3, Zenon
  <2>5. value \in Seq(Texts)
    BY <2>1
  <2>6. x \in Seq(Texts)
    BY <2>4, <2>5, TornNodes, Zenon
  <2> QED  BY <2>1, <2>6
<1>4. CASE key \notin NumericKeys /\ key \notin {"section", "nodes"}
  <2>1. LineValues[key] = Texts
    BY <1>4 DEF LineValues, NumericKeys
  <2> DEFINE empty == ""
  <2>2. TornValues(key, value) = {empty} \cup Beginnings[value]
    BY <1>4, Zenon DEF TornValues
  <2>3. empty \in Texts
    BY TextsAssumption, Zenon
  <2> HIDE DEF empty
  <2>4. value \in Texts
    BY <2>1
  <2>5. Beginnings[value] \subseteq Texts
    BY <2>4, TornAssumption
  <2> QED  BY <2>1, <2>2, <2>3, <2>5
<1> QED  BY <1>1, <1>2, <1>3, <1>4

\* A torn line is a line, and a remark only if it was one.
LEMMA TornLine ==
    ASSUME NEW line \in Lines, NEW n \in Nat \ {0}, NEW x \in Torn(line, n)
    PROVE  x \in Lines /\ (IsRemark(x) <=> IsRemark(line))
<1>1. PICK key \in DOMAIN LineValues : line \in [{key} -> LineValues[key]]
  BY DEF Lines
<1>2. DOMAIN line = {key}
  BY <1>1
<1>3. DOMAIN [ignored |-> 0] = {"ignored"} /\ DOMAIN [comment |-> n] = {"comment"}
  OBVIOUS
<1>4. CASE key \in {"blank", "ignored"}
  <2>1. Torn(line, n) = {line}
    BY <1>2, <1>4 DEF Torn
  <2> QED  BY <2>1
<1>5. CASE key = "comment"
  <2>1. Torn(line, n) = {[comment |-> n]}
    BY <1>2, <1>5 DEF Torn
  <2>2. x = [comment |-> n]
    BY <2>1
  <2>3. IsRemark(x) /\ IsRemark(line)
    BY <1>2, <1>3, <1>5, <2>2 DEF IsRemark
  <2> QED  BY <2>2, <2>3, FieldLines
<1>6. CASE key \notin {"blank", "ignored", "comment"}
  <2>1. Torn(line, n) =
            {[ignored |-> 0], line}
            \cup UNION {{[line EXCEPT ![k] = value] :
                            value \in TornValues(k, line[k])} :
                        k \in DOMAIN line}
    BY <1>2, <1>6 DEF Torn
  <2>2. ~IsRemark(line)
    BY <1>2, <1>6 DEF IsRemark
  <2>3. CASE x = [ignored |-> 0]
    <3>1. ~IsRemark(x)
      BY <1>3, <2>3 DEF IsRemark
    <3> QED  BY <2>2, <2>3, <3>1, FieldLines
  <2>4. CASE x = line
    BY <2>4
  <2>5. CASE x \notin {[ignored |-> 0], line}
    <3>1. PICK value \in TornValues(key, line[key]) : x = [line EXCEPT ![key] = value]
      BY <1>2, <2>1, <2>5
    <3>2. line[key] \in LineValues[key]
      BY <1>1
    <3>3. value \in LineValues[key]
      BY <1>6, <3>1, <3>2, TornValue
    <3>4. x \in [{key} -> LineValues[key]]
      BY <1>1, <3>1, <3>3
    <3>5. x \in Lines /\ DOMAIN x = {key}
      BY <3>4 DEF Lines
    <3> QED  BY <1>6, <2>2, <3>5 DEF IsRemark
  <2> QED  BY <2>3, <2>4, <2>5
<1> QED  BY <1>4, <1>5, <1>6

\* A text is its first k lines and the others.
LEMMA Parts ==
    ASSUME NEW S, NEW s \in Seq(S), NEW k \in 0 .. Len(s)
    PROVE  /\ SubSeq(s, 1, k) \in Seq(S)
           /\ SubSeq(s, k + 1, Len(s)) \in Seq(S)
           /\ Len(SubSeq(s, 1, k)) = k
           /\ Len(SubSeq(s, k + 1, Len(s))) = Len(s) - k
           /\ \A i \in 1 .. k : SubSeq(s, 1, k)[i] = s[i]
           /\ \A i \in 1 .. Len(s) - k : SubSeq(s, k + 1, Len(s))[i] = s[k + i]
           /\ s = SubSeq(s, 1, k) \o SubSeq(s, k + 1, Len(s))
<1> DEFINE n == Len(s)
<1>1. n \in Nat /\ \A i \in 1 .. n : s[i] \in S
  BY LenProperties
<1>2. /\ SubSeq(s, 1, k) \in Seq(S)
      /\ Len(SubSeq(s, 1, k)) = k
      /\ \A i \in 1 .. k : SubSeq(s, 1, k)[i] = s[i]
  <2>1. \A i \in 1 .. k : s[i] \in S
    BY <1>1
  <2>2. /\ SubSeq(s, 1, k) \in Seq(S)
        /\ Len(SubSeq(s, 1, k)) = IF 1 <= k THEN k - 1 + 1 ELSE 0
        /\ \A i \in 1 .. k - 1 + 1 : SubSeq(s, 1, k)[i] = s[1 + i - 1]
    BY <1>1, <2>1, SubSeqProperties
  <2> QED  BY <1>1, <2>2
<1>3. /\ SubSeq(s, k + 1, n) \in Seq(S)
      /\ Len(SubSeq(s, k + 1, n)) = n - k
      /\ \A i \in 1 .. n - k : SubSeq(s, k + 1, n)[i] = s[k + i]
  <2>1. \A i \in k + 1 .. n : s[i] \in S
    BY <1>1
  <2>2. k + 1 \in Int /\ n \in Int
    BY <1>1
  <2>3. /\ SubSeq(s, k + 1, n) \in Seq(S)
        /\ Len(SubSeq(s, k + 1, n)) =
              IF k + 1 <= n THEN n - (k + 1) + 1 ELSE 0
        /\ \A i \in 1 .. n - (k + 1) + 1 :
              SubSeq(s, k + 1, n)[i] = s[(k + 1) + i - 1]
    BY <2>1, <2>2, SubSeqProperties
  <2>4. \A i \in 1 .. n - k : i \in 1 .. n - (k + 1) + 1 /\ (k + 1) + i - 1 = k + i
    BY <1>1
  <2>5. Len(SubSeq(s, k + 1, n)) = n - k
    <3>1. k \in Nat /\ k <= n
      BY <1>1
    <3> HIDE DEF n
    <3> QED  BY <1>1, <2>3, <3>1
  <2> DEFINE rest == SubSeq(s, k + 1, n)
  <2>6. ASSUME NEW i \in 1 .. n - k
        PROVE  rest[i] = s[k + i]
    BY <2>3, <2>4
  <2> QED  BY <2>3, <2>5, <2>6
<1>4. s = SubSeq(s, 1, k) \o SubSeq(s, k + 1, n)
  <2>1. 1 \in 1 .. n + 1 /\ k \in 1 - 1 .. n /\ n \in k .. n
    BY <1>1
  <2>2. SubSeq(s, 1, k) \o SubSeq(s, k + 1, n) = SubSeq(s, 1, n)
    BY <2>1, ConcatAdjacentSubSeq
  <2> QED  BY <2>2, SubSeqFull
<1> QED  BY <1>2, <1>3, <1>4

\* The number of whole lines in a beginning of n bytes.
WholeLines(lines, n) ==
    Latest({k \in 0 .. Len(lines) : Size(SubSeq(lines, 1, k)) <= n})

LEMMA WholeLinesFit ==
    ASSUME NEW lines \in Seq(Lines), NEW n \in Nat
    PROVE  LET k == WholeLines(lines, n)
           IN  /\ k \in 0 .. Len(lines)
               /\ Size(SubSeq(lines, 1, k)) <= n
               /\ \A j \in 0 .. Len(lines) : Size(SubSeq(lines, 1, j)) <= n => j <= k
<1> DEFINE whole == {k \in 0 .. Len(lines) : Size(SubSeq(lines, 1, k)) <= n}
<1>1. Len(lines) \in Nat
  BY LenProperties
<1>2. whole \in SUBSET Nat /\ IsFiniteSet(whole)
  <2>1. IsFiniteSet(0 .. Len(lines)) /\ whole \in SUBSET (0 .. Len(lines))
    BY <1>1, FS_Interval
  <2>2. IsFiniteSet(whole)
    BY <2>1, FS_Subset
  <2> QED  BY <2>1, <2>2
<1>3. 0 \in whole
  <2>1. SubSeq(lines, 1, 0) = <<>>
    BY SubSeqEmpty
  <2>2. Size(SubSeq(lines, 1, 0)) = 0
    BY <2>1, SizeSteps
  <2> QED  BY <1>1, <2>2
<1>4. Latest(whole) \in whole /\ \A j \in whole : j <= Latest(whole)
  <2> HIDE DEF whole
  <2> QED  BY <1>2, <1>3, LatestExists
<1> QED  BY <1>4 DEF WholeLines

\* A beginning of a text is some whole lines and perhaps a torn one.
LEMMA CutShape ==
    ASSUME NEW lines \in Seq(Lines), NEW n \in Nat, NEW r \in Cut(lines, n)
    PROVE  \E k \in 0 .. Len(lines) :
              \/ r = SubSeq(lines, 1, k)
              \/ /\ k < Len(lines)
                 /\ \E b \in Nat \ {0} : \E line \in Torn(lines[k + 1], b) :
                       r = Append(SubSeq(lines, 1, k), line)
<1> DEFINE k == WholeLines(lines, n)
           head == SubSeq(lines, 1, k)
<1>1. Cut(lines, n) =
        IF Size(head) = n \/ k = Len(lines) THEN {head}
        ELSE {Append(head, line) : line \in Torn(lines[k + 1], n - Size(head))}
  BY DEF Cut, WholeLines
<1>2. k \in 0 .. Len(lines) /\ Len(lines) \in Nat /\ Size(head) <= n
  BY WholeLinesFit, LenProperties
<1> HIDE DEF k
<1>5. Size(head) \in Nat
  BY <1>2, Parts, SizeType
<1>3. CASE Size(head) = n \/ k = Len(lines)
  BY <1>1, <1>2, <1>3
<1>4. CASE ~(Size(head) = n \/ k = Len(lines))
  <2>1. PICK line \in Torn(lines[k + 1], n - Size(head)) : r = Append(head, line)
    BY <1>1, <1>4
  <2>2. n - Size(head) \in Nat \ {0}
    BY <1>2, <1>4, <1>5
  <2> HIDE DEF head
  <2>3. k < Len(lines)
    BY <1>2, <1>4
  <2> QED  BY <1>2, <2>1, <2>2, <2>3 DEF head
<1> QED  BY <1>3, <1>4

\* All of a text that is not longer, nothing if nothing is asked for.
LEMMA CutAll ==
    ASSUME NEW lines \in Seq(Lines), NEW n \in Nat
    PROVE  /\ Size(lines) <= n => Cut(lines, n) = {lines}
           /\ n = 0 => Cut(lines, n) = {<<>>}
<1> DEFINE k == WholeLines(lines, n)
           head == SubSeq(lines, 1, k)
<1>1. Cut(lines, n) =
        IF Size(head) = n \/ k = Len(lines) THEN {head}
        ELSE {Append(head, line) : line \in Torn(lines[k + 1], n - Size(head))}
  BY DEF Cut, WholeLines
<1>2. /\ k \in 0 .. Len(lines) /\ Len(lines) \in Nat
      /\ Size(head) <= n
      /\ \A j \in 0 .. Len(lines) : Size(SubSeq(lines, 1, j)) <= n => j <= k
  BY WholeLinesFit, LenProperties
<1>3. SubSeq(lines, 1, Len(lines)) = lines
  BY SubSeqFull
<1> HIDE DEF k
<1>4. ASSUME Size(lines) <= n PROVE Cut(lines, n) = {lines}
  <2>1. Size(SubSeq(lines, 1, Len(lines))) <= n /\ Len(lines) \in 0 .. Len(lines)
    <3>1. Size(SubSeq(lines, 1, Len(lines))) = Size(lines)
      BY <1>3, Zenon
    <3>2. Size(SubSeq(lines, 1, Len(lines))) <= n
      BY <1>4, <3>1
    <3> QED  BY <1>2, <3>2
  <2>2. Len(lines) <= k
    BY <1>2, <2>1
  <2>3. k = Len(lines)
    BY <1>2, <2>2
  <2> QED  BY <1>1, <1>3, <2>3
<1>5. ASSUME n = 0 PROVE Cut(lines, n) = {<<>>}
  <2>1. head \in Seq(Lines)
    BY <1>2, Parts
  <2>2. Size(head) <= 0
    BY <1>2, <1>5
  <2> HIDE DEF head
  <2>3. Size(head) = 0 /\ head = <<>>
    BY <2>1, <2>2, SizeType
  <2> QED  BY <1>1, <1>5, <2>3
<1> QED  BY <1>4, <1>5

\* What was a beginning of the settings o still is after a cut.
Beginning(s, o) ==
    /\ Len(s) <= Len(o)
    /\ \A k \in 1 .. Len(s) - 1 : s[k] = o[k]

LEMMA CutBeginning ==
    ASSUME NEW o \in Seq(Lines), NEW lines \in Seq(Lines), NEW n \in Nat,
           Beginning(Settings(lines), o), NEW r \in Cut(lines, n)
    PROVE  r \in Seq(Lines) /\ Beginning(Settings(r), o)
<1>1. PICK k \in 0 .. Len(lines) :
              \/ r = SubSeq(lines, 1, k)
              \/ /\ k < Len(lines)
                 /\ \E b \in Nat \ {0} : \E line \in Torn(lines[k + 1], b) :
                       r = Append(SubSeq(lines, 1, k), line)
  BY CutShape
<1> DEFINE head == SubSeq(lines, 1, k)
           rest == SubSeq(lines, k + 1, Len(lines))
           a == Settings(head)
           b == Settings(rest)
<1>2. /\ head \in Seq(Lines) /\ rest \in Seq(Lines)
      /\ lines = head \o rest
      /\ Len(rest) = Len(lines) - k
      /\ Len(lines) \in Nat
      /\ \A i \in 1 .. Len(lines) - k : rest[i] = lines[k + i]
  BY Parts, LenProperties
<1> HIDE DEF head, rest
<1>3. /\ a \in Seq(Lines) /\ b \in Seq(Lines)
      /\ Settings(lines) = a \o b
  BY <1>2, SettingsType, SettingsConcat
<1>4. Len(a) \in Nat /\ Len(b) \in Nat /\ Len(o) \in Nat
  BY <1>3, LenProperties
<1> HIDE DEF a, b
<1>5. /\ Len(a) + Len(b) <= Len(o)
      /\ \A i \in 1 .. Len(a) + Len(b) - 1 :
            i <= Len(a) => a[i] = o[i]
  <2>1. /\ Len(a \o b) = Len(a) + Len(b)
        /\ \A i \in 1 .. Len(a) + Len(b) :
              (a \o b)[i] = IF i <= Len(a) THEN a[i] ELSE b[i - Len(a)]
    BY <1>3, ConcatProperties
  <2>2. /\ Len(a \o b) <= Len(o)
        /\ \A i \in 1 .. Len(a \o b) - 1 : (a \o b)[i] = o[i]
    BY <1>3 DEF Beginning
  <2> QED  BY <1>4, <2>1, <2>2
<1>6. Beginning(a, o)
  BY <1>4, <1>5, SMTT(30) DEF Beginning
<1>7. CASE r = head
  BY <1>2, <1>6, <1>7 DEF a
<1>8. CASE r # head
  <2>1. k < Len(lines) /\ k \in Nat
    BY <1>1, <1>2, <1>8 DEF head
  <2>8. PICK bytes \in Nat \ {0} :
            \E line \in Torn(lines[k + 1], bytes) : r = Append(head, line)
    BY <1>1, <1>8 DEF head
  <2>2. PICK line \in Torn(lines[k + 1], bytes) : r = Append(head, line)
    BY <2>8
  <2>3. lines[k + 1] \in Lines
    <3>1. k + 1 \in 1 .. Len(lines)
      BY <1>2, <2>1
    <3> QED  BY <3>1, ElementOfSeq
  <2>4. line \in Lines /\ (IsRemark(line) <=> IsRemark(lines[k + 1]))
    BY <2>3, TornLine
  <2>5. r \in Seq(Lines) /\ Settings(r) = Keep(a, line)
    BY <1>2, <2>2, <2>4, AppendProperties, SettingsSteps DEF a
  <2>6. CASE IsRemark(line)
    BY <1>6, <2>5, <2>6 DEF Keep
  <2>7. CASE ~IsRemark(line)
    <3>1. Settings(r) = Append(a, line)
      BY <2>5, <2>7 DEF Keep
    <3>2. /\ Len(Append(a, line)) = Len(a) + 1
          /\ \A i \in 1 .. Len(a) : Append(a, line)[i] = a[i]
      BY <1>3, <2>4, AppendProperties
    <3>3. Len(b) # 0
      <4>1. ~IsRemark(rest[1])
        BY <1>2, <2>1, <2>4, <2>7
      <4>2. rest # <<>>
        BY <1>2, <2>1, EmptySeq
      <4>3. /\ rest = SubSeq(rest, 1, 1) \o SubSeq(rest, 2, Len(rest))
            /\ SubSeq(rest, 1, 1) \in Seq(Lines)
            /\ SubSeq(rest, 2, Len(rest)) \in Seq(Lines)
            /\ Len(SubSeq(rest, 1, 1)) = 1
            /\ SubSeq(rest, 1, 1)[1] = rest[1]
        <5>1. 1 \in 0 .. Len(rest)
          BY <1>2, <2>1
        <5> QED  BY <1>2, <5>1, Parts, SMTT(30)
      <4> DEFINE c == SubSeq(rest, 1, 1)
                 d == SubSeq(rest, 2, Len(rest))
      <4>4. Settings(c) = c
        <5>1. c \in Seq(Lines) /\ \A i \in 1 .. Len(c) : ~IsRemark(c[i])
          BY <4>1, <4>3
        <5> HIDE DEF c
        <5> QED  BY <5>1, NothingToDrop
      <4>5. b = c \o Settings(d) /\ Settings(d) \in Seq(Lines)
        <5>1. Settings(c \o d) = Settings(c) \o Settings(d)
          <6> HIDE DEF c, d
          <6> QED  BY <4>3, SettingsConcat DEF c, d
        <5> QED  BY <4>3, <4>4, <5>1, SettingsType DEF b
      <4>6. Len(b) = 1 + Len(Settings(d)) /\ Len(Settings(d)) \in Nat
        <5> HIDE DEF d
        <5> QED  BY <4>3, <4>5, ConcatProperties, LenProperties
      <4> QED  BY <4>6
    <3>4. Beginning(Append(a, line), o)
      <4>1. Len(a) + 1 <= Len(o)
        <5>1. Len(a) + Len(b) <= Len(o)
          BY <1>5
        <5> HIDE DEF a, b
        <5> QED  BY <1>4, <3>3, <5>1
      <4>2. \A i \in 1 .. Len(a) : a[i] = o[i]
        BY <1>4, <1>5, <3>3, SMTT(30)
      <4> QED  BY <1>4, <3>2, <4>1, <4>2 DEF Beginning
    <3> QED  BY <2>5, <3>1, <3>4
  <2> QED  BY <2>6, <2>7
<1> QED  BY <1>7, <1>8

-----------------------------------------------------------------------------
(* The rewriting.                                                          *)

GlobalLine == [section |-> Global]
Blank == <<[blank |-> 0]>>

\* The lines up to "[global]" and the others.
Above(lines) == SubSeq(lines, 1, HeaderLength(lines))
Below(lines) == SubSeq(lines, HeaderLength(lines) + 1, Len(lines))

\* What is written in the place of the lines above.
Top(c) == IF c = <<>> THEN <<>> ELSE c \o Blank
Header(c, t) == Top(c) \o ResultBlock(t) \o Blank

LEMMA HeaderShape ==
    ASSUME NEW lines \in Seq(Lines)
    PROVE  LET n == HeaderLength(lines)
           IN  /\ n \in 0 .. Len(lines)
               /\ \A i \in 1 .. n : lines[i] # GlobalLine
               /\ n < Len(lines) => lines[n + 1] = GlobalLine
<1> DEFINE global == {k \in DOMAIN lines : lines[k] = GlobalLine}
           least == CHOOSE k \in global : \A j \in global : k <= j
<1>1. HeaderLength(lines) = IF global = {} THEN Len(lines) ELSE least - 1
  BY DEF HeaderLength, GlobalLine
<1>2. Len(lines) \in Nat /\ DOMAIN lines = 1 .. Len(lines)
  BY LenProperties
<1>3. CASE global = {}
  BY <1>1, <1>2, <1>3
<1>4. CASE global # {}
  <2>1. global \in SUBSET Nat
    BY <1>2
  <2>2. \E k \in global : \A j \in global : k <= j
    <3> HIDE DEF global
    <3> QED  BY <1>4, <2>1, LeastElement
  <2>3. least \in global /\ \A j \in global : least <= j
    <3> HIDE DEF global
    <3> QED  BY <2>2
  <2> HIDE DEF least
  <2>4. least \in 1 .. Len(lines) /\ lines[least] = GlobalLine
    BY <1>2, <2>3
  <2>5. \A i \in 1 .. least - 1 : lines[i] # GlobalLine
    <3> SUFFICES ASSUME NEW i \in 1 .. least - 1, lines[i] = GlobalLine
                 PROVE  FALSE
      OBVIOUS
    <3>1. i \in global
      BY <1>2, <2>4
    <3>2. least <= i
      BY <2>3, <3>1
    <3> QED  BY <2>4, <3>2
  <2>6. HeaderLength(lines) = least - 1
    BY <1>1, <1>4
  <2> QED  BY <1>2, <2>4, <2>5, <2>6
<1> QED  BY <1>3, <1>4

LEMMA AboveAndBelow ==
    ASSUME NEW lines \in Seq(Lines)
    PROVE  /\ Above(lines) \in Seq(Lines \ {GlobalLine})
           /\ Above(lines) \in Seq(Lines)
           /\ Below(lines) \in Seq(Lines)
           /\ lines = Above(lines) \o Below(lines)
           /\ Below(lines) # <<>> => Below(lines)[1] = GlobalLine
<1> DEFINE n == HeaderLength(lines)
<1>1. /\ n \in 0 .. Len(lines) /\ Len(lines) \in Nat
      /\ \A i \in 1 .. n : lines[i] # GlobalLine
      /\ n < Len(lines) => lines[n + 1] = GlobalLine
  BY HeaderShape, LenProperties
<1> HIDE DEF n
<1>2. /\ SubSeq(lines, 1, n) \in Seq(Lines)
      /\ SubSeq(lines, n + 1, Len(lines)) \in Seq(Lines)
      /\ Len(SubSeq(lines, n + 1, Len(lines))) = Len(lines) - n
      /\ \A i \in 1 .. Len(lines) - n :
            SubSeq(lines, n + 1, Len(lines))[i] = lines[n + i]
      /\ lines = SubSeq(lines, 1, n) \o SubSeq(lines, n + 1, Len(lines))
  BY <1>1, Parts
<1>3. SubSeq(lines, 1, n) \in Seq(Lines \ {GlobalLine})
  <2>1. \A i \in 1 .. n : lines[i] \in Lines \ {GlobalLine}
    <3>1. \A i \in 1 .. n : i \in 1 .. Len(lines)
      BY <1>1
    <3> QED  BY <1>1, <3>1, ElementOfSeq
  <2> QED  BY <1>1, <2>1, SubSeqProperties
<1>4. ASSUME SubSeq(lines, n + 1, Len(lines)) # <<>>
      PROVE  SubSeq(lines, n + 1, Len(lines))[1] = GlobalLine
  <2>1. Len(SubSeq(lines, n + 1, Len(lines))) \in Nat \ {0}
    BY <1>2, <1>4, EmptySeq
  <2>2. n < Len(lines) /\ 1 \in 1 .. Len(lines) - n
    BY <1>1, <1>2, <2>1
  <2> QED  BY <1>1, <1>2, <2>2
<1> QED  BY <1>2, <1>3, <1>4 DEF Above, Below, n

\* Only one place can be where the header ends.
LEMMA HeaderUnique ==
    ASSUME NEW h \in Seq(Lines), NEW b \in Seq(Lines),
           \A i \in 1 .. Len(h) : h[i] # GlobalLine,
           b # <<>> => b[1] = GlobalLine
    PROVE  Above(h \o b) = h /\ Below(h \o b) = b
<1> DEFINE r == h \o b
           n == HeaderLength(r)
           m == Len(h)
           l == Len(b)
<1>1. /\ r \in Seq(Lines) /\ Len(r) = m + l
      /\ m \in Nat /\ l \in Nat
      /\ \A i \in 1 .. m + l : r[i] = IF i <= m THEN h[i] ELSE b[i - m]
  BY ConcatProperties, LenProperties
<1>2. l # 0 => b[1] = GlobalLine
  <2>1. l # 0 => b # <<>>
    BY EmptySeq
  <2> QED  BY <2>1
<1> HIDE DEF r, m, l
<1>3. /\ n \in 0 .. m + l
      /\ \A i \in 1 .. n : r[i] # GlobalLine
      /\ n < m + l => r[n + 1] = GlobalLine
  <2>1. /\ n \in 0 .. Len(r)
        /\ \A i \in 1 .. n : r[i] # GlobalLine
        /\ n < Len(r) => r[n + 1] = GlobalLine
    BY <1>1, HeaderShape
  <2> QED  BY <1>1, <2>1
<1> HIDE DEF n
<1>4. n = m
  <2>1. ~(n < m)
    <3> SUFFICES ASSUME n < m PROVE FALSE
      OBVIOUS
    <3>1. n + 1 \in 1 .. m /\ n + 1 \in 1 .. m + l /\ n < m + l
      BY <1>1, <1>3
    <3>2. r[n + 1] = h[n + 1]
      BY <1>1, <3>1
    <3> QED  BY <1>3, <3>1, <3>2 DEF m
  <2>2. ~(m < n)
    <3> SUFFICES ASSUME m < n PROVE FALSE
      OBVIOUS
    <3>1. /\ m + 1 \in 1 .. n /\ m + 1 \in 1 .. m + l /\ l # 0
          /\ ~(m + 1 <= m) /\ (m + 1) - m = 1
      BY <1>1, <1>3
    <3>2. r[m + 1] = b[1]
      BY <1>1, <3>1
    <3> QED  BY <1>2, <1>3, <3>1, <3>2
  <2> QED  BY <1>1, <1>3, <2>1, <2>2
<1>5. /\ SubSeq(r, 1, m) \in Seq(Lines) /\ SubSeq(r, m + 1, Len(r)) \in Seq(Lines)
      /\ Len(SubSeq(r, 1, m)) = m
      /\ Len(SubSeq(r, m + 1, Len(r))) = l
      /\ \A i \in 1 .. m : SubSeq(r, 1, m)[i] = r[i]
      /\ \A i \in 1 .. l : SubSeq(r, m + 1, Len(r))[i] = r[m + i]
  <2>1. m \in 0 .. Len(r) /\ Len(r) - m = l
    BY <1>1
  <2> QED  BY <1>1, <2>1, Parts
<1>6. SubSeq(r, 1, m) = h
  <2>1. \A i \in 1 .. m : SubSeq(r, 1, m)[i] = h[i]
    <3>1. \A i \in 1 .. m : i \in 1 .. m + l /\ i <= m
      BY <1>1
    <3>2. \A i \in 1 .. m : r[i] = h[i]
      BY <1>1, <3>1
    <3> QED  BY <1>5, <3>2
  <2> QED  BY <1>5, <2>1, SeqEqual DEF m
<1>7. SubSeq(r, m + 1, Len(r)) = b
  <2>1. \A i \in 1 .. l : SubSeq(r, m + 1, Len(r))[i] = b[i]
    <3>1. \A i \in 1 .. l : m + i \in 1 .. m + l /\ ~(m + i <= m) /\ (m + i) - m = i
      BY <1>1
    <3>2. \A i \in 1 .. l : r[m + i] = b[i]
      BY <1>1, <3>1
    <3> QED  BY <1>5, <3>2
  <2> QED  BY <1>5, <2>1, SeqEqual DEF l
<1> QED  BY <1>4, <1>6, <1>7 DEF Above, Below, n, r

LEMMA RewrittenParts ==
    ASSUME NEW lines \in Seq(Lines), NEW t
    PROVE  Rewritten(lines, t) =
              Header(Settings(Above(lines)), t) \o Below(lines)
BY DEF Rewritten, Header, Top, Cleaned, Above, Below, Blank

LEMMA AddRemarks ==
    ASSUME NEW S, NEW s \in Seq(S), NEW r \in Seq(S), Settings(r) = <<>>
    PROVE  /\ s \o r \in Seq(S)
           /\ Settings(s \o r) = Settings(s)
<1>1. Settings(s \o r) = Settings(s) \o <<>>
  BY SettingsConcat
<1>2. Settings(s) \in Seq(S)
  BY SettingsType
<1>3. Settings(s) \o <<>> = Settings(s)
  BY <1>2, ConcatEmptySeq
<1>4. s \o r \in Seq(S)
  BY ConcatProperties
<1> QED  BY <1>1, <1>3, <1>4

LEMMA ResultLines ==
    ASSUME NEW S, NEW t, [comment |-> t] \in S, [comment |-> 1] \in S
    PROVE  /\ ResultBlock(t) \in Seq(S)
           /\ Settings(ResultBlock(t)) = <<>>
<1>1. \A k \in 1 .. 3 : ResultBlock(t)[k] = [comment |-> IF k = 1 THEN 1 ELSE t]
  BY DEF ResultBlock
<1>2. ResultBlock(t) \in Seq(S)
  <2> DEFINE line(k) == [comment |-> IF k = 1 THEN 1 ELSE t]
  <2>1. \A k \in 1 .. 3 : line(k) \in S
    <3>1. ASSUME NEW k \in 1 .. 3 PROVE line(k) \in S
      <4>1. CASE k = 1
        BY <4>1
      <4>2. CASE k # 1
        BY <4>2
      <4> QED  BY <4>1, <4>2
    <3> QED  BY <3>1
  <2>2. [k \in 1 .. 3 |-> line(k)] \in Seq(S)
    <3> HIDE DEF line
    <3> QED  BY <2>1, IsASeq
  <2> QED  BY <2>2 DEF ResultBlock
<1>3. DOMAIN ResultBlock(t) = 1 .. 3
  BY DEF ResultBlock
<1>4. Len(ResultBlock(t)) = 3
  <2> DEFINE l == Len(ResultBlock(t))
  <2>1. l \in Nat /\ 1 .. l = 1 .. 3
    BY <1>2, <1>3, LenProperties
  <2> HIDE DEF l
  <2>2. 3 \in 1 .. l
    BY <2>1
  <2>3. l \in 1 .. l
    BY <2>1, <2>2
  <2>4. l \in 1 .. 3
    BY <2>1, <2>3
  <2>5. l = 3
    BY <2>2, <2>4
  <2> QED  BY <2>5 DEF l
<1>5. \A k \in 1 .. Len(ResultBlock(t)) : IsRemark(ResultBlock(t)[k])
  <2>1. \A n : IsRemark([comment |-> n])
    BY DEF IsRemark
  <2> QED  BY <1>1, <1>4, <2>1
<1> QED  BY <1>2, <1>5, OnlyRemarks

LEMMA BlankLine ==
    ASSUME NEW S, [blank |-> 0] \in S
    PROVE  Blank \in Seq(S) /\ Settings(Blank) = <<>>
<1>1. Blank \in Seq(S) /\ Len(Blank) = 1 /\ Blank[1] = [blank |-> 0]
  BY DEF Blank
<1>2. IsRemark([blank |-> 0])
  BY DEF IsRemark
<1>3. \A k \in 1 .. Len(Blank) : IsRemark(Blank[k])
  BY <1>1, <1>2
<1> QED  BY <1>1, <1>3, OnlyRemarks

\* The lines of the new header: the settings of the old one among remarks.
LEMMA HeaderLines ==
    ASSUME NEW S, [blank |-> 0] \in S,
           NEW t, [comment |-> t] \in S, [comment |-> 1] \in S,
           NEW c \in Seq(S), Settings(c) = c
    PROVE  /\ Header(c, t) \in Seq(S)
           /\ Settings(Header(c, t)) = c
<1>1. Blank \in Seq(S) /\ Settings(Blank) = <<>>
  BY BlankLine
<1>2. ResultBlock(t) \in Seq(S) /\ Settings(ResultBlock(t)) = <<>>
  BY ResultLines
<1>3. Top(c) \in Seq(S) /\ Settings(Top(c)) = c
  <2>1. CASE c = <<>>
    BY <2>1, SettingsSteps DEF Top
  <2>2. CASE c # <<>>
    <3>1. c \o Blank \in Seq(S) /\ Settings(c \o Blank) = c
      BY <1>1, AddRemarks
    <3> QED  BY <2>2, <3>1 DEF Top
  <2> QED  BY <2>1, <2>2
<1> DEFINE block == ResultBlock(t)
<1> HIDE DEF block
<1>4. /\ Top(c) \o block \in Seq(S)
      /\ Settings(Top(c) \o block) = c
  <2>1. block \in Seq(S) /\ Settings(block) = <<>>
    BY <1>2 DEF block
  <2> QED  BY <1>3, <2>1, AddRemarks
<1> DEFINE upper == Top(c) \o block
<1> HIDE DEF upper
<1>5. /\ upper \o Blank \in Seq(S)
      /\ Settings(upper \o Blank) = c
  <2>1. upper \in Seq(S) /\ Settings(upper) = c
    BY <1>4 DEF upper
  <2> QED  BY <1>1, <2>1, AddRemarks
<1>6. Header(c, t) = upper \o Blank
  BY DEF Header, upper, block
<1> QED  BY <1>5, <1>6

\* The rewriting changes neither the settings nor what a later rewriting
\* gives.
LEMMA RewrittenText ==
    ASSUME NEW lines \in Seq(Lines), NEW t \in Nat \ {0}
    PROVE  /\ Rewritten(lines, t) \in Seq(Lines)
           /\ Settings(Rewritten(lines, t)) = Settings(lines)
           /\ \A u \in Nat \ {0} :
                 Rewritten(Rewritten(lines, t), u) = Rewritten(lines, u)
<1> DEFINE S == Lines \ {GlobalLine}
           c == Settings(Above(lines))
           b == Below(lines)
           h == Header(c, t)
<1>1. /\ Above(lines) \in Seq(S) /\ Above(lines) \in Seq(Lines)
      /\ b \in Seq(Lines)
      /\ lines = Above(lines) \o b
      /\ b # <<>> => b[1] = GlobalLine
  BY AboveAndBelow
<1>2. S \in SUBSET Lines /\ [blank |-> 0] \in S
      /\ \A u \in Nat \ {0} : [comment |-> u] \in S
  <2>1. [blank |-> 0] # GlobalLine /\ \A u : [comment |-> u] # GlobalLine
    <3>1. /\ DOMAIN GlobalLine = {"section"}
          /\ DOMAIN [blank |-> 0] = {"blank"}
          /\ \A u : DOMAIN [comment |-> u] = {"comment"}
      BY DEF GlobalLine
    <3> QED  BY <3>1
  <2> QED  BY <2>1, FieldLines
<1> HIDE DEF S, b
<1>3. c \in Seq(S) /\ Settings(c) = c
  <2>1. c \in Seq(S) /\ \A k \in 1 .. Len(c) : ~IsRemark(c[k])
    BY <1>1, SettingsType
  <2> HIDE DEF c
  <2> QED  BY <2>1, NothingToDrop
<1> HIDE DEF c
<1>4. ASSUME NEW u \in Nat \ {0}
      PROVE  Header(c, u) \in Seq(S) /\ Settings(Header(c, u)) = c
  <2>1. [comment |-> u] \in S /\ [comment |-> 1] \in S /\ [blank |-> 0] \in S
    BY <1>2
  <2> QED  BY <1>3, <2>1, HeaderLines
<1>5. \A u \in Nat \ {0} : Header(c, u) \in Seq(Lines)
  BY <1>2, <1>4, SeqMonotonic
<1>6. \A u : Rewritten(lines, u) = Header(c, u) \o b
  BY RewrittenParts DEF c, b
<1>7. h \in Seq(Lines) /\ h \in Seq(S) /\ Settings(h) = c
  BY <1>4, <1>5
<1>8. \A i \in 1 .. Len(h) : h[i] # GlobalLine
  <2>1. \A i \in 1 .. Len(h) : h[i] \in S
    BY <1>7, ElementOfSeq
  <2> QED  BY <2>1 DEF S
<1> HIDE DEF h
<1>9. Rewritten(lines, t) \in Seq(Lines)
  <2>1. Rewritten(lines, t) = h \o b
    BY <1>6 DEF h
  <2> QED  BY <1>1, <1>7, <2>1, ConcatProperties
<1>10. Settings(Rewritten(lines, t)) = Settings(lines)
  <2>1. Settings(h \o b) = Settings(h) \o Settings(b)
    BY <1>1, <1>7, SettingsConcat
  <2>2. Settings(Above(lines) \o b) = c \o Settings(b)
    BY <1>1, SettingsConcat DEF c
  <2>3. Settings(lines) = Settings(Above(lines) \o b)
    BY <1>1, Zenon
  <2>4. Rewritten(lines, t) = h \o b
    BY <1>6 DEF h
  <2> QED  BY <1>7, <2>1, <2>2, <2>3, <2>4
<1>11. ASSUME NEW u \in Nat \ {0}
       PROVE  Rewritten(Rewritten(lines, t), u) = Rewritten(lines, u)
  <2> DEFINE r == Rewritten(lines, t)
  <2>1. r = h \o b
    BY <1>6 DEF h
  <2>2. Above(r) = h /\ Below(r) = b
    BY <1>1, <1>7, <1>8, <2>1, HeaderUnique
  <2> HIDE DEF r
  <2>3. Rewritten(r, u) = Header(Settings(Above(r)), u) \o Below(r)
    BY <1>9, RewrittenParts DEF r
  <2>4. Rewritten(r, u) = Header(c, u) \o b
    BY <1>7, <2>2, <2>3
  <2> QED  BY <1>6, <2>4 DEF r
<1> QED  BY <1>9, <1>10, <1>11

-----------------------------------------------------------------------------
(* What the parser finds depends on the settings only.                     *)

\* The section that the line after the last one would be in.
EndsIn(lines) == SectionAt(lines, Len(lines))

\* The section that a section line opens.
Opens(line) == IF line.section = OddGlobal THEN Global ELSE line.section

Opening(lines, k) == {j \in 1 .. k : DOMAIN lines[j] = {"section"}}

LEMMA LatestOf ==
    ASSUME NEW k \in Nat, NEW T \in SUBSET (1 .. k), T # {}
    PROVE  Latest(T) \in T /\ \A j \in T : j <= Latest(T)
<1>1. IsFiniteSet(1 .. k)
  BY FS_Interval
<1>2. IsFiniteSet(T)
  BY <1>1, FS_Subset
<1>3. T \in SUBSET Nat
  OBVIOUS
<1> QED  BY <1>2, <1>3, LatestExists

LEMMA SectionMeans ==
    ASSUME NEW lines, NEW k
    PROVE  SectionAt(lines, k) =
              IF Opening(lines, k) = {} THEN NoSection
              ELSE Opens(lines[Latest(Opening(lines, k))])
BY DEF SectionAt, Opening, Opens

LEMMA SectionBefore ==
    ASSUME NEW S, NEW s \in Seq(S), NEW x \in S, NEW k \in 0 .. Len(s)
    PROVE  SectionAt(Append(s, x), k) = SectionAt(s, k)
<1>1. Len(s) \in Nat /\ \A j \in 1 .. Len(s) : Append(s, x)[j] = s[j]
  BY LenProperties, AppendProperties
<1>2. \A j \in 1 .. k : j \in 1 .. Len(s)
  BY <1>1
<1>3. \A j \in 1 .. k : Append(s, x)[j] = s[j]
  BY <1>1, <1>2
<1> DEFINE T == Opening(s, k)
<1>4. Opening(Append(s, x), k) = T
  BY <1>3 DEF Opening
<1>5. T \in SUBSET (1 .. k)
  BY DEF Opening
<1> HIDE DEF T
<1>6. T # {} => Append(s, x)[Latest(T)] = s[Latest(T)]
  <2> SUFFICES ASSUME T # {} PROVE Append(s, x)[Latest(T)] = s[Latest(T)]
    OBVIOUS
  <2>1. k \in Nat
    BY <1>1
  <2>2. Latest(T) \in 1 .. k
    BY <1>5, <2>1, LatestOf
  <2> QED  BY <1>3, <2>2
<1> DEFINE r == Append(s, x)
<1> HIDE DEF r
<1>7. SectionAt(r, k) = IF T = {} THEN NoSection ELSE Opens(r[Latest(T)])
  <2>1. Opening(r, k) = T
    BY <1>4 DEF r
  <2> QED  BY <2>1, SectionMeans
<1>8. SectionAt(s, k) = IF T = {} THEN NoSection ELSE Opens(s[Latest(T)])
  BY SectionMeans DEF T
<1>9. SectionAt(r, k) = SectionAt(s, k)
  <2>1. T # {} => r[Latest(T)] = s[Latest(T)]
    BY <1>6 DEF r
  <2>2. CASE T = {}
    BY <1>7, <1>8, <2>2
  <2>3. CASE T # {}
    BY <1>7, <1>8, <2>1, <2>3, Zenon
  <2> QED  BY <2>2, <2>3
<1> QED  BY <1>9 DEF r

LEMMA SectionAfter ==
    ASSUME NEW S, NEW s \in Seq(S), NEW x \in S
    PROVE  EndsIn(Append(s, x)) = IF DOMAIN x = {"section"} THEN Opens(x)
                                  ELSE EndsIn(s)
<1> DEFINE r == Append(s, x)
           n == Len(s)
           T == Opening(r, n + 1)
<1>1. /\ n \in Nat /\ Len(r) = n + 1 /\ r[n + 1] = x
      /\ \A j \in 1 .. n : r[j] = s[j]
  BY LenProperties, AppendProperties
<1>2. SectionAt(r, n) = SectionAt(s, n)
  <2>1. n \in 0 .. Len(s)
    BY <1>1
  <2> QED  BY <2>1, SectionBefore
<1>3. EndsIn(r) = SectionAt(r, n + 1)
  BY <1>1 DEF EndsIn
<1> HIDE DEF r, n
<1>4. CASE DOMAIN x = {"section"}
  <2>1. n + 1 \in T /\ T \in SUBSET (1 .. n + 1)
    BY <1>1, <1>4 DEF Opening
  <2> HIDE DEF T
  <2>2. T # {} /\ n + 1 \in Nat
    BY <1>1, <2>1
  <2> DEFINE m == n + 1
  <2>3. Latest(T) \in T /\ \A j \in T : j <= Latest(T)
    <3>1. m \in Nat /\ T \in SUBSET (1 .. m)
      BY <2>1, <2>2
    <3> HIDE DEF m
    <3> QED  BY <2>2, <3>1, LatestOf
  <2> DEFINE top == Latest(T)
  <2>4. top = n + 1
    <3>1. top \in 1 .. n + 1 /\ n + 1 <= top
      BY <2>1, <2>3
    <3> HIDE DEF top
    <3> QED  BY <1>1, <3>1
  <2>5. SectionAt(r, n + 1) = Opens(r[Latest(T)])
    BY <2>2, SectionMeans DEF T
  <2> QED  BY <1>1, <1>3, <1>4, <2>4, <2>5 DEF r
<1>5. CASE DOMAIN x # {"section"}
  <2>1. T = Opening(r, n)
    <3>1. \A j : j \in 1 .. n + 1 <=> j \in 1 .. n \/ j = n + 1
      BY <1>1
    <3> QED  BY <1>1, <1>5, <3>1 DEF Opening
  <2>2. SectionAt(r, n + 1) = SectionAt(r, n)
    <3> HIDE DEF T
    <3>1. SectionAt(r, n + 1) = IF T = {} THEN NoSection ELSE Opens(r[Latest(T)])
      BY SectionMeans DEF T
    <3>2. SectionAt(r, n) = IF T = {} THEN NoSection ELSE Opens(r[Latest(T)])
      BY <2>1, SectionMeans
    <3> QED  BY <3>1, <3>2
  <2> QED  BY <1>2, <1>3, <1>5, <2>2 DEF EndsIn, r, n
<1> QED  BY <1>4, <1>5

\* The lines that hold a setting.
Holding(lines, s, key) ==
    {k \in DOMAIN lines : DOMAIN lines[k] = {key} /\ SectionAt(lines, k) = s}

LEMMA ValueMeans ==
    ASSUME NEW lines, NEW s, NEW key, NEW d
    PROVE  Value(lines, s, key, d) =
              IF Holding(lines, s, key) = {} THEN d
              ELSE lines[Latest(Holding(lines, s, key))][key]
BY DEF Value, Holding

\* The value v after one more line, which is in section e.
Update(v, line, e, s, key) == IF DOMAIN line = {key} /\ e = s THEN line[key] ELSE v

LEMMA ValueAfter ==
    ASSUME NEW S, NEW l \in Seq(S), NEW x \in S, NEW s, NEW key, NEW d
    PROVE  Value(Append(l, x), s, key, d) =
              Update(Value(l, s, key, d), x, EndsIn(Append(l, x)), s, key)
<1> DEFINE r == Append(l, x)
           n == Len(l)
           T == Holding(r, s, key)
           U == Holding(l, s, key)
           hit == DOMAIN x = {key} /\ EndsIn(r) = s
<1>1. /\ n \in Nat /\ Len(r) = n + 1 /\ r[n + 1] = x
      /\ DOMAIN l = 1 .. n /\ DOMAIN r = 1 .. n + 1
      /\ \A j \in 1 .. n : r[j] = l[j]
  <2>1. r \in Seq(S)
    BY AppendProperties
  <2> QED  BY <2>1, LenProperties, AppendProperties
<1>2. \A j \in 1 .. n : SectionAt(r, j) = SectionAt(l, j)
  <2> SUFFICES ASSUME NEW j \in 1 .. n PROVE SectionAt(r, j) = SectionAt(l, j)
    OBVIOUS
  <2>1. j \in 0 .. Len(l)
    BY <1>1
  <2> QED  BY <2>1, SectionBefore
<1>3. EndsIn(r) = SectionAt(r, n + 1)
  BY <1>1 DEF EndsIn
<1>4. Value(r, s, key, d) = IF T = {} THEN d ELSE r[Latest(T)][key]
  BY ValueMeans
<1>5. Value(l, s, key, d) = IF U = {} THEN d ELSE l[Latest(U)][key]
  BY ValueMeans
<1> HIDE DEF r, n
<1>6. T \in SUBSET (1 .. n + 1) /\ U \in SUBSET (1 .. n)
  BY <1>1 DEF Holding
<1>7. CASE hit
  <2>1. n + 1 \in T
    <3>1. n + 1 \in 1 .. n + 1
      BY <1>1
    <3> QED  BY <1>1, <1>3, <1>7, <3>1 DEF Holding
  <2> HIDE DEF T
  <2> DEFINE m == n + 1
  <2>2. T # {} /\ m \in Nat /\ T \in SUBSET (1 .. m)
    BY <1>1, <1>6, <2>1
  <2>3. Latest(T) \in T /\ \A j \in T : j <= Latest(T)
    <3> HIDE DEF m
    <3> QED  BY <2>2, LatestOf
  <2> DEFINE top == Latest(T)
  <2>4. top = n + 1
    <3>1. top \in 1 .. n + 1 /\ n + 1 <= top
      BY <1>6, <2>1, <2>3
    <3> HIDE DEF top
    <3> QED  BY <1>1, <3>1
  <2>5. Value(r, s, key, d) = r[n + 1][key]
    BY <1>4, <2>2, <2>4
  <2> QED  BY <1>1, <1>7, <2>5 DEF r, Update
<1>8. CASE ~hit
  <2>1. T = U
    <3>1. \A j : j \in 1 .. n + 1 <=> j \in 1 .. n \/ j = n + 1
      BY <1>1
    <3>2. n + 1 \notin T
      BY <1>1, <1>3, <1>8 DEF Holding
    <3>3. \A j \in 1 .. n : j \in T <=> j \in U
      BY <1>1, <1>2, <3>1 DEF Holding
    <3> HIDE DEF T, U
    <3> QED  BY <1>6, <3>1, <3>2, <3>3
  <2> HIDE DEF T, U
  <2>2. U # {} => r[Latest(U)] = l[Latest(U)]
    <3> SUFFICES ASSUME U # {} PROVE r[Latest(U)] = l[Latest(U)]
      OBVIOUS
    <3>1. Latest(U) \in 1 .. n
      BY <1>1, <1>6, LatestOf
    <3> QED  BY <1>1, <3>1
  <2>3. Value(r, s, key, d) = Value(l, s, key, d)
    BY <1>4, <1>5, <2>1, <2>2
  <2> QED  BY <1>8, <2>3 DEF r, Update
<1> QED  BY <1>7, <1>8

LEMMA SectionsAfter ==
    ASSUME NEW S, NEW l \in Seq(S), NEW x \in S, NEW s
    PROVE  HasSection(Append(l, x), s) <=> HasSection(l, s) \/ x = [section |-> s]
<1> DEFINE r == Append(l, x)
           n == Len(l)
<1>1. /\ n \in Nat /\ r[n + 1] = x
      /\ DOMAIN l = 1 .. n /\ DOMAIN r = 1 .. n + 1
      /\ \A j \in 1 .. n : r[j] = l[j]
  <2>1. r \in Seq(S) /\ Len(r) = Len(l) + 1
    BY AppendProperties
  <2> QED  BY <2>1, LenProperties, AppendProperties
<1> HIDE DEF r, n
<1>2. \A j : j \in 1 .. n + 1 <=> j \in 1 .. n \/ j = n + 1
  BY <1>1
<1>3. HasSection(r, s) <=> HasSection(l, s) \/ x = [section |-> s]
  BY <1>1, <1>2 DEF HasSection
<1> QED  BY <1>3 DEF r

\* The lines that the parser does not look at.
RemarkKeys == {"blank", "comment"}

LEMMA RemarkOrNot ==
    ASSUME NEW x, IsRemark(x)
    PROVE  /\ DOMAIN x # {"section"}
           /\ \A key : key \notin RemarkKeys => DOMAIN x # {key}
           /\ \A s : x # [section |-> s]
<1>1. \A s : DOMAIN [section |-> s] = {"section"}
  OBVIOUS
<1>2. DOMAIN x = {"blank"} \/ DOMAIN x = {"comment"}
  BY DEF IsRemark
<1>3. DOMAIN x # {"section"}
  BY <1>2
<1> QED  BY <1>1, <1>2, <1>3 DEF RemarkKeys

LEMMA EndOfSettings ==
    ASSUME NEW lines \in Seq(Lines)
    PROVE  EndsIn(Settings(lines)) = EndsIn(lines)
<1> DEFINE Good == {l \in Seq(Lines) : EndsIn(Settings(l)) = EndsIn(l)}
<1>1. <<>> \in Good
  BY SettingsSteps
<1>2. ASSUME NEW l \in Seq(Lines), NEW x \in Lines, l \in Good
      PROVE  Append(l, x) \in Good
  <2>1. EndsIn(Settings(l)) = EndsIn(l)
    BY <1>2
  <2>2. Append(l, x) \in Seq(Lines) /\ Settings(l) \in Seq(Lines)
    BY AppendProperties, SettingsType
  <2>3. Settings(Append(l, x)) = Keep(Settings(l), x)
    BY SettingsSteps
  <2>4. EndsIn(Append(l, x)) = IF DOMAIN x = {"section"} THEN Opens(x) ELSE EndsIn(l)
    BY SectionAfter
  <2>5. CASE IsRemark(x)
    <3>1. EndsIn(Append(l, x)) = EndsIn(l)
      BY <2>4, <2>5, RemarkOrNot
    <3>2. Settings(Append(l, x)) = Settings(l)
      BY <2>3, <2>5 DEF Keep
    <3> QED  BY <2>1, <2>2, <3>1, <3>2
  <2>6. CASE ~IsRemark(x)
    <3>1. Settings(Append(l, x)) = Append(Settings(l), x)
      BY <2>3, <2>6 DEF Keep
    <3>2. EndsIn(Append(Settings(l), x))
             = IF DOMAIN x = {"section"} THEN Opens(x) ELSE EndsIn(Settings(l))
      BY <2>2, SectionAfter
    <3>3. EndsIn(Settings(Append(l, x))) = EndsIn(Append(l, x))
      BY <2>1, <2>4, <3>1, <3>2
    <3> QED  BY <2>2, <3>3
  <2> QED  BY <2>5, <2>6
<1>3. lines \in Good
  <2> HIDE DEF Good
  <2> QED  BY <1>1, <1>2, TextInduction
<1> QED  BY <1>3

LEMMA ValueOfSettings ==
    ASSUME NEW lines \in Seq(Lines), NEW s, NEW d, NEW key, key \notin RemarkKeys
    PROVE  Value(Settings(lines), s, key, d) = Value(lines, s, key, d)
<1> DEFINE Found(l) == Value(l, s, key, d)
           Good == {l \in Seq(Lines) : Found(Settings(l)) = Found(l)}
<1>1. <<>> \in Good
  BY SettingsSteps
<1>2. ASSUME NEW l \in Seq(Lines), NEW x \in Lines, l \in Good
      PROVE  Append(l, x) \in Good
  <2>1. Found(Settings(l)) = Found(l)
    BY <1>2
  <2>2. Append(l, x) \in Seq(Lines) /\ Settings(l) \in Seq(Lines)
    BY AppendProperties, SettingsType
  <2>3. Settings(Append(l, x)) = Keep(Settings(l), x)
    BY SettingsSteps
  <2>4. Found(Append(l, x)) = Update(Found(l), x, EndsIn(Append(l, x)), s, key)
    BY ValueAfter
  <2>5. CASE IsRemark(x)
    <3>1. Found(Append(l, x)) = Found(l)
      BY <2>4, <2>5, RemarkOrNot DEF Update
    <3>2. Settings(Append(l, x)) = Settings(l)
      BY <2>3, <2>5 DEF Keep
    <3> HIDE DEF Found
    <3> QED  BY <2>1, <2>2, <3>1, <3>2
  <2>6. CASE ~IsRemark(x)
    <3>1. Settings(Append(l, x)) = Append(Settings(l), x)
      BY <2>3, <2>6 DEF Keep
    <3>2. Found(Append(Settings(l), x))
             = Update(Found(Settings(l)), x, EndsIn(Append(Settings(l), x)), s, key)
      BY <2>2, ValueAfter
    <3>3. EndsIn(Append(Settings(l), x)) = EndsIn(Append(l, x))
      BY <2>2, <3>1, EndOfSettings
    <3> HIDE DEF Found
    <3>4. Found(Settings(Append(l, x))) = Found(Append(l, x))
      BY <2>1, <2>4, <3>1, <3>2, <3>3
    <3> QED  BY <2>2, <3>4
  <2> QED  BY <2>5, <2>6
<1>3. lines \in Good
  <2> HIDE DEF Good
  <2> QED  BY <1>1, <1>2, TextInduction
<1> QED  BY <1>3

LEMMA SectionsOfSettings ==
    ASSUME NEW lines \in Seq(Lines), NEW s
    PROVE  HasSection(Settings(lines), s) <=> HasSection(lines, s)
<1> DEFINE Good == {l \in Seq(Lines) : HasSection(Settings(l), s) <=> HasSection(l, s)}
<1>1. <<>> \in Good
  BY SettingsSteps
<1>2. ASSUME NEW l \in Seq(Lines), NEW x \in Lines, l \in Good
      PROVE  Append(l, x) \in Good
  <2>1. HasSection(Settings(l), s) <=> HasSection(l, s)
    BY <1>2
  <2>2. Append(l, x) \in Seq(Lines) /\ Settings(l) \in Seq(Lines)
    BY AppendProperties, SettingsType
  <2>3. Settings(Append(l, x)) = Keep(Settings(l), x)
    BY SettingsSteps
  <2>4. HasSection(Append(l, x), s) <=> HasSection(l, s) \/ x = [section |-> s]
    BY SectionsAfter
  <2>5. CASE IsRemark(x)
    <3>1. HasSection(Append(l, x), s) <=> HasSection(l, s)
      BY <2>4, <2>5, RemarkOrNot
    <3>2. Settings(Append(l, x)) = Settings(l)
      BY <2>3, <2>5 DEF Keep
    <3> QED  BY <2>1, <2>2, <3>1, <3>2
  <2>6. CASE ~IsRemark(x)
    <3>1. Settings(Append(l, x)) = Append(Settings(l), x)
      BY <2>3, <2>6 DEF Keep
    <3>2. HasSection(Append(Settings(l), x), s)
             <=> HasSection(Settings(l), s) \/ x = [section |-> s]
      BY <2>2, SectionsAfter
    <3> QED  BY <2>1, <2>2, <2>4, <3>1, <3>2
  <2> QED  BY <2>5, <2>6
<1>3. lines \in Good
  <2> HIDE DEF Good
  <2> QED  BY <1>1, <1>2, TextInduction
<1> QED  BY <1>3

\* Two texts in which the parser finds the same.
SameReading(a, b) ==
    /\ \A s, key, d : key \notin RemarkKeys => Value(a, s, key, d) = Value(b, s, key, d)
    /\ \A s : HasSection(a, s) <=> HasSection(b, s)

LEMMA SameFragments ==
    ASSUME NEW a, NEW b, SameReading(a, b)
    PROVE  /\ GlobalKind(a) = GlobalKind(b)
           /\ Fragments(a) = Fragments(b)
           /\ Paths(a) = Paths(b)
           /\ \A p : Nodes(a, p) = Nodes(b, p)
           /\ \A n : FragmentOf(a, n) = FragmentOf(b, n)
           /\ \A name : Named(a, name) = Named(b, name)
           /\ \A name : fragment_index(a, name) = fragment_index(b, name)
<1>1. \A s, key, d : key \notin RemarkKeys => Value(a, s, key, d) = Value(b, s, key, d)
  BY DEF SameReading
<1>8. \A s, key, d : key \notin RemarkKeys => Number(a, s, key, d) = Number(b, s, key, d)
  BY <1>1 DEF Number
<1>2. GlobalKind(a) = GlobalKind(b)
  BY <1>1 DEF GlobalKind, RemarkKeys
<1>3. Fragments(a) = Fragments(b) /\ Paths(a) = Paths(b)
  BY DEF SameReading, Fragments, Paths
<1>4. \A p : Nodes(a, p) = Nodes(b, p)
  BY <1>1 DEF Nodes, RemarkKeys
<1>5. ASSUME NEW n PROVE FragmentOf(a, n) = FragmentOf(b, n)
  <2>1. /\ "name" \notin RemarkKeys /\ "kind" \notin RemarkKeys
        /\ "memory" \notin RemarkKeys /\ "depth" \notin RemarkKeys
        /\ "initial_subepoch" \notin RemarkKeys /\ "max_subepoch" \notin RemarkKeys
        /\ "rho_target" \notin RemarkKeys /\ "boost_single_hop" \notin RemarkKeys
    BY DEF RemarkKeys
  <2> DEFINE s == <<"fragment", n>>
  <2> HIDE DEF s
  <2>2. \A d : /\ Value(a, s, "name", d) = Value(b, s, "name", d)
               /\ Value(a, s, "kind", d) = Value(b, s, "kind", d)
               /\ Number(a, s, "memory", d) = Number(b, s, "memory", d)
               /\ Number(a, s, "depth", d) = Number(b, s, "depth", d)
               /\ Number(a, s, "initial_subepoch", d) = Number(b, s, "initial_subepoch", d)
               /\ Number(a, s, "max_subepoch", d) = Number(b, s, "max_subepoch", d)
               /\ Number(a, s, "rho_target", d) = Number(b, s, "rho_target", d)
               /\ Value(a, s, "boost_single_hop", d) = Value(b, s, "boost_single_hop", d)
    BY <1>1, <1>8, <2>1
  <2> DEFINE none == ""
             K(l, key, d) == Value(l, s, key, d)
             N(l, key, d) == Number(l, s, key, d)
             F(g, i, m, name, kind, memory, depth, target, boost) ==
                [name |-> IF name = none THEN Suffix[n] ELSE name,
                 kind |-> IF kind = none THEN g ELSE parse_sketch_kind(kind),
                 memory_bytes |-> Ulong(memory),
                 depth |-> Depth(Uint(depth)),
                 initial_subepoch |-> Uint(i),
                 max_subepoch |-> Ceiling(Uint(m), Uint(i)),
                 rho_target |-> target,
                 boost_single_hop |-> parse_bool(boost)]
             I(l) == N(l, "initial_subepoch", 1)
             G(l) == F(GlobalKind(l), I(l), N(l, "max_subepoch", Uint(I(l))),
                       K(l, "name", none), K(l, "kind", none),
                       N(l, "memory", 8 * 1024 * 1024), N(l, "depth", 1),
                       N(l, "rho_target", 1), K(l, "boost_single_hop", "false"))
  <2>3. FragmentOf(a, n) = G(a) /\ FragmentOf(b, n) = G(b)
    BY DEF FragmentOf, s
  <2> HIDE DEF F, none
  <2>4. I(a) = I(b)
    BY <2>2
  <2> HIDE DEF I
  <2>5. /\ N(a, "max_subepoch", Uint(I(a))) = N(b, "max_subepoch", Uint(I(b)))
        /\ K(a, "name", none) = K(b, "name", none)
        /\ K(a, "kind", none) = K(b, "kind", none)
        /\ N(a, "memory", 8 * 1024 * 1024) = N(b, "memory", 8 * 1024 * 1024)
        /\ N(a, "depth", 1) = N(b, "depth", 1)
        /\ N(a, "rho_target", 1) = N(b, "rho_target", 1)
        /\ K(a, "boost_single_hop", "false") = K(b, "boost_single_hop", "false")
    BY <2>2, <2>4
  <2>6. G(a) = G(b)
    <3> HIDE DEF K, N
    <3> QED  BY <1>2, <2>4, <2>5
  <2> HIDE DEF G
  <2> QED  BY <2>3, <2>6
<1>6. \A name : Named(a, name) = Named(b, name)
  BY <1>3, <1>5 DEF Named
<1>7. \A name : fragment_index(a, name) = fragment_index(b, name)
  BY <1>6 DEF fragment_index
<1> QED  BY <1>2, <1>3, <1>4, <1>5, <1>6, <1>7

LEMMA SameVerdict ==
    ASSUME NEW a, NEW b, SameReading(a, b)
    PROVE  /\ Accepts(a) <=> Accepts(b)
           /\ ConfigOf(a) = ConfigOf(b)
<1>1. /\ GlobalKind(a) = GlobalKind(b)
      /\ Fragments(a) = Fragments(b)
      /\ Paths(a) = Paths(b)
      /\ \A p : Nodes(a, p) = Nodes(b, p)
      /\ \A n : FragmentOf(a, n) = FragmentOf(b, n)
      /\ \A name : Named(a, name) = Named(b, name)
      /\ \A name : fragment_index(a, name) = fragment_index(b, name)
  BY SameFragments
<1>2. /\ \A d : Value(a, Global, "pcap", d) = Value(b, Global, "pcap", d)
      /\ \A d : Number(a, Global, "epoch_ns", d) = Number(b, Global, "epoch_ns", d)
      /\ \A d : Number(a, Global, "max_epochs", d) = Number(b, Global, "max_epochs", d)
  BY DEF SameReading, RemarkKeys, Number
<1>3. Accepts(a) <=> Accepts(b)
  <2> DEFINE Known(l, p) == /\ Nodes(l, p) # <<>>
                            /\ \A h \in DOMAIN Nodes(l, p) : Named(l, Nodes(l, p)[h]) # {}
  <2>1. \A p : Known(a, p) <=> Known(b, p)
    <3> TAKE p
    <3> DEFINE route == Nodes(a, p)
    <3>1. route = Nodes(b, p)
      BY <1>1
    <3> HIDE DEF route
    <3> QED  BY <1>1, <3>1 DEF route
  <2> DEFINE none == ""
             Fine(l) == /\ Value(l, Global, "pcap", none) # none
                        /\ Fragments(l) # {}
                        /\ Paths(l) # {}
                        /\ \A p \in Paths(l) : Known(l, p)
  <2>2. Accepts(a) = Fine(a)
    BY DEF Accepts
  <2>3. Accepts(b) = Fine(b)
    BY DEF Accepts
  <2> HIDE DEF Known, none
  <2>4. Fine(a) <=> Fine(b)
    <3>1. Value(a, Global, "pcap", none) = Value(b, Global, "pcap", none)
      BY <1>2
    <3> QED  BY <1>1, <2>1, <3>1
  <2> HIDE DEF Fine
  <2> QED  BY <2>2, <2>3, <2>4
<1>4. ConfigOf(a) = ConfigOf(b)
  <2>1. [n \in Fragments(a) |-> FragmentOf(a, n)] = [n \in Fragments(b) |-> FragmentOf(b, n)]
    BY <1>1
  <2> DEFINE Route(l, p) == [h \in DOMAIN Nodes(l, p) |-> fragment_index(l, Nodes(l, p)[h])]
  <2>2. \A p : Route(a, p) = Route(b, p)
    BY <1>1
  <2> HIDE DEF Route
  <2>3. [p \in Paths(a) |-> Route(a, p)] = [p \in Paths(b) |-> Route(b, p)]
    BY <1>1, <2>2
  <2> DEFINE second == 1000000000
             Config(g, e, m, f, r) ==
                [sketch_kind |-> g, epoch_duration_ns |-> Ulong(e),
                 max_epochs |-> Uint(m), fragments |-> f, paths |-> r]
             C(l) == Config(GlobalKind(l), Number(l, Global, "epoch_ns", second),
                            Number(l, Global, "max_epochs", 0),
                            [n \in Fragments(l) |-> FragmentOf(l, n)],
                            [p \in Paths(l) |-> Route(l, p)])
  <2>4. ConfigOf(a) = C(a)
    BY DEF ConfigOf, Route
  <2>5. ConfigOf(b) = C(b)
    BY DEF ConfigOf, Route
  <2> HIDE DEF second, Config
  <2>6. C(a) = C(b)
    <3>1. Number(a, Global, "epoch_ns", second) = Number(b, Global, "epoch_ns", second)
      BY <1>2
    <3>2. Number(a, Global, "max_epochs", 0) = Number(b, Global, "max_epochs", 0)
      BY <1>2
    <3> QED  BY <1>1, <2>1, <2>3, <3>1, <3>2
  <2> HIDE DEF C
  <2> QED  BY <2>4, <2>5, <2>6
<1> QED  BY <1>3, <1>4

\* Texts with the same settings are the same to the simulator.
LEMMA SettingsDecide ==
    ASSUME NEW a \in Seq(Lines), NEW b \in Seq(Lines), Settings(a) = Settings(b)
    PROVE  /\ Accepts(a) <=> Accepts(b)
           /\ ConfigOf(a) = ConfigOf(b)
<1>1. SameReading(a, b)
  <2>1. ASSUME NEW s, NEW key, NEW d, key \notin RemarkKeys
        PROVE  Value(a, s, key, d) = Value(b, s, key, d)
    <3>1. Value(Settings(a), s, key, d) = Value(a, s, key, d)
      BY <2>1, ValueOfSettings
    <3>2. Value(Settings(b), s, key, d) = Value(b, s, key, d)
      BY <2>1, ValueOfSettings
    <3> QED  BY <3>1, <3>2
  <2>2. ASSUME NEW s PROVE HasSection(a, s) <=> HasSection(b, s)
    BY SectionsOfSettings
  <2> QED  BY <2>1, <2>2 DEF SameReading
<1> QED  BY <1>1, SameVerdict

\* An emptied file is refused.
LEMMA EmptyRefused == ~Accepts(<<>>)
<1>1. Value(<<>>, Global, "pcap", "") = ""
  BY DEF Value
<1> QED  BY <1>1 DEF Accepts

-----------------------------------------------------------------------------
(* What is left of the settings: an inductive invariant.                   *)

Typed ==
    /\ original \in Originals
    /\ file \in Seq(Lines) /\ text \in Seq(Lines)
    /\ stage \in [Tasks -> Stages]
    /\ size \in [Tasks -> Nat]
    /\ loaded \in [Tasks -> Seq(Lines)]
    /\ writer \in Tasks \cup {0}
    /\ last \in ResultLengths \cup {0}
    /\ damaged \in BOOLEAN
    /\ writer # 0 => file = <<>> /\ stage[writer] = "succeeded"

\* The text that is about to be written is one of those cut short as well.
EndsOnly ==
    LET o == Settings(original)
    IN  /\ Beginning(Settings(file), o)
        /\ Beginning(Settings(text), o)
        /\ \A t \in Tasks : Beginning(Settings(loaded[t]), o)

LEMMA OriginalText ==
    ASSUME original \in Originals
    PROVE  original \in Seq(Lines) /\ Settings(original) \in Seq(Lines)
<1>1. original \in Seq(Lines)
  BY OriginalsAssumption, TextOfLines
<1> QED  BY <1>1, SettingsType

LEMMA TaskNumbers == 0 \notin Tasks /\ Tasks \subseteq Nat
BY TasksAssumption

LEMMA Lengths == ResultLengths \subseteq Nat \ {0}
BY ResultsAssumption

LEMMA SomeBeginnings ==
    ASSUME NEW o \in Seq(Lines)
    PROVE  Beginning(o, o) /\ Beginning(Settings(<<>>), o)
<1>1. Len(o) \in Nat
  BY LenProperties
<1>2. Settings(<<>>) = <<>> /\ Len(<<>>) = 0
  BY SettingsSteps, EmptySeq
<1>3. Beginning(o, o)
  BY <1>1 DEF Beginning
<1>4. Beginning(<<>>, o)
  <2>1. Len(<<>>) <= Len(o)
    BY <1>1, <1>2
  <2>2. 1 .. Len(<<>>) - 1 = {}
    BY <1>2
  <2> QED  BY <2>1, <2>2 DEF Beginning
<1> QED  BY <1>2, <1>3, <1>4

LEMMA TextInit == Init => Typed /\ EndsOnly
<1> SUFFICES ASSUME Init PROVE Typed /\ EndsOnly
  OBVIOUS
<1>1. original \in Seq(Lines) /\ Settings(original) \in Seq(Lines)
  BY OriginalText DEF Init
<1>2. <<>> \in Seq(Lines)
  BY EmptySeq
<1>3. Typed
  BY <1>1, <1>2 DEF Init, Typed, Stages
<1>4. EndsOnly
  <2>1. /\ Beginning(Settings(original), Settings(original))
        /\ Beginning(Settings(<<>>), Settings(original))
    BY <1>1, SomeBeginnings
  <2> QED  BY <2>1 DEF Init, EndsOnly
<1> QED  BY <1>3, <1>4

LEMMA TextNext == Typed /\ EndsOnly /\ [Next]_vars => (Typed /\ EndsOnly)'
<1> SUFFICES ASSUME Typed, EndsOnly, [Next]_vars PROVE (Typed /\ EndsOnly)'
  OBVIOUS
<1> DEFINE o == Settings(original)
<1>1. original \in Seq(Lines) /\ o \in Seq(Lines) /\ <<>> \in Seq(Lines)
  BY OriginalText, EmptySeq DEF Typed
<1>2. Beginning(Settings(<<>>), o)
  <2> HIDE DEF o
  <2> QED  BY <1>1, SomeBeginnings
<1>3. 0 \notin Tasks
  BY TaskNumbers
<1>4. ASSUME NEW t \in Tasks, Start(t) PROVE (Typed /\ EndsOnly)'
  <2>1. Typed'
    BY <1>4 DEF Typed, Start, writeVars, Stages
  <2>2. EndsOnly'
    BY <1>4 DEF EndsOnly, Start, writeVars
  <2> QED  BY <2>1, <2>2
<1>5. ASSUME NEW t \in Tasks, Measure(t) PROVE (Typed /\ EndsOnly)'
  <2>1. Size(file) \in Nat
    BY SizeType DEF Typed
  <2>2. Typed'
    BY <1>5, <2>1 DEF Typed, Measure, writeVars, Stages
  <2>3. EndsOnly'
    BY <1>5 DEF EndsOnly, Measure, writeVars
  <2> QED  BY <2>2, <2>3
<1>6. ASSUME NEW t \in Tasks, Load(t) PROVE (Typed /\ EndsOnly)'
  <2>1. /\ stage[t] = "measured" /\ UNCHANGED <<original, file, size, writeVars>>
        /\ \E s \in Stages : stage' = [stage EXCEPT ![t] = s]
        /\ \/ loaded' = loaded
           \/ \E lines \in Cut(file, size[t]) : loaded' = [loaded EXCEPT ![t] = lines]
    BY <1>6 DEF Load, Stages
  <2>2. \A lines \in Cut(file, size[t]) :
           lines \in Seq(Lines) /\ Beginning(Settings(lines), o)
    <3>1. size[t] \in Nat /\ file \in Seq(Lines) /\ Beginning(Settings(file), o)
      BY DEF Typed, EndsOnly
    <3> HIDE DEF o
    <3> QED  BY <1>1, <3>1, CutBeginning
  <2>3. /\ loaded' \in [Tasks -> Seq(Lines)]
        /\ \A u \in Tasks : Beginning(Settings(loaded'[u]), o)
    <3>1. CASE loaded' = loaded
      BY <3>1 DEF Typed, EndsOnly
    <3>2. CASE \E lines \in Cut(file, size[t]) : loaded' = [loaded EXCEPT ![t] = lines]
      <4>1. PICK lines \in Cut(file, size[t]) : loaded' = [loaded EXCEPT ![t] = lines]
        BY <3>2
      <4>2. /\ loaded' \in [Tasks -> Seq(Lines)]
            /\ \A u \in Tasks : loaded'[u] = IF u = t THEN lines ELSE loaded[u]
        BY <2>2, <4>1 DEF Typed
      <4>3. \A u \in Tasks : Beginning(Settings(loaded[u]), o)
        BY DEF EndsOnly
      <4> HIDE DEF o
      <4> QED  BY <2>2, <4>2, <4>3
    <3> QED  BY <2>1, <3>1, <3>2
  <2>4. Typed'
    <3>1. writer # 0 => writer # t
      BY <2>1 DEF Typed
    <3> QED  BY <2>1, <2>3, <3>1 DEF Typed, writeVars
  <2>5. EndsOnly'
    BY <2>1, <2>3 DEF EndsOnly, writeVars
  <2> QED  BY <2>4, <2>5
<1>7. ASSUME NEW t \in Tasks, Finish(t) PROVE (Typed /\ EndsOnly)'
  <2>1. Typed'
    BY <1>7 DEF Typed, Finish, writeVars, Stages
  <2>2. EndsOnly'
    BY <1>7 DEF EndsOnly, Finish, writeVars
  <2> QED  BY <2>1, <2>2
<1>8. ASSUME NEW t \in Tasks, Truncate(t) PROVE (Typed /\ EndsOnly)'
  <2>1. last' \in ResultLengths /\ last' \in Nat \ {0} /\ file \in Seq(Lines)
    BY <1>8, Lengths DEF Typed, Truncate
  <2>2. /\ Rewritten(file, last') \in Seq(Lines)
        /\ Settings(Rewritten(file, last')) = Settings(file)
    BY <2>1, RewrittenText
  <2>3. Typed'
    BY <1>1, <1>8, <2>1, <2>2 DEF Typed, Truncate
  <2>4. EndsOnly'
    BY <1>2, <1>8, <2>2 DEF EndsOnly, Truncate
  <2> QED  BY <2>3, <2>4
<1>9. ASSUME NEW t \in Tasks, Write(t) PROVE (Typed /\ EndsOnly)'
  <2>1. Typed'
    BY <1>1, <1>9 DEF Typed, Write, Stages
  <2>2. EndsOnly'
    BY <1>2, <1>9 DEF EndsOnly, Write
  <2> QED  BY <2>1, <2>2
<1>10. ASSUME NEW t \in Tasks, CutShort(t) PROVE (Typed /\ EndsOnly)'
  <2>1. PICK n \in 0 .. Size(text) - 1 : file' \in Cut(text, n)
    BY <1>10 DEF CutShort
  <2>2. file' \in Seq(Lines) /\ Beginning(Settings(file'), o)
    <3>1. n \in Nat /\ text \in Seq(Lines) /\ Beginning(Settings(text), o)
      BY DEF Typed, EndsOnly
    <3> HIDE DEF o
    <3> QED  BY <1>1, <2>1, <3>1, CutBeginning
  <2>3. Typed'
    BY <1>1, <1>10, <2>2 DEF Typed, CutShort, Stages
  <2>4. EndsOnly'
    BY <1>2, <1>10, <2>2 DEF EndsOnly, CutShort
  <2> QED  BY <2>3, <2>4
<1>11. CASE RunAgain
  <2>1. Typed'
    BY <1>1, <1>11 DEF Typed, RunAgain, writeVars, Stages
  <2>2. EndsOnly'
    BY <1>2, <1>11 DEF EndsOnly, RunAgain, writeVars
  <2> QED  BY <2>1, <2>2
<1>12. CASE UNCHANGED vars
  BY <1>12 DEF Typed, EndsOnly, vars, writeVars
<1> QED
  BY <1>4, <1>5, <1>6, <1>7, <1>8, <1>9, <1>10, <1>11, <1>12 DEF Next

-----------------------------------------------------------------------------
(* As long as no damage is done.                                           *)

\* FileIntact, and what it says of the text under way.
FileKept ==
    /\ FileIntact
    /\ writer # 0 /\ ~damaged => last # 0 /\ text = Rewritten(original, last)

LEMMA FileNext == Typed /\ FileKept /\ [Next]_vars => FileKept'
<1> SUFFICES ASSUME Typed, FileKept, [Next]_vars PROVE FileKept'
  OBVIOUS
<1>1. 0 \notin Tasks /\ Tasks \subseteq Nat
  BY TaskNumbers
<1>2. original \in Seq(Lines)
  BY OriginalText DEF Typed
<1>3. ASSUME NEW t \in Tasks, Start(t) PROVE FileKept'
  BY <1>3 DEF FileKept, FileIntact, Start, writeVars
<1>4. ASSUME NEW t \in Tasks, Measure(t) PROVE FileKept'
  BY <1>4 DEF FileKept, FileIntact, Measure, writeVars
<1>5. ASSUME NEW t \in Tasks, Load(t) PROVE FileKept'
  BY <1>5 DEF FileKept, FileIntact, Load, writeVars
<1>6. ASSUME NEW t \in Tasks, Finish(t) PROVE FileKept'
  BY <1>6 DEF FileKept, FileIntact, Finish, writeVars
<1>7. ASSUME NEW t \in Tasks, Truncate(t) PROVE FileKept'
  <2>1. /\ writer = 0 /\ writer' = t /\ writer' # 0
        /\ last' \in Nat \ {0} /\ text' = Rewritten(file, last')
        /\ original' = original /\ damaged' = damaged
    BY <1>1, <1>7, Lengths DEF Truncate
  <2>2. ~damaged => Rewritten(file, last') = Rewritten(original, last')
    <3> SUFFICES ASSUME ~damaged
                 PROVE  Rewritten(file, last') = Rewritten(original, last')
      OBVIOUS
    <3>1. CASE last = 0
      BY <2>1, <3>1 DEF FileKept, FileIntact
    <3>2. CASE last # 0
      <4>1. file = Rewritten(original, last)
        BY <2>1, <3>2 DEF FileKept, FileIntact
      <4>2. last \in Nat \ {0}
        BY <3>2, Lengths DEF Typed
      <4>3. Rewritten(Rewritten(original, last), last') = Rewritten(original, last')
        BY <1>2, <2>1, <4>2, RewrittenText
      <4> QED  BY <4>1, <4>3
    <3> QED  BY <3>1, <3>2
  <2> QED  BY <2>1, <2>2 DEF FileKept, FileIntact
<1>8. ASSUME NEW t \in Tasks, Write(t) PROVE FileKept'
  <2>1. /\ writer = t /\ t # 0 /\ writer' = 0 /\ last' = last /\ file' = text
        /\ original' = original /\ damaged' = damaged
    BY <1>1, <1>8 DEF Write
  <2> QED  BY <2>1 DEF FileKept, FileIntact
<1>9. ASSUME NEW t \in Tasks, CutShort(t) PROVE FileKept'
  BY <1>9 DEF FileKept, FileIntact, CutShort
<1>10. CASE RunAgain
  BY <1>10 DEF FileKept, FileIntact, RunAgain, writeVars
<1>11. CASE UNCHANGED vars
  BY <1>11 DEF FileKept, FileIntact, vars, writeVars
<1> QED
  BY <1>3, <1>4, <1>5, <1>6, <1>7, <1>8, <1>9, <1>10, <1>11 DEF Next

\* The sizes of the original with one set of results.
WithResults == {Size(Rewritten(original, m)) : m \in ResultLengths}

\* The sizes that can be found: of the emptied file, of the original, and of
\* the original with results once there have been some.
Sized(n) == n = 0 \/ n = Size(original) \/ (last # 0 /\ n \in WithResults)

SizesKnown == ~damaged => \A t \in Tasks : stage[t] = "measured" => Sized(size[t])

LEMMA SizeNext ==
    Typed /\ FileKept /\ SizesKnown /\ [Next]_vars => SizesKnown'
<1> SUFFICES ASSUME Typed, FileKept, SizesKnown, [Next]_vars, ~damaged'
             PROVE  \A u \in Tasks : stage'[u] = "measured" => Sized(size[u])'
  BY DEF SizesKnown
<1>1. 0 \notin Tasks /\ Tasks \subseteq Nat
  BY TaskNumbers
<1>2. ASSUME UNCHANGED <<original, size, damaged>>, last # 0 => last' # 0,
             \A u \in Tasks : stage'[u] = "measured" => stage[u] = "measured"
      PROVE  \A u \in Tasks : stage'[u] = "measured" => Sized(size[u])'
  <2>1. WithResults' = WithResults
    BY <1>2 DEF WithResults
  <2>2. \A u \in Tasks : stage'[u] = "measured" => Sized(size[u])
    BY <1>2 DEF SizesKnown
  <2>3. \A n : Sized(n) => Sized(n)'
    BY <1>2, <2>1 DEF Sized
  <2> QED  BY <1>2, <2>2, <2>3 DEF Sized
<1>3. ASSUME NEW t \in Tasks, Start(t)
      PROVE  \A u \in Tasks : stage'[u] = "measured" => Sized(size[u])'
  BY <1>2, <1>3 DEF Start, writeVars, Typed
<1>4. ASSUME NEW t \in Tasks, Measure(t)
      PROVE  \A u \in Tasks : stage'[u] = "measured" => Sized(size[u])'
  <2>1. /\ ~damaged /\ UNCHANGED <<original, last>>
        /\ stage' = [stage EXCEPT ![t] = "measured"]
        /\ size' = [size EXCEPT ![t] = Size(file)]
    BY <1>4 DEF Measure, writeVars
  <2>2. Sized(Size(file))
    <3>1. CASE writer = 0
      <4>1. last # 0 => last \in ResultLengths /\ file = Rewritten(original, last)
        BY <2>1, <3>1 DEF FileKept, FileIntact, Typed
      <4>2. last # 0 => Size(file) \in WithResults
        BY <4>1 DEF WithResults
      <4> QED  BY <2>1, <3>1, <4>2 DEF FileKept, FileIntact, Sized
    <3>2. CASE writer # 0
      <4>1. Size(file) = 0
        BY <3>2, SizeSteps DEF Typed
      <4> QED  BY <4>1 DEF Sized
    <3> QED  BY <3>1, <3>2
  <2>3. \A u \in Tasks : /\ stage'[u] = "measured" => u = t \/ stage[u] = "measured"
                         /\ size'[u] = IF u = t THEN Size(file) ELSE size[u]
    BY <2>1 DEF Typed
  <2>4. \A u \in Tasks : stage'[u] = "measured" => Sized(size'[u])
    BY <2>1, <2>2, <2>3 DEF SizesKnown
  <2>5. WithResults' = WithResults
    BY <2>1 DEF WithResults
  <2> QED  BY <2>1, <2>4, <2>5 DEF Sized
<1>5. ASSUME NEW t \in Tasks, Load(t)
      PROVE  \A u \in Tasks : stage'[u] = "measured" => Sized(size[u])'
  <2>1. /\ UNCHANGED <<original, file, size, writeVars>>
        /\ \E s \in {"running", "ended"} : stage' = [stage EXCEPT ![t] = s]
    BY <1>5 DEF Load
  <2>2. \A u \in Tasks : stage'[u] = "measured" => stage[u] = "measured"
    BY <2>1 DEF Typed
  <2> QED  BY <1>2, <2>1, <2>2 DEF writeVars
<1>6. ASSUME NEW t \in Tasks, Finish(t)
      PROVE  \A u \in Tasks : stage'[u] = "measured" => Sized(size[u])'
  BY <1>2, <1>6 DEF Finish, writeVars, Typed
<1>7. ASSUME NEW t \in Tasks, Truncate(t)
      PROVE  \A u \in Tasks : stage'[u] = "measured" => Sized(size[u])'
  <2>1. last' # 0
    BY <1>7, Lengths DEF Truncate
  <2> QED  BY <1>2, <1>7, <2>1 DEF Truncate
<1>8. ASSUME NEW t \in Tasks, Write(t)
      PROVE  \A u \in Tasks : stage'[u] = "measured" => Sized(size[u])'
  BY <1>2, <1>8 DEF Write, Typed
<1>9. ASSUME NEW t \in Tasks, CutShort(t)
      PROVE  \A u \in Tasks : stage'[u] = "measured" => Sized(size[u])'
  BY <1>9 DEF CutShort
<1>10. CASE RunAgain
  BY <1>10 DEF RunAgain
<1>11. CASE UNCHANGED vars
  BY <1>2, <1>11 DEF vars, writeVars
<1> QED
  BY <1>3, <1>4, <1>5, <1>6, <1>7, <1>8, <1>9, <1>10, <1>11 DEF Next

\* What a simulator accepts of an undamaged file, whatever size it has found.
LEMMA LoadedWell ==
    ASSUME Typed, FileKept, SizesKnown, ~damaged,
           NEW t \in Tasks, stage[t] = "measured", Size(file) >= size[t],
           NEW lines \in Cut(file, size[t]), Accepts(lines)
    PROVE  \/ ConfigOf(lines) = ConfigOf(original)
           \/ /\ last # 0
              /\ size[t] \in {Size(original)} \cup WithResults
              /\ \E m \in WithResults : size[t] < m
<1> DEFINE n == size[t]
<1>1. /\ original \in Seq(Lines) /\ file \in Seq(Lines) /\ n \in Nat
      /\ Size(file) \in Nat /\ last \in Nat
  BY OriginalText, SizeType, Lengths DEF Typed
<1>2. Sized(n)
  BY DEF SizesKnown
<1> HIDE DEF n
<1>3. n # 0
  <2> SUFFICES ASSUME n = 0 PROVE FALSE
    OBVIOUS
  <2>1. Cut(file, n) = {<<>>}
    BY <1>1, CutAll
  <2>2. lines = <<>>
    BY <2>1 DEF n
  <2> QED  BY <2>2, EmptyRefused
<1>4. writer = 0
  <2> SUFFICES ASSUME writer # 0 PROVE FALSE
    OBVIOUS
  <2>1. Size(file) = 0
    BY SizeSteps DEF Typed
  <2> QED  BY <1>1, <1>3, <2>1 DEF n
<1>5. ASSUME Size(file) <= n PROVE lines = file
  <2>1. Cut(file, n) = {file}
    BY <1>1, <1>5, CutAll
  <2> QED  BY <2>1 DEF n
<1>6. CASE last = 0
  <2>1. file = original
    BY <1>4, <1>6 DEF FileKept, FileIntact
  <2>2. n = Size(original)
    BY <1>2, <1>3, <1>6 DEF Sized
  <2>3. lines = original
    BY <1>1, <1>5, <2>1, <2>2
  <2> QED  BY <2>3
<1>7. CASE last # 0
  <2>1. file = Rewritten(original, last)
    BY <1>4, <1>7 DEF FileKept, FileIntact
  <2>2. CASE Size(file) <= n
    <3>1. lines = file
      BY <1>5, <2>2
    <3>2. Settings(file) = Settings(original)
      <4>1. last \in Nat \ {0}
        BY <1>1, <1>7
      <4> QED  BY <1>1, <2>1, <4>1, RewrittenText
    <3> QED  BY <1>1, <3>1, <3>2, SettingsDecide
  <2>3. CASE n < Size(file)
    <3>1. n \in {Size(original)} \cup WithResults
      BY <1>2, <1>3 DEF Sized
    <3>2. last \in ResultLengths
      BY <1>7 DEF Typed
    <3>3. Size(file) \in WithResults
      BY <2>1, <3>2 DEF WithResults
    <3> QED  BY <1>7, <2>3, <3>1, <3>3 DEF n
  <2> QED  BY <1>1, <2>2, <2>3
<1> QED  BY <1>6, <1>7

LEMMA LossNext ==
    Typed /\ FileKept /\ SizesKnown /\ LossOnlyByLongerResults /\ [Next]_vars
        => LossOnlyByLongerResults'
<1> DEFINE Excused(c, n) == \/ c = ConfigOf(original)
                            \/ /\ last # 0
                               /\ n \in {Size(original)} \cup WithResults
                               /\ \E m \in WithResults : n < m
           Loss == \A u \in Tasks : stage[u] = "running" /\ ~damaged
                                      => Excused(ConfigOf(loaded[u]), size[u])
<1>1. LossOnlyByLongerResults <=> Loss
  BY DEF LossOnlyByLongerResults, WithResults
<1>2. LossOnlyByLongerResults' <=> Loss'
  BY DEF LossOnlyByLongerResults, WithResults
<1> SUFFICES ASSUME Typed, FileKept, SizesKnown, Loss, [Next]_vars PROVE Loss'
  BY <1>1, <1>2
<1>3. 0 \notin Tasks
  BY TaskNumbers
<1>14. UNCHANGED original => WithResults' = WithResults
  BY DEF WithResults
<1>4. ASSUME UNCHANGED <<original, size, loaded, damaged>>, last # 0 => last' # 0,
             \A u \in Tasks : stage'[u] = "running" => stage[u] = "running"
      PROVE  Loss'
  BY <1>4, <1>14
<1>5. ASSUME NEW t \in Tasks, Start(t) PROVE Loss'
  BY <1>4, <1>5 DEF Start, writeVars, Typed
<1>6. ASSUME NEW t \in Tasks, Measure(t) PROVE Loss'
  <2>1. /\ UNCHANGED <<original, last, loaded, damaged>>
        /\ stage' = [stage EXCEPT ![t] = "measured"]
        /\ size' = [size EXCEPT ![t] = Size(file)]
    BY <1>6 DEF Measure, writeVars
  <2>2. \A u \in Tasks : stage'[u] = "running"
                            => stage[u] = "running" /\ size'[u] = size[u]
    BY <2>1 DEF Typed
  <2> QED  BY <1>14, <2>1, <2>2
<1>7. ASSUME NEW t \in Tasks, Load(t) PROVE Loss'
  <2>1. /\ UNCHANGED <<original, last, size, damaged>>
        /\ stage[t] = "measured"
        /\ \E s \in {"running", "ended"} : stage' = [stage EXCEPT ![t] = s]
    BY <1>7 DEF Load, writeVars
  <2>2. \A u \in Tasks \ {t} : loaded'[u] = loaded[u] /\ stage'[u] = stage[u]
    BY <1>7 DEF Load, Typed
  <2>3. ASSUME stage'[t] = "running", ~damaged
        PROVE  Excused(ConfigOf(loaded'[t]), size[t])
    <3>1. /\ Size(file) >= size[t]
          /\ \E lines \in Cut(file, size[t]) :
                /\ loaded' = [loaded EXCEPT ![t] = lines]
                /\ stage' = [stage EXCEPT ![t] = IF Accepts(lines) THEN "running"
                                                 ELSE "ended"]
      BY <1>7, <2>3 DEF Load, Typed
    <3>2. PICK lines \in Cut(file, size[t]) :
              /\ loaded' = [loaded EXCEPT ![t] = lines]
              /\ stage' = [stage EXCEPT ![t] = IF Accepts(lines) THEN "running"
                                               ELSE "ended"]
      BY <3>1
    <3>3. loaded'[t] = lines /\ Accepts(lines)
      BY <2>3, <3>2 DEF Typed
    <3>4. Excused(ConfigOf(lines), size[t])
      BY <2>1, <2>3, <3>1, <3>3, LoadedWell
    <3> QED  BY <3>3, <3>4
  <2> QED  BY <1>14, <2>1, <2>2, <2>3
<1>8. ASSUME NEW t \in Tasks, Finish(t) PROVE Loss'
  BY <1>4, <1>8 DEF Finish, writeVars, Typed
<1>9. ASSUME NEW t \in Tasks, Truncate(t) PROVE Loss'
  <2>1. last' # 0
    BY <1>9, Lengths DEF Truncate
  <2> QED  BY <1>4, <1>9, <2>1 DEF Truncate
<1>10. ASSUME NEW t \in Tasks, Write(t) PROVE Loss'
  BY <1>4, <1>10 DEF Write, Typed
<1>11. ASSUME NEW t \in Tasks, CutShort(t) PROVE Loss'
  BY <1>11 DEF CutShort
<1>12. CASE RunAgain
  BY <1>12 DEF RunAgain
<1>13. CASE UNCHANGED vars
  BY <1>4, <1>13 DEF vars, writeVars
<1> QED
  BY <1>5, <1>6, <1>7, <1>8, <1>9, <1>10, <1>11, <1>12, <1>13 DEF Next

-----------------------------------------------------------------------------
IInv ==
    /\ Typed /\ EndsOnly
    /\ FileKept
    /\ SizesKnown
    /\ LossOnlyByLongerResults

LEMMA IInvHolds == Spec => []IInv
<1>1. Init => IInv
  <2> SUFFICES ASSUME Init PROVE IInv
    OBVIOUS
  <2>1. Typed /\ EndsOnly
    BY TextInit
  <2>2. FileKept
    BY DEF Init, FileKept, FileIntact
  <2>3. SizesKnown /\ LossOnlyByLongerResults
    BY DEF Init, SizesKnown, LossOnlyByLongerResults
  <2> QED  BY <2>1, <2>2, <2>3 DEF IInv
<1>2. IInv /\ [Next]_vars => IInv'
  BY TextNext, FileNext, SizeNext, LossNext DEF IInv
<1> QED  BY <1>1, <1>2, PTL DEF Spec

\* The file and whatever a simulator reads of it are always texts; while it
\* is rewritten it is empty, and only a task that has succeeded rewrites it.
THEOREM TypeCorrect == Spec => []TypeOK
<1>1. IInv => TypeOK
  BY TextOfLines DEF IInv, Typed, TypeOK
<1> QED  BY <1>1, IInvHolds, PTL

\* However often the file is rewritten and cut short, by whatever task and
\* whenever simulators look, only the end of the settings is ever missing.
THEOREM EndIsLost == Spec => []OnlyTheEndIsLost
<1>1. IInv => OnlyTheEndIsLost
  BY DEF IInv, EndsOnly, OnlyTheEndIsLost, IsBeginning, Beginning
<1> QED  BY <1>1, IInvHolds, PTL

\* Without damage the file is the original, or the original rewritten once.
THEOREM FileStaysIntact == Spec => []FileIntact
<1>1. IInv => FileIntact
  BY DEF IInv, FileKept
<1> QED  BY <1>1, IInvHolds, PTL

\* Rewriting any file that ever comes about changes neither the verdict of
\* the parser nor the configuration.
THEOREM ResultsStayInvisible == Spec => []ResultsInvisible
<1>1. IInv => ResultsInvisible
  <2> SUFFICES ASSUME IInv, NEW length \in ResultLengths
               PROVE  LET new == Rewritten(file, length)
                      IN  /\ Accepts(new) = Accepts(file)
                          /\ Accepts(file) => ConfigOf(new) = ConfigOf(file)
    BY DEF ResultsInvisible
  <2> DEFINE new == Rewritten(file, length)
  <2>1. file \in Seq(Lines)
    BY DEF IInv, Typed
  <2>2. new \in Seq(Lines) /\ Settings(new) = Settings(file)
    BY <2>1, Lengths, RewrittenText
  <2> HIDE DEF new
  <2>3. (Accepts(new) <=> Accepts(file)) /\ ConfigOf(new) = ConfigOf(file)
    BY <2>1, <2>2, SettingsDecide
  <2>4. Accepts(new) \in BOOLEAN /\ Accepts(file) \in BOOLEAN
    BY DEF Accepts
  <2> QED  BY <2>3, <2>4 DEF new
<1> QED  BY <1>1, IInvHolds, PTL

\* A simulator reads less than the original without damage only if it has
\* measured the original, with or without results, and there are results that
\* make the file longer than that.
THEOREM LossIsByLongerResults == Spec => []LossOnlyByLongerResults
<1>1. IInv => LossOnlyByLongerResults
  BY DEF IInv
<1> QED  BY <1>1, IInvHolds, PTL

\* Every simulator that runs, also after it has read a part of a file, has a
\* fragment for every hop, a node on every path, and no fragment without depth
\* or with a ceiling below its start.
THEOREM LoadedIsWellFormed == Spec => []AcceptedIsWellFormed
<1>1. TypeOK => AcceptedIsWellFormed
  BY AcceptedTextIsWellFormed DEF TypeOK, AcceptedIsWellFormed
<1> QED  BY <1>1, TypeCorrect, PTL

\* Every hop of it leads to the last fragment with the name in the file.
THEOREM LoadedHopsAsNamed == Spec => []HopsAsNamed
<1>1. TypeOK => HopsAsNamed
  <2> SUFFICES ASSUME TypeOK, NEW t \in Tasks, Accepts(loaded[t])
               PROVE  LET c == ConfigOf(loaded[t])
                      IN  /\ \A p \in DOMAIN c.paths : \A h \in DOMAIN c.paths[p] :
                                c.fragments[c.paths[p][h]].name = Nodes(loaded[t], p)[h]
                          /\ \A n, m \in DOMAIN c.fragments :
                                n < m /\ c.fragments[n].name = c.fragments[m].name
                                => \A p \in DOMAIN c.paths : \A h \in DOMAIN c.paths[p] :
                                      c.paths[p][h] # n
    BY DEF HopsAsNamed
  <2> DEFINE lines == loaded[t]
             c == ConfigOf(lines)
  <2>1. IsText(lines)
    BY DEF TypeOK
  <2>2. /\ DOMAIN c.paths = Paths(lines)
        /\ \A p \in Paths(lines) : DOMAIN c.paths[p] = DOMAIN Nodes(lines, p)
        /\ DOMAIN c.fragments = Fragments(lines)
    BY DEF ConfigOf
  <2> HIDE DEF lines
  <2>3. ASSUME NEW p \in Paths(lines), NEW h \in DOMAIN Nodes(lines, p)
        PROVE  /\ c.fragments[c.paths[p][h]].name = Nodes(lines, p)[h]
               /\ \A m \in DOMAIN c.fragments :
                     c.fragments[m].name = c.fragments[c.paths[p][h]].name
                        => m <= c.paths[p][h]
    <3>1. Accepts(lines)
      BY DEF lines
    <3> QED  BY <2>1, <3>1, AcceptedHopsAsNamed
  <2>4. Fragments(lines) \subseteq Nat
    BY SectionsAssumption DEF Fragments
  <2> HIDE DEF c
  <2>5. ASSUME NEW n \in DOMAIN c.fragments, NEW m \in DOMAIN c.fragments,
               n < m, c.fragments[n].name = c.fragments[m].name,
               NEW p \in DOMAIN c.paths, NEW h \in DOMAIN c.paths[p],
               c.paths[p][h] = n
        PROVE  FALSE
    <3>1. m <= n
      BY <2>2, <2>3, <2>5
    <3> QED  BY <2>2, <2>4, <2>5, <3>1
  <2>6. /\ \A p \in DOMAIN c.paths : \A h \in DOMAIN c.paths[p] :
              c.fragments[c.paths[p][h]].name = Nodes(lines, p)[h]
        /\ \A n, m \in DOMAIN c.fragments :
              n < m /\ c.fragments[n].name = c.fragments[m].name
              => \A p \in DOMAIN c.paths : \A h \in DOMAIN c.paths[p] :
                    c.paths[p][h] # n
    BY <2>2, <2>3, <2>5
  <2> QED  BY <2>6 DEF c, lines
<1> QED  BY <1>1, TypeCorrect, PTL

=============================================================================
