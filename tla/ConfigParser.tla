---------------------------- MODULE ConfigParser ----------------------------
(***************************************************************************)
(* ConfigParser::parse (src/ConfigParser.cpp): from the lines of an INI    *)
(* file, as SimpleIni reads them, to a DiSketchConfig or a refusal.        *)
(*                                                                         *)
(* A line is a record with one field: its key, or the kind of line it is.  *)
(* Sections are numbered in the order of their names, which is the order   *)
(* GetAllSections gives them in; a fragment's index is the number of its   *)
(* section.  The depth of the undivided sketch, the heavy ratio and the    *)
(* progress bar are left out.                                              *)
(***************************************************************************)
EXTENDS Integers, Sequences, FiniteSets

CONSTANTS
    FragmentSections, PathSections,  \* the numbers of possible sections
    Texts,       \* names, values of textual keys and nodes of a path
    Suffix,      \* what follows "fragment:" in a section's name
    UintLimit,   \* 2^32
    UlongLimit   \* 2^64

ASSUME SectionsAssumption ==
    /\ FragmentSections \subseteq Nat /\ IsFiniteSet(FragmentSections)
    /\ PathSections \subseteq Nat
ASSUME TextsAssumption == "" \in Texts /\ Suffix \in [FragmentSections -> Texts]
ASSUME LimitsAssumption ==
    UintLimit \in Nat \ {0, 1} /\ UlongLimit \in Nat \ {0}

Global == <<"global", 0>>
OddGlobal == <<"Global", 0>>  \* the same in another spelling
NoSection == <<"", 0>>
Sections ==
    {Global, OddGlobal} \cup ({"fragment"} \X FragmentSections)
                        \cup ({"path"} \X PathSections)

\* What a numeric key may hold: a number, or <<>> for what is none.
Numbers == {<<>>} \cup [{1} -> Int]

NumericKeys == {"epoch_ns", "max_epochs", "memory", "depth",
                "initial_subepoch", "max_subepoch", "rho_target"}

\* What a line with a given key may hold.  A comment begins with '#' and has a
\* length.  "ignored" is any other line the parser passes over: a comment with
\* ';', an unknown key, or neither a section nor a setting.
LineValues ==
    [blank |-> {0}, ignored |-> {0}, comment |-> Nat \ {0},
     section |-> Sections, pcap |-> Texts, sketch_kind |-> Texts,
     epoch_ns |-> Numbers, max_epochs |-> Numbers, name |-> Texts,
     kind |-> Texts, memory |-> Numbers, depth |-> Numbers,
     initial_subepoch |-> Numbers, max_subepoch |-> Numbers,
     rho_target |-> Numbers, boost_single_hop |-> Texts, nodes |-> Seq(Texts)]

IsLine(line) ==
    \E key \in DOMAIN LineValues : line \in [{key} -> LineValues[key]]

IsText(lines) ==
    /\ lines \in Seq({lines[k] : k \in DOMAIN lines})
    /\ \A k \in DOMAIN lines : IsLine(lines[k])

-----------------------------------------------------------------------------
(* SimpleIni.                                                              *)

Latest(S) == CHOOSE k \in S : \A j \in S : j <= k

\* The section that line k is in; names are compared without regard to case.
SectionAt(lines, k) ==
    LET ss == {j \in 1 .. k : DOMAIN lines[j] = {"section"}}
        s == lines[Latest(ss)].section
    IN  IF ss = {} THEN NoSection ELSE IF s = OddGlobal THEN Global ELSE s

HasSection(lines, s) == \E k \in DOMAIN lines : lines[k] = [section |-> s]

\* GetValue: of several settings, and of several sections with the same
\* name, the last one counts.
Value(lines, s, key, default) ==
    LET ks == {k \in DOMAIN lines :
                  DOMAIN lines[k] = {key} /\ SectionAt(lines, k) = s}
    IN  IF ks = {} THEN default ELSE lines[Latest(ks)][key]

\* GetLongValue: what is no number gives the default, even if another line
\* before it has one.
Number(lines, s, key, default) ==
    LET number == Value(lines, s, key, <<>>)
    IN  IF number = <<>> THEN default ELSE number[1]

-----------------------------------------------------------------------------
(* parse.                                                                  *)

\* The conversions from long.
Uint(n) == n % UintLimit
Ulong(n) == n % UlongLimit

parse_sketch_kind(value) ==
    IF value \in {"CountMin", "countmin"} THEN "CountMin"
    ELSE IF value \in {"UnivMon", "univmon"} THEN "UnivMon"
    ELSE "CountSketch"

parse_bool(value) == value \in {"1", "true", "TRUE", "True"}

GlobalKind(lines) ==
    parse_sketch_kind(Value(lines, Global, "sketch_kind", "CountSketch"))

\* Mutant: a maximum below the initial number stays.
CeilingAsGiven(max, initial) == max

\* The corrections of a fragment's numbers.
Ceiling(max, initial) == IF max < initial THEN initial ELSE max
Depth(depth) == IF depth = 0 THEN 1 ELSE depth

FragmentOf(lines, n) ==
    LET value(key, default) == Value(lines, <<"fragment", n>>, key, default)
        number(key, default) == Number(lines, <<"fragment", n>>, key, default)
        initial == Uint(number("initial_subepoch", 1))
    IN  [name |-> IF value("name", "") = "" THEN Suffix[n] ELSE value("name", ""),
         kind |-> IF value("kind", "") = "" THEN GlobalKind(lines)
                  ELSE parse_sketch_kind(value("kind", "")),
         memory_bytes |-> Ulong(number("memory", 8 * 1024 * 1024)),
         depth |-> Depth(Uint(number("depth", 1))),
         initial_subepoch |-> initial,
         max_subepoch |-> Ceiling(Uint(number("max_subepoch", initial)), initial),
         rho_target |-> number("rho_target", 1),
         boost_single_hop |-> parse_bool(value("boost_single_hop", "false"))]

Fragments(lines) ==
    {n \in FragmentSections : HasSection(lines, <<"fragment", n>>)}
Paths(lines) == {p \in PathSections : HasSection(lines, <<"path", p>>)}

Named(lines, name) == {n \in Fragments(lines) : FragmentOf(lines, n).name = name}

\* Mutant: the first fragment of a name keeps it.
fragment_index_first(lines, name) ==
    CHOOSE n \in Named(lines, name) : \A j \in Named(lines, name) : n <= j

\* A later fragment takes the name from an earlier one.
fragment_index(lines, name) == Latest(Named(lines, name))

Nodes(lines, p) == Value(lines, <<"path", p>>, "nodes", <<>>)

\* Does parse return true?
Accepts(lines) ==
    /\ Value(lines, Global, "pcap", "") # ""
    /\ Fragments(lines) # {}
    /\ Paths(lines) # {}
    /\ \A p \in Paths(lines) :
          /\ Nodes(lines, p) # <<>>
          /\ \A h \in DOMAIN Nodes(lines, p) :
                Named(lines, Nodes(lines, p)[h]) # {}

\* The configuration it fills in then.
ConfigOf(lines) ==
    [sketch_kind |-> GlobalKind(lines),
     epoch_duration_ns |-> Ulong(Number(lines, Global, "epoch_ns", 1000000000)),
     max_epochs |-> Uint(Number(lines, Global, "max_epochs", 0)),
     fragments |-> [n \in Fragments(lines) |-> FragmentOf(lines, n)],
     paths |-> [p \in Paths(lines) |->
                  [h \in DOMAIN Nodes(lines, p) |->
                     fragment_index(lines, Nodes(lines, p)[h])]]]

-----------------------------------------------------------------------------
\* What run() takes for granted of paths and fragments: the index of every hop
\* is that of a fragment, there is a path to pick and each path has a node,
\* the ceiling of the adaptation is not below its start, and no sketch has
\* depth 0.  Other numbers are not looked at: a start of 0, a ceiling that
\* doubling leaps over or a negative epoch are accepted.
WellFormed(config) ==
    /\ \A n \in DOMAIN config.fragments :
          LET f == config.fragments[n]
          IN  f.depth >= 1 /\ f.initial_subepoch <= f.max_subepoch
    /\ DOMAIN config.paths # {}
    /\ \A p \in DOMAIN config.paths :
          /\ DOMAIN config.paths[p] # {}
          /\ \A h \in DOMAIN config.paths[p] :
                config.paths[p][h] \in DOMAIN config.fragments

=============================================================================
