----------------------------- MODULE ConfigFile -----------------------------
(***************************************************************************)
(* One configuration file: the simulators of a batch load it (SimpleIni    *)
(* and ConfigParser::parse), and the batch rewrites it in place with the   *)
(* results on top (update_config_with_results in                           *)
(* configs/experiments/scripts/runner_core.py).                            *)
(*                                                                         *)
(* The tasks of a batch are those of ExperimentRunner for this one file;   *)
(* a task's simulator reads it in two steps, its size and as many bytes.   *)
(* The batch rewrites the file without an await: it first truncates it,    *)
(* then writes the new text, all of it or, when the disk is full or the    *)
(* batch is killed, a part.  Batches follow one another; simulators that   *)
(* an aborted batch has left behind only read and are left out.            *)
(*                                                                         *)
(* Of a comment only the length counts, and of results the length their    *)
(* numbers give them; any other line has size 2.                           *)
(***************************************************************************)
EXTENDS ConfigParser, Functions

CONSTANTS
    Originals,      \* the files an experimenter may have written
    Tasks,          \* the tasks of a batch for the file
    ResultLengths,  \* the lengths a line of results may have
    Beginnings,     \* of each text, but for "" and the text itself
    Tens            \* powers of 10

ASSUME OriginalsAssumption == \A lines \in Originals : IsText(lines)
ASSUME TasksAssumption == Tasks \subseteq Nat \ {0}
ASSUME ResultsAssumption == ResultLengths \subseteq Nat \ {0}
ASSUME TornAssumption ==
    Beginnings \in [Texts -> SUBSET Texts] /\ Tens \subseteq Nat \ {0}

VARIABLES
    original,  \* what the experimenter wrote
    file,      \* the lines that are in the file
    stage,     \* of each task and its simulator
    size,      \* the size its simulator has found
    loaded,    \* the lines it has read
    writer,    \* the task that is rewriting the file, or 0
    text,      \* what it is about to write
    last,      \* the length of the results last written into it, or 0
    damaged    \* has a rewriting been cut short?

writeVars == <<writer, text, last, damaged>>
vars == <<original, file, stage, size, loaded, writeVars>>

Stages == {"waiting", "started", "measured", "running", "succeeded", "ended"}

-----------------------------------------------------------------------------
(* The texts.                                                              *)

IsRemark(line) == DOMAIN line \in {{"blank"}, {"comment"}}

\* The lines that a rewriting keeps wherever they are.
Settings(lines) ==
    LET kept[k \in 0 .. Len(lines)] ==
            IF k = 0 THEN <<>>
            ELSE IF IsRemark(lines[k]) THEN kept[k - 1]
            ELSE Append(kept[k - 1], lines[k])
    IN  kept[Len(lines)]

LineSize(line) == IF DOMAIN line = {"comment"} THEN line.comment ELSE 2
Size(lines) == SumFunction([k \in DOMAIN lines |-> LineSize(lines[k])])

\* A number without its last digits.
TornNumbers(n) ==
    {IF n < 0 THEN -((-n) \div ten) ELSE n \div ten :
        ten \in {d \in Tens : d <= n \/ d <= -n}}

\* What a setting may hold if its end is missing.
TornValues(key, value) ==
    CASE key = "section" -> {}
      [] key \in NumericKeys ->
            {<<>>} \cup {<<n>> : n \in UNION {TornNumbers(m) : m \in Range(value)}}
      [] key = "nodes" ->
            {SubSeq(value, 1, h) : h \in 0 .. Len(value)}
            \cup UNION {{Append(SubSeq(value, 1, h - 1), beginning) :
                            beginning \in Beginnings[value[h]]} :
                        h \in DOMAIN value}
      [] OTHER -> {""} \cup Beginnings[value]

\* What a line may look like if only n bytes of it are there.  It may be
\* complete but for the end of the line.
Torn(line, n) ==
    CASE DOMAIN line \in {{"blank"}, {"ignored"}} -> {line}
      [] DOMAIN line = {"comment"} -> {[comment |-> n]}
      [] OTHER ->
            {[ignored |-> 0], line}
            \cup UNION {{[line EXCEPT ![key] = value] :
                            value \in TornValues(key, line[key])} :
                        key \in DOMAIN line}

\* The first n bytes of a text: whole lines and perhaps a torn one.
Cut(lines, n) ==
    LET whole == {k \in 0 .. Len(lines) : Size(SubSeq(lines, 1, k)) <= n}
        k == Latest(whole)
        head == SubSeq(lines, 1, k)
    IN  IF Size(head) = n \/ k = Len(lines) THEN {head}
        ELSE {Append(head, line) : line \in Torn(lines[k + 1], n - Size(head))}

-----------------------------------------------------------------------------
(* update_config_with_results.                                             *)

\* The title and two lines of results, whose length depends on the numbers.
ResultBlock(length) ==
    [k \in 1 .. 3 |-> [comment |-> IF k = 1 THEN 1 ELSE length]]

\* The lines up to "[global]", which is looked for in this spelling.
HeaderLength(lines) ==
    LET global == {k \in DOMAIN lines : lines[k] = [section |-> Global]}
    IN  IF global = {} THEN Len(lines)
        ELSE (CHOOSE k \in global : \A j \in global : k <= j) - 1

\* Mutant: comments of the header are kept.
CleanedKeepingComments(header) ==
    SelectSeq(header, LAMBDA line : DOMAIN line # {"blank"})

\* Mutant: nothing of the header is kept.
CleanedAway(header) == <<>>

\* cleaned_header
Cleaned(header) == Settings(header)

Rewritten(lines, length) ==
    LET n == HeaderLength(lines)
        cleaned == Cleaned(SubSeq(lines, 1, n))
        blank == <<[blank |-> 0]>>
    IN  (IF cleaned = <<>> THEN <<>> ELSE cleaned \o blank)
        \o ResultBlock(length) \o blank \o SubSeq(lines, n + 1, Len(lines))

-----------------------------------------------------------------------------
Init ==
    /\ original \in Originals
    /\ file = original
    /\ stage = [t \in Tasks |-> "waiting"]
    /\ size = [t \in Tasks |-> 0]
    /\ loaded = [t \in Tasks |-> <<>>]
    /\ writer = 0
    /\ text = <<>>
    /\ last = 0
    /\ damaged = FALSE

\* The batch does nothing else while it rewrites the file.
Start(t) ==
    /\ writer = 0
    /\ stage[t] = "waiting"
    /\ stage' = [stage EXCEPT ![t] = "started"]
    /\ UNCHANGED <<original, file, size, loaded, writeVars>>

\* LoadFile: fseek and ftell.
Measure(t) ==
    /\ stage[t] = "started"
    /\ stage' = [stage EXCEPT ![t] = "measured"]
    /\ size' = [size EXCEPT ![t] = Size(file)]
    /\ UNCHANGED <<original, file, loaded, writeVars>>

\* LoadFile: fread and the test of its result; then parse.
Load(t) ==
    /\ stage[t] = "measured"
    /\ \/ /\ Size(file) < size[t]
          /\ stage' = [stage EXCEPT ![t] = "ended"]
          /\ UNCHANGED loaded
       \/ /\ Size(file) >= size[t]
          /\ \E lines \in Cut(file, size[t]) :
                /\ loaded' = [loaded EXCEPT ![t] = lines]
                /\ stage' = [stage EXCEPT ![t] = IF Accepts(lines) THEN "running"
                                                 ELSE "ended"]
    /\ UNCHANGED <<original, file, size, writeVars>>

\* The simulation succeeds, or fails, or its output cannot be parsed.
Finish(t) ==
    /\ stage[t] = "running"
    /\ \E s \in {"succeeded", "ended"} : stage' = [stage EXCEPT ![t] = s]
    /\ UNCHANGED <<original, file, size, loaded, writeVars>>

\* Mutant: the old text stays until the new one is written.
TruncateLater(t) ==
    /\ writer = 0
    /\ stage[t] = "succeeded"
    /\ writer' = t
    /\ last' \in ResultLengths
    /\ text' = Rewritten(file, last')
    /\ UNCHANGED <<original, file, stage, size, loaded, damaged>>

\* read_text, and write_text up to the opening of the file, which empties it.
Truncate(t) ==
    /\ writer = 0
    /\ stage[t] = "succeeded"
    /\ writer' = t
    /\ last' \in ResultLengths
    /\ text' = Rewritten(file, last')
    /\ file' = <<>>
    /\ UNCHANGED <<original, stage, size, loaded, damaged>>

\* write_text to its end.
Write(t) ==
    /\ writer = t
    /\ file' = text
    /\ writer' = 0
    /\ text' = <<>>
    /\ stage' = [stage EXCEPT ![t] = "ended"]
    /\ UNCHANGED <<original, size, loaded, last, damaged>>

\* The disk is full or the batch is killed while it writes: all tasks end.
CutShort(t) ==
    /\ writer = t
    /\ \E n \in 0 .. Size(text) - 1 : file' \in Cut(text, n)
    /\ writer' = 0
    /\ text' = <<>>
    /\ damaged' = TRUE
    /\ stage' = [u \in Tasks |-> "ended"]
    /\ UNCHANGED <<original, size, loaded, last>>

\* The batch has ended, or is killed between two awaits, and run again.
RunAgain ==
    /\ writer = 0
    /\ stage' = [t \in Tasks |-> "waiting"]
    /\ size' = [t \in Tasks |-> 0]
    /\ loaded' = [t \in Tasks |-> <<>>]
    /\ UNCHANGED <<original, file, writeVars>>

Next ==
    \/ \E t \in Tasks :
          \/ Start(t) \/ Measure(t) \/ Load(t) \/ Finish(t)
          \/ Truncate(t) \/ Write(t) \/ CutShort(t)
    \/ RunAgain

Spec == Init /\ [][Next]_vars

-----------------------------------------------------------------------------
TypeOK ==
    /\ original \in Originals
    /\ IsText(file) /\ IsText(text)
    /\ stage \in [Tasks -> Stages]
    /\ size \in [Tasks -> Nat]
    /\ \A t \in Tasks : IsText(loaded[t])
    /\ writer \in Tasks \cup {0}
    /\ last \in ResultLengths \cup {0}
    /\ damaged \in BOOLEAN
    /\ writer # 0 => file = <<>> /\ stage[writer] = "succeeded"

\* What is left of the settings is a beginning of the experimenter's, of
\* which at most the last line is torn.
IsBeginning(lines) ==
    LET s == Settings(lines)
        o == Settings(original)
    IN  /\ Len(s) <= Len(o)
        /\ \A k \in 1 .. Len(s) - 1 : s[k] = o[k]

\* Whatever is cut short, however often, and whenever simulators look: the
\* settings in the file, and those any simulator reads, are a beginning of
\* the original ones.  None is moved, repeated or mixed with the results
\* (runner_core.py:55-100, SimpleIni.h:1444-1478).
OnlyTheEndIsLost ==
    /\ IsBeginning(file)
    /\ \A t \in Tasks : IsBeginning(loaded[t])

\* Unless a rewriting is under way or was cut short, the file is the original
\* or the original rewritten once: results do not pile up, and nothing else
\* changes with the number of batches (runner_core.py:58-98).
FileIntact ==
    writer = 0 /\ ~damaged =>
        file = IF last = 0 THEN original ELSE Rewritten(original, last)

\* The results are invisible to the simulator: rewriting changes neither
\* whether the file is accepted nor the configuration, even if its end is
\* lost (runner_core.py:77-100, ConfigParser.cpp:3-158).
ResultsInvisible ==
    \A length \in ResultLengths :
        LET new == Rewritten(file, length)
        IN  /\ Accepts(new) = Accepts(file)
            /\ Accepts(file) => ConfigOf(new) = ConfigOf(file)

\* A simulator that has accepted less than the file of the experimenter, with
\* no damage done, had measured the original, or the original with results,
\* and results that make the file longer can follow.  Results never make it
\* longer and longer: no size is measured that the original with one set of
\* results does not have (runner_core.py:70-91, SimpleIni.h:1453-1474).
LossOnlyByLongerResults ==
    \A t \in Tasks :
        /\ stage[t] = "running"
        /\ ~damaged
        /\ ConfigOf(loaded[t]) # ConfigOf(original)
        => LET sizes == {Size(Rewritten(original, m)) : m \in ResultLengths}
           IN  /\ last # 0
               /\ size[t] \in {Size(original)} \cup sizes
               /\ \E n \in sizes : size[t] < n

\* Whatever part of a file is read, the parser accepts it only if every hop
\* has a fragment and every path a node, and no ceiling is below its start
\* (ConfigParser.cpp:83-99, 117-155).
AcceptedIsWellFormed ==
    \A t \in Tasks : Accepts(loaded[t]) => WellFormed(ConfigOf(loaded[t]))

\* Every hop leads to the node that the file names there, and of several
\* fragments with this name to the last one; the others are on no path,
\* although their memory is given to the undivided sketch
\* (ConfigParser.cpp:91, 123-141; DiSketch.cpp:36-38).
HopsAsNamed ==
    \A t \in Tasks : Accepts(loaded[t]) =>
        LET c == ConfigOf(loaded[t])
        IN  /\ \A p \in DOMAIN c.paths : \A h \in DOMAIN c.paths[p] :
                  c.fragments[c.paths[p][h]].name = Nodes(loaded[t], p)[h]
            /\ \A n, m \in DOMAIN c.fragments :
                  n < m /\ c.fragments[n].name = c.fragments[m].name
                  => \A p \in DOMAIN c.paths : \A h \in DOMAIN c.paths[p] :
                        c.paths[p][h] # n

=============================================================================
