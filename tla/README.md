# DiSketch: specifications, model checks and proofs

DiSketch measures how many packets each flow of a network trace has. The
switches ("fragments") on a path share the work: each spends an epoch on one
small sketch, cuts the epoch into subepochs, counts a flow only in the
subepoch its hash assigns to it, and doubles or halves the number of subepochs
from epoch to epoch. The estimate for a flow is the sample of each switch on
its path, scaled up by the number of subepochs, combined over the path.

This directory models the measuring core, the trace reader, the configuration
parser, the simulator program and the experiment runner in TLA+, checks them with
TLC and proves with TLAPS every safety property that the runs check, for every value
of the constants, some under assumptions that are named with them; liveness stays with TLC. Paths such as `Fragment.cpp` are
relative to the repository's `src/` or `include/`.

## Components

| Component | State | Operations | Model |
|---|---|---|---|
| `Fragment` (Fragment.cpp/.h, Epoch.h) | count and duration of subepochs, epoch id/start, current subepoch, packet counter, rho, hash seed, sketch, emitted records | `begin_epoch`, `process_packet`, `close_epoch`, `flush_current`, `flush_until`, `should_track`, `temporal_aggregation`, `update_sketch_and_rho`, `adjust_subepoch` | `Fragment`, `FragmentEpochs`, `SubepochSampling`: all operations |
| `DiSketch` (DiSketch.cpp/.h) | packet index, epoch, fragments, undivided sketch, exact counts, report | `run`, `create_full_sketch`, `spatial_aggregation`, progress bar | `DiSketch`: `run` and `spatial_aggregation` whole; the progress bar is display |
| `Topology` (Topology.cpp/.h) | paths (constant) | `pick_path` | a constant choice in `DiSketch` |
| SketchLib, `Ideal`, hash functions (a git submodule, external) | counters | `update`, `query`, `clear`, copy | `Sketch` |
| `HeavyHitterDetector` | tp, fp, fn, tn | `detect`, ratios, `reset` | `HeavyHitterDetector`: `detect`, `reset`, the adding up; the ratios are only printed |
| `ConfigParser` | none | `parse`, `parse_sketch_kind`, `parse_bool` | `ConfigParser`: all |
| `PacketParser`, `PcapReader` | file position, endianness, precision, link type | `open`, `get_next_packet`, `parse_pcap` | `PcapReader`: all |
| Experiment runner (run_parallel.py, runner_core.py) | semaphore, processes, output buffers, configuration files | `run_parallel_async`, `execute_config`, `run_simulator`, `update_config_with_results` | `ExperimentRunner`; `ConfigFile`: the rewriting of a configuration and the simulators that read it |
| Simulator (disketch_simulator.cpp) | totals | options, refusals, `accumulate_totals`, `emit_metrics_line` | `Simulator` |
| baseline.cpp, parse_pcap.cpp | | time the external sketches, print packets | not modelled |
| PcapPlusPlus, simpleini, cxxopts, indicators | | | third-party code, not modelled, but for what `parse` sees of simpleini, in `ConfigParser` and `ConfigFile` |

**Interaction.** The simulator reads a configuration, then a whole trace, sorted
by time, then calls `DiSketch::run`. `run` is sequential. For each epoch it
calls `begin_epoch` of every fragment and clears the undivided sketch, hands
each packet of the epoch to the exact counter, the undivided sketch and, in
path order, to the fragments of the flow's path, then collects the fragments'
reports with `close_epoch` and evaluates every flow. Fragments do not know of
each other and keep nothing but their number of subepochs from one epoch to the
next. The experiment runner starts several simulators as processes and writes
their results back into the configuration files, which other simulators may be reading.

**What is hard here.** Nothing in the measuring core runs concurrently; the difficulty is
in time and order. A subepoch has no end of its own: it is flushed when a later
packet arrives, perhaps many subepochs later, or at the end of the epoch. The
sampling decision is made twice, once when the packet passes and once when the
records are aggregated, after the number of subepochs has already changed. rho,
which drives the adaptation, is never computed from the counters but carried
along. Epochs and subepochs meet at boundaries, with rounded durations. The
runner adds real concurrency: timeouts, cancelled tasks, files rewritten in
place. `PROJECT.json` lists each hazard at its line with the properties that
cover it.

**What makes each part correct.**

- Fragment: each packet is counted in the subepoch it arrives in if its flow is
  sampled there, and nowhere else; records carry the labels they were sampled
  under; rho equals what it says it is; the number of subepochs stays in bounds
  and follows the load; every window can see a packet.
- DiSketch: each packet belongs to one epoch; estimates depend on the packets of
  that epoch and path alone; evenly spread flows are estimated exactly; both
  detectors judge against the same heavy flows; the run ends.
- Trace reader: it returns all packets of the file with the times meant, sorted, or
  an error.
- Configuration: what is accepted has a fragment for every hop, a node on every path, no
  ceiling below its start and no depth of 0; hops lead to the switches the file names.
- Simulator: the printed totals account for every flow of every epoch once.
- Configuration files: rewriting changes nothing a simulator reads, does not pile up,
  and loses at most the end if it is cut short; a simulator gets a part of an undamaged
  file only if it measured it before longer results were written.
- Runner: at most `--workers` simulators run, the batch ends, no output is lost, each
  configuration gets one outcome and shows the results of its last successful
  simulation unless a later writing was broken off, one failure does not affect other
  experiments.

## Modules

- **`Sketch`** – the external sketches: rows of counters, `update` increments one
  counter per row, `query` is the least of them. This is CountMin; it is
  CountSketch and UnivMon where no flows collide, and the modules assume that no flows do
  wherever one of these is used (`KindAssumption`, `KindsAssumption`).
- **`Fragment`** – every method of the class as an operator on the record of its
  fields and on the constructor's arguments `cfg`. The fields have their source
  names without the trailing underscore. `flush_until`'s loop is one step: its
  first round flushes, the others find the packet counter 0.
- **`FragmentEpochs`** – one fragment driven like `run` drives it: `Begin`
  (`begin_epoch`), `Packet(f, t)` (`process_packet`, any flow, any later time of
  the epoch), `Close` (`close_epoch`). Each action is the whole method.
- **`SubepochSampling`** – the abstract specification of a fragment: each packet arrives
  with its flow at its time, the time belongs to one slot, and the packet is added to the
  sample of this slot if the flow is assigned to it; no lazy flush, counter or rho.
  `FragmentEpochs` implements it under the refinement `Sampling`: the sample of a slot is
  the sketch while the slot is current, the record once it is flushed. The flow, the time
  and the number of the packets are the same in both (`last`, `now`, `arrived`, of which
  `last` is a history variable), so that a packet can be neither dropped nor moved.
- **`DiSketch`** – `run`: `Start` (the early returns), `BeginEpochs`, `NextPacket`
  (one round of the packet loop), `EndEpoch` (closing all fragments, the summary
  with its aggregation and detectors, the loop's increment), `Finish`.
- **`HeavyHitterDetector`** – the four counters of a comparison: `detect`, `reset`, and
  `Classified`, the classification that `run` repeats in code of its own.
- **`Simulator`** – `main` around `DiSketch`: `ParseOptions`, `ReadConfig` and
  `ReadPackets` go on or return a code, `Run` is a step of `run`, `Emit` adds up the
  detectors of all epochs and prints the two lines that the runner looks for.
- **`ConfigParser`** – `parse` as operators on the lines of a file: SimpleIni's sections
  and values (`SectionAt`, `Value`), the conversions from long, the corrections, the index
  of fragments by name, `Accepts` and `ConfigOf`.
- **`ConfigFile`** – one configuration, the simulators that read it (`Measure`, `Load`:
  the size, then as many bytes, then `parse`) and the batch that rewrites it
  (`Truncate`, then `Write` or `CutShort`), batch after batch (`RunAgain`).
- **`PcapReader`** – `open`, then one action per outcome of a call of
  `get_next_packet` in `parse_pcap`'s loop (end of file, a record passed over, data
  cut off, a packet), then the sort.
- **`ExperimentRunner`** – one asyncio task per configuration. A task runs without
  interruption from one `await` to the next, and each such stretch is an action:
  `StartTask` and `Resume` (up to the semaphore and, if it is free, on to the
  creation of the process), `Spawned`, `Reap` and `TimeOut` (`wait_for` returns or
  gives up), `Evaluate` (after `gather`: log, checks, write-back, end of the task),
  with `Consume` for the reader tasks and `Collect` for the `as_completed` loop.
  `PrintLine`, `Exit` and `ExitEarly` are the simulator's.
- **`MCFragmentEpochs`, `MCDiSketch`, `MCPcapReader`, `MCExperimentRunner`,
  `MCConfigFile`** – instances for TLC.
- **`Arithmetic_proofs`** – lemmas about division, least elements and finite sums, used by the
  other proof modules. **`Fragment_proofs`** (sketches and the methods),
  **`FragmentEpochs_proofs`** (a fragment through its epochs), **`DiSketch_proofs`** (the two loops
  of `run`, the detectors, the simulator), **`Estimates_proofs`** (the fragments on their paths and
  the estimates), **`ConfigFile_proofs`** (the parser and the file), **`PcapReader_proofs`** and
  **`ExperimentRunner_proofs`** – theorems.

Definitions whose comment starts with `Mutant:` are plausible mistakes in the
definition below them. They are used nowhere; with each one in the place of the
definition it belongs to, TLC finds the property named in `PROJECT.json` violated.

### Abstractions

- A hash seed is the function from flows to the numbers that are reduced modulo
  the number of subepochs, and each epoch may draw any of a set of them. The code
  derives the seed from index and epoch; the properties hold for any seeds.
- Doubles are scaled integers. `current_rho` is the width times rho (CountMin) or
  rho squared (CountSketch); `rho_estimate` and `rho_target` are in units of
  1/`RhoScale` of it, a CountSketch rho rounded down. Averages are compared by
  cross-multiplication. Floating-point rounding is not modelled.
- 64-bit times and counts are natural numbers; the 32-bit doubling in
  `adjust_subepoch` wraps at `UintLimit`.
- `heavy_hitter_ratio` is a fraction; `value >= threshold` is cross-multiplied.
- Not in the summary: the average rho (display only) and the threshold itself.
- `PcapReader`: a byte has `Base` values, a header word four bytes; of a record's data
  only the flow it holds is kept. `setRawData` always returns true, so its exception
  (PacketParser.cpp:176-179) is unreachable and left out. A record's data is as long as
  its header says, or cut off.
- `ExperimentRunner`: of the output only the number of metric lines is kept, whether
  they can be parsed is decided when they are looked at; standard error is left
  out. `kill` on a process that has just ended may raise. The semaphore wakes a waiter
  that looks at it again; where a Python version hands the permit over instead, the
  behaviours are those in which nobody comes in between. A configuration whose writing
  raises an exception keeps its results, has none, or has the new ones; what else is left
  of the file is `ConfigFile`'s matter. The outcome `update-failed`
  does not exist: `update_config_with_results` returns false only for metrics that
  have been parsed just before. After an exception the remaining tasks are
  cancelled in one step; their simulators live on or die, as the library likes.
- `ConfigParser`, `ConfigFile`: a line is a record with one field, its key or kind. Fragment
  and path sections are numbered in the order of their names, which is the order
  `GetAllSections` returns. A numeric setting holds a number, or none if it is malformed,
  which gives the default whatever earlier lines say. Comments are those with `#`, which
  the rewriting looks for; one with `;`, which it keeps, counts with the lines that
  the parser passes over. `full_sketch_depth`, `heavy_ratio` and `progress_bar` are read
  like the others and left out. A comment has a length; the two result lines have one of
  `ResultLengths`, the same for both, since the counts in them are printed with as many
  digits as they have; any other line has size 2, so that a reading or writing may stop between
  and inside lines. `Torn` says what such a line may look like: passed over, or, for every
  key, a setting with a shorter value, a number with fewer digits or none. A section name
  without its end, read errors and bytes that are torn inside a character are not modelled. A task starts its
  simulator between two steps of the event loop, so never during a rewriting; simulators
  that an aborted batch left behind only read the file and are left out.
- `Simulator`: the configuration and the trace are those of `DiSketch`; reading them
  succeeds or not. Help, header and error messages are left out.
- A snapshot is never null and the memory of a fragment never 0 rows, as the
  constructors leave them.

## Runs

The runs of fragments and of `DiSketch` use two flows, `f1` and `f2`.

| Run | Shows | Instance |
|---|---|---|
| `fragment_count_min` | types, bounds of the adaptation, labels, rho, reachability of windows, no counted packet lost, refinement | CountMin, two rows, one with a collision; 5 ns epochs, at most 3 packets per epoch, count from 3, ceiling 4, all assignments of flows to 4 windows |
| `fragment_count_sketch` | bounds, rho, refinement with two windows, the two liveness properties | CountSketch, boosted single-hop `f1`, ceiling 3 (no power of two), rho in tenths |
| `disketch` | `Simulator` with `DiSketch`: types, epochs, detectors, undivided sketch, `detect`, estimates by minimum, median and mean, totals, progress | all sorted traces of up to 3 packets over two 4 ns epochs, with each of three configurations. CountMin: two fragments, one starting with 4 subepochs and giving them up, one doubling at any traffic; paths `0` and `1,0`; both flows collide in the undivided sketch. CountSketch: three fragments, paths `0` and `1,0,2`, boosted fragment 0, no undivided sketch. UnivMon: two fragments, paths `0`, `1,0,1` and `1,1`, two of which name a node twice, `max_epochs` 1, so that packets are left over, no undivided sketch |
| `runner_batch` | semaphore, number of simulators, output, results, outcomes | three tasks, the last two for one configuration, two permits, pipes of one line |
| `runner_ends` | the batch ends by the time limit alone, and without it if simulators do not hang | two tasks, `--workers` not given, two CPUs |
| `config_file` | what is left of a file, what simulators can read, what `parse` makes of it | two tasks; three originals: the usual form, sections in parts and before `[global]` with numbers that do not fit, and `[Global]` with two fragments of one name |
| `pcap_reader` | packets, times, order, refusal, end of reading | files of up to 3 records: two times, a length that is zero, legal or too large, two flows or no IPv4; four formats; whole or cut off |
| `fragment_boost_loss` | finding 1 | as `fragment_count_min`, boosted |
| `fragment_univmon_zero` | finding 2 | UnivMon, `initial_subepoch` 0 |
| `disketch_subepoch_counts` | finding 3 | the CountMin configuration of `disketch` with 2 packets |
| `runner_failure` | finding 4 | two tasks, one permit |
| `pcap_reader_cut` | finding 5 | files of up to 2 records |

**Bounds.** `MaxPackets` (3 in an epoch) is enough for a packet to skip
subepochs, for two flushes in an epoch, for both flows in one window and for a
collision. `EpochLabels` (2) tells an epoch from the one before; nothing of a
fragment lives longer except its number of subepochs, which is not bounded by
it. Counts up to 4, from an odd start, reach every branch of the adaptation:
capped and uncapped doubling, halving of odd and even counts, and no change.
`MaxLength` and `MaxTs` give traces with packets on either side of and on the
epoch boundary, with epochs without packets, and with the empty trace. With
three packets in two epochs a fragment that goes from 4 to 2 subepochs still
sees a flow evenly spread over the second epoch. Epoch durations 3 and 5 do not
divide by the counts, 4 does. `Simulator` ends in
the self-loop `Exited`, and `disketch` checks that it stops nowhere else; `parse_pcap` and
the batch just stop (`CHECK_DEADLOCK FALSE`). The run that shows finding 3 uses the same
program.

Two permits and three tasks are the least with two simulators at once and one task
in the queue; two tasks of one configuration race for its results. A pipe of one line
is shorter than the output, so that simulators block. In `pcap_reader` the words are
chosen so that the byte orders disagree on which time is later and which length is
legal; three records leave one on either side of a record that is passed over, and
two packets with equal times. Two tasks of one file are the least that lets one
simulator read while another's results are written; with results of length 1 and 2, comments of
length 1 and 2 and other lines of size 2 a reading of the old size ends on, before and
behind line boundaries, and the second results may be longer or shorter than the first. A setting of
`"ab"` may be torn to `"a"`, another fragment's name, and of a number one or two digits may be missing.
`UintLimit` 20 makes 20 and 25 numbers that do not fit into 32 bits.

**Fairness.** `run` is one thread and never blocks. In `FragmentEpochs` weak
fairness of `Begin` and `Close` says that epochs follow each other: an epoch has
finitely many packets and the loop then closes it. `Packet` is not fair, since no
packet need come. In `PcapReader` weak fairness of `Next` says the thread runs. In `ExperimentRunner` the
event loop runs every task that is ready (`Fairness`). The two liveness properties
carry what they assume beyond this: `EndsByTimeLimit` that time passes, so that
`wait_for` gives up, while simulators owe nothing; `EndsByItself` that simulators print
and exit unless they are blocked, while the limit need not pass. That `run` ends is
shown without fairness: every step raises `Distance` (`RunAdvances`), which is bounded,
and no state but the last is without a step.

## What the runs found

1. `fragment_boost_loss`: with `boost_single_hop` a flow is sampled in two
   subepochs, but `temporal_aggregation` (Fragment.cpp:163-172) returns the answer
   of the first record that samples the flow. If the first window holds only
   another flow, the estimate is 0 although the second window counted packets;
   in every other case the second sample is ignored. The README (line 148) and
   the comment at Fragment.cpp:144 promise better accuracy from two samples.
2. `fragment_univmon_zero`: the constructor raises `initial_subepoch` to at least
   `kMinSubepoch`, `adjust_subepoch` (Fragment.cpp:224) does not, so a UnivMon
   fragment configured with 0 divides by zero in its second `begin_epoch`.
3. `disketch_subepoch_counts`: `fragment_subepoch_counts` is 0 for a fragment that
   sampled nothing in the epoch (DiSketch.cpp:107), not its number of subepochs as
   Epoch.h:53 says.
4. `runner_failure`: `execute_config` catches what `run_simulator` raises, but not what
   `mkdir`, `write_log` or the write-back raise (run_parallel.py:202, 235,
   270). Such an exception ends the loop over all outcomes, and the
   simulations that are running or waiting are cancelled without log and result,
   where the README of the experiments (line 101) promises both.
5. `pcap_reader_cut`: a trace cut off inside a packet header is accepted, since a short
   read sets failbit and PacketParser.cpp:128 takes it for the end of the file. The
   exception "Incomplete packet header" five lines below cannot be thrown.

Met while modelling, and not contradicting what the repository says of the program, or
only in passing:

- A batch that names a configuration twice can start a simulator that measures the
  file before results are written and reads it afterwards: it gets a beginning
  of the settings, and `parse` may accept it as a smaller topology.
  `LossOnlyByLongerResults` shows that this needs results longer than the comments they
  replace: the first ones, or ones with more digits than those before.
- The same holds, for good, of a file whose rewriting was cut short (runner_core.py:100
  writes in place): `OnlyTheEndIsLost` says what is left of it.
- `parse` accepts numbers that `run` cannot use, and `AcceptedIsWellFormed` does not
  exclude them: `initial_subepoch` 0 for UnivMon (finding 2); a ceiling above 2^31, since
  `adjust_subepoch` doubles in 32 bits before it takes the minimum with the ceiling
  (Fragment.cpp:231), so that an overloaded epoch with 2^31 subepochs leaves 0 of them and the next
  `begin_epoch` divides by zero; and a negative `epoch_ns`, with which the end of an epoch
  wraps to before its start (DiSketch.cpp:46), so that nothing is counted.
- The README (line 159) asks that fragments be defined before the paths that use them;
  `parse` reads all fragments first and does not care.
- `update_config_with_results` looks for `[global]` in this spelling. Under another one,
  which `parse` accepts, the whole file is taken for the header: results go to its end and all
  comments are dropped, settings are not (`ResultsInvisible`, `FileIntact`).
- A fragment whose name a later one repeats is on no path, but its memory is given
  to the undivided sketch (`HopsAsNamed`).
- `baseline` truncates its threshold to an integer: with fewer than 10000 packets it is
  0 and every flow is heavy, where `run` compares with the fraction.

## Proofs

`tlapm` proves the following for all constants that satisfy the assumptions named in the
modules (any flows, sketch shapes, seeds, durations, traces, configurations, batches).

One fragment (`FragmentEpochs_proofs`):

| Theorem | States |
|---|---|
| `TypeCorrect` | `Spec => []TypeOK`: in particular rho is a natural number, so the unsigned differences never wrap, for CountMin of any shape (Fragment.cpp:191), for the others without collisions (209) |
| `CountInBounds`, `LabelsCorrect` | `[]SubepochCountInBounds`, `[]RecordsLabelled` |
| `WindowsReachable` | `[]EveryWindowReachable`, if the ceiling is at most the epoch's duration in nanoseconds (with more subepochs than nanoseconds the last ones are never reached) |
| `RhoNeverDrifts` | `[]RhoTracksCounters`, if the counters are finitely many (`FiniteCells`) |
| `OneSampleIsSeen` | `[]SampledFlowSeen`, unless a flow is sampled twice; the excluded case is finding 1 |
| `FragmentImplementsSampling` | `Spec => ImplementsSampling`, the refinement of `SubepochSampling`: each packet is counted in the subepoch of its arrival, or in none |

`run` and the simulator (`DiSketch_proofs`, `Estimates_proofs`):

| Theorem | States |
|---|---|
| `TypeCorrect` | `Spec => []TypeOK`, with all fragments (types only: whether a fragment has a subepoch is `CountInBounds`) |
| `EachPacketInItsEpoch`, `SameHeavyFlows`, `SameAsDetect`, `RunProgresses` | `EpochPartition`, `DetectorsComparable`, `ClassifiedAsDetected`, `RunAdvances` |
| `NoHeavyFlowMissed` | `[]FullSketchOverestimates`, which is about an undivided CountMin |
| `EstimatesFollowTrace` | `[]EstimatesFromTrace`, if `NoFlowHidden` |
| `EvenFlowsEstimatedExactly` | `[]EvenFlowsExact`, if `NoFlowHidden` |
| `SimulatorImplementsRun` | `SimSpec => Spec`, so that all of these hold in the program |
| `TotalsAccount` | `SimSpec => []TotalsAccountForTrace` |

The configuration (`ConfigFile_proofs`):

| Theorem | States |
|---|---|
| `AcceptedTextIsWellFormed`, `AcceptedHopsAsNamed` | of every text that `parse` accepts: indices and paths in range, ceilings not below starts, depths above 0, hops at the last fragment of the name. The paths are what `DiSketch`'s assumptions on its configurations rest on; that the numbers make sense is not claimed |
| `TypeCorrect`, `EndIsLost`, `FileStaysIntact`, `ResultsStayInvisible`, `LossIsByLongerResults`, `LoadedIsWellFormed`, `LoadedHopsAsNamed` | `TypeOK`, `OnlyTheEndIsLost`, `FileIntact`, `ResultsInvisible`, `LossOnlyByLongerResults`, `AcceptedIsWellFormed`, `HopsAsNamed` for any originals, tasks and lengths of results |

The trace reader (`PcapReader_proofs`): `TypeCorrect` and `ResultCorrect`, `[]TypeOK` and
`[]ResultMatchesTrace` for any trace, base, word size of four bytes and position of the cut.

The runner (`ExperimentRunner_proofs`): `TypeCorrect`, `PermitsConserved`, `ConcurrencyLimited`,
`WaitersAreWoken`, `OutputComplete`, `LastSuccessWins`, `EveryTaskRecorded`, that is `[]TypeOK`,
`[]NoPermitLost`, `[]AtMostWorkers`, `[]NoLostWakeup`, `[]NoOutputLost`,
`[]ResultsOfLastSuccess`, `[]OneOutcomeEach`, for batches of any size, any `--workers` and any pipe.

About the operators: `WindowsOfFlow`, `AdjustSubepochInBounds`.

**Assumptions.** Those about the fragment assume `SoundSetting(Setting)`: `initial_subepoch` is at
least 1 (finding 2 is what happens otherwise), the ceiling is at least that
(ConfigParser.cpp:87-89), and twice the ceiling is at most 2^32, so that the doubling does not
wrap. A fragment or an undivided sketch is a CountMin, or no flows collide in it
(`KindAssumption`, `KindsAssumption`), since with collisions the model's `Query` is not what CountSketch
and UnivMon answer; `FiniteCells` says that a row has finitely many counters. Those about
`DiSketch` assume what its module names: configurations as `parse` makes them
(`ConfigsAssumption`), traces sorted as `parse_pcap` leaves them (`TracesAssumption`, see
`ResultMatchesTrace`), an undivided sketch with a row (`FullAssumption`) and a ratio that is a
fraction (`RatioAssumption`). `NoFlowHidden` says that each flow is alone with a
counter in some row: then the least counter is the flow's own, and an estimate is a matter of the
windows and not of the sketch; with collisions an estimate is larger, by as much as the sketch allows.
`ConfigFile` assumes that its originals are texts of lines, that results have positive lengths
(`ResultsAssumption`), and nothing of what a torn value looks like but its kind (`TornAssumption`).

**The argument.** `IInv` in `FragmentEpochs_proofs` is inductive (`Invariance`). The
properties alone are not: that a flushed record is labelled rightly needs that the
current subepoch never runs ahead of the clock, which needs that `SubepochIndex` is
monotone in time (`DivisionMonotone`) and that the duration was computed from the
very count the records are stamped with. `OpenInv` states these facts for the
open epoch and `Orderly` (in `Fragment_proofs`) what the methods maintain between
them: records in increasing order of subepoch, below the current one, all with the
object's seed, count and epoch, and an empty sketch whenever the packet counter
is 0. For each method an `...Effect` lemma says what it changes; the proof of
`Invariance` has one lemma per action. The refinement proof shows that a flush moves
a sample from the sketch to a record and changes no sample (`FlushKeepsSamples`),
that the subepoch the code computes is the one slot that the time is in, so
that a packet's step maps to the arrival of this packet and to nothing else, and that records
with an empty snapshot cannot occur (`UpdateNotEmpty`), so that the report holds
exactly the slots that sampled something.

**The runner's argument.** `AtMostWorkers` is not inductive: whether a simulator may be
started depends on the semaphore, and whether the semaphore is right on who holds
it. `IInv` in `ExperimentRunner_proofs` adds that free and held permits make up the
whole (`NoPermitLost`), that a simulator runs only for a task between `Spawned` and
`Evaluate` unless the batch was aborted (`AliveOK`), and that the queue holds waiting
tasks only, each once (`QueueOK`): otherwise waking the head could overwrite the
state of a task that holds a permit. After an abort the bound itself is carried on,
because no simulator starts any more (`NoMoreAlive`). There is one lemma per action;
the four actions that may end a task share `EndKeeps`, those that do not leave the
semaphore share `HoldingKeeps`.

`OInv` goes on from there. It adds that `completed` lists the tasks
that have ended, each once, and that those with an outcome have no live simulator
(`RecordsOK`), and that as many tasks have been woken as permits are free while others
wait (`WakeupOK`): that somebody has been woken would not survive a second task coming by and
taking the permit. Every step is of one of three kinds: no task ends and
nothing changes about those that have (`Quiet`), one ends (`Ends`), or an outcome is
collected; the two conjuncts about results and output need one lemma per kind, not per action.
Results are followed by `Writes`, the tasks of a file that have written to it, in the order in
which they ended: a success, or a writing that raised after the log was kept.

**The argument about `run`.** `IInv` in `DiSketch_proofs` says where the two loops are in
the trace (`Position`): at the head of the epoch loop `packet_index` separates exactly the
packets before the epoch from the others, which needs that the trace is sorted and that an
epoch starts where the last one ends. From this the counts of the open epoch are those of the
packets of this epoch that have been passed (`Counts`), and no counter of the undivided sketch is less than
a flow's count or more than the number of packets. At `EndEpoch` the passed packets
are all packets of the epoch (`EpochCounted`), so that the summary agrees with the
trace (`SummaryOfEpoch`). Fragments do not occur in `IInv`. `TotalsAccount` adds that each printed
total is the sum of what the epochs contribute, and that an epoch contributes each flow once.

**The argument about rho.** That the carried rho is that of the counters (`RhoTracked`) is inductive
only for the current sketch and all records together, since a flush moves the
former to the latter. An update changes one counter of the summed row by one, so the sum of the squares by
twice the counter plus one (`SumChange`); this is what the code adds if the answer it
asked for before and after is that counter, hence `RowsAgree`.

**The argument about estimates.** `FragInv` says of every fragment that it is a legal one and, in an
epoch, that it is where the last packet has put it. `SampleInv` says what it
holds: sample `i` of node `n` answers, for flow `f`, `Visits(f, n)` times the number of packets of
`f` in subepoch `i` so far, if the hash assigns `i` to `f`, and 0 otherwise. The walk over the path
visits a node as often as it occurs there (`Walk`, `VisitsOfPath`), so each hop raises one sample by one
(`Hop`, `HopSamples`). At the end of the epoch this is what the reports
say (`NodeValueOfWindow`). If a flow is spread evenly, each of `m` windows has an `m`-th of its packets
(`EvenCount`), every node estimates the same number, and the minimum, the median and the mean
of equal numbers are that number (`CombineConstant`).

**The argument about `parse`.** That the last of several settings exists, and
is of the kind that its key asks for (`LatestExists`, `ValueIn`), comes from
well-foundedness of inclusion on finite sets. What a text says depends on its settings alone
(`SettingsDecide`): one more line changes a value if it is a setting of this key in the section
that is open (`ValueAfter`), and a remark is neither that nor opens a section.

**The argument about the file.** `IInv` in `ConfigFile_proofs` says three things that need each
other. `EndsOnly`: the settings of the file, of the text that is about to be written and of what any
simulator has read are a beginning of the original ones; a cut leaves it so because a torn line
counts as one line and only a last line can be torn (`CutBeginning`), rewriting because it keeps
the settings (`RewrittenText`). `FileKept`: without damage the file, or the pending text, is the
original rewritten at most once, because a rewritten text has its header where the rewriting put
it (`HeaderUnique`), so that the next rewriting replaces it. `SizesKnown`: a simulator that has
measured an undamaged file found 0, the size of the original or that of the original with
results of some length. Where it found 0 the text is refused (`EmptyRefused`); where it found at
least the size of the file, it has read all of it, so that a loss needs longer results:
`LossOnlyByLongerResults`.

**The argument about traces.** `IInv` in `PcapReader_proofs` says that the packets read so far are
exactly those of the records passed, in order (`Holds`), with the times meant. That a swapped
word read in the other byte order is the word (`SwapReverses`, `FieldIsMeant`) comes from the
uniqueness of quotient and remainder. The sort is any permutation with the times in order, which loses
and repeats nothing (`HoldsPermuted`).

**Induction.** The library's induction theorems cannot be used, as they take an operator. Where a
proof needs induction, it takes a smallest counterexample: of a set of numbers (`AllNumbers`),
of finite sets ordered by inclusion (`SmallestSet`), of texts by their length (`TextInduction`). The
recursive functions (`Settings`, `AlongPath`) and the sum of the community modules get their
recursion equations from `RecursionExists` and `SumIsRecursive` in this way.

**Only model-checked.** Liveness, which is out of the prover's reach: `IdleShrinks`,
`OverloadReachesMax`, `EndsByTimeLimit`, `EndsByItself` and `ReadingEnds`; and that the program
stops nowhere but at its end, which TLC's deadlock check shows. The estimates of flows that
share all their counters with others are neither checked nor proved: in `disketch` no flows collide in
the fragments' sketches, in `fragment_count_min` they do in one of two rows.

## Plan

Done: the fragment and its refinement; `DiSketch`; the runner; the trace reader; the
configuration parser and the rewriting of its file; the detector and the simulator; proofs
of the safety properties of all of these. What could follow:

1. An abstract specification of `run` as independent counting per epoch that
   `DiSketch` implements, and an abstract worker pool that `ExperimentRunner` implements.
2. `ConfigFile` in the place of `results` in `ExperimentRunner`; the two meet so far in the
   order in which a task's steps happen.
3. A bound on the estimate of a flow that others collide with.

## Not modelled

- SketchLib's own code, a submodule that is not part of the repository: signed counters,
  the median of a CountSketch and UnivMon's layers under collisions. `Sketch` is what
  its callers rely on.
- `baseline.cpp` and `parse_pcap.cpp`: straight-line programs without state of their own;
  the latter's `parse_pcap` and the former's `detect` are modelled.
- The hash functions: any assignment of flows to windows, counters and paths is
  considered, so that nothing is said about their quality or about correlated seeds.
- Floating-point rounding, and the average rho of a summary, which is displayed only.
- PcapPlusPlus, simpleini, cxxopts and indicators are third-party libraries, and by far the largest
  part of the source tree; only what the program relies on in them is modelled where
  it is used.
- Progress bars, summaries and other output, except the lines that are parsed.
