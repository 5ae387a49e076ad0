-------------------------- MODULE ExperimentRunner --------------------------
(***************************************************************************)
(* The parallel experiment runner (configs/experiments/scripts/            *)
(* run_parallel.py and runner_core.py): one asyncio task per configuration *)
(* file waits for a semaphore, starts the simulator as a process, collects *)
(* its output while it runs, kills it after a time limit, and writes the   *)
(* results into the head of the configuration file.                        *)
(*                                                                         *)
(* A task runs from one await to the next without interruption: each such  *)
(* stretch is one action.  The simulators are other processes and may      *)
(* print, exit, crash or hang at any time.  Of their output only the two   *)
(* lines with the metrics of FullSketch and DiSketch matter: pipe and      *)
(* stdout count them.  The progress display is left out.                   *)
(***************************************************************************)
EXTENDS Integers, Sequences, FiniteSets

CONSTANTS Files,         \* configuration files
          Configs,       \* what collect_configs found: a sequence of files
          Workers,       \* --workers, 0 if it is not given
          CpuCount,
          PipeCapacity   \* lines that fit into a pipe

ASSUME ConfigsAssumption == Configs \in Seq(Files)
ASSUME WorkersAssumption == Workers \in Int /\ CpuCount \in Nat \ {0}
ASSUME PipeAssumption == PipeCapacity \in Nat \ {0}

Tasks == DOMAIN Configs
Nothing == 0  \* a configuration file without results

Larger(m, n) == IF m >= n THEN m ELSE n
Smaller(m, n) == IF m <= n THEN m ELSE n

\* The default is used for 0, too; a negative number becomes 1.
Permits ==
    Larger(1, IF Workers # 0 THEN Workers
              ELSE Larger(1, Smaller(Len(Configs), CpuCount)))

MetricLines == 2
TaskStates == {"created", "queued", "woken", "spawning", "running", "draining",
               "done", "raised", "cancelled"}
ProcessStates == {"none", "alive", "exited", "failed", "killed"}
Outcomes == {"none", "ok", "missing-config", "error", "timeout", "returncode",
             "parse-error", "metric-parse-error"}

VARIABLES
    task,       \* where each task of execute_config waits
    permits,    \* the value of the semaphore
    waiters,    \* the tasks waiting for it, first come first served
    process,    \* each task's simulator
    pipe,       \* the metric lines of each simulator that are not yet read
    stdout,     \* those in stdout_lines of its task
    timed_out,
    outcome,    \* the ExecutionOutcome of each task, "ok" for error = None
    completed,  \* the finished tasks in the order they finished
    collected,  \* how many of them as_completed has delivered
    logged,     \* the tasks whose log was written
    results,    \* the task whose results stand in each configuration file, whole
    main        \* run_parallel_async: "running", "done" or "aborted"

taskVars == <<task, permits, waiters, outcome, completed>>
processVars == <<process, pipe>>
fileVars == <<logged, results>>
vars == <<taskVars, processVars, fileVars, stdout, timed_out, collected, main>>

Init ==
    /\ task = [t \in Tasks |-> "created"]
    /\ permits = Permits
    /\ waiters = <<>>
    /\ process = [t \in Tasks |-> "none"]
    /\ pipe = [t \in Tasks |-> 0]
    /\ stdout = [t \in Tasks |-> 0]
    /\ timed_out = [t \in Tasks |-> FALSE]
    /\ outcome = [t \in Tasks |-> "none"]
    /\ completed = <<>>
    /\ collected = 0
    /\ logged = {}
    /\ results = [c \in Files |-> Nothing]
    /\ main = IF Configs = <<>> THEN "done" ELSE "running"

Active(t) == main = "running" /\ t \in Tasks
Dead(t) == process[t] \in {"exited", "failed", "killed"}

-----------------------------------------------------------------------------
(* execute_config and run_simulator.                                       *)

\* Mutant: the semaphore is given back and nobody is woken.
ConcludeSilently(t, state, result, freed) ==
    /\ permits' = permits + freed
    /\ task' = [task EXCEPT ![t] = state]
    /\ outcome' = [outcome EXCEPT ![t] = result]
    /\ completed' = Append(completed, t)
    /\ UNCHANGED waiters

\* Mutant: the semaphore is given back once more on the way out.
ConcludeTwice(t, state, result, freed) ==
    /\ permits' = permits + 2 * freed
    /\ waiters' = IF waiters = <<>> THEN waiters ELSE Tail(waiters)
    /\ task' = [i \in Tasks |->
                  IF i = t THEN state
                  ELSE IF waiters # <<>> /\ i = Head(waiters) THEN "woken"
                  ELSE task[i]]
    /\ outcome' = [outcome EXCEPT ![t] = result]
    /\ completed' = Append(completed, t)

\* Mutant: release is not called when a task ends.
ConcludeHolding(t, state, result, freed) ==
    /\ task' = [task EXCEPT ![t] = state]
    /\ outcome' = [outcome EXCEPT ![t] = result]
    /\ completed' = Append(completed, t)
    /\ UNCHANGED <<permits, waiters>>

\* Task t ends and leaves the semaphore, which wakes the first waiter.
\* freed is 0 if t entered the semaphore in this very step.
Conclude(t, state, result, freed) ==
    /\ permits' = permits + freed
    /\ waiters' = IF waiters = <<>> THEN waiters ELSE Tail(waiters)
    /\ task' = [i \in Tasks |->
                  IF i = t THEN state
                  ELSE IF waiters # <<>> /\ i = Head(waiters) THEN "woken"
                  ELSE task[i]]
    /\ outcome' = [outcome EXCEPT ![t] = result]
    /\ completed' = Append(completed, t)

\* With the semaphore free: the simulator and the configuration must exist,
\* then the process is created.
Enter(t) ==
    /\ permits > 0
    /\ \/ /\ task' = [task EXCEPT ![t] = "spawning"]
          /\ permits' = permits - 1
          /\ UNCHANGED <<waiters, outcome, completed>>
       \/ Conclude(t, "done", "missing-config", 0)
    /\ UNCHANGED <<processVars, fileVars, stdout, timed_out, collected, main>>

Wait(t) ==
    /\ permits = 0
    /\ task' = [task EXCEPT ![t] = "queued"]
    /\ waiters' = Append(waiters, t)
    /\ UNCHANGED <<permits, outcome, completed, processVars, fileVars, stdout,
                   timed_out, collected, main>>

\* The directory for the logs cannot be made: the exception leaves the task.
NoLogDirectory(t) ==
    /\ task' = [task EXCEPT ![t] = "raised"]
    /\ completed' = Append(completed, t)
    /\ UNCHANGED <<permits, waiters, outcome, processVars, fileVars, stdout,
                   timed_out, collected, main>>

StartTask(t) ==
    /\ Active(t)
    /\ task[t] = "created"
    /\ Enter(t) \/ Wait(t) \/ NoLogDirectory(t)

\* A woken task looks at the semaphore again.
Resume(t) ==
    /\ Active(t)
    /\ task[t] = "woken"
    /\ Enter(t) \/ Wait(t)

\* create_subprocess_exec returns or raises.
Spawned(t) ==
    /\ Active(t)
    /\ task[t] = "spawning"
    /\ \/ /\ task' = [task EXCEPT ![t] = "running"]
          /\ process' = [process EXCEPT ![t] = "alive"]
          /\ UNCHANGED <<permits, waiters, outcome, completed>>
       \/ /\ \E result \in {"missing-config", "error"} :
                Conclude(t, "done", result, 1)
          /\ UNCHANGED process
    /\ UNCHANGED <<pipe, fileVars, stdout, timed_out, collected, main>>

\* Mutant: the output is read only after the process has ended.
ConsumeAfterwards(t) ==
    /\ Active(t)
    /\ task[t] = "draining"
    /\ pipe[t] # 0
    /\ stdout' = [stdout EXCEPT ![t] = @ + pipe[t]]
    /\ pipe' = [pipe EXCEPT ![t] = 0]
    /\ UNCHANGED <<taskVars, process, fileVars, timed_out, collected, main>>

\* consume_stream reads what there is, whatever its task waits for.
Consume(t) ==
    /\ Active(t)
    /\ task[t] \in {"running", "draining"}
    /\ pipe[t] # 0
    /\ stdout' = [stdout EXCEPT ![t] = @ + pipe[t]]
    /\ pipe' = [pipe EXCEPT ![t] = 0]
    /\ UNCHANGED <<taskVars, process, fileVars, timed_out, collected, main>>

\* process.wait() returns in time.
Reap(t) ==
    /\ Active(t)
    /\ task[t] = "running"
    /\ Dead(t)
    /\ task' = [task EXCEPT ![t] = "draining"]
    /\ UNCHANGED <<permits, waiters, outcome, completed, processVars, fileVars,
                   stdout, timed_out, collected, main>>

\* Mutant: the task reports the timeout and leaves the process running.
TimeOutAbandoning(t) ==
    /\ Active(t)
    /\ task[t] = "running"
    /\ Conclude(t, "done", "timeout", 1)
    /\ timed_out' = [timed_out EXCEPT ![t] = TRUE]
    /\ UNCHANGED <<processVars, fileVars, stdout, collected, main>>

\* Mutant: the process is not killed, but waited for.
TimeOutWithoutKill(t) ==
    /\ Active(t)
    /\ task[t] = "running"
    /\ task' = [task EXCEPT ![t] = "draining"]
    /\ timed_out' = [timed_out EXCEPT ![t] = TRUE]
    /\ UNCHANGED <<permits, waiters, outcome, completed, processVars, fileVars,
                   stdout, collected, main>>

\* wait_for gives up and the process is killed.  If it has just ended, kill
\* may raise ProcessLookupError, which leaves run_simulator.
TimeOut(t) ==
    /\ Active(t)
    /\ task[t] = "running"
    /\ \/ /\ task' = [task EXCEPT ![t] = "draining"]
          /\ timed_out' = [timed_out EXCEPT ![t] = TRUE]
          /\ process' = [process EXCEPT ![t] = IF @ = "alive" THEN "killed" ELSE @]
          /\ UNCHANGED <<permits, waiters, outcome, completed>>
       \/ /\ Dead(t)
          /\ Conclude(t, "done", "error", 1)
          /\ UNCHANGED <<process, timed_out>>
    /\ UNCHANGED <<pipe, fileVars, stdout, collected, main>>

\* Mutant: the readers are not waited for.
DrainedAtExit(t) == Dead(t)

\* Both ends of the pipe are done: gather returns.
Drained(t) == Dead(t) /\ pipe[t] = 0

\* Mutant: timed_out is not looked at.
VerdictsAnyTime(t) ==
    IF process[t] # "exited" THEN {"returncode"}
    ELSE IF stdout[t] < MetricLines THEN {"parse-error"}
    ELSE {"ok", "metric-parse-error"}

\* The ladder of checks after the log is written.  Lines that were found may
\* still be malformed.
Verdicts(t) ==
    CASE timed_out[t] -> {"timeout"}
      [] ~timed_out[t] /\ process[t] # "exited" -> {"returncode"}
      [] ~timed_out[t] /\ process[t] = "exited" ->
            IF stdout[t] < MetricLines THEN {"parse-error"}
            ELSE {"ok", "metric-parse-error"}

\* An exception while the log is written leaves the task.  So does one while
\* the configuration is: write_text empties the file before it fills it, so
\* that afterwards it may have the results it had, or none, or the new ones.
Evaluate(t) ==
    /\ Active(t)
    /\ task[t] = "draining"
    /\ Drained(t)
    /\ \/ /\ Conclude(t, "raised", "none", 1)
          /\ UNCHANGED fileVars
       \/ /\ "ok" \in Verdicts(t)
          /\ Conclude(t, "raised", "none", 1)
          /\ logged' = logged \cup {t}
          /\ \E found \in {results[Configs[t]], Nothing, t} :
                results' = [results EXCEPT ![Configs[t]] = found]
       \/ \E verdict \in Verdicts(t) :
             /\ Conclude(t, "done", verdict, 1)
             /\ logged' = logged \cup {t}
             /\ results' = IF verdict = "ok"
                           THEN [results EXCEPT ![Configs[t]] = t] ELSE results
    /\ UNCHANGED <<processVars, stdout, timed_out, collected, main>>

-----------------------------------------------------------------------------
(* run_parallel_async.                                                     *)

Holders == {t \in Tasks : task[t] \in {"spawning", "running", "draining"}}

\* Mutant: exceptions are gathered like outcomes.
CollectExceptions ==
    /\ main = "running"
    /\ collected < Len(completed)
    /\ collected' = collected + 1
    /\ main' = IF collected' = Len(Configs) THEN "done" ELSE "running"
    /\ UNCHANGED <<taskVars, processVars, fileVars, stdout, timed_out>>

\* The next outcome is appended; an exception instead of it ends the loop,
\* and asyncio.run cancels the tasks that are left, which give the semaphore
\* back but do not kill their simulators.
Collect ==
    /\ main = "running"
    /\ collected < Len(completed)
    /\ IF task[completed[collected + 1]] = "raised"
       THEN /\ main' = "aborted"
            /\ task' = [t \in Tasks |->
                          IF task[t] \in {"done", "raised"} THEN task[t]
                          ELSE "cancelled"]
            /\ permits' = permits + Cardinality(Holders)
            /\ waiters' = <<>>
            /\ UNCHANGED collected
       ELSE /\ collected' = collected + 1
            /\ main' = IF collected' = Len(Configs) THEN "done" ELSE "running"
            /\ UNCHANGED <<task, permits, waiters>>
    /\ UNCHANGED <<outcome, completed, processVars, fileVars, stdout, timed_out>>

-----------------------------------------------------------------------------
(* The simulators.                                                         *)

\* A full pipe blocks the simulator.
PrintLine(t) ==
    /\ process[t] = "alive"
    /\ pipe[t] < PipeCapacity
    /\ stdout[t] + pipe[t] < MetricLines
    /\ pipe' = [pipe EXCEPT ![t] = @ + 1]
    /\ UNCHANGED <<taskVars, process, fileVars, stdout, timed_out, collected,
                   main>>

\* The simulator has printed everything and returns 0.
Exit(t) ==
    /\ process[t] = "alive"
    /\ stdout[t] + pipe[t] = MetricLines
    /\ process' = [process EXCEPT ![t] = "exited"]
    /\ UNCHANGED <<taskVars, pipe, fileVars, stdout, timed_out, collected, main>>

\* It ends early, with 0 or another code.
ExitEarly(t) ==
    /\ process[t] = "alive"
    /\ \E state \in {"exited", "failed"} :
          process' = [process EXCEPT ![t] = state]
    /\ UNCHANGED <<taskVars, pipe, fileVars, stdout, timed_out, collected, main>>

Advance(t) ==
    StartTask(t) \/ Resume(t) \/ Spawned(t) \/ Reap(t) \/ Evaluate(t)

Simulate(t) == PrintLine(t) \/ Exit(t) \/ ExitEarly(t)

Next ==
    \/ \E t \in Tasks : Advance(t) \/ TimeOut(t) \/ Consume(t) \/ Simulate(t)
    \/ Collect

\* The event loop runs whatever is ready.
Fairness ==
    /\ \A t \in Tasks : WF_vars(Advance(t)) /\ WF_vars(Consume(t))
    /\ WF_vars(Collect)

Spec == Init /\ [][Next]_vars
FairSpec == Spec /\ Fairness

-----------------------------------------------------------------------------
Alive == {t \in Tasks : process[t] = "alive"}

TypeOK ==
    /\ task \in [Tasks -> TaskStates]
    /\ permits \in 0 .. Permits
    /\ waiters \in Seq(Tasks)
    /\ process \in [Tasks -> ProcessStates]
    /\ pipe \in [Tasks -> 0 .. PipeCapacity]
    /\ stdout \in [Tasks -> 0 .. MetricLines]
    /\ timed_out \in [Tasks -> BOOLEAN]
    /\ outcome \in [Tasks -> Outcomes]
    /\ completed \in Seq(Tasks)
    /\ collected \in 0 .. Len(completed)
    /\ logged \subseteq Tasks
    /\ results \in [Files -> {Nothing} \cup Tasks]
    /\ main \in {"running", "done", "aborted"}

\* At no time do more simulators run than --workers allows, not even after a
\* time limit, an exception in another task or the end of the batch
\* (README of the experiments, line 97; run_parallel.py:207, 306).
AtMostWorkers == Cardinality(Alive) <= Permits

\* Every way out of execute_config gives the semaphore back, once: a permit
\* is free or held by a task between the entry and its end
\* (run_parallel.py:207-293).
NoPermitLost == permits + Cardinality(Holders) = Permits

\* Nobody waits for a semaphore that is free, unless someone has been woken.
NoLostWakeup ==
    main = "running" /\ waiters # <<>> /\ permits > 0
        => \E t \in Tasks : task[t] = "woken"

\* The output is complete before it is judged: if a task reports missing
\* metric lines, its simulator did not print them (runner_core.py:198-211,
\* run_parallel.py:251-258).
NoOutputLost ==
    \A t \in Tasks :
        outcome[t] = "parse-error" => stdout[t] + pipe[t] < MetricLines

\* The tasks of configuration c that wrote to it, by their place in completed:
\* the successful ones, and those whose writing raised after the log was kept.
Writes(c) ==
    {k \in DOMAIN completed :
        LET t == completed[k]
        IN  /\ Configs[t] = c
            /\ outcome[t] = "ok" \/ (task[t] = "raised" /\ t \in logged)}

\* Only simulations that returned 0 within the time limit, and whose log was
\* kept, touch the configuration.  It shows the results of the last success
\* unless a later writing was broken off, which may have destroyed them; what
\* it shows is never older than the last success (run_parallel.py:235-293,
\* runner_core.py:66-100).
ResultsOfLastSuccess ==
    \A c \in Files :
        /\ \A k \in Writes(c) :
              LET t == completed[k]
              IN  /\ ~timed_out[t] /\ process[t] = "exited" /\ t \in logged
                  /\ outcome[t] = "ok" /\ (\A j \in Writes(c) : j <= k)
                        => results[c] = t
        /\ results[c] # Nothing =>
              \E k \in Writes(c) :
                  /\ completed[k] = results[c]
                  /\ \A j \in Writes(c) : outcome[completed[j]] = "ok" => j <= k

\* A batch that ends normally has exactly one outcome for every
\* configuration (run_parallel.py:315-319).
OneOutcomeEach ==
    main = "done" =>
        /\ Len(completed) = Len(Configs)
        /\ \A t \in Tasks :
              /\ outcome[t] # "none"
              /\ Cardinality({k \in DOMAIN completed : completed[k] = t}) = 1

BatchEnds == <>(main # "running")

\* Simulators may hang for good: if time passes, so that the limit of 24 hours
\* is reached, the batch ends all the same (runner_core.py:201-211,
\* run_parallel.py:311-319).
EndsByTimeLimit == (\A t \in Tasks : WF_vars(TimeOut(t))) => BatchEnds

\* If the simulators do not hang unless they are blocked, the batch ends
\* without any time limit: their output is read while they are waited for
\* (runner_core.py:164-211).
EndsByItself ==
    (\A t \in Tasks : WF_vars(PrintLine(t)) /\ WF_vars(Exit(t))) => BatchEnds

\* The results are written back into every configuration and the output of
\* every simulation is kept (README of the experiments, line 101): trouble
\* with the files of one configuration ends the task of this one only.
FailureIsolated ==
    main = "aborted" =>
        \A t \in Tasks : task[t] \in {"done", "raised"}

=============================================================================
