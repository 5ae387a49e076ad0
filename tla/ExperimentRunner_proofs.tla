----------------------- MODULE ExperimentRunner_proofs -----------------------
(***************************************************************************)
(* Proofs about the experiment runner, for any list of configurations,     *)
(* any --workers and any pipe: the semaphore is neither lost nor given     *)
(* back twice, never more simulators run than it allows, and nobody sleeps *)
(* in front of a free semaphore; every task is recorded once, no output is *)
(* judged before it is complete, and every configuration file shows the    *)
(* results of its last successful task.                                    *)
(***************************************************************************)
EXTENDS ExperimentRunner, TLAPS, FiniteSetTheorems, SequenceTheorems

\* The tasks in the semaphore's queue wait, each at one place.
QueueOK ==
    /\ \A k \in DOMAIN waiters : task[waiters[k]] = "queued"
    /\ \A j, k \in DOMAIN waiters : j # k => waiters[j] # waiters[k]

\* A simulator runs only on behalf of a task inside the semaphore, as long
\* as the batch is not aborted.
AliveOK ==
    main # "aborted" =>
        \A t \in Tasks : process[t] = "alive" => task[t] \in {"running", "draining"}

\* No simulator prints more metric lines than it has.
OutputOK == \A t \in Tasks : stdout[t] + pipe[t] <= MetricLines

IInv ==
    /\ TypeOK
    /\ NoPermitLost
    /\ QueueOK
    /\ AliveOK
    /\ OutputOK
    /\ AtMostWorkers

\* There are finitely many tasks, and at least one permit.
LEMMA Constants ==
    /\ Permits \in Nat \ {0}
    /\ IsFiniteSet(Tasks)
    /\ \A S \in SUBSET Tasks : IsFiniteSet(S) /\ Cardinality(S) \in Nat
<1>1. Len(Configs) \in Nat /\ Tasks = 1 .. Len(Configs)
  BY ConfigsAssumption, LenProperties DEF Tasks
<1>2. Permits \in Nat \ {0}
  BY <1>1, WorkersAssumption DEF Permits, Larger, Smaller
<1>3. IsFiniteSet(Tasks)
  BY <1>1, FS_Interval
<1> QED BY <1>2, <1>3, FS_Subset, FS_CardinalityType

\* The head of the queue is a waiting task, and the others stay in order.
LEMMA QueueHead ==
    ASSUME TypeOK, QueueOK, waiters # <<>>
    PROVE  /\ Head(waiters) \in Tasks
           /\ task[Head(waiters)] = "queued"
           /\ Tail(waiters) \in Seq(Tasks)
           /\ \A k \in DOMAIN Tail(waiters) :
                 /\ task[Tail(waiters)[k]] = "queued"
                 /\ Tail(waiters)[k] # Head(waiters)
           /\ \A j, k \in DOMAIN Tail(waiters) :
                 j # k => Tail(waiters)[j] # Tail(waiters)[k]
<1>1. waiters \in Seq(Tasks)
  BY DEF TypeOK
<1>2. /\ Head(waiters) = waiters[1]
      /\ Tail(waiters) \in Seq(Tasks)
      /\ Len(Tail(waiters)) = Len(waiters) - 1
      /\ \A i \in 1 .. Len(Tail(waiters)) : Tail(waiters)[i] = waiters[i + 1]
  BY <1>1, HeadTailProperties
<1>3. Len(waiters) \in Nat \ {0} /\ DOMAIN waiters = 1 .. Len(waiters)
  BY <1>1, LenProperties
<1>4. DOMAIN Tail(waiters) = 1 .. Len(waiters) - 1
  BY <1>2, <1>3, LenProperties
<1>5. 1 \in DOMAIN waiters /\ waiters[1] \in Tasks
  BY <1>1, <1>3, ElementOfSeq
<1>6. \A k \in DOMAIN Tail(waiters) : k + 1 \in DOMAIN waiters /\ k + 1 # 1
  BY <1>3, <1>4
<1>7. \A k \in DOMAIN Tail(waiters) : Tail(waiters)[k] = waiters[k + 1]
  BY <1>2, <1>3, <1>4
<1>8. \A j, k \in DOMAIN Tail(waiters) : j # k => j + 1 # k + 1
  BY <1>3, <1>4
<1> QED BY <1>2, <1>5, <1>6, <1>7, <1>8 DEF QueueOK

\* One task that enters the semaphore with a permit, or leaves and gives one
\* back, keeps the account.
LEMMA PermitAccount ==
    ASSUME NEW H \in SUBSET Tasks, NEW G \in SUBSET Tasks, NEW t \in Tasks,
           NEW free \in Int, NEW nowFree \in Int,
           free + Cardinality(H) = Permits,
           \/ H = G /\ nowFree = free
           \/ G = H \cup {t} /\ t \notin H /\ nowFree = free - 1
           \/ G = H \ {t} /\ t \in H /\ nowFree = free + 1
    PROVE  nowFree + Cardinality(G) = Permits
<1>1. IsFiniteSet(H) /\ Cardinality(H) \in Nat /\ Permits \in Nat
  BY Constants
<1>2. Cardinality(H \cup {t}) = IF t \in H THEN Cardinality(H) ELSE Cardinality(H) + 1
  BY <1>1, FS_AddElement
<1>3. Cardinality(H \ {t}) = IF t \in H THEN Cardinality(H) - 1 ELSE Cardinality(H)
  BY <1>1, FS_RemoveElement
<1>4. CASE H = G /\ nowFree = free
  BY <1>4
<1>5. CASE G = H \cup {t} /\ t \notin H /\ nowFree = free - 1
  <2>1. Cardinality(G) = Cardinality(H) + 1
    BY <1>2, <1>5
  <2> QED BY <1>1, <1>5, <2>1
<1>6. CASE G = H \ {t} /\ t \in H /\ nowFree = free + 1
  <2>1. Cardinality(G) = Cardinality(H) - 1
    BY <1>3, <1>6
  <2> QED BY <1>1, <1>6, <2>1
<1> QED BY <1>4, <1>5, <1>6

\* Whoever ends, for whatever reason, gives back what it holds, and the
\* queue stays in order.
LEMMA ConcludeKeeps ==
    ASSUME TypeOK, NoPermitLost, QueueOK,
           NEW t \in Tasks, task[t] # "queued",
           NEW state \in {"done", "raised"}, NEW result \in Outcomes,
           NEW freed \in {0, 1}, freed = 1 <=> t \in Holders,
           Conclude(t, state, result, freed)
    PROVE  /\ task' \in [Tasks -> TaskStates]
           /\ permits' \in 0 .. Permits
           /\ waiters' \in Seq(Tasks)
           /\ outcome' \in [Tasks -> Outcomes]
           /\ completed' \in Seq(Tasks) /\ Len(completed') = Len(completed) + 1
           /\ NoPermitLost'
           /\ QueueOK'
           /\ task'[t] = state
           /\ \A i \in Tasks \ {t} :
                 task[i] \in {"running", "draining"} => task'[i] = task[i]
<1>1. waiters # <<>> => Head(waiters) \in Tasks \ {t} /\ task[Head(waiters)] = "queued"
  BY QueueHead
<1>2. /\ task' \in [Tasks -> TaskStates]
      /\ task'[t] = state
      /\ \A i \in Tasks \ {t} :
            task'[i] = task[i] \/ (task[i] = "queued" /\ task'[i] = "woken")
  BY <1>1 DEF Conclude, TypeOK, TaskStates
<1>3. waiters' \in Seq(Tasks)
  BY QueueHead DEF Conclude, TypeOK
<1>4. /\ outcome' \in [Tasks -> Outcomes]
      /\ completed' \in Seq(Tasks) /\ Len(completed') = Len(completed) + 1
  BY AppendProperties DEF Conclude, TypeOK
<1>5. QueueOK'
  <2>1. CASE waiters = <<>>
    BY <2>1, EmptySeq DEF Conclude, QueueOK
  <2>2. CASE waiters # <<>>
    <3>1. waiters' = Tail(waiters)
      BY <2>2 DEF Conclude
    <3>2. \A k \in DOMAIN Tail(waiters) : Tail(waiters)[k] \in Tasks
      BY <2>2, QueueHead, ElementOfSeq, LenProperties
    <3>3. \A k \in DOMAIN Tail(waiters) : task'[Tail(waiters)[k]] = "queued"
      BY <2>2, <3>2, QueueHead DEF Conclude
    <3> QED BY <2>2, <3>1, <3>3, QueueHead DEF QueueOK
  <2> QED BY <2>1, <2>2
<1>6. NoPermitLost'
  <2>1. Holders' = Holders \ {t}
    BY <1>2 DEF Holders
  <2>2. permits' = permits + freed /\ permits \in Int
    BY DEF Conclude, TypeOK
  <2>3. Holders' \in SUBSET Tasks /\ Holders \in SUBSET Tasks
    BY DEF Holders, Tasks
  <2>4. permits + Cardinality(Holders) = Permits
    BY DEF NoPermitLost
  <2>5. \/ t \in Holders /\ permits' = permits + 1
        \/ t \notin Holders /\ Holders' = Holders /\ permits' = permits
    BY <2>1, <2>2
  <2>6. permits' \in Int
    BY <2>2
  <2>7. permits' + Cardinality(Holders') = Permits
    BY <2>1, <2>2, <2>3, <2>4, <2>5, <2>6, PermitAccount
  <2> QED BY <2>7 DEF NoPermitLost, Permits, Tasks
<1>7. permits' \in 0 .. Permits
  <2>1. Holders' \in SUBSET Tasks
    BY DEF Holders, Tasks
  <2>2. Cardinality(Holders') \in Nat /\ Permits \in Nat
    BY <2>1, Constants
  <2>3. permits' + Cardinality(Holders') = Permits
    BY <1>6 DEF NoPermitLost, Permits, Tasks
  <2>4. permits' = permits + freed /\ permits \in Nat
    BY Constants DEF Conclude, TypeOK
  <2> QED BY <2>2, <2>3, <2>4
<1>8. \A i \in Tasks \ {t} :
         task[i] \in {"running", "draining"} => task'[i] = task[i]
  BY <1>2
<1> QED BY <1>2, <1>3, <1>4, <1>5, <1>6, <1>7, <1>8

\* The batch starts with all permits free and no simulator.
LEMMA InitIInv == Init => IInv
<1> SUFFICES ASSUME Init PROVE IInv
  OBVIOUS
<1>1. Permits \in Nat \ {0} /\ Cardinality({}) = 0
  BY Constants, FS_EmptySet
<1>2. Holders = {} /\ Alive = {}
  BY DEF Init, Holders, Alive
<1>3. <<>> \in Seq(Tasks) /\ Len(<<>>) = 0
  BY EmptySeq
<1>4. TypeOK
  BY <1>1, <1>3, PipeAssumption
     DEF Init, TypeOK, TaskStates, ProcessStates, Outcomes, MetricLines
<1>5. NoPermitLost
  <2>1. permits = Permits
    BY DEF Init
  <2> QED BY <1>1, <1>2, <2>1 DEF NoPermitLost
<1>6. QueueOK
  BY EmptySeq DEF Init, QueueOK
<1>7. AliveOK /\ OutputOK
  BY DEF Init, AliveOK, OutputOK, MetricLines
<1>8. AtMostWorkers
  BY <1>1, <1>2 DEF AtMostWorkers
<1> QED BY <1>4, <1>5, <1>6, <1>7, <1>8 DEF IInv

\* After a step, too, the simulators belong to tasks inside the semaphore,
\* of which there are no more than permits.
LEMMA FewAlive ==
    ASSUME TypeOK', NoPermitLost', AliveOK', main' # "aborted"
    PROVE  AtMostWorkers'
<1>1. Alive' \in SUBSET Holders' /\ Holders' \in SUBSET Tasks
  BY DEF AliveOK, Alive, Holders, Tasks
<1>2. Cardinality(Alive') <= Cardinality(Holders')
  BY <1>1, Constants, FS_Subset
<1>3. Cardinality(Holders') \in Nat /\ Cardinality(Alive') \in Nat
  BY <1>1, Constants
<1>4. permits' \in Nat
  BY Constants DEF TypeOK, Permits, Tasks
<1>5. permits' + Cardinality(Holders') = Permits
  BY DEF NoPermitLost, Permits, Tasks
<1>6. Cardinality(Alive') <= Permits
  BY <1>2, <1>3, <1>4, <1>5, Constants
<1> QED BY <1>6 DEF AtMostWorkers, Permits, Tasks

\* When the batch is aborted, no simulator is started any more.
LEMMA NoMoreAlive ==
    ASSUME AtMostWorkers, Alive' \in SUBSET Alive
    PROVE  AtMostWorkers'
<1>1. Alive \in SUBSET Tasks /\ Alive' \in SUBSET Tasks
  BY DEF Alive, Tasks
<1>2. Cardinality(Alive') <= Cardinality(Alive)
  BY <1>1, Constants, FS_Subset
<1>3. Cardinality(Alive') \in Nat /\ Cardinality(Alive) \in Nat
  BY <1>1, Constants
<1>4. Cardinality(Alive') <= Permits
  BY <1>2, <1>3, Constants DEF AtMostWorkers
<1> QED BY <1>4 DEF AtMostWorkers, Permits, Tasks

\* A task that ends when its simulator does not run keeps the invariant.
LEMMA EndKeeps ==
    ASSUME IInv, NEW t \in Tasks, Active(t), task[t] # "queued",
           process[t] # "alive",
           NEW state \in {"done", "raised"}, NEW result \in Outcomes,
           NEW freed \in {0, 1}, freed = 1 <=> t \in Holders,
           Conclude(t, state, result, freed),
           UNCHANGED <<processVars, stdout, timed_out, collected, main>>,
           logged' \subseteq Tasks, results' \in [Files -> {Nothing} \cup Tasks]
    PROVE  IInv'
<1> USE DEF IInv
<1>1. /\ task' \in [Tasks -> TaskStates]
      /\ permits' \in 0 .. Permits
      /\ waiters' \in Seq(Tasks)
      /\ outcome' \in [Tasks -> Outcomes]
      /\ completed' \in Seq(Tasks) /\ Len(completed') = Len(completed) + 1
      /\ NoPermitLost' /\ QueueOK' /\ task'[t] = state
      /\ \A i \in Tasks \ {t} :
            task[i] \in {"running", "draining"} => task'[i] = task[i]
  BY ConcludeKeeps
<1>2. TypeOK'
  <2>1. collected' = collected /\ Len(completed) \in Nat
    BY LenProperties DEF TypeOK
  <2>2. collected' \in 0 .. Len(completed')
    BY <1>1, <2>1 DEF TypeOK
  <2> QED BY <1>1, <2>2 DEF TypeOK, processVars, Tasks, Permits
<1>3. AliveOK'
  BY <1>1 DEF AliveOK, Active, processVars, Tasks
<1>4. OutputOK'
  BY DEF OutputOK, processVars, Tasks
<1>5. main' # "aborted"
  BY DEF Active
<1> QED BY <1>1, <1>2, <1>3, <1>4, <1>5, FewAlive

\* A task passes the semaphore, or ends right behind it.
LEMMA EnterKeeps ==
    ASSUME IInv, NEW t \in Tasks, Active(t), task[t] \in {"created", "woken"},
           Enter(t)
    PROVE  IInv'
<1> USE DEF IInv
<1>1. t \notin Holders /\ task[t] # "queued" /\ process[t] # "alive"
  BY DEF Holders, AliveOK, Active
<1>2. main' # "aborted"
  BY DEF Enter, Active
<1>3. CASE Conclude(t, "done", "missing-config", 0)
  <2>1. UNCHANGED <<processVars, stdout, timed_out, collected, main>>
    BY DEF Enter
  <2>2. logged' \subseteq Tasks /\ results' \in [Files -> {Nothing} \cup Tasks]
    BY DEF Enter, fileVars, TypeOK
  <2>3. "missing-config" \in Outcomes /\ (0 = 1 <=> t \in Holders)
    BY <1>1 DEF Outcomes
  <2> QED BY <1>1, <1>3, <2>1, <2>2, <2>3, EndKeeps
<1>4. CASE ~Conclude(t, "done", "missing-config", 0)
  <2>1. /\ permits > 0
        /\ task' = [task EXCEPT ![t] = "spawning"]
        /\ permits' = permits - 1
        /\ UNCHANGED <<waiters, outcome, completed, processVars, fileVars, stdout,
                       timed_out, collected, main>>
    BY <1>4 DEF Enter
  <2>2. TypeOK'
    BY <2>1, Constants DEF TypeOK, TaskStates, processVars, fileVars, Tasks, Permits
  <2>3. NoPermitLost'
    <3>1. Holders' = Holders \cup {t}
      BY <2>1 DEF Holders, TypeOK, Tasks
    <3>2. Holders \in SUBSET Tasks /\ Holders' \in SUBSET Tasks
      BY DEF Holders, Tasks
    <3>3. permits \in Int /\ permits' \in Int /\ permits' = permits - 1
      BY <2>1 DEF TypeOK
    <3>4. permits + Cardinality(Holders) = Permits
      BY DEF NoPermitLost
    <3>5. permits' + Cardinality(Holders') = Permits
      BY <1>1, <3>1, <3>2, <3>3, <3>4, PermitAccount
    <3> QED BY <3>5 DEF NoPermitLost, Permits, Tasks
  <2>4. QueueOK'
    BY <1>1, <2>1, ElementOfSeq, LenProperties DEF QueueOK, TypeOK
  <2>5. AliveOK' /\ OutputOK'
    BY <1>1, <2>1 DEF AliveOK, OutputOK, Active, processVars, TypeOK, Tasks
  <2> QED BY <1>2, <2>2, <2>3, <2>4, <2>5, FewAlive
<1> QED BY <1>3, <1>4

\* A task joins the queue.
LEMMA WaitKeeps ==
    ASSUME IInv, NEW t \in Tasks, Active(t), task[t] \in {"created", "woken"},
           Wait(t)
    PROVE  IInv'
<1> USE DEF IInv
<1>1. waiters \in Seq(Tasks) /\ waiters' = Append(waiters, t)
  BY DEF Wait, TypeOK
<1>2. /\ waiters' \in Seq(Tasks)
      /\ Len(waiters') = Len(waiters) + 1
      /\ \A k \in 1 .. Len(waiters) : waiters'[k] = waiters[k]
      /\ waiters'[Len(waiters) + 1] = t
  BY <1>1, AppendProperties
<1>3. Len(waiters) \in Nat /\ DOMAIN waiters = 1 .. Len(waiters)
      /\ DOMAIN waiters' = 1 .. Len(waiters) + 1
  BY <1>1, <1>2, LenProperties
<1>4. task' = [task EXCEPT ![t] = "queued"] /\ task \in [Tasks -> TaskStates]
  BY DEF Wait, TypeOK
<1>5. TypeOK'
  BY <1>2, <1>4
     DEF Wait, TypeOK, TaskStates, processVars, fileVars, Tasks, Permits
<1>6. QueueOK'
  <2>1. \A k \in 1 .. Len(waiters) :
           waiters[k] \in Tasks /\ waiters[k] # t /\ task'[waiters[k]] = "queued"
    BY <1>1, <1>3, <1>4, ElementOfSeq DEF QueueOK
  <2>2. \A k \in DOMAIN waiters' : k \in 1 .. Len(waiters) \/ k = Len(waiters) + 1
    BY <1>3
  <2>3. \A k \in DOMAIN waiters' : task'[waiters'[k]] = "queued"
    BY <1>2, <1>4, <2>1, <2>2
  <2>4. ASSUME NEW j \in DOMAIN waiters', NEW k \in DOMAIN waiters', j # k
        PROVE  waiters'[j] # waiters'[k]
    BY <1>2, <1>3, <2>1, <2>2, <2>4 DEF QueueOK
  <2> QED BY <2>3, <2>4 DEF QueueOK
<1>7. Holders' = Holders
  BY <1>4 DEF Holders, Tasks
<1>8. NoPermitLost'
  BY <1>7 DEF Wait, NoPermitLost, Permits, Tasks
<1>9. AliveOK' /\ OutputOK'
  BY <1>4 DEF Wait, AliveOK, OutputOK, Active, processVars, Tasks
<1>10. main' # "aborted"
  BY DEF Wait, Active
<1> QED BY <1>5, <1>6, <1>8, <1>9, <1>10, FewAlive

\* The directory for the log cannot be made: nothing was held yet.
LEMMA NoLogDirectoryKeeps ==
    ASSUME IInv, NEW t \in Tasks, Active(t), task[t] = "created",
           NoLogDirectory(t)
    PROVE  IInv'
<1> USE DEF IInv
<1>1. task' = [task EXCEPT ![t] = "raised"] /\ task \in [Tasks -> TaskStates]
  BY DEF NoLogDirectory, TypeOK
<1>2. completed' \in Seq(Tasks) /\ Len(completed') = Len(completed) + 1
      /\ Len(completed) \in Nat
  BY AppendProperties, LenProperties DEF NoLogDirectory, TypeOK
<1>3. collected' \in 0 .. Len(completed')
  BY <1>2 DEF NoLogDirectory, TypeOK
<1>4. TypeOK'
  BY <1>1, <1>2, <1>3
     DEF NoLogDirectory, TypeOK, TaskStates, processVars, fileVars, Tasks, Permits
<1>5. Holders' = Holders
  BY <1>1 DEF Holders, Tasks
<1>6. NoPermitLost'
  BY <1>5 DEF NoLogDirectory, NoPermitLost, Permits, Tasks
<1>7. QueueOK'
  BY <1>1, ElementOfSeq, LenProperties DEF NoLogDirectory, QueueOK, TypeOK
<1>8. AliveOK' /\ OutputOK'
  BY <1>1 DEF NoLogDirectory, AliveOK, OutputOK, Active, processVars, Tasks
<1>9. main' # "aborted"
  BY DEF NoLogDirectory, Active
<1> QED BY <1>4, <1>6, <1>7, <1>8, <1>9, FewAlive

\* create_subprocess_exec has a process for a task in the semaphore, or fails.
LEMMA SpawnedKeeps ==
    ASSUME IInv, NEW t \in Tasks, Spawned(t)
    PROVE  IInv'
<1> USE DEF IInv
<1>1. Active(t) /\ task[t] = "spawning" /\ t \in Holders /\ process[t] # "alive"
  BY DEF Spawned, Holders, AliveOK, Active
<1>2. UNCHANGED <<pipe, fileVars, stdout, timed_out, collected, main>>
  BY DEF Spawned
<1>3. CASE /\ task' = [task EXCEPT ![t] = "running"]
           /\ process' = [process EXCEPT ![t] = "alive"]
           /\ UNCHANGED <<permits, waiters, outcome, completed>>
  <2>1. TypeOK'
    BY <1>2, <1>3
       DEF TypeOK, TaskStates, ProcessStates, fileVars, Tasks, Permits
  <2>2. Holders' = Holders
    BY <1>1, <1>3 DEF Holders, TypeOK, Tasks
  <2>3. NoPermitLost'
    BY <1>3, <2>2 DEF NoPermitLost, Permits, Tasks
  <2>4. QueueOK'
    BY <1>1, <1>3, ElementOfSeq, LenProperties DEF QueueOK, TypeOK
  <2>5. AliveOK' /\ OutputOK'
    BY <1>1, <1>2, <1>3 DEF AliveOK, OutputOK, Active, TypeOK, Tasks
  <2>6. main' # "aborted"
    BY <1>1, <1>2 DEF Active
  <2> QED BY <2>1, <2>3, <2>4, <2>5, <2>6, FewAlive
<1>4. ASSUME NEW result \in {"missing-config", "error"},
             Conclude(t, "done", result, 1), UNCHANGED process
      PROVE  IInv'
  <2>1. result \in Outcomes /\ (1 = 1 <=> t \in Holders)
    BY <1>1 DEF Outcomes
  <2>2. logged' \subseteq Tasks /\ results' \in [Files -> {Nothing} \cup Tasks]
    BY <1>2 DEF fileVars, TypeOK
  <2>3. UNCHANGED <<processVars, stdout, timed_out, collected, main>>
    BY <1>2, <1>4 DEF processVars
  <2> QED BY <1>1, <1>4, <2>1, <2>2, <2>3, EndKeeps
<1> QED BY <1>3, <1>4 DEF Spawned

\* A task in the semaphore goes on without leaving it; no simulator starts.
LEMMA HoldingKeeps ==
    ASSUME IInv, TypeOK', OutputOK',
           UNCHANGED <<permits, waiters, main>>,
           \A i \in Tasks : \/ task'[i] = task[i]
                            \/ task[i] = "running" /\ task'[i] = "draining",
           \A i \in Tasks : process'[i] = "alive" => process[i] = "alive"
    PROVE  IInv'
<1> USE DEF IInv
<1>1. Holders' = Holders
  BY DEF Holders, Tasks
<1>2. NoPermitLost'
  BY <1>1 DEF NoPermitLost, Permits, Tasks
<1>3. QueueOK'
  BY ElementOfSeq, LenProperties DEF QueueOK, TypeOK
<1>4. AliveOK'
  BY DEF AliveOK, Tasks
<1>5. Alive' \in SUBSET Alive
  BY DEF Alive, Tasks
<1> QED BY <1>2, <1>3, <1>4, <1>5, NoMoreAlive

\* A reader takes what is in the pipe.
LEMMA ConsumeKeeps ==
    ASSUME IInv, NEW t \in Tasks, Consume(t)
    PROVE  IInv'
<1> USE DEF IInv
<1>1. \A i \in Tasks :
         stdout[i] \in 0 .. MetricLines /\ pipe[i] \in 0 .. PipeCapacity
  BY DEF TypeOK
<1>2. \A i \in Tasks :
         \/ stdout'[i] = stdout[i] + pipe[i] /\ pipe'[i] = 0
         \/ stdout'[i] = stdout[i] /\ pipe'[i] = pipe[i]
  BY DEF Consume, TypeOK
<1>3. \A i \in Tasks : stdout[i] + pipe[i] <= MetricLines
  BY DEF OutputOK
<1>4. \A i \in Tasks :
         /\ stdout'[i] \in 0 .. MetricLines /\ pipe'[i] \in 0 .. PipeCapacity
         /\ stdout'[i] + pipe'[i] <= MetricLines
  BY <1>1, <1>2, <1>3, PipeAssumption DEF MetricLines
<1>5. OutputOK'
  BY <1>4 DEF OutputOK, Tasks
<1>6. TypeOK'
  <2>1. stdout' \in [Tasks -> 0 .. MetricLines] /\ pipe' \in [Tasks -> 0 .. PipeCapacity]
    BY <1>4 DEF Consume, TypeOK
  <2> QED BY <2>1 DEF Consume, TypeOK, taskVars, fileVars, Tasks, Permits
<1> QED BY <1>5, <1>6, HoldingKeeps DEF Consume, taskVars

\* The end of the process is noticed in time.
LEMMA ReapKeeps ==
    ASSUME IInv, NEW t \in Tasks, Reap(t)
    PROVE  IInv'
<1> USE DEF IInv
<1>1. OutputOK'
  BY DEF Reap, OutputOK, processVars, Tasks
<1>2. TypeOK'
  BY DEF Reap, TypeOK, TaskStates, processVars, fileVars, Tasks, Permits
<1> QED BY <1>1, <1>2, HoldingKeeps DEF Reap, processVars, TypeOK

\* The time limit passes: the process is killed, or is gone already.
LEMMA TimeOutKeeps ==
    ASSUME IInv, NEW t \in Tasks, TimeOut(t)
    PROVE  IInv'
<1> USE DEF IInv
<1>1. CASE /\ task' = [task EXCEPT ![t] = "draining"]
           /\ timed_out' = [timed_out EXCEPT ![t] = TRUE]
           /\ process' = [process EXCEPT ![t] = IF @ = "alive" THEN "killed" ELSE @]
           /\ UNCHANGED <<permits, waiters, outcome, completed>>
  <2>1. OutputOK'
    BY DEF TimeOut, OutputOK, Tasks
  <2>2. TypeOK'
    BY <1>1 DEF TimeOut, TypeOK, TaskStates, ProcessStates, fileVars, Tasks, Permits
  <2> QED BY <1>1, <2>1, <2>2, HoldingKeeps DEF TimeOut, TypeOK
<1>2. CASE /\ Dead(t)
           /\ Conclude(t, "done", "error", 1)
           /\ UNCHANGED <<process, timed_out>>
  <2>1. Active(t) /\ task[t] = "running" /\ t \in Holders /\ process[t] # "alive"
    BY <1>2 DEF TimeOut, Holders, Dead
  <2>2. UNCHANGED <<processVars, stdout, timed_out, collected, main>>
    BY <1>2 DEF TimeOut, processVars
  <2>3. logged' \subseteq Tasks /\ results' \in [Files -> {Nothing} \cup Tasks]
    BY DEF TimeOut, fileVars, TypeOK
  <2>4. "error" \in Outcomes
    BY DEF Outcomes
  <2> QED BY <1>2, <2>1, <2>2, <2>3, <2>4, EndKeeps
<1> QED BY <1>1, <1>2 DEF TimeOut

\* The verdict on a simulation whose output is complete.
LEMMA EvaluateKeeps ==
    ASSUME IInv, NEW t \in Tasks, Evaluate(t)
    PROVE  IInv'
<1> USE DEF IInv
<1>1. Active(t) /\ task[t] = "draining" /\ t \in Holders /\ process[t] # "alive"
  BY DEF Evaluate, Drained, Dead, Holders
<1>2. UNCHANGED <<processVars, stdout, timed_out, collected, main>>
  BY DEF Evaluate
<1>0. logged \subseteq Tasks /\ results \in [Files -> {Nothing} \cup Tasks]
  BY DEF TypeOK
<1>3. logged' \subseteq Tasks
  BY <1>0 DEF Evaluate, fileVars
<1>4. results' \in [Files -> {Nothing} \cup Tasks]
  <2>1. \/ results' = results
        \/ \E found \in {results[Configs[t]], Nothing, t} :
              results' = [results EXCEPT ![Configs[t]] = found]
    BY DEF Evaluate, fileVars
  <2>2. Configs[t] \in Files
    BY ConfigsAssumption, ElementOfSeq DEF Tasks
  <2> QED  BY <1>0, <2>1, <2>2
<1>5. \A verdict \in Verdicts(t) : verdict \in Outcomes
  BY DEF Verdicts, Outcomes, TypeOK
<1>6. \/ Conclude(t, "raised", "none", 1)
      \/ \E verdict \in Outcomes : Conclude(t, "done", verdict, 1)
  BY <1>5 DEF Evaluate
<1>7. "none" \in Outcomes
  BY DEF Outcomes
<1> QED BY <1>1, <1>2, <1>3, <1>4, <1>6, <1>7, EndKeeps

\* An outcome is delivered, or an exception ends the batch and everybody
\* gives back what it holds.
LEMMA CollectKeeps == IInv /\ Collect => IInv'
<1> SUFFICES ASSUME IInv, Collect PROVE IInv'
  OBVIOUS
<1> USE DEF IInv
<1>1. Len(completed) \in Nat /\ collected \in Nat /\ collected < Len(completed)
      /\ UNCHANGED <<outcome, completed, processVars, fileVars, stdout, timed_out>>
  BY LenProperties DEF Collect, TypeOK
<1>2. OutputOK' /\ Alive' = Alive
  BY <1>1 DEF OutputOK, Alive, processVars, Tasks
<1>3. AtMostWorkers'
  BY <1>2, NoMoreAlive
<1>4. CASE task[completed[collected + 1]] = "raised"
  <2>1. /\ main' = "aborted" /\ waiters' = <<>> /\ collected' = collected
        /\ task' = [t \in Tasks |->
                      IF task[t] \in {"done", "raised"} THEN task[t] ELSE "cancelled"]
        /\ permits' = permits + Cardinality(Holders)
    BY <1>4 DEF Collect
  <2>2. Holders' = {}
    BY <2>1 DEF Holders, Tasks
  <2>3. Cardinality(Holders') = 0
    BY <2>2, FS_EmptySet
  <2>4. permits' = Permits
    BY <2>1 DEF NoPermitLost
  <2>5. NoPermitLost'
    BY <2>3, <2>4, Constants DEF NoPermitLost, Permits, Tasks
  <2>6. permits' \in 0 .. Permits
    BY <2>4, Constants
  <2>7. waiters' \in Seq(Tasks) /\ QueueOK'
    BY <2>1, EmptySeq DEF QueueOK
  <2>8. task' \in [Tasks -> TaskStates]
    BY <2>1 DEF TypeOK, TaskStates
  <2>9. TypeOK'
    BY <1>1, <2>1, <2>6, <2>7, <2>8 DEF TypeOK, processVars, fileVars, Tasks, Permits
  <2>10. AliveOK'
    BY <2>1 DEF AliveOK
  <2> QED BY <1>2, <1>3, <2>5, <2>7, <2>9, <2>10
<1>5. CASE task[completed[collected + 1]] # "raised"
  <2>1. /\ collected' = collected + 1 /\ main' \in {"done", "running"}
        /\ UNCHANGED <<task, permits, waiters>>
    BY <1>5 DEF Collect
  <2>2. TypeOK'
    BY <1>1, <2>1 DEF TypeOK, processVars, fileVars, Tasks, Permits
  <2>3. Holders' = Holders
    BY <2>1 DEF Holders, Tasks
  <2>4. NoPermitLost'
    BY <2>1, <2>3 DEF NoPermitLost, Permits, Tasks
  <2>5. QueueOK'
    BY <2>1 DEF QueueOK
  <2>6. AliveOK'
    BY <1>1, <2>1 DEF AliveOK, Collect, processVars, Tasks
  <2> QED BY <1>2, <1>3, <2>2, <2>4, <2>5, <2>6
<1> QED BY <1>4, <1>5

\* What the simulators do on their own starts no simulator.
LEMMA SimulateKeeps ==
    ASSUME IInv, NEW t \in Tasks, Simulate(t)
    PROVE  IInv'
<1> USE DEF IInv
<1>1. stdout[t] \in 0 .. MetricLines /\ pipe[t] \in 0 .. PipeCapacity
  BY DEF TypeOK
<1>2. CASE PrintLine(t)
  <2>1. pipe' = [pipe EXCEPT ![t] = pipe[t] + 1] /\ pipe[t] + 1 \in 0 .. PipeCapacity
        /\ stdout[t] + pipe[t] + 1 <= MetricLines
    BY <1>1, <1>2, PipeAssumption DEF PrintLine, MetricLines
  <2>2. OutputOK'
    BY <1>1, <1>2, <2>1 DEF PrintLine, OutputOK, TypeOK, MetricLines, Tasks
  <2>3. TypeOK'
    BY <1>2, <2>1, SMTT(30) DEF PrintLine, TypeOK, taskVars, fileVars, Tasks, Permits
  <2> QED BY <1>2, <2>2, <2>3, HoldingKeeps DEF PrintLine, taskVars
<1>3. ASSUME NEW state \in {"exited", "failed"},
             process' = [process EXCEPT ![t] = state],
             UNCHANGED <<taskVars, pipe, fileVars, stdout, timed_out, collected, main>>
      PROVE  IInv'
  <2>1. OutputOK'
    BY <1>3 DEF OutputOK, Tasks
  <2>2. TypeOK'
    BY <1>3 DEF TypeOK, ProcessStates, taskVars, fileVars, Tasks, Permits
  <2> QED BY <1>3, <2>1, <2>2, HoldingKeeps DEF taskVars, TypeOK
<1> QED BY <1>2, <1>3 DEF Simulate, Exit, ExitEarly

\* Every step keeps the invariant.
LEMMA NextIInv == IInv /\ [Next]_vars => IInv'
<1> SUFFICES ASSUME IInv, [Next]_vars PROVE IInv'
  OBVIOUS
<1>1. ASSUME NEW t \in Tasks, StartTask(t) PROVE IInv'
  BY <1>1, EnterKeeps, WaitKeeps, NoLogDirectoryKeeps DEF StartTask
<1>2. ASSUME NEW t \in Tasks, Resume(t) PROVE IInv'
  BY <1>2, EnterKeeps, WaitKeeps DEF Resume
<1>3. ASSUME NEW t \in Tasks, Advance(t) PROVE IInv'
  BY <1>1, <1>2, <1>3, SpawnedKeeps, ReapKeeps, EvaluateKeeps DEF Advance
<1>4. ASSUME NEW t \in Tasks, TimeOut(t) \/ Consume(t) \/ Simulate(t) PROVE IInv'
  BY <1>4, TimeOutKeeps, ConsumeKeeps, SimulateKeeps
<1>5. CASE Collect
  BY <1>5, CollectKeeps
<1>6. CASE UNCHANGED vars
  <2>1. UNCHANGED <<task, permits, waiters, process, pipe, stdout, timed_out, outcome,
                    completed, collected, logged, results, main>>
    BY <1>6 DEF vars, taskVars, processVars, fileVars
  <2> QED BY <2>1 DEF IInv, TypeOK, NoPermitLost, QueueOK, AliveOK, OutputOK,
                      AtMostWorkers, Holders, Alive, Permits, Tasks
<1> QED BY <1>3, <1>4, <1>5, <1>6 DEF Next

\* The invariant behind the theorems below.
THEOREM Invariance == Spec => []IInv
BY InitIInv, NextIInv, PTL DEF Spec

\* All variables keep their types; in particular the semaphore never holds
\* more permits than it was created with (run_parallel.py:306).
THEOREM TypeCorrect == Spec => []TypeOK
<1>1. IInv => TypeOK
  BY DEF IInv
<1> QED BY <1>1, Invariance, PTL

\* Every way out of execute_config, the cancellation included, gives the
\* semaphore back exactly once (run_parallel.py:207-293).
THEOREM PermitsConserved == Spec => []NoPermitLost
<1>1. IInv => NoPermitLost
  BY DEF IInv
<1> QED BY <1>1, Invariance, PTL

\* Never more simulators than --workers (run_parallel.py:207, 306).
THEOREM ConcurrencyLimited == Spec => []AtMostWorkers
<1>1. IInv => AtMostWorkers
  BY DEF IInv
<1> QED BY <1>1, Invariance, PTL

-----------------------------------------------------------------------------
(* What the runner reports: the invariant, on top of the one above.        *)

\* Only tasks that have ended are in completed, each once, and those that
\* were collected have an outcome.
RecordsOK ==
    /\ \A k \in DOMAIN completed : task[completed[k]] \in {"done", "raised"}
    /\ \A j, k \in DOMAIN completed : j # k => completed[j] # completed[k]
    /\ \A t \in Tasks : outcome[t] # "none" <=> task[t] = "done"
    /\ \A t \in Tasks : task[t] \in {"done", "raised"} => process[t] # "alive"
    /\ \A t \in logged : task[t] \in {"done", "raised"}
    /\ \A k \in 1 .. collected : task[completed[k]] = "done"
    /\ main = "done" => collected = Len(Configs)

\* As many tasks have been woken as permits are free, while others wait.
Woken == {t \in Tasks : task[t] = "woken"}
WakeupOK == waiters # <<>> => permits <= Cardinality(Woken)

OInv == RecordsOK /\ WakeupOK /\ NoOutputLost /\ ResultsOfLastSuccess

-----------------------------------------------------------------------------
(* Two kinds of steps.                                                     *)

\* What the end of task t does to the files: the log is kept and the
\* configuration written, perhaps not to the end, or nothing is written to it.
WriteBack(t, result) ==
    \/ /\ result \in {"ok", "none"}
       /\ ~timed_out[t] /\ process[t] = "exited" /\ t \in logged'
       /\ \E found \in {results[Configs[t]], Nothing, t} :
             /\ result = "ok" => found = t
             /\ results' = [results EXCEPT ![Configs[t]] = found]
    \/ /\ result # "ok"
       /\ result = "none" => logged' = logged
       /\ results' = results

\* Task t ends, with an outcome or with an exception.
Ends(t, state, result) ==
    /\ main = "running"
    /\ task[t] \notin {"done", "raised", "queued", "cancelled"}
    /\ process[t] # "alive"
    /\ state = "raised" <=> result = "none"
    /\ state = "done" <=> result # "none"
    /\ task'[t] = state
    /\ \A i \in Tasks \ {t} :
          task'[i] = task[i] \/ (task[i] = "queued" /\ task'[i] = "woken")
    /\ outcome' = [outcome EXCEPT ![t] = result]
    /\ completed' = Append(completed, t)
    /\ UNCHANGED <<process, pipe, stdout, timed_out, collected, main>>
    /\ logged \subseteq logged' /\ logged' \subseteq logged \cup {t}
    /\ result = "parse-error" => stdout[t] + pipe[t] < MetricLines
    /\ WriteBack(t, result)

\* No task ends, and nothing changes about those that have.
Quiet ==
    /\ UNCHANGED <<outcome, completed, logged, results, collected, main>>
    /\ \A i \in Tasks :
          /\ task[i] \in {"done", "raised"} => task'[i] = task[i]
          /\ task'[i] \in {"done", "raised"} => task'[i] = task[i]
    /\ \A i \in Tasks :
          task[i] \in {"done", "raised"} =>
              /\ process'[i] = process[i]
              /\ timed_out'[i] = timed_out[i]
              /\ stdout'[i] = stdout[i] /\ pipe'[i] = pipe[i]

\* The tasks, and the sequence of those that have ended.
LEMMA RecordTypes ==
    ASSUME TypeOK
    PROVE  /\ Len(Configs) \in Nat /\ Tasks = 1 .. Len(Configs)
           /\ \A t \in Tasks : Configs[t] \in Files /\ t # Nothing
           /\ completed \in Seq(Tasks)
           /\ Len(completed) \in Nat /\ DOMAIN completed = 1 .. Len(completed)
           /\ \A k \in DOMAIN completed : completed[k] \in Tasks
           /\ collected \in 0 .. Len(completed)
           /\ outcome \in [Tasks -> Outcomes]
           /\ results \in [Files -> {Nothing} \cup Tasks]
<1>1. Len(Configs) \in Nat /\ Tasks = 1 .. Len(Configs)
  BY ConfigsAssumption, LenProperties DEF Tasks
<1>2. \A t \in Tasks : Configs[t] \in Files /\ t # Nothing
  BY <1>1, ConfigsAssumption, ElementOfSeq DEF Nothing
<1>3. completed \in Seq(Tasks)
  BY DEF TypeOK
<1>4. /\ Len(completed) \in Nat /\ DOMAIN completed = 1 .. Len(completed)
      /\ \A k \in DOMAIN completed : completed[k] \in Tasks
  BY <1>3, LenProperties, ElementOfSeq
<1> QED  BY <1>1, <1>2, <1>3, <1>4 DEF TypeOK

\* Conclude is the end of a task.
LEMMA ConcludeEnds ==
    ASSUME IInv, NEW t \in Tasks, Active(t),
           task[t] \notin {"done", "raised", "queued", "cancelled"},
           process[t] # "alive",
           NEW state \in {"done", "raised"}, NEW result \in Outcomes,
           state = "done" <=> result # "none",
           NEW freed, Conclude(t, state, result, freed),
           UNCHANGED <<processVars, stdout, timed_out, collected, main>>,
           logged \subseteq logged', logged' \subseteq logged \cup {t},
           result = "parse-error" => stdout[t] + pipe[t] < MetricLines,
           WriteBack(t, result)
    PROVE  Ends(t, state, result)
<1>1. waiters # <<>> => task[Head(waiters)] = "queued"
  BY QueueHead DEF IInv
<1>2. /\ task'[t] = state
      /\ \A i \in Tasks \ {t} :
            task'[i] = task[i] \/ (task[i] = "queued" /\ task'[i] = "woken")
  BY <1>1 DEF Conclude
<1>3. /\ outcome' = [outcome EXCEPT ![t] = result]
      /\ completed' = Append(completed, t)
  BY DEF Conclude
<1> QED  BY <1>2, <1>3 DEF Ends, Active, processVars

\* A task that enters the semaphore stays quiet or ends.
LEMMA EnterKind ==
    ASSUME IInv, NEW t \in Tasks, Active(t), task[t] \in {"created", "woken"},
           Enter(t)
    PROVE  Quiet \/ Ends(t, "done", "missing-config")
<1>1. process[t] # "alive"
  BY DEF IInv, AliveOK, Active
<1>2. UNCHANGED <<processVars, fileVars, stdout, timed_out, collected, main>>
  BY DEF Enter
<1>3. CASE Conclude(t, "done", "missing-config", 0)
  BY <1>1, <1>2, <1>3, ConcludeEnds DEF Outcomes, fileVars, WriteBack
<1>4. CASE /\ task' = [task EXCEPT ![t] = "spawning"]
           /\ UNCHANGED <<outcome, completed>>
  BY <1>2, <1>4 DEF Quiet, processVars, fileVars, IInv, TypeOK
<1> QED  BY <1>3, <1>4 DEF Enter

\* So does every step, except for Collect.
LEMMA StepKinds ==
    ASSUME IInv, RecordsOK, NEW t \in Tasks,
           Advance(t) \/ TimeOut(t) \/ Consume(t) \/ Simulate(t)
    PROVE  \/ Quiet
           \/ \E state \in {"done", "raised"}, result \in Outcomes :
                 Ends(t, state, result)
<1> USE DEF IInv
<1>0. task \in [Tasks -> TaskStates] /\ process \in [Tasks -> ProcessStates]
  BY DEF TypeOK
<1>1. ASSUME Active(t), task[t] \in {"created", "woken"}, Enter(t) \/ Wait(t)
      PROVE  Quiet \/ Ends(t, "done", "missing-config")
  <2>1. CASE Enter(t)
    BY <1>1, <2>1, EnterKind
  <2>2. CASE Wait(t)
    BY <1>0, <1>1, <2>2 DEF Wait, Quiet, processVars, fileVars
  <2> QED  BY <1>1, <2>1, <2>2
<1>2. CASE StartTask(t)
  <2>1. Active(t) /\ task[t] = "created" /\ process[t] # "alive"
    BY <1>2 DEF StartTask, AliveOK, Active
  <2>2. CASE NoLogDirectory(t)
    <3>1. outcome[t] = "none" /\ outcome \in [Tasks -> Outcomes]
      BY <2>1 DEF RecordsOK, TypeOK
    <3>2. outcome' = [outcome EXCEPT ![t] = "none"]
      BY <2>2, <3>1 DEF NoLogDirectory
    <3>3. Ends(t, "raised", "none")
      BY <1>0, <2>1, <2>2, <3>2
         DEF NoLogDirectory, Ends, Active, processVars, fileVars, WriteBack
    <3> QED  BY <3>3 DEF Outcomes
  <2> QED  BY <1>1, <1>2, <2>1, <2>2 DEF StartTask, Outcomes
<1>3. CASE Resume(t)
  BY <1>1, <1>3 DEF Resume, Outcomes
<1>4. CASE Spawned(t)
  <2>1. Active(t) /\ task[t] = "spawning" /\ process[t] # "alive"
    BY <1>4 DEF Spawned, AliveOK, Active
  <2>2. UNCHANGED <<pipe, fileVars, stdout, timed_out, collected, main>>
    BY <1>4 DEF Spawned
  <2>3. CASE /\ task' = [task EXCEPT ![t] = "running"]
             /\ process' = [process EXCEPT ![t] = "alive"]
             /\ UNCHANGED <<outcome, completed>>
    <3> QED  BY <1>0, <2>1, <2>2, <2>3 DEF Quiet, fileVars
  <2>4. ASSUME NEW result \in {"missing-config", "error"},
               Conclude(t, "done", result, 1), UNCHANGED process
        PROVE  Ends(t, "done", result)
    BY <2>1, <2>2, <2>4, ConcludeEnds
       DEF Outcomes, fileVars, processVars, WriteBack
  <2> QED  BY <1>4, <2>3, <2>4 DEF Spawned, Outcomes
<1>5. CASE Reap(t)
  BY <1>0, <1>5 DEF Reap, Quiet, processVars, fileVars
<1>6. CASE Evaluate(t)
  <2>1. /\ Active(t) /\ task[t] = "draining" /\ process[t] # "alive"
        /\ pipe[t] = 0 /\ stdout[t] \in Nat
        /\ UNCHANGED <<processVars, stdout, timed_out, collected, main>>
    <3>1. /\ Active(t) /\ task[t] = "draining" /\ Drained(t)
          /\ UNCHANGED <<processVars, stdout, timed_out, collected, main>>
      BY <1>6 DEF Evaluate
    <3>2. stdout \in [Tasks -> 0 .. 2]
      BY DEF TypeOK, MetricLines
    <3>3. stdout[t] \in Nat
      BY <3>2
    <3> QED  BY <3>1, <3>3 DEF Drained, Dead
  <2>2. CASE /\ Conclude(t, "raised", "none", 1)
             /\ UNCHANGED fileVars
    <3>1. Ends(t, "raised", "none")
      BY <2>1, <2>2, ConcludeEnds DEF Outcomes, fileVars, WriteBack
    <3> QED  BY <3>1 DEF Outcomes
  <2>3. CASE /\ "ok" \in Verdicts(t)
             /\ Conclude(t, "raised", "none", 1)
             /\ logged' = logged \cup {t}
             /\ \E found \in {results[Configs[t]], Nothing, t} :
                   results' = [results EXCEPT ![Configs[t]] = found]
    <3>1. ~timed_out[t] /\ process[t] = "exited"
      BY <2>3 DEF Verdicts
    <3>2. WriteBack(t, "none")
      BY <2>3, <3>1 DEF WriteBack
    <3>3. Ends(t, "raised", "none")
      BY <2>1, <2>3, <3>2, ConcludeEnds DEF Outcomes
    <3> QED  BY <3>3 DEF Outcomes
  <2>4. ASSUME NEW verdict \in Verdicts(t),
               Conclude(t, "done", verdict, 1),
               logged' = logged \cup {t},
               results' = IF verdict = "ok"
                          THEN [results EXCEPT ![Configs[t]] = t] ELSE results
        PROVE  Ends(t, "done", verdict) /\ verdict \in Outcomes
    <3>1. verdict \in Outcomes /\ verdict # "none"
      BY <2>4 DEF Verdicts, Outcomes, TypeOK
    <3>2. verdict = "parse-error" => stdout[t] + pipe[t] < MetricLines
      BY <2>1, <2>4 DEF Verdicts, MetricLines
    <3>3. verdict = "ok" => ~timed_out[t] /\ process[t] = "exited"
      BY <2>4 DEF Verdicts
    <3>4. WriteBack(t, verdict)
      BY <2>4, <3>1, <3>3 DEF WriteBack
    <3> QED  BY <2>1, <2>4, <3>1, <3>2, <3>4, ConcludeEnds
  <2> QED  BY <1>6, <2>2, <2>3, <2>4 DEF Evaluate
<1>7. CASE TimeOut(t)
  <2>1. /\ Active(t) /\ task[t] = "running" /\ outcome[t] = "none"
        /\ UNCHANGED <<pipe, fileVars, stdout, collected, main>>
    BY <1>7 DEF TimeOut, RecordsOK
  <2>2. CASE /\ task' = [task EXCEPT ![t] = "draining"]
             /\ timed_out' = [timed_out EXCEPT ![t] = TRUE]
             /\ process' = [process EXCEPT
                              ![t] = IF @ = "alive" THEN "killed" ELSE @]
             /\ UNCHANGED <<outcome, completed>>
    <3>1. timed_out \in [Tasks -> BOOLEAN]
      BY DEF TypeOK
    <3> QED  BY <1>0, <2>1, <2>2, <3>1 DEF Quiet, fileVars
  <2>3. CASE Dead(t) /\ Conclude(t, "done", "error", 1)
             /\ UNCHANGED <<process, timed_out>>
    <3>1. Ends(t, "done", "error")
      BY <2>1, <2>3, ConcludeEnds
         DEF Outcomes, Dead, processVars, fileVars, WriteBack
    <3> QED  BY <3>1 DEF Outcomes
  <2> QED  BY <1>7, <2>2, <2>3 DEF TimeOut
<1>8. CASE Consume(t)
  <2>1. task[t] \notin {"done", "raised"}
    BY <1>8 DEF Consume
  <2>2. stdout \in [Tasks -> 0 .. MetricLines] /\ pipe \in [Tasks -> 0 .. PipeCapacity]
    BY DEF TypeOK
  <2> QED  BY <1>8, <2>1, <2>2 DEF Consume, Quiet, taskVars, fileVars
<1>9. CASE Simulate(t)
  <2>1. process[t] = "alive" /\ task[t] \notin {"done", "raised"}
    BY <1>9 DEF Simulate, PrintLine, Exit, ExitEarly, RecordsOK
  <2>2. pipe \in [Tasks -> 0 .. PipeCapacity]
    BY DEF TypeOK
  <2> QED  BY <1>0, <1>9, <2>1, <2>2
           DEF Simulate, PrintLine, Exit, ExitEarly, Quiet, taskVars, fileVars
<1> QED  BY <1>2, <1>3, <1>4, <1>5, <1>6, <1>7, <1>8, <1>9 DEF Advance

-----------------------------------------------------------------------------
(* What is recorded.                                                       *)

\* A task is added to those that have ended, for the first time.
LEMMA EndsKeepsRecords ==
    ASSUME IInv, RecordsOK, NEW t \in Tasks,
           NEW state \in {"done", "raised"}, NEW result \in Outcomes,
           Ends(t, state, result)
    PROVE  /\ RecordsOK'
           /\ DOMAIN completed' = 1 .. Len(completed) + 1
           /\ \A k \in DOMAIN completed : completed'[k] = completed[k]
           /\ completed'[Len(completed) + 1] = t
           /\ \A k \in DOMAIN completed : completed[k] # t
<1>1. /\ completed \in Seq(Tasks)
      /\ Len(completed) \in Nat /\ DOMAIN completed = 1 .. Len(completed)
      /\ \A k \in DOMAIN completed : completed[k] \in Tasks
      /\ collected \in 0 .. Len(completed)
      /\ outcome \in [Tasks -> Outcomes]
  BY RecordTypes DEF IInv
<1>2. completed' = Append(completed, t)
  BY DEF Ends
<1>3. /\ completed' \in Seq(Tasks)
      /\ Len(completed') = Len(completed) + 1
      /\ \A k \in 1 .. Len(completed) : completed'[k] = completed[k]
      /\ completed'[Len(completed) + 1] = t
  BY <1>1, <1>2, AppendProperties
<1>4. DOMAIN completed' = 1 .. Len(completed) + 1
  BY <1>3, LenProperties
<1>5. \A k \in DOMAIN completed : completed[k] # t
  BY DEF RecordsOK, Ends
<1>6. \A k \in DOMAIN completed : task'[completed[k]] = task[completed[k]]
  BY <1>1, <1>5 DEF RecordsOK, Ends
<1>7. \A k \in DOMAIN completed' : k \in DOMAIN completed \/ k = Len(completed) + 1
  BY <1>1, <1>4
<1>8. \A k \in DOMAIN completed' : task'[completed'[k]] \in {"done", "raised"}
  BY <1>1, <1>3, <1>6, <1>7 DEF RecordsOK, Ends
<1>9. ASSUME NEW j \in DOMAIN completed', NEW k \in DOMAIN completed', j # k
      PROVE  completed'[j] # completed'[k]
  BY <1>1, <1>3, <1>5, <1>7, <1>9 DEF RecordsOK
<1>10. \A i \in Tasks : outcome'[i] # "none" <=> task'[i] = "done"
  BY <1>1 DEF RecordsOK, Ends
<1>11. /\ \A i \in Tasks : task'[i] \in {"done", "raised"} => process'[i] # "alive"
       /\ \A i \in logged' : task'[i] \in {"done", "raised"}
  <2>1. logged' \subseteq Tasks \cup {t} /\ logged' \subseteq logged \cup {t}
    BY DEF IInv, TypeOK, Ends
  <2> QED  BY <2>1 DEF RecordsOK, Ends
<1>12. \A k \in 1 .. collected : k \in DOMAIN completed
  BY <1>1
<1>13. \A k \in 1 .. collected' : task'[completed'[k]] = "done"
  BY <1>1, <1>3, <1>6, <1>12 DEF RecordsOK, Ends
<1>14. main' = main /\ main # "done"
  BY DEF Ends
<1>15. RecordsOK'
  BY <1>8, <1>9, <1>10, <1>11, <1>13, <1>14 DEF RecordsOK, Tasks
<1> QED  BY <1>1, <1>3, <1>4, <1>5, <1>15

\* A task that judges its output has all of it.
LEMMA EndsKeepsOutput ==
    ASSUME IInv, NoOutputLost, NEW t \in Tasks,
           NEW state, NEW result \in Outcomes, Ends(t, state, result)
    PROVE  NoOutputLost'
<1>1. outcome \in [Tasks -> Outcomes]
  BY DEF IInv, TypeOK
<1>2. \A i \in Tasks : outcome'[i] = IF i = t THEN result ELSE outcome[i]
  BY <1>1 DEF Ends
<1>3. UNCHANGED <<stdout, pipe>>
  BY DEF Ends
<1> QED  BY <1>2, <1>3 DEF NoOutputLost, Ends, Tasks

\* The task that ends is the last one to write to its file, or leaves it alone.
LEMMA EndsKeepsResults ==
    ASSUME IInv, RecordsOK, ResultsOfLastSuccess, NEW t \in Tasks,
           NEW state \in {"done", "raised"}, NEW result \in Outcomes,
           Ends(t, state, result)
    PROVE  ResultsOfLastSuccess'
<1> DEFINE last == Len(completed) + 1
           wrote == result = "ok" \/ (result = "none" /\ t \in logged')
<1>1. /\ \A i \in Tasks : Configs[i] \in Files /\ i # Nothing
      /\ Len(completed) \in Nat /\ DOMAIN completed = 1 .. Len(completed)
      /\ \A k \in DOMAIN completed : completed[k] \in Tasks
      /\ outcome \in [Tasks -> Outcomes]
      /\ results \in [Files -> {Nothing} \cup Tasks]
  BY RecordTypes DEF IInv
<1>2. /\ DOMAIN completed' = 1 .. last
      /\ \A k \in DOMAIN completed : completed'[k] = completed[k]
      /\ completed'[last] = t
      /\ \A k \in DOMAIN completed : completed[k] # t
  BY EndsKeepsRecords
<1>3. /\ \A i \in Tasks : outcome'[i] = IF i = t THEN result ELSE outcome[i]
      /\ \A k \in DOMAIN completed : task'[completed[k]] = task[completed[k]]
      /\ task'[t] = "raised" <=> result = "none"
  BY <1>1, <1>2 DEF Ends, RecordsOK
<1>4. /\ UNCHANGED <<process, timed_out>>
      /\ \A i : i # t => (i \in logged' <=> i \in logged)
      /\ t \notin logged
      /\ WriteBack(t, result)
  BY DEF Ends, RecordsOK
<1>5. \A k \in DOMAIN completed : k < last
  BY <1>1
<1>6. \A k : k \in DOMAIN completed' <=> k \in DOMAIN completed \/ k = last
  BY <1>1, <1>2
<1>7. last \in Int /\ \A k \in DOMAIN completed : k \in Int
  BY <1>1
<1> HIDE DEF last
<1>8. ASSUME NEW k \in DOMAIN completed
      PROVE  LET i == completed[k]
             IN  /\ completed'[k] = i
                 /\ outcome'[i] = outcome[i]
                 /\ task'[i] = task[i]
                 /\ i \in logged' <=> i \in logged
                 /\ process'[i] = process[i] /\ timed_out'[i] = timed_out[i]
  BY <1>1, <1>2, <1>3, <1>4
<1>9. ASSUME NEW c, NEW k
      PROVE  k \in Writes(c)' <=> k \in Writes(c) \/ (k = last /\ Configs[t] = c /\ wrote)
  <2>1. CASE k \in DOMAIN completed
    BY <1>5, <1>6, <1>7, <1>8, <2>1 DEF Writes
  <2>2. CASE k \notin DOMAIN completed
    BY <1>2, <1>3, <1>6, <2>2 DEF Writes
  <2> QED  BY <2>1, <2>2
<1>10. ASSUME NEW c, NEW k \in Writes(c)
       PROVE  k \in DOMAIN completed /\ k < last /\ k \in Int /\ ~(last <= k)
  BY <1>5, <1>7 DEF Writes
<1>11. ASSUME NEW c \in Files
       PROVE  /\ \A k \in Writes(c) :
                    /\ ~timed_out[completed[k]]
                    /\ process[completed[k]] = "exited"
                    /\ completed[k] \in logged
                    /\ outcome[completed[k]] = "ok" /\ (\A j \in Writes(c) : j <= k)
                          => results[c] = completed[k]
              /\ results[c] # Nothing =>
                    \E k \in Writes(c) :
                        /\ completed[k] = results[c]
                        /\ \A j \in Writes(c) :
                              outcome[completed[j]] = "ok" => j <= k
  BY DEF ResultsOfLastSuccess
<1> SUFFICES ASSUME NEW c \in Files
             PROVE  /\ \A k \in Writes(c)' :
                          /\ ~timed_out'[completed'[k]]
                          /\ process'[completed'[k]] = "exited"
                          /\ completed'[k] \in logged'
                          /\ /\ outcome'[completed'[k]] = "ok"
                             /\ \A j \in Writes(c)' : j <= k
                             => results'[c] = completed'[k]
                    /\ results'[c] # Nothing =>
                          \E k \in Writes(c)' :
                              /\ completed'[k] = results'[c]
                              /\ \A j \in Writes(c)' :
                                    outcome'[completed'[j]] = "ok" => j <= k
  BY DEF ResultsOfLastSuccess
<1>12. CASE Configs[t] = c /\ wrote
  <2>1. /\ ~timed_out'[t] /\ process'[t] = "exited" /\ t \in logged'
        /\ results'[c] \in {results[c], Nothing, t}
        /\ result = "ok" => results'[c] = t
    BY <1>1, <1>4, <1>12 DEF WriteBack
  <2>2. last \in Writes(c)' /\ last <= last
    BY <1>7, <1>9, <1>12
  <2>3. outcome'[t] = result
    BY <1>3
  <2>4. ASSUME NEW k \in Writes(c)'
        PROVE  /\ ~timed_out'[completed'[k]]
               /\ process'[completed'[k]] = "exited"
               /\ completed'[k] \in logged'
               /\ /\ outcome'[completed'[k]] = "ok"
                  /\ \A j \in Writes(c)' : j <= k
                  => results'[c] = completed'[k]
    <3>1. CASE k = last
      BY <1>2, <2>1, <2>3, <3>1
    <3>2. CASE k \in Writes(c)
      BY <1>8, <1>10, <1>11, <2>2, <3>2
    <3> QED  BY <1>9, <3>1, <3>2
  <2>5. CASE results'[c] = t
    <3>1. \A j \in Writes(c)' : j <= last
      BY <1>7, <1>9, <1>10, <2>2
    <3> QED  BY <1>2, <2>2, <2>4, <2>5, <3>1
  <2>6. CASE results'[c] # t /\ results'[c] # Nothing
    <3>1. results'[c] = results[c] /\ result # "ok"
      BY <2>1, <2>6
    <3>2. PICK k \in Writes(c) :
              /\ completed[k] = results[c]
              /\ \A j \in Writes(c) : outcome[completed[j]] = "ok" => j <= k
      BY <1>11, <2>6, <3>1
    <3>3. \A j \in Writes(c)' : outcome'[completed'[j]] = "ok" =>
              j \in Writes(c) /\ outcome[completed[j]] = "ok"
      BY <1>2, <1>8, <1>9, <1>10, <2>3, <3>1
    <3>4. k \in Writes(c)' /\ completed'[k] = results'[c]
      BY <1>8, <1>9, <1>10, <3>1, <3>2
    <3> QED  BY <2>4, <3>2, <3>3, <3>4
  <2> QED  BY <2>4, <2>5, <2>6
<1>13. CASE ~(Configs[t] = c /\ wrote)
  <2>1. results'[c] = results[c]
    BY <1>1, <1>4, <1>13 DEF WriteBack
  <2>2. Writes(c)' = Writes(c)
    <3>1. \A k : k \in Writes(c)' <=> k \in Writes(c)
      BY <1>9, <1>13
    <3> QED  BY <3>1, Zenon
  <2>3. \A k \in Writes(c) :
            /\ completed'[k] = completed[k]
            /\ outcome'[completed[k]] = outcome[completed[k]]
            /\ completed[k] \in logged' <=> completed[k] \in logged
            /\ process'[completed[k]] = process[completed[k]]
            /\ timed_out'[completed[k]] = timed_out[completed[k]]
    BY <1>8, <1>10
  <2> QED  BY <1>11, <2>1, <2>2, <2>3
<1> QED  BY <1>12, <1>13

\* A quiet step changes nothing of all this.
LEMMA QuietKeeps ==
    ASSUME IInv, RecordsOK, NoOutputLost, ResultsOfLastSuccess, Quiet
    PROVE  RecordsOK' /\ NoOutputLost' /\ ResultsOfLastSuccess'
<1>1. /\ DOMAIN completed = 1 .. Len(completed) /\ Len(completed) \in Nat
      /\ \A k \in DOMAIN completed : completed[k] \in Tasks
      /\ collected \in 0 .. Len(completed)
  BY RecordTypes DEF IInv
<1>2. UNCHANGED <<outcome, completed, logged, results, collected, main>>
  BY DEF Quiet
<1>3. RecordsOK'
  <2>1. \A k \in DOMAIN completed : task'[completed[k]] = task[completed[k]]
    BY <1>1 DEF RecordsOK, Quiet
  <2>2. \A i \in Tasks : outcome[i] # "none" <=> task'[i] = "done"
    BY DEF RecordsOK, Quiet
  <2>3. /\ \A i \in Tasks : task'[i] \in {"done", "raised"} => process'[i] # "alive"
        /\ \A i \in logged : task'[i] \in {"done", "raised"}
    BY DEF RecordsOK, Quiet, IInv, TypeOK
  <2>4. \A k \in 1 .. collected : k \in DOMAIN completed
    BY <1>1
  <2> QED  BY <1>2, <2>1, <2>2, <2>3, <2>4 DEF RecordsOK, Tasks
<1>4. NoOutputLost'
  BY <1>2 DEF NoOutputLost, Quiet, RecordsOK, Tasks
<1>5. ResultsOfLastSuccess'
  <2>1. \A k \in DOMAIN completed :
           /\ task'[completed[k]] = task[completed[k]]
           /\ timed_out'[completed[k]] = timed_out[completed[k]]
           /\ process'[completed[k]] = process[completed[k]]
    BY <1>1 DEF Quiet, RecordsOK
  <2>2. \A c : Writes(c)' = Writes(c)
    BY <1>2, <2>1 DEF Writes
  <2>3. \A c : Writes(c) \subseteq DOMAIN completed
    BY DEF Writes
  <2> QED  BY <1>2, <2>1, <2>2, <2>3 DEF ResultsOfLastSuccess
<1> QED  BY <1>3, <1>4, <1>5

\* Collecting an outcome, or ending the batch.
LEMMA CollectRecords ==
    ASSUME IInv, RecordsOK, NoOutputLost, ResultsOfLastSuccess, Collect
    PROVE  RecordsOK' /\ NoOutputLost' /\ ResultsOfLastSuccess'
<1>1. /\ DOMAIN completed = 1 .. Len(completed) /\ Len(completed) \in Nat
      /\ \A k \in DOMAIN completed : completed[k] \in Tasks
      /\ collected \in 0 .. Len(completed) /\ collected < Len(completed)
  BY RecordTypes DEF IInv, Collect
<1>2. UNCHANGED <<outcome, completed, logged, results, process, pipe, stdout,
                  timed_out>>
  BY DEF Collect, processVars, fileVars
<1>3. NoOutputLost'
  BY <1>2 DEF NoOutputLost, Tasks
<1>4. \A i \in Tasks : /\ task[i] \in {"done", "raised"} => task'[i] = task[i]
                       /\ task'[i] \in {"done", "raised"} => task'[i] = task[i]
  BY DEF Collect
<1>5. \A k \in DOMAIN completed : task'[completed[k]] = task[completed[k]]
  BY <1>1, <1>4 DEF RecordsOK
<1>6. \A k \in 1 .. collected' : k \in DOMAIN completed /\ task[completed[k]] = "done"
  <2>1. CASE task[completed[collected + 1]] = "raised"
    <3>1. collected' = collected
      BY <2>1 DEF Collect
    <3> QED  BY <1>1, <3>1 DEF RecordsOK
  <2>2. CASE task[completed[collected + 1]] # "raised"
    <3>1. collected' = collected + 1 /\ collected + 1 \in DOMAIN completed
      BY <1>1, <2>2 DEF Collect
    <3>2. task[completed[collected + 1]] = "done"
      BY <2>2, <3>1 DEF RecordsOK
    <3>3. \A k \in 1 .. collected' : k \in 1 .. collected \/ k = collected + 1
      BY <1>1, <3>1
    <3>4. \A k \in 1 .. collected : k \in DOMAIN completed
      BY <1>1
    <3> QED  BY <3>1, <3>2, <3>3, <3>4 DEF RecordsOK
  <2> QED  BY <2>1, <2>2
<1>7. main' = "done" => collected' = Len(Configs)
  BY DEF Collect
<1>8. /\ \A i \in Tasks :
            /\ outcome[i] # "none" <=> task'[i] = "done"
            /\ task'[i] \in {"done", "raised"} => process[i] # "alive"
      /\ \A i \in logged : task'[i] \in {"done", "raised"}
  BY <1>4 DEF RecordsOK, IInv, TypeOK
<1>9. RecordsOK'
  BY <1>2, <1>5, <1>6, <1>7, <1>8 DEF RecordsOK, Tasks
<1>10. ResultsOfLastSuccess'
  <2>1. \A c : Writes(c)' = Writes(c)
    BY <1>2, <1>5 DEF Writes
  <2> QED  BY <1>2, <2>1 DEF ResultsOfLastSuccess
<1> QED  BY <1>3, <1>9, <1>10

-----------------------------------------------------------------------------
(* Who waits.                                                              *)

\* The woken tasks are finitely many.
LEMMA WokenFinite ==
    /\ Woken \in SUBSET Tasks /\ IsFiniteSet(Woken) /\ Cardinality(Woken) \in Nat
    /\ Woken' \in SUBSET Tasks /\ IsFiniteSet(Woken') /\ Cardinality(Woken') \in Nat
BY Constants DEF Woken, Tasks

\* Whoever gives a permit back wakes one more of those that wait.
LEMMA ConcludeWakes ==
    ASSUME TypeOK, QueueOK, WakeupOK, NEW t \in Tasks, task[t] # "queued",
           NEW state \in {"done", "raised"}, NEW result,
           NEW freed \in {0, 1}, freed = 1 => task[t] # "woken",
           Conclude(t, state, result, freed)
    PROVE  WakeupOK'
<1> SUFFICES ASSUME waiters' # <<>>
             PROVE  permits' <= Cardinality(Woken')
  BY DEF WakeupOK
<1>1. waiters # <<>> /\ permits' = permits + freed /\ permits \in Nat
  BY Constants DEF Conclude, TypeOK
<1> DEFINE h == Head(waiters)
<1>2. h \in Tasks /\ task[h] = "queued" /\ h # t
  BY <1>1, QueueHead
<1>3. \A i \in Tasks : task'[i] = IF i = t THEN state
                                  ELSE IF i = h THEN "woken" ELSE task[i]
  BY <1>1 DEF Conclude
<1> HIDE DEF h
<1>4. Woken' = (Woken \ {t}) \cup {h} /\ h \notin Woken \ {t}
  BY <1>2, <1>3 DEF Woken, Tasks
<1>5. /\ IsFiniteSet(Woken \ {t})
      /\ Cardinality(Woken \ {t})
           = IF t \in Woken THEN Cardinality(Woken) - 1 ELSE Cardinality(Woken)
  BY WokenFinite, FS_RemoveElement
<1>6. Cardinality(Woken') = Cardinality(Woken \ {t}) + 1
  BY <1>4, <1>5, FS_AddElement
<1>7. t \in Woken => freed = 0
  BY DEF Woken
<1>8. permits <= Cardinality(Woken) /\ Cardinality(Woken) \in Nat
  BY <1>1, WokenFinite DEF WakeupOK
<1> QED  BY <1>1, <1>5, <1>6, <1>7, <1>8

\* A task takes a permit, waits for one, or ends.
LEMMA EnterWaitWakes ==
    ASSUME IInv, WakeupOK, NEW t \in Tasks, Active(t),
           task[t] \in {"created", "woken"}, Enter(t) \/ Wait(t)
    PROVE  WakeupOK'
<1> USE DEF IInv
<1>1. CASE Conclude(t, "done", "missing-config", 0)
  BY <1>1, ConcludeWakes
<1>2. CASE /\ task' = [task EXCEPT ![t] = "spawning"]
           /\ permits' = permits - 1
           /\ UNCHANGED waiters
  <2>1. Woken' = Woken \ {t}
    BY <1>2 DEF Woken, TypeOK, Tasks
  <2>2. Cardinality(Woken') >= Cardinality(Woken) - 1
    BY <2>1, WokenFinite, FS_RemoveElement
  <2>3. permits \in Nat
    BY Constants DEF TypeOK
  <2> QED  BY <1>2, <2>2, <2>3, WokenFinite DEF WakeupOK
<1>3. CASE permits = 0 /\ permits' = permits
  BY <1>3, WokenFinite DEF WakeupOK
<1> QED  BY <1>1, <1>2, <1>3 DEF Enter, Wait

\* The other steps.
LEMMA StepWakes ==
    ASSUME IInv, WakeupOK, NEW t \in Tasks,
           Advance(t) \/ TimeOut(t) \/ Consume(t) \/ Simulate(t)
    PROVE  WakeupOK'
<1> USE DEF IInv
<1>0. task \in [Tasks -> TaskStates]
  BY DEF TypeOK
<1>1. ASSUME UNCHANGED <<permits, waiters>>, task[t] # "woken",
             NEW state, state # "woken",
             task' = task \/ task' = [task EXCEPT ![t] = state]
      PROVE  WakeupOK'
  <2>1. Woken' = Woken
    BY <1>0, <1>1 DEF Woken, Tasks
  <2> QED  BY <1>1, <2>1 DEF WakeupOK
<1>2. ASSUME NEW state \in {"done", "raised"}, NEW result,
             task[t] \in {"spawning", "running", "draining"},
             Conclude(t, state, result, 1)
      PROVE  WakeupOK'
  BY <1>2, ConcludeWakes
<1>3. CASE StartTask(t)
  <2>1. task[t] = "created"
    BY <1>3 DEF StartTask
  <2>2. CASE NoLogDirectory(t)
    BY <1>1, <2>1, <2>2 DEF NoLogDirectory
  <2> QED  BY <1>3, <2>1, <2>2, EnterWaitWakes DEF StartTask
<1>4. CASE Resume(t)
  BY <1>4, EnterWaitWakes DEF Resume
<1>5. CASE Spawned(t)
  BY <1>1, <1>2, <1>5 DEF Spawned
<1>6. CASE Reap(t)
  BY <1>1, <1>6 DEF Reap
<1>7. CASE Evaluate(t)
  <2>1. /\ task[t] = "draining"
        /\ \E state \in {"done", "raised"} : \E result :
              Conclude(t, state, result, 1)
    BY <1>7 DEF Evaluate
  <2> QED  BY <1>2, <2>1
<1>8. CASE TimeOut(t)
  BY <1>1, <1>2, <1>8 DEF TimeOut
<1>9. CASE Consume(t) \/ Simulate(t)
  <2>1. UNCHANGED <<task, permits, waiters>>
    BY <1>9 DEF Consume, Simulate, PrintLine, Exit, ExitEarly, taskVars
  <2> QED  BY <2>1 DEF WakeupOK, Woken, Tasks
<1> QED  BY <1>3, <1>4, <1>5, <1>6, <1>7, <1>8, <1>9 DEF Advance

\* Collecting wakes nobody, and ending the batch leaves nobody waiting.
LEMMA CollectWakes == WakeupOK /\ Collect => WakeupOK'
BY DEF WakeupOK, Collect, Woken, Tasks

-----------------------------------------------------------------------------
(* The theorems.                                                           *)

\* The batch starts with nothing recorded and nobody waiting.
LEMMA InitOInv == Init => OInv
<1> SUFFICES ASSUME Init PROVE OInv
  OBVIOUS
<1>1. completed = <<>> /\ collected = 0 /\ waiters = <<>>
  BY DEF Init
<1>2. \A t \in Tasks : outcome[t] = "none" /\ task[t] = "created"
  BY DEF Init
<1>3. Len(Configs) \in Nat /\ (Configs = <<>> => Len(Configs) = 0)
  BY ConfigsAssumption, LenProperties, EmptySeq
<1>4. DOMAIN completed = {}
  BY <1>1
<1>5. RecordsOK
  BY <1>1, <1>2, <1>3, <1>4 DEF RecordsOK, Init
<1>6. WakeupOK
  BY <1>1 DEF WakeupOK
<1>7. NoOutputLost
  BY <1>2 DEF NoOutputLost
<1>8. ResultsOfLastSuccess
  BY <1>4 DEF ResultsOfLastSuccess, Writes, Init
<1> QED  BY <1>5, <1>6, <1>7, <1>8 DEF OInv

\* Every step keeps the invariant.
LEMMA NextOInv == IInv /\ OInv /\ [Next]_vars => OInv'
<1> SUFFICES ASSUME IInv, OInv, [Next]_vars PROVE OInv'
  OBVIOUS
<1>1. ASSUME NEW t \in Tasks,
             Advance(t) \/ TimeOut(t) \/ Consume(t) \/ Simulate(t)
      PROVE  OInv'
  <2>1. WakeupOK'
    BY <1>1, StepWakes DEF OInv
  <2>2. CASE Quiet
    BY <2>1, <2>2, QuietKeeps DEF OInv
  <2>3. ASSUME NEW state \in {"done", "raised"}, NEW result \in Outcomes,
               Ends(t, state, result)
        PROVE  OInv'
    BY <2>1, <2>3, EndsKeepsRecords, EndsKeepsOutput, EndsKeepsResults DEF OInv
  <2>4. \/ Quiet
        \/ \E state \in {"done", "raised"}, result \in Outcomes :
              Ends(t, state, result)
    BY <1>1, StepKinds DEF OInv
  <2> QED  BY <2>2, <2>3, <2>4
<1>2. CASE Collect
  BY <1>2, CollectRecords, CollectWakes DEF OInv
<1>3. CASE UNCHANGED vars
  BY <1>3 DEF vars, taskVars, processVars, fileVars, OInv, RecordsOK, WakeupOK,
              Woken, NoOutputLost, ResultsOfLastSuccess, Writes, Tasks
<1> QED  BY <1>1, <1>2, <1>3 DEF Next

\* Both invariants hold in every run.
LEMMA OutcomeInvariance == Spec => [](IInv /\ OInv)
<1>1. Init => IInv /\ OInv
  BY InitIInv, InitOInv
<1>2. IInv /\ OInv /\ [Next]_vars => (IInv /\ OInv)'
  BY NextIInv, NextOInv
<1> QED  BY <1>1, <1>2, PTL DEF Spec

\* Whenever a permit is free and a task waits for one, a task has been woken
\* that will look: a release never goes unheard (run_parallel.py:207-293).
THEOREM WaitersAreWoken == Spec => []NoLostWakeup
<1>1. IInv /\ OInv => NoLostWakeup
  <2> SUFFICES ASSUME IInv, OInv, waiters # <<>>, permits > 0
               PROVE  \E t \in Tasks : task[t] = "woken"
    BY DEF NoLostWakeup
  <2>1. permits \in Nat /\ permits <= Cardinality(Woken)
    BY Constants DEF IInv, TypeOK, OInv, WakeupOK
  <2>2. Cardinality(Woken) # 0
    BY <2>1, WokenFinite
  <2>3. Woken # {}
    BY <2>2, WokenFinite, FS_EmptySet
  <2> QED  BY <2>3 DEF Woken
<1> QED  BY <1>1, OutcomeInvariance, PTL

\* No simulation is judged by a part of its output, for any capacity of the
\* pipe (runner_core.py:198-211, run_parallel.py:251-258).
THEOREM OutputComplete == Spec => []NoOutputLost
<1>1. OInv => NoOutputLost
  BY DEF OInv
<1> QED  BY <1>1, OutcomeInvariance, PTL

\* However the tasks of one file interleave, the file shows the results of
\* the one that was recorded last as a success, unless a later task broke off
\* while it wrote, and never older ones (run_parallel.py:235-293,
\* runner_core.py:66-100).
THEOREM LastSuccessWins == Spec => []ResultsOfLastSuccess
<1>1. OInv => ResultsOfLastSuccess
  BY DEF OInv
<1> QED  BY <1>1, OutcomeInvariance, PTL

\* A batch of any length that ends normally has one outcome for every
\* configuration (run_parallel.py:315-319).
THEOREM EveryTaskRecorded == Spec => []OneOutcomeEach
<1>1. IInv /\ OInv => OneOutcomeEach
  <2> SUFFICES ASSUME IInv, OInv, main = "done"
               PROVE  /\ Len(completed) = Len(Configs)
                      /\ \A t \in Tasks :
                            /\ outcome[t] # "none"
                            /\ Cardinality({k \in DOMAIN completed :
                                               completed[k] = t}) = 1
    BY DEF OneOutcomeEach
  <2>1. /\ Len(Configs) \in Nat /\ Tasks = 1 .. Len(Configs)
        /\ Len(completed) \in Nat /\ DOMAIN completed = 1 .. Len(completed)
        /\ \A k \in DOMAIN completed : completed[k] \in Tasks
        /\ completed \in Seq(Tasks)
        /\ collected \in 0 .. Len(completed)
    BY RecordTypes DEF IInv
  <2>2. /\ collected = Len(Configs)
        /\ \A j, k \in DOMAIN completed : j # k => completed[j] # completed[k]
        /\ \A k \in 1 .. collected : task[completed[k]] = "done"
        /\ \A t \in Tasks : outcome[t] # "none" <=> task[t] = "done"
    BY DEF OInv, RecordsOK
  <2>3. completed \in Injection(DOMAIN completed, Tasks)
    <3>1. completed \in [DOMAIN completed -> Tasks]
      BY <2>1
    <3> QED  BY <2>2, <3>1 DEF Injection, IsInjective
  <2>4. /\ Cardinality(Tasks) = Len(Configs)
        /\ Cardinality(DOMAIN completed) = Len(completed)
    <3>1. \A n \in Nat : Cardinality(1 .. n) = n
      <4> SUFFICES ASSUME NEW n \in Nat PROVE Cardinality(1 .. n) = n
        OBVIOUS
      <4>1. Cardinality(1 .. n) = IF 1 > n THEN 0 ELSE n - 1 + 1
        BY FS_Interval
      <4> QED  BY <4>1
    <3> QED  BY <2>1, <3>1
  <2>5. /\ Cardinality(DOMAIN completed) <= Cardinality(Tasks)
        /\ Cardinality(DOMAIN completed) = Cardinality(Tasks)
              <=> completed \in Surjection(DOMAIN completed, Tasks)
    BY <2>3, Constants, FS_Injection
  <2>6. Len(completed) = Len(Configs)
    <3>1. Len(completed) <= Len(Configs)
      BY <2>4, <2>5
    <3>2. Len(Configs) <= Len(completed) /\ Len(Configs) \in Nat
          /\ Len(completed) \in Nat
      BY <2>1, <2>2
    <3> QED  BY <3>1, <3>2
  <2>7. \A t \in Tasks : \E k \in DOMAIN completed : completed[k] = t
    BY <2>4, <2>5, <2>6 DEF Surjection
  <2>8. ASSUME NEW t \in Tasks
        PROVE  /\ outcome[t] # "none"
               /\ Cardinality({k \in DOMAIN completed : completed[k] = t}) = 1
    <3>1. PICK k \in DOMAIN completed : completed[k] = t
      BY <2>7
    <3>2. k \in 1 .. collected
      BY <2>1, <2>2, <2>6
    <3>3. {j \in DOMAIN completed : completed[j] = t} = {k}
      BY <2>2, <3>1
    <3> QED  BY <2>2, <3>1, <3>2, <3>3, FS_Singleton
  <2> QED  BY <2>6, <2>8
<1> QED  BY <1>1, OutcomeInvariance, PTL

=============================================================================
