------------------------- MODULE OptimizationSearch -------------------------
(* KernelAgent's search for a faster kernel: in each round the strategy, greedy or beam
   search, hands its programs to worker processes, and what they bring back goes into the
   strategy and into a database that is one JSON file
   (triton_kernel_agent/opt_manager.py, searching/strategy/*.py, searching/history/json_db.py).
   The processes share a queue per round and, for as long as the manager lives, a lock
   around every benchmark (platform/nvidia.py, benchmarking/benchmark.py).  Several runs
   may use one database file. *)
EXTENDS Integers, Sequences, FiniteSets, Functions

CONSTANTS
    Strategies,         \* "greedy", "beam"
    NumTopKernels,      \* num_top_kernels
    NumBottlenecks,     \* num_bottlenecks
    MaxNoImprovement,   \* max_no_improvement
    MaxRounds,          \* max_rounds
    MaxTime,            \* bound: measured times are 1 .. MaxTime
    MaxRuns             \* bound: runs on one database file

ASSUME SearchAssumption ==
    /\ Strategies \subseteq {"greedy", "beam"}
    /\ {NumTopKernels, NumBottlenecks, MaxNoImprovement, MaxRounds, MaxTime} \subseteq Nat \ {0}
    /\ MaxRuns \in Nat

VARIABLES
    run,             \* how many managers were made
    strategy,
    manager,         \* where run_optimization is
    round,
    top,             \* top_kernels; for greedy the one best_program
    no_improvement,  \* no_improvement_count
    database,        \* the programs in memory
    file,            \* the programs in the file, if it is whole
    finished,        \* history: the results of all rounds that were saved, of all runs
    lock,            \* the worker that holds benchmark_lock, or 0
    joined,          \* the workers joined in this round
    pipe,            \* the complete results in result_queue
    torn,            \* a process was killed with its result half-written
    results,         \* the results collected in this round
    worker           \* the processes of this round

workerVars == <<lock, pipe, torn, worker>>
searchVars == <<strategy, top, no_improvement, database>>
vars == <<run, manager, round, file, finished, joined, results, workerVars, searchVars>>

Infinite == MaxTime + 1
MaxWorkers == NumTopKernels * NumBottlenecks
Workers == 1 .. MaxWorkers

Program == [run : 1 .. MaxRuns, round : 0 .. MaxRounds, worker : 0 .. MaxWorkers, time : 1 .. Infinite]
Initial == [run |-> run, round |-> 0, worker |-> 0, time |-> Infinite]

(* The program_id is made of the round and the worker. *)
SameId(p, q) == p.round = q.round /\ p.worker = q.worker

Result == [worker : Workers, success : BOOLEAN, time : 1 .. Infinite]

Torn == [whole |-> FALSE, programs |-> {}]
Whole(programs) == [whole |-> TRUE, programs |-> programs]

WorkerState == [state : {"absent", "running", "benchmarking", "writing", "exited", "killed"},
                left : 0 .. 2,      \* the benchmarks before it has a result
                found : 0 .. Infinite]  \* the time it reports, 0 for none
Absent == [state |-> "absent", left |-> 0, found |-> 0]

Alive(w) == worker[w].state \in {"running", "benchmarking", "writing"}

TypeOK ==
    /\ run \in 0 .. MaxRuns
    /\ strategy \in {"greedy", "beam"}
    /\ manager \in {"off", "choosing", "joining", "collecting", "saving", "writing", "checking", "done"}
    /\ round \in 0 .. MaxRounds
    /\ top \in Seq(Program) /\ Len(top) <= NumTopKernels
    /\ no_improvement \in 0 .. MaxNoImprovement
    /\ database \subseteq Program
    /\ file.whole \in BOOLEAN /\ file.programs \subseteq Program
    /\ finished \subseteq Program
    /\ lock \in 0 .. MaxWorkers
    /\ joined \in 0 .. MaxWorkers
    /\ pipe \in Seq(Result)
    /\ torn \in BOOLEAN
    /\ results \in Seq(Result)
    /\ worker \in [Workers -> WorkerState]

Init ==
    /\ run = 0
    /\ strategy \in Strategies
    /\ manager = "off"
    /\ round = 0
    /\ top = <<>>
    /\ no_improvement = 0
    /\ database = {}
    /\ file = Whole({})
    /\ finished = {}
    /\ lock = 0
    /\ joined = 0
    /\ pipe = <<>>
    /\ torn = FALSE
    /\ results = <<>>
    /\ worker = [w \in Workers |-> Absent]

-----------------------------------------------------------------------------
(* The strategies *)

NumWorkers == IF strategy = "greedy" THEN 1 ELSE MaxWorkers

(* select_candidates: the program a worker starts from. *)
Parent(w) == top[((w - 1) \div NumBottlenecks) + 1]

(* What the workers of the round found, in the order of the results. *)
EntryOf(r) == [run |-> run, round |-> round, worker |-> r.worker, time |-> r.time]
Entries ==
    LET successes == {i \in DOMAIN results : results[i].success}
        Place(i) == Cardinality({j \in successes : j <= i})
    IN  [k \in 1 .. Cardinality(successes) |->
            EntryOf(results[CHOOSE i \in successes : Place(i) = k])]

(* list.sort by time, which is stable *)
ByTime(programs) ==
    LET NotAfter(i, j) == \/ programs[i].time < programs[j].time
                          \/ programs[i].time = programs[j].time /\ i <= j
        Place(i) == Cardinality({j \in DOMAIN programs : NotAfter(j, i)})
    IN  [k \in DOMAIN programs |-> programs[CHOOSE i \in DOMAIN programs : Place(i) = k]]

(* Mutant: the beam of the round before is forgotten when there is a new one. *)
UpdateBeamAfresh ==
    /\ top' = IF Len(Entries) >= NumTopKernels
              THEN SubSeq(ByTime(Entries), 1, NumTopKernels)
              ELSE SubSeq(ByTime(top \o Entries), 1, NumTopKernels)
    /\ UNCHANGED no_improvement

UpdateBeam ==
    /\ top' = SubSeq(ByTime(top \o Entries), 1, NumTopKernels)
    /\ UNCHANGED no_improvement

(* A round without a successful result does not count as one without improvement. *)
UpdateGreedy ==
    IF Entries = <<>>
    THEN UNCHANGED <<top, no_improvement>>
    ELSE IF Entries[1].time < top[1].time
         THEN top' = Entries /\ no_improvement' = 0
         ELSE no_improvement' = no_improvement + 1 /\ UNCHANGED top

Exhausted ==
    \/ round = MaxRounds
    \/ strategy = "greedy" /\ no_improvement >= MaxNoImprovement

-----------------------------------------------------------------------------
(* The manager *)

(* A manager begins with what it has read from the database file, and cannot be made when
   that is torn; then its run ends at once if the initial kernel does not pass. *)
StartRunOn(programs) ==
    /\ manager \in {"off", "done"}
    /\ run < MaxRuns
    /\ file.whole
    /\ run' = run + 1
    /\ manager' \in {"choosing", "done"}
    /\ round' = 0
    /\ strategy' \in Strategies
    /\ top' = [i \in 1 .. (IF strategy' = "greedy" THEN 1 ELSE NumTopKernels) |-> Initial']
    /\ no_improvement' = 0
    /\ database' = programs
    /\ lock' = 0
    /\ joined' = 0
    /\ pipe' = <<>>
    /\ torn' = FALSE
    /\ results' = <<>>
    /\ worker' = [w \in Workers |-> Absent]
    /\ UNCHANGED <<file, finished>>

(* Mutant: the file is not read. *)
StartRunAfresh == StartRunOn({})

StartRun == StartRunOn(file.programs)

(* Without a time of its parent a worker measures the parent too. *)
SpawnWorkers ==
    /\ manager = "choosing"
    /\ manager' = "joining"
    /\ round' = round + 1
    /\ joined' = 0
    /\ pipe' = <<>>
    /\ results' = <<>>
    /\ worker' = [w \in Workers |->
                     IF w <= NumWorkers
                     THEN [state |-> "running", left |-> IF Parent(w).time = Infinite THEN 2 ELSE 1,
                           found |-> 0]
                     ELSE Absent]
    /\ UNCHANGED <<run, file, finished, lock, torn, searchVars>>

(* Mutant: join() without a deadline. *)
JoinEnded ==
    /\ manager = "joining"
    /\ joined < NumWorkers
    /\ ~Alive(joined + 1)
    /\ joined' = joined + 1
    /\ UNCHANGED <<run, manager, round, file, finished, results, workerVars, searchVars>>

(* join with what is left of 30 minutes; a worker that is still alive then is terminated
   or killed, whatever it holds. *)
JoinWorker ==
    /\ manager = "joining"
    /\ joined < NumWorkers
    /\ joined' = joined + 1
    /\ IF Alive(joined + 1)
       THEN /\ worker' = [worker EXCEPT ![joined + 1].state = "killed"]
            /\ torn' = (torn \/ worker[joined + 1].state = "writing")
       ELSE UNCHANGED <<worker, torn>>
    /\ UNCHANGED <<run, manager, round, file, finished, results, lock, pipe, searchVars>>

(* Only then the queue is read. *)
BeginCollecting ==
    /\ manager = "joining"
    /\ joined = NumWorkers
    /\ manager' = "collecting"
    /\ UNCHANGED <<run, round, file, finished, joined, results, workerVars, searchVars>>

CollectResult ==
    /\ manager = "collecting"
    /\ pipe # <<>>
    /\ results' = Append(results, Head(pipe))
    /\ pipe' = Tail(pipe)
    /\ UNCHANGED <<run, manager, round, file, finished, joined, lock, torn, worker, searchVars>>

(* Mutant: the update happens with the first result. *)
UpdateWithFirstResult ==
    /\ manager = "collecting"
    /\ results # <<>> \/ pipe = <<>>
    /\ ~torn
    /\ IF strategy = "greedy" THEN UpdateGreedy ELSE UpdateBeam
    /\ database' = {p \in database : \A i \in DOMAIN Entries : ~SameId(p, Entries[i])} \cup Range(Entries)
    /\ manager' = "saving"
    /\ UNCHANGED <<run, round, file, finished, joined, results, workerVars, strategy>>

(* update_with_results, up to the save.  Half a result at the end of the queue would be
   waited for: the manager has no step any more. *)
UpdateWithResults ==
    /\ manager = "collecting"
    /\ pipe = <<>>
    /\ ~torn
    /\ IF strategy = "greedy" THEN UpdateGreedy ELSE UpdateBeam
    /\ database' = {p \in database : \A i \in DOMAIN Entries : ~SameId(p, Entries[i])} \cup Range(Entries)
    /\ manager' = "saving"
    /\ UNCHANGED <<run, round, file, finished, joined, results, workerVars, strategy>>

(* open(path, "w") empties the file before it is filled. *)
OpenDatabase ==
    /\ manager = "saving"
    /\ file' = Torn
    /\ manager' = "writing"
    /\ UNCHANGED <<run, round, finished, joined, results, workerVars, searchVars>>

FillDatabase ==
    /\ manager = "writing"
    /\ file' = Whole(database)
    /\ finished' = finished \cup Range(Entries)
    /\ manager' = "checking"
    /\ UNCHANGED <<run, round, joined, results, workerVars, searchVars>>

ShouldTerminate ==
    /\ manager = "checking"
    /\ manager' = IF Exhausted THEN "done" ELSE "choosing"
    /\ UNCHANGED <<run, round, file, finished, joined, results, workerVars, searchVars>>

(* The manager's process is killed, and its lock and its queue are gone with it. *)
Crash ==
    /\ manager \notin {"off", "done"}
    /\ manager' = "off"
    /\ worker' = [w \in Workers |-> Absent]
    /\ UNCHANGED <<run, round, file, finished, joined, results, lock, pipe, torn, searchVars>>

-----------------------------------------------------------------------------
(* A worker process: one round of optimize_kernel on its parent. *)

AcquireLock(w) ==
    /\ worker[w].state = "running"
    /\ worker[w].left > 0
    /\ lock = 0
    /\ lock' = w
    /\ worker' = [worker EXCEPT ![w].state = "benchmarking"]
    /\ UNCHANGED <<run, manager, round, file, finished, joined, results, pipe, torn, searchVars>>

(* The benchmark's subprocess ends or times out, and the with statement is left. *)
ReleaseLock(w) ==
    /\ worker[w].state = "benchmarking"
    /\ lock' = 0
    /\ worker' = [worker EXCEPT ![w].state = "running", ![w].left = @ - 1]
    /\ UNCHANGED <<run, manager, round, file, finished, joined, results, pipe, torn, searchVars>>

(* A worker that measured a kernel that passed reports the faster one of it and its
   parent; one that has no analysis, no kernel or no kernel that passes, or that raises,
   reports no success.  The result goes into the pipe if it fits, else its writer waits
   there, with every writer after it. *)
Put(w, result) ==
    /\ \A o \in Workers : worker[o].state # "writing"
    /\ \/ /\ pipe' = Append(pipe, result)
          /\ worker' = [worker EXCEPT ![w].state = "exited",
                                      ![w].found = IF result.success THEN result.time ELSE 0]
       \/ /\ worker' = [worker EXCEPT ![w].state = "writing"]
          /\ UNCHANGED pipe

ReportSuccess(w) ==
    /\ worker[w].state = "running"
    /\ worker[w].left = 0
    /\ \E time \in 1 .. MaxTime :
           /\ time <= Parent(w).time
           /\ Put(w, [worker |-> w, success |-> TRUE, time |-> time])
    /\ UNCHANGED <<run, manager, round, file, finished, joined, results, lock, torn, searchVars>>

ReportFailure(w) ==
    /\ worker[w].state = "running"
    /\ Put(w, [worker |-> w, success |-> FALSE, time |-> Infinite])
    /\ UNCHANGED <<run, manager, round, file, finished, joined, results, lock, torn, searchVars>>

-----------------------------------------------------------------------------
Manage ==
    \/ SpawnWorkers
    \/ JoinWorker
    \/ BeginCollecting
    \/ CollectResult
    \/ UpdateWithResults
    \/ OpenDatabase
    \/ FillDatabase
    \/ ShouldTerminate

Work(w) ==
    \/ AcquireLock(w)
    \/ ReleaseLock(w)
    \/ ReportSuccess(w)
    \/ ReportFailure(w)

Next == StartRun \/ Manage \/ Crash \/ \E w \in Workers : Work(w)

Spec == Init /\ [][Next]_vars

(* The manager's joins have a deadline and everything else it does ends.  A worker need
   not get anywhere: its benchmark lock has no deadline. *)
FairSpec == Spec /\ WF_vars(Manage)

-----------------------------------------------------------------------------
Found == {p \in database : p.run = run}

(* Between two rounds the strategy goes on from the best programs this run has found in
   any round: it forgets none for a slower one, with every order in which the results of
   a round arrive, and with results that were lost. *)
SearchKeepsBest ==
    manager \in {"choosing", "checking", "done"} =>
        \A p \in Found :
            \/ p \in Range(top)
            \/ \A i \in DOMAIN top : top[i].time <= p.time

(* A success that reached the queue is in the database when the round is over, although
   the queue is read after the processes are gone. *)
SuccessesAreKept ==
    manager = "checking" =>
        \A w \in Workers :
            worker[w].state = "exited" /\ worker[w].found # 0 =>
                [run |-> run, round |-> round, worker |-> w, time |-> worker[w].found] \in database

(* A program is among others, or one of a later run that has its id stands in its place. *)
KeptIn(programs, p) ==
    p \in programs \/ \E q \in programs : SameId(p, q) /\ q.run > p.run

(* Wherever managers are killed, a file that can be read has what every finished round of
   every run has found, and nothing else; only a program of a later run that has the id
   of an earlier one's stands in its place. *)
FileHasFinishedRounds ==
    file.whole =>
        /\ \A p \in finished : KeptIn(file.programs, p)
        /\ file.programs \subseteq finished

(* A run ends, whichever workers hang or are killed with the benchmark lock in hand; only
   a worker killed with half a result in the queue, or a crash, stops the manager. *)
SearchEnds == manager = "choosing" ~> manager \in {"done", "off"} \/ torn
=============================================================================
