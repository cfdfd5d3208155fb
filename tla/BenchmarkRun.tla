---------------------------- MODULE BenchmarkRun ----------------------------
(***************************************************************************)
(* One run directory of KernelBench and the commands that fill it:         *)
(* generate_samples.py asks a model for the kernels that are not there     *)
(* yet, with a pool of threads, and eval_from_generations.py evaluates the *)
(* samples that have no result yet, a batch of processes at a time, builds *)
(* them in a cache and appends their results to one file.  A command may   *)
(* be killed at any point, and the next one continues from the files.      *)
(***************************************************************************)
EXTENDS Integers, Sequences, FiniteSets, FiniteSetsExt

CONSTANTS
    NumProblems,     \* problems of the level, or of config.subset
    SampleCounts,    \* what num_samples and num_samples_per_problem may be
    NumWorkers,      \* threads of a generation
    NumGpus,         \* processes of an evaluation batch
    PassAtKValues,   \* config.pass_at_k_values
    MaxCommands,     \* bound on the commands of a behaviour
    Torn             \* a file that was truncated and not filled

Problems == 1..NumProblems
SampleIds == UNION {0..(n - 1) : n \in SampleCounts}
Samples == Problems \X SampleIds
Record == [sample_id : SampleIds, correctness : BOOLEAN]

ASSUME BenchmarkAssumption ==
    /\ NumProblems \in Nat
    /\ SampleCounts \subseteq Nat \ {0} /\ IsFiniteSet(SampleCounts)
    /\ NumGpus \in Nat \ {0}
    /\ PassAtKValues \subseteq Nat
    /\ Torn \notin [Problems -> Seq(Record)]

(* What evaluate_single_sample returns ("none": a build told to be tried again) or raises. *)
Returned == {"correct", "failed", "none", "raised"}

VARIABLES
    kernel,      \* the kernel file of every sample
    results,     \* eval_results.json: the records of every problem, or Torn
    cache,       \* the build directory of every sample; "building" holds its lock
    passAtK,     \* pass_at_k_results.json, for the problems and values of k
    pc,          \* where the command is; "idle" between two
    work,        \* samples still to be generated or evaluated
    todo,        \* the samples the evaluation began with
    batch,       \* samples of the current batch
    task,        \* what the thread or process of a sample does
    overdue,     \* the batch has used up config.timeout
    collected,   \* results of the batch, in the order of its samples
    saved,       \* how many of them are in the file
    loaded,      \* eval_results, while its file is truncated
    samplesEach, \* num_samples_per_problem of the evaluation
    ended,       \* how the last command ended
    commands     \* commands started so far

files == <<kernel, results, cache, passAtK>>
batchVars == <<batch, overdue, collected, saved, loaded>>
vars == <<files, batchVars, pc, work, todo, task, samplesEach, ended, commands>>

NoResults == [p \in Problems |-> <<>>]

Idle == [s \in Samples |-> "none"]

NoBatch ==
    /\ batch' = <<>>
    /\ overdue' = FALSE
    /\ collected' = <<>>
    /\ saved' = 0
    /\ loaded' = NoResults

Init ==
    /\ kernel = [s \in Samples |-> "absent"]
    /\ results = NoResults
    /\ cache = [s \in Samples |-> "absent"]
    /\ passAtK = {}
    /\ pc = "idle"
    /\ work = <<>>
    /\ todo = {}
    /\ batch = <<>>
    /\ task = Idle
    /\ overdue = FALSE
    /\ collected = <<>>
    /\ saved = 0
    /\ loaded = NoResults
    /\ samplesEach = 1
    /\ ended = "none"
    /\ commands = 0

(* Samples in the order both commands go through them: problem by problem. *)
SampleList(samples) ==
    LET NotAfter(s, t) == s[1] < t[1] \/ (s[1] = t[1] /\ s[2] <= t[2])
        Place(s) == Cardinality({t \in samples : NotAfter(t, s)})
    IN  [k \in 1..Cardinality(samples) |-> CHOOSE s \in samples : Place(s) = k]

EndCommand(how) ==
    /\ pc' = "idle"
    /\ ended' = how
    /\ work' = <<>>
    /\ task' = Idle
    /\ NoBatch
-----------------------------------------------------------------------------
(* generate_samples.py *)

(* A file that a killed command left torn exists. *)
StartGeneration ==
    /\ pc = "idle"
    /\ commands < MaxCommands
    /\ commands' = commands + 1
    /\ \E n \in SampleCounts :
          work' = SampleList({s \in Samples : s[2] < n /\ kernel[s] = "absent"})
    /\ pc' = "generating"
    /\ todo' = {}
    /\ UNCHANGED <<files, batchVars, task, samplesEach, ended>>

QueryServer ==
    /\ pc = "generating"
    /\ work # <<>>
    /\ Cardinality({s \in Samples : task[s] # "none"}) < NumWorkers
    /\ task' = [task EXCEPT ![Head(work)] = "asking"]
    /\ work' = Tail(work)
    /\ UNCHANGED <<files, batchVars, pc, todo, samplesEach, ended, commands>>

(* The server's answer has a kernel the checks accept; or the sample is given up. *)
OpenKernel(s) ==
    /\ task[s] = "asking"
    /\ \/ /\ task' = [task EXCEPT ![s] = "writing"]
          /\ kernel' = [kernel EXCEPT ![s] = "torn"]
       \/ /\ task' = [task EXCEPT ![s] = "none"]
          /\ UNCHANGED kernel
    /\ UNCHANGED <<results, cache, passAtK, batchVars, pc, work, todo, samplesEach,
                   ended, commands>>

FillKernel(s) ==
    /\ task[s] = "writing"
    /\ task' = [task EXCEPT ![s] = "none"]
    /\ kernel' = [kernel EXCEPT ![s] = "whole"]
    /\ UNCHANGED <<results, cache, passAtK, batchVars, pc, work, todo, samplesEach,
                   ended, commands>>

EndGeneration ==
    /\ pc = "generating"
    /\ work = <<>>
    /\ task = Idle
    /\ EndCommand("normally")
    /\ UNCHANGED <<files, todo, samplesEach, commands>>
-----------------------------------------------------------------------------
(* eval_from_generations.py: the command *)

(* Mutant: every sample is taken for new. *)
EvaluateAgain(s) == TRUE

(* A problem with any result at all is passed over, all samples of it. *)
Unevaluated(s) == results[s[1]] = <<>>

(* json.load raises at a torn file. *)
StartEvaluation ==
    /\ pc = "idle"
    /\ commands < MaxCommands
    /\ commands' = commands + 1
    /\ samplesEach' \in SampleCounts
    /\ IF results = Torn
       THEN /\ ended' = "aborted"
            /\ todo' = {}
            /\ UNCHANGED <<pc, work>>
       ELSE /\ pc' = "batches"
            /\ todo' = {s \in Samples : s[2] < samplesEach' /\ Unevaluated(s)}
            /\ work' = SampleList(todo')
            /\ UNCHANGED ended
    /\ UNCHANGED <<files, batchVars, task>>

BeginBatch ==
    /\ pc = "batches"
    /\ work # <<>>
    /\ LET size == Min({NumGpus, Len(work)}) IN
          /\ batch' = SubSeq(work, 1, size)
          /\ work' = SubSeq(work, size + 1, Len(work))
    /\ task' = [s \in Samples |->
                   IF \E i \in DOMAIN batch' : batch'[i] = s THEN "queued" ELSE "none"]
    /\ pc' = "collecting"
    /\ UNCHANGED <<files, todo, overdue, collected, saved, loaded, samplesEach, ended,
                   commands>>

(* time.time() passes start_time + config.timeout. *)
OutOfTime ==
    /\ pc = "collecting"
    /\ ~overdue
    /\ overdue' = TRUE
    /\ UNCHANGED <<files, batch, collected, saved, loaded, pc, work, todo, task,
                   samplesEach, ended, commands>>

(* remove_cache_dir is given a sample and removes the directory of all runs. *)
RemoveCacheDir == cache' = [s \in Samples |-> "absent"]

(* async_result.get: what arrived, what it raised, or mp.TimeoutError. *)
Get(result, timeLeft) ==
    \/ /\ result \in {"correct", "failed", "none"}
       /\ collected' = Append(collected, result)
       /\ UNCHANGED cache
    \/ /\ result = "raised" \/ (result \notin Returned /\ ~timeLeft)
       /\ collected' = Append(collected, "failed")
       /\ RemoveCacheDir

(* Mutant: a result is waited for as long as it takes. *)
GetWithoutTimeout ==
    /\ pc = "collecting"
    /\ Get(task[batch[Len(collected) + 1]], TRUE)
    /\ pc' = IF Len(collected') = Len(batch) THEN "recording" ELSE pc
    /\ UNCHANGED <<kernel, results, passAtK, batch, overdue, saved, loaded, work, todo,
                   task, samplesEach, ended, commands>>

CollectResult ==
    /\ pc = "collecting"
    /\ Get(task[batch[Len(collected) + 1]], ~overdue)
    /\ pc' = IF Len(collected') = Len(batch) THEN "recording" ELSE pc
    /\ UNCHANGED <<kernel, results, passAtK, batch, overdue, saved, loaded, work, todo,
                   task, samplesEach, ended, commands>>

(* Mutant: the file is written from this result alone. *)
WithFirst(old, s, result) ==
    [NoResults EXCEPT ![s[1]] =
        <<[sample_id |-> s[2], correctness |-> result = "correct"]>>]

WithRecord(old, s, result) ==
    [old EXCEPT ![s[1]] =
        Append(@, [sample_id |-> s[2], correctness |-> result = "correct"])]

(* add_to_eval_results_file has no record of None: the command ends there. *)
AddResult ==
    /\ pc = "recording"
    /\ saved < Len(batch)
    /\ LET result == collected[saved + 1] IN
          IF result = "none"
          THEN EndCommand("aborted") /\ UNCHANGED results
          ELSE /\ loaded' = WithRecord(results, batch[saved + 1], result)
               /\ results' = Torn
               /\ pc' = "filling"
               /\ UNCHANGED <<batch, overdue, collected, saved, work, task, ended>>
    /\ UNCHANGED <<kernel, cache, passAtK, todo, samplesEach, commands>>

FillResults ==
    /\ pc = "filling"
    /\ results' = loaded
    /\ loaded' = NoResults
    /\ saved' = saved + 1
    /\ pc' = "recording"
    /\ UNCHANGED <<kernel, cache, passAtK, batch, overdue, collected, work, todo, task,
                   samplesEach, ended, commands>>

(* Leaving the pool terminates what still runs in it. *)
EndBatch ==
    /\ pc = "recording"
    /\ saved = Len(batch)
    /\ pc' = "batches"
    /\ task' = Idle
    /\ NoBatch
    /\ UNCHANGED <<files, work, todo, samplesEach, ended, commands>>
-----------------------------------------------------------------------------
(* calculate_pass_at_k *)

(* Mutant: the formula of the docstring, 1 - (1 - c/n)^k. *)
PassWithReplacement(n, c, k) == <<n^k - (n - c)^k, n^k>>

(* The product of the c numbers after start. *)
Rising(start, c) ==
    LET product[j \in Nat] == IF j = 0 THEN 1 ELSE (start + j) * product[j - 1]
    IN  product[c]

(* calc_pass_at_k, as numerator and denominator: 1 - prod (1 - k/i) over the i from
   n - c + 1 to n. *)
PassAt(n, c, k) ==
    IF n - c < k THEN <<1, 1>>
    ELSE LET prod == Rising(n - c - k, c)
             full == Rising(n - c, c)
         IN  <<full - prod, full>>

Correct(records) == {i \in DOMAIN records : records[i].correctness}

(* With fewer samples than k the value for all of them is kept, under their number. *)
PassAtKOf(p) ==
    LET n == Len(results[p]) IN
    {[problem |-> p, k |-> Min({k, n}), pass |-> PassAt(n, Cardinality(Correct(results[p])),
                                                        Min({k, n}))] : k \in PassAtKValues}

CalculatePassAtK ==
    passAtK' = UNION {PassAtKOf(p) : p \in {q \in Problems : results[q] # <<>>}}

EndEvaluation ==
    /\ pc = "batches"
    /\ work = <<>>
    /\ IF samplesEach > 1 THEN CalculatePassAtK ELSE UNCHANGED passAtK
    /\ EndCommand("normally")
    /\ UNCHANGED <<kernel, results, cache, todo, samplesEach, commands>>
-----------------------------------------------------------------------------
(* The processes of a batch: evaluate_single_sample. *)

Become(s, state) == task' = [task EXCEPT ![s] = state]

(* A lock left in its build directory holds the sample up. *)
LoadKernel(s) ==
    /\ task[s] = "queued"
    /\ \/ kernel[s] = "absent" /\ Become(s, "raised") /\ UNCHANGED cache
       \/ kernel[s] = "torn" /\ Become(s, "failed") /\ UNCHANGED cache
       \/ kernel[s] = "whole" /\ cache[s] = "built" /\ Become(s, "testing") /\ UNCHANGED cache
       \/ /\ kernel[s] = "whole"
          /\ cache[s] = "absent"
          /\ Become(s, "building")
          /\ cache' = [cache EXCEPT ![s] = "building"]

(***************************************************************************)
(* A build fails as one that should be tried again (None) when its files   *)
(* are gone, or when its error has "lock" in it, as in "block".            *)
(***************************************************************************)
EndBuild(s) ==
    /\ task[s] = "building"
    /\ \/ /\ cache[s] = "building"
          /\ cache' = [cache EXCEPT ![s] = "built"]
          /\ Become(s, "testing")
       \/ /\ cache' = [cache EXCEPT ![s] = "absent"]
          /\ task' \in {[task EXCEPT ![s] = r] : r \in {"failed", "none", "raised"}}

EndTest(s) ==
    /\ task[s] = "testing"
    /\ task' \in {[task EXCEPT ![s] = r] : r \in {"correct", "failed", "raised"}}
    /\ UNCHANGED cache

(* A kernel takes its process down; the pool starts another, without the task. *)
Die(s) ==
    /\ task[s] \in {"building", "testing"}
    /\ Become(s, "dead")
    /\ UNCHANGED cache

Evaluate(s) ==
    /\ pc \in {"collecting", "recording", "filling"}
    /\ LoadKernel(s) \/ EndBuild(s) \/ EndTest(s) \/ Die(s)
    /\ UNCHANGED <<kernel, results, passAtK, batchVars, pc, work, todo, samplesEach,
                   ended, commands>>
-----------------------------------------------------------------------------
(* The command and its threads and processes are killed. *)
Crash ==
    /\ pc # "idle"
    /\ EndCommand("crashed")
    /\ UNCHANGED <<files, todo, samplesEach, commands>>

Command ==
    \/ StartGeneration \/ QueryServer \/ EndGeneration
    \/ StartEvaluation \/ BeginBatch \/ OutOfTime \/ CollectResult \/ AddResult
    \/ FillResults \/ EndBatch \/ EndEvaluation

Generate(s) == OpenKernel(s) \/ FillKernel(s)

Next ==
    \/ Command
    \/ \E s \in Samples : Generate(s) \/ Evaluate(s)
    \/ Crash

Spec == Init /\ [][Next]_vars

(***************************************************************************)
(* The command goes on, time passes, and the model's server answers or     *)
(* fails.  Nothing makes a build or a kernel end.                          *)
(***************************************************************************)
FairSpec ==
    /\ Spec
    /\ WF_vars(pc # "idle" /\ Command)
    /\ \A s \in Samples : WF_vars(Generate(s))
-----------------------------------------------------------------------------
RecordsOf(s) ==
    {i \in DOMAIN results[s[1]] : results[s[1]][i].sample_id = s[2]}

(***************************************************************************)
(* However commands are killed and started again, no sample gets a second  *)
(* record, and one recorded as correct has its kernel file whole: results  *)
(* of a batch are not mistaken for each other's.                           *)
(***************************************************************************)
RecordsAreOwn ==
    results # Torn =>
        \A s \in Samples :
            /\ Cardinality(RecordsOf(s)) <= 1
            /\ (\E i \in RecordsOf(s) : results[s[1]][i].correctness) => kernel[s] = "whole"

(***************************************************************************)
(* An evaluation that ends by itself leaves a record of every sample it    *)
(* began with, of ones that hung, died or were never generated too, and of *)
(* every problem.                                                          *)
(***************************************************************************)
FinishedIsRecorded ==
    ended = "normally" /\ pc = "idle" /\ todo # {} =>
        /\ results # Torn
        /\ \A s \in todo : RecordsOf(s) # {}
        /\ \A p \in Problems : results[p] # <<>>

(* The share of the sets of k of the n samples that have one of the last c in them. *)
IsShareOfSubsets(pass, n, c, k) ==
    LET draws == kSubset(k, 1..n)
        hits == {d \in draws : d \cap ((n - c + 1)..n) # {}} IN
    pass[1] * Cardinality(draws) = Cardinality(hits) * pass[2]

SmallSamplesAreUnbiased ==
    \A n \in 1..6 : \A c \in 0..n, k \in 1..n : IsShareOfSubsets(PassAt(n, c, k), n, c, k)

(***************************************************************************)
(* pass@k is the chance that k different samples drawn from the recorded   *)
(* ones have a correct one among them, in the file that is written and for *)
(* up to six samples in general.                                           *)
(***************************************************************************)
PassAtKIsUnbiased ==
    /\ \A v \in passAtK :
          results # Torn /\ pc = "idle" =>
              IsShareOfSubsets(v.pass, Len(results[v.problem]),
                               Cardinality(Correct(results[v.problem])), v.k)
    /\ SmallSamplesAreUnbiased

(***************************************************************************)
(* Every command ends, though samples hang, die or wait for a lock that a  *)
(* killed build has left.                                                  *)
(***************************************************************************)
CommandsEnd == []<>(pc = "idle")

(***************************************************************************)
(* check_if_eval_exists_local is asked for a sample: after an evaluation   *)
(* that ended by itself every sample it was to evaluate has a result.      *)
(***************************************************************************)
EverySampleEvaluated ==
    ended = "normally" /\ pc = "idle" /\ todo # {} =>
        \A p \in Problems, i \in 0..(samplesEach - 1) : RecordsOf(<<p, i>>) # {}

(***************************************************************************)
(* The directory is a table of results: no step of any command, nor a      *)
(* death of one, changes or removes a result that is there, but for the    *)
(* death of a writer, which loses all of them for good; and once there is  *)
(* pass@k, nothing is written any more (ResultsTable).                     *)
(***************************************************************************)
Held == IF pc = "filling" THEN loaded ELSE results

Outcome(s) ==
    IF Held = Torn \/ \A i \in DOMAIN Held[s[1]] : Held[s[1]][i].sample_id # s[2]
    THEN "none"
    ELSE IF \E i \in DOMAIN Held[s[1]] :
                Held[s[1]][i].sample_id = s[2] /\ Held[s[1]][i].correctness
         THEN "correct"
         ELSE "failed"

Table ==
    INSTANCE ResultsTable WITH
        Entries   <- Samples,
        NoScores  <- {},
        generated <- {s \in Samples : kernel[s] = "whole"},
        outcome   <- [s \in Samples |-> Outcome(s)],
        lost      <- Held = Torn,
        scores    <- passAtK

TableSpec == Table!Spec
=============================================================================
