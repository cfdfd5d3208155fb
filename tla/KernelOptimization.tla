------------------------- MODULE KernelOptimization -------------------------
(* OptimizationOrchestrator.optimize_kernel: one worker's rounds of profiling its kernel,
   asking a model for a better one, verifying and measuring that.  It keeps two kernels,
   the fastest and the one with the highest SOL, the share of the hardware's speed it
   reaches, and explores on from a third, which may be slower than the fastest
   (opt_worker_component/orchestrator/optimization_orchestrator.py). *)
EXTENDS Integers

CONSTANTS
    Kernels,               \* the texts of kernels a model may write
    MaxOptRounds,          \* max_opt_rounds
    DivergenceThreshold,   \* divergence_threshold, in percent
    EarlyStop,             \* the roofline's early_stop
    RooflineSol,           \* the roofline's threshold_pct
    MaxTime,               \* bound: measured times are 1 .. MaxTime, or infinite
    MaxSol                 \* bound: SOL is 0 .. MaxSol

ASSUME OptimizationAssumption ==
    /\ {MaxOptRounds, DivergenceThreshold, MaxTime, MaxSol} \subseteq Nat
    /\ EarlyStop \in BOOLEAN
    /\ RooflineSol \in Nat \ {0}

VARIABLES
    pc,
    round,            \* round_num
    current,          \* current_kernel
    optimized,        \* optimized_kernel
    new,              \* the optimized kernel as it was measured in this round
    best_runtime,     \* best_runtime_kernel, _time and _sol
    best_sol,         \* best_sol_kernel, _time and _sol
    any_verified,
    best_round_num,
    early_stop,       \* early_stop_reason was given
    last_attempt,     \* the end of attempt_history
    last_reflexion,   \* the end of reflexions
    measured          \* history: everything that was measured

bests == <<best_runtime, best_sol>>
attempts == <<last_attempt, last_reflexion>>
vars == <<pc, round, current, optimized, new, best_runtime, best_sol, any_verified,
          best_round_num, early_stop, last_attempt, last_reflexion, measured>>

(* A kernel that could not be measured takes for ever; one that could not be profiled has
   a SOL of 0. *)
Infinite == MaxTime + 1
Times == 1 .. Infinite
Measured == [kernel : Kernels, time : Times, sol : 0 .. MaxSol]

TypeOK ==
    /\ pc \in {"baseline", "head", "profiling", "generating", "verifying", "measuring",
               "updating", "finalizing", "done"}
    /\ round \in 0 .. MaxOptRounds
    /\ current \in Kernels
    /\ optimized \in Kernels
    /\ pc = "updating" => new \in Measured
    /\ pc # "baseline" => best_runtime \in Measured /\ best_sol \in Measured
    /\ any_verified \in BOOLEAN
    /\ best_round_num \in 0 .. MaxOptRounds
    /\ early_stop \in BOOLEAN
    /\ last_attempt \in {"none", "prior", "failed", "passed"}
    /\ last_reflexion \in {"none", "prior", "own"}
    /\ measured \subseteq Measured

NotMeasured == [kernel |-> "none", time |-> 0, sol |-> 0]

(* A worker may be given the attempts and reflexions of earlier rounds of the search. *)
Init ==
    /\ pc = "baseline"
    /\ round = 0
    /\ current \in Kernels
    /\ optimized = current
    /\ new = NotMeasured
    /\ best_runtime = NotMeasured
    /\ best_sol = NotMeasured
    /\ any_verified = FALSE
    /\ best_round_num = 0
    /\ early_stop = FALSE
    /\ last_attempt \in {"none", "prior"}
    /\ last_reflexion \in {"none", "prior"}
    /\ measured = {}

-----------------------------------------------------------------------------
(* The kernel's time is known, or it is measured; it is profiled in any case. *)
BenchmarkBaseline ==
    /\ pc = "baseline"
    /\ \E time \in Times, sol \in 0 .. MaxSol :
           LET baseline == [kernel |-> current, time |-> time, sol |-> sol] IN
           /\ best_runtime' = baseline
           /\ best_sol' = baseline
           /\ measured' = {baseline}
    /\ pc' = "head"
    /\ UNCHANGED <<round, current, optimized, new, any_verified, best_round_num, early_stop, attempts>>

BeginRound ==
    /\ pc = "head"
    /\ IF round < MaxOptRounds
       THEN pc' = "profiling" /\ round' = round + 1
       ELSE pc' = "finalizing" /\ UNCHANGED round
    /\ UNCHANGED <<current, optimized, new, bests, any_verified, best_round_num, early_stop,
                   attempts, measured>>

(* Without metrics or an analysis of them the round is skipped. *)
ProfileAndAnalyze ==
    /\ pc = "profiling"
    /\ pc' \in {"generating", "head"}
    /\ UNCHANGED <<round, current, optimized, new, bests, any_verified, best_round_num, early_stop,
                   attempts, measured>>

GenerateOptimizedKernel ==
    /\ pc = "generating"
    /\ \/ pc' = "verifying" /\ optimized' \in Kernels
       \/ pc' = "head" /\ UNCHANGED optimized
    /\ UNCHANGED <<round, current, new, bests, any_verified, best_round_num, early_stop,
                   attempts, measured>>

(* The kernel passes, perhaps after it was refined into another one; or it is an attempt
   that failed. *)
VerifyAndRefine ==
    /\ pc = "verifying"
    /\ \/ /\ pc' = "measuring"
          /\ optimized' \in Kernels
          /\ UNCHANGED last_attempt
       \/ /\ pc' = "head"
          /\ last_attempt' = "failed"
          /\ UNCHANGED optimized
    /\ UNCHANGED <<round, current, new, bests, any_verified, best_round_num, early_stop,
                   last_reflexion, measured>>

(* The attempt is complete, and a reflexion on it is never missing. *)
MeasureKernel ==
    /\ pc = "measuring"
    /\ \E time \in Times, sol \in 0 .. MaxSol :
           new' = [kernel |-> optimized, time |-> time, sol |-> sol]
    /\ measured' = measured \cup {new'}
    /\ any_verified' = TRUE
    /\ last_attempt' = "passed"
    /\ last_reflexion' = "own"
    /\ pc' = "updating"
    /\ UNCHANGED <<round, current, optimized, bests, best_round_num, early_stop>>

-----------------------------------------------------------------------------
(* The part of _update_kernels that looks for new bests, by runtime and by SOL ... *)
Faster == new.time < best_runtime.time
MoreEfficient == new.sol > best_sol.sol

(* Mutant: a kernel is looked at for its SOL only if it is not the fastest. *)
UpdateOneBest ==
    /\ best_runtime' = IF Faster THEN new ELSE best_runtime
    /\ best_sol' = IF ~Faster /\ MoreEfficient THEN new ELSE best_sol

UpdateBests ==
    /\ best_runtime' = IF Faster THEN new ELSE best_runtime
    /\ best_sol' = IF MoreEfficient THEN new ELSE best_sol

(* ... and the part that goes on with the new kernel, or back to the fastest so far if
   that one is slower by more than the threshold.  Of an infinite best time the
   difference is not a number, and nothing is above the threshold. *)
Diverged ==
    /\ best_runtime.time # Infinite
    /\ \/ new.time = Infinite
       \/ (new.time - best_runtime.time) * 100 > DivergenceThreshold * best_runtime.time

ChooseNextKernel == current' = IF Diverged THEN best_runtime.kernel ELSE optimized

AtRoofline == new.sol >= RooflineSol

(* "Only early terminate if the best runtime kernel is at roofline": kernels are compared
   as texts, and should_stop says yes at the roofline when early_stop is set. *)
Stops == EarlyStop /\ AtRoofline /\ best_runtime'.kernel = optimized

(* The metadata of a new best are tracked after the bests were replaced. *)
UpdateKernels ==
    /\ pc = "updating"
    /\ UpdateBests
    /\ ChooseNextKernel
    /\ best_round_num' = IF new.time < best_runtime'.time \/ new.sol > best_sol'.sol
                         THEN round ELSE best_round_num
    /\ early_stop' = Stops
    /\ pc' = IF Stops THEN "finalizing" ELSE "head"
    /\ UNCHANGED <<round, optimized, new, any_verified, attempts, measured>>

(* The result is the fastest kernel, a success if it has a time and any kernel passed; a
   kernel file of best_round_num would be profiled once more before that. *)
FinalizeResults ==
    /\ pc = "finalizing"
    /\ pc' = "done"
    /\ UNCHANGED <<round, current, optimized, new, bests, any_verified, best_round_num, early_stop,
                   attempts, measured>>

-----------------------------------------------------------------------------
Next ==
    \/ BenchmarkBaseline
    \/ BeginRound
    \/ ProfileAndAnalyze
    \/ GenerateOptimizedKernel
    \/ VerifyAndRefine
    \/ MeasureKernel
    \/ UpdateKernels
    \/ FinalizeResults

Spec == Init /\ [][Next]_vars

-----------------------------------------------------------------------------
Success == best_runtime.time # Infinite /\ any_verified

(* "This prevents mixing metrics from different kernels": each of the two kept kernels
   has time and SOL of one and the same measurement, and no measurement of any round,
   diverged or not, was faster than the one or more efficient than the other. *)
BestsAreBest ==
    pc \notin {"baseline", "updating"} =>
        /\ {best_runtime, best_sol} \subseteq measured
        /\ \A m \in measured : best_runtime.time <= m.time /\ m.sol <= best_sol.sol

(* The rounds end early only with a result that was measured at the roofline, not with a
   slow kernel that happens to be efficient. *)
StopsOnlyAtRoofline ==
    early_stop => \E m \in measured : m.kernel = best_runtime.kernel /\ m.sol >= RooflineSol

(* The branch that tracks the metadata of a new best is dead: no round is ever recorded
   as the best one, so the final profile of the best kernel is never taken. *)
NoBestRound == best_round_num = 0
=============================================================================
