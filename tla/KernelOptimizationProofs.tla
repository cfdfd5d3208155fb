---------------------- MODULE KernelOptimizationProofs ----------------------
(* What KernelOptimization keeps true, for any kernels, rounds, thresholds and ranges of
   times and efficiencies. *)
EXTENDS KernelOptimization, TLAPS

(* What is known in every round: the two bests were measured, and so was the new kernel
   that is about to be compared with them, the only one they may be behind. *)
BestsSoFar ==
    /\ pc # "baseline" =>
          /\ {best_runtime, best_sol} \subseteq measured
          /\ \A m \in measured :
                \/ pc = "updating" /\ m = new
                \/ best_runtime.time <= m.time /\ m.sol <= best_sol.sol
    /\ pc = "updating" => new \in measured /\ new.kernel = optimized

(* Nothing happens after an early stop. *)
StopIsLast ==
    /\ early_stop => pc \in {"finalizing", "done"}
    /\ StopsOnlyAtRoofline

-----------------------------------------------------------------------------
(* Type correctness: every step leaves the variables in their ranges, with the round
   bounded by max_opt_rounds. *)
THEOREM TypeCorrect == Spec => []TypeOK
<1> USE OptimizationAssumption
<1>1. ASSUME Init
      PROVE  TypeOK
  <2>1. 0 \in 0 .. MaxOptRounds
    BY DEF OptimizationAssumption
  <2>2. early_stop \in BOOLEAN /\ any_verified \in BOOLEAN
    BY <1>1, Zenon DEF Init
  <2> QED
    BY <1>1, <2>1, <2>2 DEF Init, TypeOK
<1>2. ASSUME TypeOK, [Next]_vars
      PROVE  TypeOK'
  <2> USE <1>2 DEF TypeOK
  <2>1. CASE BenchmarkBaseline
    BY <2>1 DEF BenchmarkBaseline, Measured, attempts
  <2>2. CASE BeginRound
    BY <2>2, OptimizationAssumption DEF BeginRound, bests, attempts, OptimizationAssumption
  <2>3. CASE ProfileAndAnalyze
    BY <2>3 DEF ProfileAndAnalyze, bests, attempts
  <2>4. CASE GenerateOptimizedKernel
    BY <2>4 DEF GenerateOptimizedKernel, bests, attempts
  <2>5. CASE VerifyAndRefine
    BY <2>5 DEF VerifyAndRefine, bests
  <2>6. CASE MeasureKernel
    BY <2>6 DEF MeasureKernel, bests, Measured
  <2>7. CASE UpdateKernels
    <3>1. best_runtime' \in Measured /\ best_sol' \in Measured
      BY <2>7 DEF UpdateKernels, UpdateBests
    <3>2. current' \in Kernels
      BY <2>7 DEF UpdateKernels, ChooseNextKernel, Measured
    <3>3. early_stop' \in BOOLEAN /\ pc' \in {"finalizing", "head"}
      <4>1. early_stop' = Stops /\ Stops \in BOOLEAN
        BY <2>7, Zenon DEF UpdateKernels, Stops
      <4>2. pc' \in {"finalizing", "head"}
        BY <2>7, Zenon DEF UpdateKernels
      <4> QED
        BY <4>1, <4>2
    <3>4. best_round_num' \in 0 .. MaxOptRounds
      BY <2>7 DEF UpdateKernels
    <3>5. UNCHANGED <<round, optimized, new, any_verified, attempts, measured>>
      BY <2>7 DEF UpdateKernels
    <3> QED
      BY <3>1, <3>2, <3>3, <3>4, <3>5 DEF attempts
  <2>8. CASE FinalizeResults
    BY <2>8 DEF FinalizeResults, bests, attempts
  <2>9. CASE UNCHANGED vars
    BY <2>9 DEF vars
  <2> QED
    BY <2>1, <2>2, <2>3, <2>4, <2>5, <2>6, <2>7, <2>8, <2>9 DEF Next
<1> QED
  BY <1>1, <1>2, PTL DEF Spec

(* What a measurement and the ranges of times and efficiencies are made of. *)
LEMMA MeasuredTypes ==
    ASSUME OptimizationAssumption
    PROVE  /\ Infinite \in Nat
           /\ \A m \in Measured : m.kernel \in Kernels /\ m.time \in Nat /\ m.sol \in Nat
BY DEF OptimizationAssumption, Infinite, Times, Measured

(* How the two bests change in a step that looks at a new kernel. *)
LEMMA BestsImprove ==
    ASSUME OptimizationAssumption, new \in Measured, best_runtime \in Measured,
           best_sol \in Measured, UpdateBests
    PROVE  /\ best_runtime' \in {best_runtime, new}
           /\ best_sol' \in {best_sol, new}
           /\ best_runtime'.time <= best_runtime.time /\ best_runtime'.time <= new.time
           /\ best_sol.sol <= best_sol'.sol /\ new.sol <= best_sol'.sol
BY MeasuredTypes DEF UpdateBests, Faster, MoreEfficient

-----------------------------------------------------------------------------
(* The two kept kernels are single measurements and the best ones of all rounds, whatever
   the model writes, whatever diverges and whatever cannot be measured. *)
LEMMA BestsSoFarKept == Spec => []BestsSoFar
<1> USE OptimizationAssumption
<1>1. Init => BestsSoFar
  BY DEF Init, BestsSoFar
<1>2. ASSUME TypeOK, BestsSoFar, [Next]_vars
      PROVE  BestsSoFar'
  <2> USE <1>2
  <2>1. CASE BenchmarkBaseline
    <3>1. PICK time \in Times, sol \in 0 .. MaxSol :
              LET baseline == [kernel |-> current, time |-> time, sol |-> sol] IN
              /\ best_runtime' = baseline
              /\ best_sol' = baseline
              /\ measured' = {baseline}
      BY <2>1 DEF BenchmarkBaseline
    <3>2. time \in Nat /\ sol \in Nat
      BY OptimizationAssumption DEF OptimizationAssumption, Times, Infinite
    <3>3. pc' = "head"
      BY <2>1 DEF BenchmarkBaseline
    <3> QED
      BY <3>1, <3>2, <3>3 DEF BestsSoFar
  <2>2. CASE BeginRound
    BY <2>2 DEF BeginRound, BestsSoFar, bests
  <2>3. CASE ProfileAndAnalyze
    BY <2>3 DEF ProfileAndAnalyze, BestsSoFar, bests
  <2>4. CASE GenerateOptimizedKernel
    BY <2>4 DEF GenerateOptimizedKernel, BestsSoFar, bests
  <2>5. CASE VerifyAndRefine
    BY <2>5 DEF VerifyAndRefine, BestsSoFar, bests
  <2>6. CASE MeasureKernel
    <3>1. /\ pc = "measuring" /\ pc' = "updating"
          /\ measured' = measured \cup {new'}
          /\ new'.kernel = optimized /\ optimized' = optimized
          /\ best_runtime' = best_runtime /\ best_sol' = best_sol
      BY <2>6 DEF MeasureKernel, bests
    <3> QED
      BY <3>1 DEF BestsSoFar
  <2>7. CASE UpdateKernels
    <3>1. pc = "updating" /\ pc' \in {"finalizing", "head"} /\ measured' = measured
      BY <2>7, Zenon DEF UpdateKernels
    <3>2. UpdateBests
      BY <2>7 DEF UpdateKernels
    <3>3. new \in Measured /\ best_runtime \in Measured /\ best_sol \in Measured
      BY <3>1 DEF TypeOK
    <3>4. measured \subseteq Measured
      BY DEF TypeOK
    <3>5. {best_runtime', best_sol'} \subseteq measured
      BY <3>1, <3>2, <3>3, BestsImprove DEF BestsSoFar
    <3>6. ASSUME NEW m \in measured
          PROVE  best_runtime'.time <= m.time /\ m.sol <= best_sol'.sol
      <4>1. /\ m.time \in Nat /\ m.sol \in Nat
            /\ best_runtime.time \in Nat /\ best_runtime'.time \in Nat
            /\ best_sol.sol \in Nat /\ best_sol'.sol \in Nat
        BY <3>3, <3>4, <3>5, MeasuredTypes
      <4>2. m = new \/ (best_runtime.time <= m.time /\ m.sol <= best_sol.sol)
        BY <3>1 DEF BestsSoFar
      <4> QED
        BY <3>2, <3>3, <4>1, <4>2, BestsImprove
    <3> QED
      BY <3>1, <3>5, <3>6 DEF BestsSoFar
  <2>8. CASE FinalizeResults
    BY <2>8 DEF FinalizeResults, BestsSoFar, bests
  <2>9. CASE UNCHANGED vars
    BY <2>9 DEF vars, BestsSoFar
  <2> QED
    BY <2>1, <2>2, <2>3, <2>4, <2>5, <2>6, <2>7, <2>8, <2>9 DEF Next
<1> QED
  BY <1>1, <1>2, TypeCorrect, PTL DEF Spec

(* BestsAreBest: the fastest and the most efficient kernel kept are the best ever
   measured, and neither mixes the numbers of two measurements. *)
THEOREM BestsStayBest == Spec => []BestsAreBest
<1>1. BestsSoFar => BestsAreBest
  BY DEF BestsSoFar, BestsAreBest
<1> QED
  BY <1>1, BestsSoFarKept, PTL

-----------------------------------------------------------------------------
(* StopsOnlyAtRoofline: the rounds end early only with a fastest kernel that was itself
   measured at the roofline. *)
THEOREM StopsAtRooflineOnly == Spec => []StopsOnlyAtRoofline
<1>1. Init => StopIsLast
  BY DEF Init, StopIsLast, StopsOnlyAtRoofline
<1>2. ASSUME TypeOK, BestsSoFar, StopIsLast, [Next]_vars
      PROVE  StopIsLast'
  <2> USE <1>2
  <2>1. CASE UpdateKernels
    <3>1. pc = "updating" /\ measured' = measured /\ UNCHANGED new
      BY <2>1 DEF UpdateKernels
    <3>2. early_stop' = Stops /\ pc' = IF Stops THEN "finalizing" ELSE "head"
      BY <2>1 DEF UpdateKernels
    <3>3. Stops => best_runtime'.kernel = optimized /\ new.sol >= RooflineSol
      BY DEF Stops, AtRoofline
    <3>4. new \in measured /\ new.kernel = optimized
      BY <3>1 DEF BestsSoFar
    <3> QED
      BY <3>1, <3>2, <3>3, <3>4 DEF StopIsLast, StopsOnlyAtRoofline
  <2>2. CASE FinalizeResults \/ UNCHANGED vars
    BY <2>2 DEF FinalizeResults, vars, bests, StopIsLast, StopsOnlyAtRoofline
  <2>3. CASE BenchmarkBaseline \/ BeginRound \/ ProfileAndAnalyze
             \/ GenerateOptimizedKernel \/ VerifyAndRefine \/ MeasureKernel
    <3>1. pc \notin {"finalizing", "done"} /\ early_stop' = early_stop
      BY <2>3 DEF BenchmarkBaseline, BeginRound, ProfileAndAnalyze,
                  GenerateOptimizedKernel, VerifyAndRefine, MeasureKernel
    <3> QED
      BY <3>1 DEF StopIsLast, StopsOnlyAtRoofline
  <2> QED
    BY <2>1, <2>2, <2>3 DEF Next
<1>3. StopIsLast => StopsOnlyAtRoofline
  BY DEF StopIsLast
<1> QED
  BY <1>1, <1>2, <1>3, TypeCorrect, BestsSoFarKept, PTL DEF Spec

(* No round is ever recorded as the best: the comparison is with bests that already
   include the new kernel, so the branch for the metadata of a new best is dead code. *)
THEOREM BestRoundNeverTracked == Spec => []NoBestRound
<1> USE OptimizationAssumption
<1>1. Init => NoBestRound
  BY DEF Init, NoBestRound
<1>2. ASSUME TypeOK, NoBestRound, [Next]_vars
      PROVE  NoBestRound'
  <2> USE <1>2
  <2>1. CASE UpdateKernels
    <3>1. pc = "updating" /\ UpdateBests
      BY <2>1 DEF UpdateKernels
    <3>2. new \in Measured /\ best_runtime \in Measured /\ best_sol \in Measured
      BY <3>1 DEF TypeOK
    <3>3. best_runtime' \in Measured /\ best_sol' \in Measured
      BY <3>1, <3>2, BestsImprove
    <3>4. ~(new.time < best_runtime'.time) /\ ~(new.sol > best_sol'.sol)
      BY <3>1, <3>2, <3>3, BestsImprove, MeasuredTypes
    <3>5. best_round_num' = IF new.time < best_runtime'.time \/ new.sol > best_sol'.sol
                            THEN round ELSE best_round_num
      BY <2>1 DEF UpdateKernels
    <3> QED
      BY <3>4, <3>5 DEF NoBestRound
  <2>2. CASE UNCHANGED best_round_num
    BY <2>2 DEF NoBestRound
  <2>3. UpdateKernels \/ UNCHANGED best_round_num
    BY DEF Next, vars, BenchmarkBaseline, BeginRound, ProfileAndAnalyze,
           GenerateOptimizedKernel, VerifyAndRefine, MeasureKernel, FinalizeResults
  <2> QED
    BY <2>1, <2>2, <2>3
<1> QED
  BY <1>1, <1>2, TypeCorrect, PTL DEF Spec
=============================================================================
