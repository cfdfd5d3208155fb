------------------------- MODULE DatasetBuildProofs -------------------------
(* What WorkerManager and DatasetBuild keep true, for any number of workers, rounds and
   problems.  The manager's invariants are proved of the manager alone; they hold in a
   build because each of its steps is a step of the manager or leaves the manager alone. *)
EXTENDS DatasetBuild, TLAPS

-----------------------------------------------------------------------------
(* Reading from a queue and writing to one *)

(* The range of a sequence, one element at a time. *)
LEMMA RangeOfAppend ==
    ASSUME NEW S, NEW s \in Seq(S), NEW e \in S
    PROVE  /\ Append(s, e) \in Seq(S)
           /\ Range(Append(s, e)) = Range(s) \cup {e}
<1>1. /\ Append(s, e) \in Seq(S) /\ Len(s) \in Nat
      /\ DOMAIN s = 1 .. Len(s)
      /\ DOMAIN Append(s, e) = 1 .. (Len(s) + 1)
      /\ \A i \in 1 .. Len(s) : Append(s, e)[i] = s[i]
      /\ Append(s, e)[Len(s) + 1] = e
  OBVIOUS
<1>2. \A i \in 1 .. (Len(s) + 1) : i \in 1 .. Len(s) \/ i = Len(s) + 1
  BY <1>1
<1>3. \A i \in 1 .. Len(s) : i \in 1 .. (Len(s) + 1)
  BY <1>1
<1>4. Len(s) + 1 \in 1 .. (Len(s) + 1)
  BY <1>1
<1> QED
  BY <1>1, <1>2, <1>3, <1>4 DEF Range

(* ... and taking the first. *)
LEMMA RangeOfTail ==
    ASSUME NEW S, NEW s \in Seq(S), s # <<>>
    PROVE  /\ Tail(s) \in Seq(S) /\ Head(s) \in S
           /\ Range(s) = Range(Tail(s)) \cup {Head(s)}
<1>1. /\ Tail(s) \in Seq(S) /\ Len(s) \in Nat /\ Len(s) >= 1
      /\ DOMAIN s = 1 .. Len(s)
      /\ DOMAIN Tail(s) = 1 .. (Len(s) - 1)
      /\ \A i \in 1 .. (Len(s) - 1) : Tail(s)[i] = s[i + 1]
      /\ Head(s) = s[1]
  OBVIOUS
<1>2. \A i \in 1 .. Len(s) : i = 1 \/ (i - 1 \in 1 .. (Len(s) - 1) /\ (i - 1) + 1 = i)
  BY <1>1
<1>3. \A i \in 1 .. (Len(s) - 1) : i + 1 \in 1 .. Len(s)
  BY <1>1
<1>4. 1 \in 1 .. Len(s) /\ Head(s) \in S
  BY <1>1
<1>5. Range(s) \subseteq Range(Tail(s)) \cup {Head(s)}
  <2> SUFFICES ASSUME NEW i \in 1 .. Len(s), i # 1
               PROVE  s[i] \in Range(Tail(s))
    BY <1>1 DEF Range
  <2>1. i - 1 \in 1 .. (Len(s) - 1) /\ Tail(s)[i - 1] = s[(i - 1) + 1] /\ (i - 1) + 1 = i
    BY <1>1, <1>2
  <2> QED
    BY <1>1, <2>1 DEF Range
<1>6. Range(Tail(s)) \cup {Head(s)} \subseteq Range(s)
  BY <1>1, <1>3, <1>4 DEF Range
<1> QED
  BY <1>1, <1>4, <1>5, <1>6

-----------------------------------------------------------------------------
(* What the worker processes of a call look like: before there is a call there is none; a
   worker tests in a round it has; it has a result of this call once it reports, and only
   then; and half a result in the queue is its writer's. *)
HasResult == {"reporting", "writing", "exited"}
HasNone == {"absent", "round", "testing", "raised"}

WorkersInv ==
    \A w \in Workers :
        /\ worker[w].state # "absent" => call \in 1 .. MaxCalls
        /\ worker[w].state = "testing" => worker[w].round < MaxRounds
        /\ worker[w].state \in HasResult => worker[w].result \in Result
        /\ worker[w].state \in HasNone => worker[w].result = NoResult
        /\ worker[w].result # NoResult =>
              worker[w].result.call = call /\ worker[w].result.worker = w
        /\ worker[w].state = "writing" => writing = worker[w].result

(* The types and the workers' states together. *)
ManagerOK == TypeOK /\ WorkersInv

(* No result is a result of call 0, and none has another outcome. *)
LEMMA NoResultIsNone ==
    ASSUME SearchAssumption
    PROVE  /\ NoResult \notin Result
           /\ NoResult.outcome = "none"
           /\ \A r \in Result : r.call \in 1 .. MaxCalls /\ r.outcome \in Outcome
BY DEF SearchAssumption, NoResult, Result

(* What is known of the parts of a worker. *)
LEMMA WorkerParts ==
    ASSUME TypeOK, NEW w \in Workers
    PROVE  /\ worker[w].state \in {"absent", "exited", "raised", "dying", "dead"} \cup Live
           /\ worker[w].round \in 0 .. MaxRounds
           /\ worker[w].result \in Result \cup {NoResult}
BY DEF TypeOK, WorkerState

(* A worker that reports: what it takes and what it leaves. *)
LEMMA FinishTyped ==
    ASSUME SearchAssumption, ManagerOK, NEW w \in Workers, worker[w].state # "absent",
           NEW outcome \in Outcome, NEW size \in {"small", "large"}, NEW round \in 0 .. MaxRounds,
           worker[w].state # "writing", Finish(w, outcome, size, round), UNCHANGED <<call, writing>>
    PROVE  worker' \in [Workers -> WorkerState] /\ WorkersInv'
<1> DEFINE result == [call |-> call, worker |-> w, outcome |-> outcome, size |-> size]
<1>1. result \in Result /\ result.call = call /\ result.worker = w
  BY DEF ManagerOK, WorkersInv, Result
<1>2. worker' = [worker EXCEPT ![w] = [state |-> "reporting", round |-> round, result |-> result]]
  BY DEF Finish
<1>3. worker' \in [Workers -> WorkerState]
  BY <1>1, <1>2 DEF ManagerOK, TypeOK, WorkerState, Live
<1>4. /\ worker'[w].state = "reporting" /\ worker'[w].result = result
      /\ \A o \in Workers \ {w} : worker'[o] = worker[o]
  BY <1>2 DEF ManagerOK, TypeOK
<1>5. WorkersInv'
  BY <1>1, <1>4 DEF ManagerOK, WorkersInv, HasResult, HasNone
<1> QED
  BY <1>3, <1>5

(* A worker that changes its state and keeps its round and result. *)
LEMMA StateTyped ==
    ASSUME ManagerOK, NEW w \in Workers,
           NEW state \in {"exited", "raised", "dying", "dead"} \cup Live,
           worker' = [worker EXCEPT ![w].state = state]
    PROVE  /\ worker' \in [Workers -> WorkerState]
           /\ worker'[w].state = state
           /\ worker'[w].round = worker[w].round /\ worker'[w].result = worker[w].result
           /\ \A o \in Workers \ {w} : worker'[o] = worker[o]
BY DEF ManagerOK, TypeOK, WorkerState

(* A worker that goes on to a state its result allows. *)
LEMMA StateKept ==
    ASSUME ManagerOK, NEW w \in Workers, worker[w].state # "absent",
           NEW state \in {"exited", "raised", "dying", "dead"} \cup Live,
           worker' = [worker EXCEPT ![w].state = state], call' = call,
           state = "testing" => worker[w].round < MaxRounds,
           state \in HasResult => worker[w].result \in Result,
           state \in HasNone => worker[w].result = NoResult,
           state = "writing" => writing' = worker[w].result,
           \A o \in Workers \ {w} : worker[o].state = "writing" => writing' = writing
    PROVE  worker' \in [Workers -> WorkerState] /\ WorkersInv'
<1>1. /\ worker' \in [Workers -> WorkerState]
      /\ worker'[w].state = state
      /\ worker'[w].round = worker[w].round /\ worker'[w].result = worker[w].result
      /\ \A o \in Workers \ {w} : worker'[o] = worker[o]
  BY StateTyped
<1>2. WorkersInv'
  BY <1>1 DEF ManagerOK, WorkersInv
<1> QED
  BY <1>1, <1>2

-----------------------------------------------------------------------------
(* The types and the workers' states are kept by the manager and by every worker. *)
LEMMA ManagerKept == Spec => []ManagerOK
<1> USE SearchAssumption
<1>1. ASSUME Init
      PROVE  ManagerOK
  <2>1. Absent \in WorkerState /\ NumWorkers \in Nat /\ MaxCalls \in Nat
    BY DEF SearchAssumption, Absent, WorkerState
  <2>2. success_event \in BOOLEAN /\ late \in BOOLEAN
    BY <1>1, Zenon DEF Init
  <2>3. TypeOK
    BY <1>1, <2>1, <2>2 DEF Init, TypeOK
  <2>4. WorkersInv
    BY <1>1 DEF Init, WorkersInv, Absent, HasResult, HasNone
  <2> QED
    BY <2>3, <2>4 DEF ManagerOK
<1>2. ASSUME ManagerOK, [Next]_vars
      PROVE  ManagerOK'
  <2>0. TypeOK /\ WorkersInv
    BY <1>2 DEF ManagerOK
  <2>00. NumWorkers \in Nat \ {0} /\ MaxRounds \in Nat /\ MaxCalls \in Nat
    BY DEF SearchAssumption
  <2>1. CASE StartCall
    <3>1. call' \in 1 .. MaxCalls /\ call' \in 0 .. MaxCalls
      BY <2>0, <2>00, <2>1 DEF StartCall, TypeOK
    <3>2. PICK seeds \in Workers :
              worker' = [w \in Workers |->
                            IF w <= seeds THEN [Absent EXCEPT !.state = "round"] ELSE Absent]
      BY <2>1 DEF StartCall
    <3>3. \A w \in Workers :
              /\ worker'[w] \in WorkerState
              /\ worker'[w].state \in {"absent", "round"}
              /\ worker'[w].result = NoResult
      BY <2>00, <3>2 DEF Absent, WorkerState, Live
    <3>4. WorkersInv'
      BY <3>1, <3>3 DEF WorkersInv, HasResult, HasNone
    <3>5. worker' \in [Workers -> WorkerState]
      BY <3>2, <3>3
    <3> QED
      <4>1. /\ manager' = "polling" /\ joined' = 0 /\ results' = <<>> /\ winner' = NoResult
            /\ success_event' = FALSE /\ UNCHANGED <<pipe, writing, late>>
        BY <2>1 DEF StartCall
      <4>2. joined' \in 0 .. NumWorkers
        BY <2>00, <4>1
      <4>3. success_event' \in BOOLEAN /\ late' \in BOOLEAN
        BY <2>0, <4>1, Zenon DEF TypeOK
      <4>4. /\ results' \in Seq(Result) /\ winner' \in Result \cup {NoResult}
            /\ manager' \in {"idle", "polling", "getting", "joining", "draining", "returned"}
        BY <4>1
      <4>5. pipe' \in Seq(Result) /\ writing' \in Result \cup {NoResult}
        BY <2>0, <4>1 DEF TypeOK
      <4> QED
        BY <3>1, <3>4, <3>5, <4>2, <4>3, <4>4, <4>5 DEF ManagerOK, TypeOK
  <2>2. CASE LookForLiveWorker \/ FindQueueEmpty \/ StopJoining \/ ReturnWinner
    <3>1. manager' \in {"polling", "getting", "joining", "draining", "returned"}
      BY <2>2, Zenon DEF LookForLiveWorker, FindQueueEmpty, StopJoining, ReturnWinner
    <3>2. UNCHANGED <<call, joined, results, winner, success_event, pipe, writing, worker, late>>
      BY <2>2 DEF LookForLiveWorker, FindQueueEmpty, StopJoining, ReturnWinner
    <3>3. TypeOK'
      BY <2>0, <3>1, <3>2 DEF TypeOK
    <3>4. WorkersInv'
      BY <2>0, <3>2 DEF WorkersInv
    <3> QED
      BY <3>3, <3>4 DEF ManagerOK
  <2>3. CASE TakeResult \/ DrainResult
    <3>1. Tail(pipe) \in Seq(Result) /\ Head(pipe) \in Result /\ results \in Seq(Result)
      BY <2>0, <2>3, RangeOfTail DEF TakeResult, DrainResult, TypeOK
    <3>2. Append(results, Head(pipe)) \in Seq(Result)
      BY <3>1
    <3>3. pipe' = Tail(pipe) /\ results' = Append(results, Head(pipe))
      BY <2>3 DEF TakeResult, DrainResult, Receive
    <3>4. UNCHANGED <<call, joined, writing, worker, late>>
      BY <2>3 DEF TakeResult, DrainResult
    <3>5. winner' \in {winner, Head(pipe)} /\ manager' \in {"joining", "polling", "draining"}
      BY <2>3, Zenon DEF TakeResult, DrainResult
    <3>6. success_event' \in BOOLEAN
      BY <2>0, <2>3, Zenon DEF TakeResult, DrainResult, TypeOK
    <3> QED
      BY <2>0, <3>1, <3>2, <3>3, <3>4, <3>5, <3>6 DEF ManagerOK, TypeOK, WorkersInv
  <2>4. CASE JoinWorker
    <3>1. joined' \in 0 .. NumWorkers /\ joined + 1 \in Workers
      BY <2>0, <2>00, <2>4 DEF JoinWorker, TypeOK, Workers
    <3>2. worker' \in [Workers -> WorkerState] /\ WorkersInv'
      <4>1. CASE Alive(joined + 1)
        <5>1. worker' = [worker EXCEPT ![joined + 1].state = "dying"]
          BY <2>4, <4>1 DEF JoinWorker
        <5>2. worker[joined + 1].state # "absent"
          BY <4>1 DEF Alive, Live
        <5>3. call' = call /\ writing' = writing
          BY <2>4 DEF JoinWorker
        <5> QED
          BY <1>2, <3>1, <5>1, <5>2, <5>3, StateKept DEF HasResult, HasNone
      <4>2. CASE ~Alive(joined + 1)
        BY <2>0, <2>4, <4>2 DEF JoinWorker, TypeOK, WorkersInv
      <4> QED
        BY <4>1, <4>2
    <3> QED
      BY <2>0, <2>4, <3>1, <3>2 DEF JoinWorker, ManagerOK, TypeOK
  <2>5. ASSUME NEW w \in Workers, BeginRound(w)
        PROVE  ManagerOK'
    <3>1. worker' \in [Workers -> WorkerState] /\ WorkersInv'
      <4>1. ASSUME NEW outcome \in Outcome, NEW size \in {"small", "large"},
                   Finish(w, outcome, size, worker[w].round)
            PROVE  worker' \in [Workers -> WorkerState] /\ WorkersInv'
        BY <1>2, <2>0, <2>5, <4>1, FinishTyped, WorkerParts DEF BeginRound
      <4>2. CASE worker' = [worker EXCEPT ![w].state = "testing"] /\ worker[w].round < MaxRounds
        <5>1. worker[w].state = "round" /\ call' = call /\ writing' = writing
          BY <2>5 DEF BeginRound
        <5>2. worker[w].result = NoResult
          BY <2>0, <5>1 DEF WorkersInv, HasNone
        <5> QED
          BY <1>2, <4>2, <5>1, <5>2, StateKept DEF HasResult, HasNone, Live
      <4>3. \/ \E outcome \in Outcome, size \in {"small", "large"} :
                   Finish(w, outcome, size, worker[w].round)
            \/ /\ worker' = [worker EXCEPT ![w].state = "testing"]
               /\ ~(worker[w].round >= MaxRounds)
        BY <2>5 DEF BeginRound, SearchAssumption, Outcome
      <4> QED
        <5>1. worker[w].round \in 0 .. MaxRounds
          BY <2>0, WorkerParts
        <5>2. ~(worker[w].round >= MaxRounds) => worker[w].round < MaxRounds
          BY <2>00, <5>1
        <5> QED
          BY <4>1, <4>2, <4>3, <5>2
    <3> QED
      BY <2>0, <2>5, <3>1 DEF BeginRound, ManagerOK, TypeOK
  <2>6. ASSUME NEW w \in Workers, PassTests(w)
        PROVE  ManagerOK'
    <3>1. worker[w].round + 1 \in 0 .. MaxRounds
      <4>1. worker[w].round < MaxRounds
        BY <2>0, <2>6 DEF PassTests, WorkersInv
      <4>2. worker[w].round \in 0 .. MaxRounds
        BY <2>0, WorkerParts
      <4> QED
        BY <2>00, <4>1, <4>2
    <3>2. PICK size \in {"small", "large"} : Finish(w, "success", size, worker[w].round + 1)
      BY <2>6 DEF PassTests, SearchAssumption
    <3>3. "success" \in Outcome
      BY DEF Outcome
    <3>4. worker' \in [Workers -> WorkerState] /\ WorkersInv'
      BY <1>2, <2>6, <3>1, <3>2, <3>3, FinishTyped DEF PassTests
    <3> QED
      BY <2>0, <2>6, <3>4 DEF PassTests, ManagerOK, TypeOK
  <2>7. ASSUME NEW w \in Workers, FailTests(w)
        PROVE  ManagerOK'
    <3>1. worker[w].round + 1 \in 0 .. MaxRounds
      <4>1. worker[w].round < MaxRounds
        BY <2>0, <2>7 DEF FailTests, WorkersInv
      <4>2. worker[w].round \in 0 .. MaxRounds
        BY <2>0, WorkerParts
      <4> QED
        BY <2>00, <4>1, <4>2
    <3>2. worker' = [worker EXCEPT ![w].state = "round", ![w].round = worker[w].round + 1]
      BY <2>0, <2>7 DEF FailTests, TypeOK
    <3>3. worker' \in [Workers -> WorkerState]
      BY <2>0, <3>1, <3>2 DEF TypeOK, WorkerState, Live
    <3>4. /\ worker'[w].state = "round" /\ worker'[w].result = worker[w].result
          /\ \A o \in Workers \ {w} : worker'[o] = worker[o]
      BY <2>0, <3>2 DEF TypeOK, WorkerState
    <3>5. WorkersInv'
      <4>1. worker[w].state = "testing" /\ UNCHANGED <<call, writing>>
        BY <2>7 DEF FailTests
      <4>2. worker[w].result = NoResult /\ call \in 1 .. MaxCalls
        BY <2>0, <4>1 DEF WorkersInv, HasNone
      <4> QED
        BY <2>0, <3>4, <4>1, <4>2 DEF WorkersInv, HasResult, HasNone
    <3> QED
      BY <2>0, <2>7, <3>3, <3>5 DEF FailTests, ManagerOK, TypeOK
  <2>8. ASSUME NEW w \in Workers, RaiseInWorker(w)
        PROVE  ManagerOK'
    <3>1. worker' \in [Workers -> WorkerState] /\ WorkersInv'
      <4>1. worker[w].result = NoResult
        BY <2>0, <2>8 DEF RaiseInWorker, WorkersInv, HasNone
      <4> QED
        BY <1>2, <2>8, <4>1, StateKept DEF RaiseInWorker, HasResult
    <3> QED
      BY <2>0, <2>8, <3>1 DEF RaiseInWorker, ManagerOK, TypeOK
  <2>9. ASSUME NEW w \in Workers, WriteSmallResult(w)
        PROVE  ManagerOK'
    <3>1. worker[w].result \in Result
      BY <2>0, <2>9 DEF WriteSmallResult, WorkersInv, HasResult
    <3>2. pipe' \in Seq(Result)
      BY <2>0, <2>9, <3>1 DEF WriteSmallResult, TypeOK
    <3>3. worker' \in [Workers -> WorkerState] /\ WorkersInv'
      BY <1>2, <2>9, <3>1, StateKept DEF WriteSmallResult, HasNone
    <3> QED
      BY <2>0, <2>9, <3>2, <3>3 DEF WriteSmallResult, ManagerOK, TypeOK
  <2>10. ASSUME NEW w \in Workers, BeginLargeResult(w)
         PROVE  ManagerOK'
    <3>1. worker[w].result \in Result /\ writing = NoResult
      BY <2>0, <2>10 DEF BeginLargeResult, WorkersInv, HasResult
    <3>2. \A o \in Workers : worker[o].state # "writing"
      BY <2>0, <3>1, NoResultIsNone DEF WorkersInv, HasResult
    <3>3. worker' \in [Workers -> WorkerState] /\ WorkersInv'
      BY <1>2, <2>10, <3>1, <3>2, StateKept DEF BeginLargeResult, HasNone, Live
    <3> QED
      BY <2>0, <2>10, <3>1, <3>3 DEF BeginLargeResult, ManagerOK, TypeOK
  <2>11. ASSUME NEW w \in Workers, EndLargeResult(w)
         PROVE  ManagerOK'
    <3>1. worker[w].result \in Result /\ writing = worker[w].result
      BY <2>0, <2>11 DEF EndLargeResult, WorkersInv, HasResult
    <3>2. \A o \in Workers \ {w} : worker[o].state # "writing"
      <4>1. worker[w].result.worker = w
        BY <2>0, <3>1, NoResultIsNone DEF WorkersInv
      <4>2. ASSUME NEW o \in Workers, worker[o].state = "writing"
            PROVE  o = w
        <5>1. worker[o].result = writing
          BY <2>0, <4>2 DEF WorkersInv
        <5>2. worker[o].result # NoResult
          BY <3>1, <5>1, NoResultIsNone
        <5>3. worker[o].result.worker = o
          BY <2>0, <5>2 DEF WorkersInv
        <5> QED
          BY <3>1, <4>1, <5>1, <5>3
      <4> QED
        BY <4>2
    <3>3. worker' \in [Workers -> WorkerState] /\ WorkersInv'
      BY <1>2, <2>11, <3>1, <3>2, StateKept DEF EndLargeResult, HasNone
    <3> QED
      BY <2>0, <2>11, <3>1, <3>3 DEF EndLargeResult, ManagerOK, TypeOK
  <2>12. ASSUME NEW w \in Workers, Die(w)
         PROVE  ManagerOK'
    <3>1. worker' = [worker EXCEPT ![w].state = "dead"] /\ worker[w].state = "dying"
      BY <2>12 DEF Die
    <3>2. UNCHANGED <<call, manager, joined, results, winner, success_event>>
      BY <2>12 DEF Die
    <3>3. /\ worker[w].result \in Result \cup {NoResult}
          /\ \/ UNCHANGED <<pipe, writing, late>>
             \/ /\ worker[w].result # NoResult /\ writing = NoResult /\ late'
                /\ \/ pipe' = Append(pipe, worker[w].result) /\ writing' = writing
                   \/ pipe' = pipe /\ writing' = worker[w].result
      BY <2>0, <2>12, WorkerParts DEF Die
    <3>4. late' \in BOOLEAN
      BY <2>0, <2>12, Zenon DEF Die, TypeOK
    <3>5. pipe' \in Seq(Result) /\ writing' \in Result \cup {NoResult}
      <4>1. pipe \in Seq(Result) /\ writing \in Result \cup {NoResult}
        BY <2>0 DEF TypeOK
      <4>2. worker[w].result # NoResult => worker[w].result \in Result
        BY <3>3
      <4>3. CASE UNCHANGED <<pipe, writing, late>>
        BY <4>1, <4>3
      <4>4. CASE /\ worker[w].result # NoResult /\ writing' = writing
                 /\ pipe' = Append(pipe, worker[w].result)
        <5>1. Append(pipe, worker[w].result) \in Seq(Result)
          BY <4>1, <4>2, <4>4
        <5> QED
          BY <4>1, <4>4, <5>1
      <4>5. CASE /\ worker[w].result # NoResult /\ pipe' = pipe
                 /\ writing' = worker[w].result
        BY <4>1, <4>2, <4>5
      <4> QED
        BY <3>3, <4>3, <4>4, <4>5
    <3>6. \A o \in Workers : worker[o].state = "writing" => writing' = writing
      BY <2>0, <3>3, NoResultIsNone DEF WorkersInv, HasResult
    <3>7. worker' \in [Workers -> WorkerState] /\ WorkersInv'
      BY <1>2, <3>1, <3>2, <3>6, StateKept DEF HasResult, HasNone
    <3> QED
      BY <2>0, <3>2, <3>4, <3>5, <3>7 DEF ManagerOK, TypeOK
  <2>13. CASE UNCHANGED vars
    BY <2>0, <2>13 DEF vars, ManagerOK, TypeOK, WorkersInv
  <2> QED
    BY <1>2, <2>1, <2>2, <2>3, <2>4, <2>5, <2>6, <2>7, <2>8, <2>9, <2>10, <2>11, <2>12, <2>13
    DEF Next, Manage, Work
<1> QED
  BY <1>1, <1>2, PTL DEF Spec

(* Type correctness of the manager: the queue holds whole results, the written half is of
   one result, no worker is past max_rounds. *)
THEOREM ManagerTypeCorrect == Spec => []TypeOK
<1>1. ManagerOK => TypeOK
  BY DEF ManagerOK
<1> QED
  BY <1>1, ManagerKept, PTL

-----------------------------------------------------------------------------
(* What a call relies on.  A joined worker does nothing any more. *)
NoneLiveJoined ==
    /\ \A w \in Workers : w <= joined => worker[w].state \notin Live
    /\ manager \in {"draining", "returned"} => joined = NumWorkers
    /\ manager = "idle" => \A w \in Workers : worker[w].state \notin Live

(* A result is in the queue or collected, and once the call has returned it is collected;
   and a collected success is the winner, if no other is. *)
ResultsCollected ==
    /\ \A w \in Workers :
          worker[w].state = "exited" => worker[w].result \in Range(pipe) \cup Range(results)
    /\ ReportsAreKept
    /\ \A r \in Range(results) : Succeeded(r) => winner # NoResult

(* The queue is empty between two calls, unless a dying worker has written to it. *)
ResultsOwn ==
    /\ \A r \in Range(pipe) : r.call = call \/ late
    /\ manager \in {"idle", "returned"} => pipe = <<>> \/ late
    /\ WinnerIsOwn

(* The event is set for a winner. *)
EventForWinner ==
    /\ success_event => winner # NoResult
    /\ StopsOnlyForWinner

SearchInv == NoneLiveJoined /\ ResultsCollected /\ ResultsOwn /\ EventForWinner

(* What a worker's step may do to the rest: it comes to no new life, a result that is
   reported is its own and in the queue, and only a dying worker writes late. *)
LEMMA WorkSteps ==
    ASSUME SearchAssumption, ManagerOK, NEW w \in Workers, Work(w)
    PROVE  /\ UNCHANGED <<call, manager, joined, results, winner, success_event>>
           /\ \A o \in Workers : worker'[o].state \in Live => worker[o].state \in Live
           /\ \A o \in Workers :
                 worker'[o].state = "exited" =>
                     /\ worker'[o].result = worker[o].result
                     /\ worker[o].state = "exited" \/ worker[o].result \in Range(pipe')
           /\ worker[w].state \in Live \/ pipe' = pipe \/ late'
           /\ late => late'
           /\ Range(pipe) \subseteq Range(pipe')
           /\ \A r \in Range(pipe') : r \in Range(pipe) \/ r.call = call
           /\ \A o \in Workers :
                 worker'[o].result.outcome = "stopped_early" =>
                     worker[o].result.outcome = "stopped_early" \/ success_event
<1> DEFINE Effect ==
        /\ UNCHANGED <<call, manager, joined, results, winner, success_event>>
        /\ \A o \in Workers : worker'[o].state \in Live => worker[o].state \in Live
        /\ \A o \in Workers :
              worker'[o].state = "exited" =>
                  /\ worker'[o].result = worker[o].result
                  /\ worker[o].state = "exited" \/ worker[o].result \in Range(pipe')
        /\ worker[w].state \in Live \/ pipe' = pipe \/ late'
        /\ late => late'
        /\ Range(pipe) \subseteq Range(pipe')
        /\ \A r \in Range(pipe') : r \in Range(pipe) \/ r.call = call
        /\ \A o \in Workers :
              worker'[o].result.outcome = "stopped_early" =>
                  worker[o].result.outcome = "stopped_early" \/ success_event
<1> SUFFICES Effect
  OBVIOUS
<1>1. TypeOK /\ WorkersInv
  BY DEF ManagerOK
<1>2. \A o \in Workers \ {w} : worker'[o] = worker[o]
  BY <1>1 DEF TypeOK, Work, BeginRound, PassTests, FailTests, RaiseInWorker, WriteSmallResult,
              BeginLargeResult, EndLargeResult, Die, Finish
<1>3. CASE BeginRound(w) \/ PassTests(w) \/ FailTests(w) \/ RaiseInWorker(w)
  <2>1. /\ UNCHANGED <<call, manager, joined, results, winner, success_event, pipe, writing, late>>
        /\ worker[w].state \in Live
    BY <1>3 DEF BeginRound, PassTests, FailTests, RaiseInWorker, Live
  <2>2. /\ worker'[w].state # "exited"
        /\ worker'[w].result.outcome = "stopped_early" =>
              worker[w].result.outcome = "stopped_early" \/ success_event
    BY <1>1, <1>3 DEF TypeOK, WorkerState, BeginRound, PassTests, FailTests, RaiseInWorker, Finish
  <2> QED
    BY <1>2, <2>1, <2>2
<1>4. CASE WriteSmallResult(w)
  <2>1. /\ UNCHANGED <<call, manager, joined, results, winner, success_event, writing, late>>
        /\ worker[w].state = "reporting" /\ pipe' = Append(pipe, worker[w].result)
        /\ worker' = [worker EXCEPT ![w].state = "exited"]
    BY <1>4 DEF WriteSmallResult
  <2>2. worker[w].result \in Result
    BY <1>1, <2>1 DEF WorkersInv, HasResult
  <2>3. worker[w].result.call = call
    BY <1>1, <2>2, NoResultIsNone DEF WorkersInv
  <2>4. worker'[w].result = worker[w].result /\ worker'[w].state = "exited"
    BY <2>1, StateTyped
  <2>5. Range(pipe') = Range(pipe) \cup {worker[w].result}
    BY <1>1, <2>1, <2>2, RangeOfAppend DEF TypeOK
  <2> QED
    BY <1>2, <2>1, <2>3, <2>4, <2>5 DEF Live
<1>5. CASE BeginLargeResult(w)
  <2>1. /\ UNCHANGED <<call, manager, joined, results, winner, success_event, pipe, late>>
        /\ worker[w].state = "reporting" /\ worker' = [worker EXCEPT ![w].state = "writing"]
    BY <1>5 DEF BeginLargeResult
  <2>2. worker'[w].result = worker[w].result /\ worker'[w].state = "writing"
    BY <2>1, StateTyped DEF Live
  <2> QED
    BY <1>2, <2>1, <2>2 DEF Live
<1>6. CASE EndLargeResult(w)
  <2>1. /\ UNCHANGED <<call, manager, joined, results, winner, success_event, late>>
        /\ worker[w].state = "writing" /\ pipe = <<>> /\ pipe' = <<writing>>
        /\ worker' = [worker EXCEPT ![w].state = "exited"]
    BY <1>6 DEF EndLargeResult
  <2>2. worker[w].result \in Result /\ writing = worker[w].result
    BY <1>1, <2>1 DEF WorkersInv, HasResult
  <2>3. worker[w].result.call = call
    BY <1>1, <2>2, NoResultIsNone DEF WorkersInv
  <2>4. worker'[w].result = worker[w].result /\ worker'[w].state = "exited"
    BY <2>1, StateTyped
  <2>5. Range(pipe') = {worker[w].result} /\ Range(pipe) = {}
    BY <2>1, <2>2 DEF Range
  <2> QED
    BY <1>2, <2>1, <2>3, <2>4, <2>5 DEF Live
<1>7. CASE Die(w)
  <2>1. /\ UNCHANGED <<call, manager, joined, results, winner, success_event>>
        /\ worker' = [worker EXCEPT ![w].state = "dead"]
    BY <1>7 DEF Die
  <2>2. worker'[w].result = worker[w].result /\ worker'[w].state = "dead"
    BY <2>1, StateTyped
  <2>3. CASE pipe' = pipe
    <3>1. late => late'
      BY <1>7 DEF Die
    <3> QED
      BY <1>2, <2>1, <2>2, <2>3, <3>1 DEF Live
  <2>4. CASE pipe' # pipe
    <3>1. late' /\ worker[w].result # NoResult /\ pipe' = Append(pipe, worker[w].result)
      BY <1>7, <2>4 DEF Die
    <3>2. worker[w].result \in Result /\ worker[w].result.call = call
      BY <1>1, <3>1, WorkerParts DEF WorkersInv
    <3>3. Range(pipe') = Range(pipe) \cup {worker[w].result}
      BY <1>1, <3>1, <3>2, RangeOfAppend DEF TypeOK
    <3> QED
      BY <1>2, <2>1, <2>2, <3>1, <3>2, <3>3 DEF Live
  <2> QED
    BY <2>3, <2>4
<1> QED
  BY <1>3, <1>4, <1>5, <1>6, <1>7 DEF Work

(* A step of a worker keeps what the call relies on. *)
LEMMA WorkKeepsSearch ==
    ASSUME SearchAssumption, ManagerOK, ManagerOK', SearchInv, NEW w \in Workers, Work(w)
    PROVE  SearchInv'
<1> USE DEF SearchInv
<1>1. /\ UNCHANGED <<call, manager, joined, results, winner, success_event>>
      /\ \A o \in Workers : worker'[o].state \in Live => worker[o].state \in Live
  BY WorkSteps
<1>2. \A o \in Workers :
          worker'[o].state = "exited" =>
              /\ worker'[o].result = worker[o].result
              /\ worker[o].state = "exited" \/ worker[o].result \in Range(pipe')
  BY WorkSteps
<1>3. NoneLiveJoined'
  BY <1>1 DEF NoneLiveJoined
<1>4. manager \in {"idle", "returned"} => worker[w].state \notin Live
  BY SearchAssumption DEF NoneLiveJoined, SearchAssumption, Workers
<1>5. manager = "returned" =>
          \A o \in Workers : worker'[o].state = "exited" => worker[o].state = "exited"
  <2> SUFFICES ASSUME manager = "returned", NEW o \in Workers, worker'[o].state = "exited",
                      worker[o].state # "exited"
               PROVE  FALSE
    OBVIOUS
  <2>1. worker[o].state \notin Live
    BY SearchAssumption DEF NoneLiveJoined, SearchAssumption, Workers
  <2>2. o = w => FALSE
    BY <2>1 DEF ManagerOK, TypeOK, WorkerState, Work, BeginRound, PassTests, FailTests, RaiseInWorker,
           WriteSmallResult, BeginLargeResult, EndLargeResult, Die, Finish, Live
  <2>3. o # w => worker'[o] = worker[o]
    BY DEF ManagerOK, TypeOK, Work, BeginRound, PassTests, FailTests, RaiseInWorker,
           WriteSmallResult, BeginLargeResult, EndLargeResult, Die, Finish
  <2> QED
    BY <2>2, <2>3
<1>6. ResultsCollected'
  <2>1. Range(pipe) \subseteq Range(pipe')
    BY WorkSteps
  <2> QED
    BY <1>1, <1>2, <1>5, <2>1 DEF ResultsCollected, ReportsAreKept
<1>7. ResultsOwn'
  <2>1. /\ \A r \in Range(pipe') : r \in Range(pipe) \/ r.call = call
        /\ late => late'
        /\ worker[w].state \in Live \/ pipe' = pipe \/ late'
    BY WorkSteps
  <2> QED
    BY <1>1, <1>4, <2>1 DEF ResultsOwn, WinnerIsOwn
<1>8. EventForWinner'
  <2>1. \A o \in Workers :
            worker'[o].result.outcome = "stopped_early" =>
                worker[o].result.outcome = "stopped_early" \/ success_event
    BY WorkSteps
  <2> QED
    BY <1>1, <2>1 DEF EventForWinner, StopsOnlyForWinner
<1> QED
  BY <1>3, <1>6, <1>7, <1>8

(* So does every step of the manager, and the start of the next call. *)
LEMMA SearchKept == Spec => [](ManagerOK /\ SearchInv)
<1> USE SearchAssumption
<1>1. ASSUME Init
      PROVE  SearchInv
  <2>1. Range(pipe) = {} /\ Range(results) = {}
    BY <1>1 DEF Init, Range
  <2>2. \A w \in Workers : worker[w].state = "absent" /\ worker[w].result = NoResult
    BY <1>1 DEF Init, Absent
  <2> QED
    BY <1>1, <2>1, <2>2, NoResultIsNone
    DEF Init, SearchInv, NoneLiveJoined, ResultsCollected, ReportsAreKept, ResultsOwn, WinnerIsOwn,
        EventForWinner, StopsOnlyForWinner, Live
<1>2. ASSUME ManagerOK, ManagerOK', SearchInv, [Next]_vars
      PROVE  SearchInv'
  <2> USE DEF SearchInv
  <2>0. TypeOK /\ WorkersInv
    BY <1>2 DEF ManagerOK
  <2>1. CASE StartCall
    <3>1. /\ manager \in {"idle", "returned"} /\ manager' = "polling" /\ joined' = 0
          /\ results' = <<>> /\ winner' = NoResult /\ success_event' = FALSE
          /\ UNCHANGED <<pipe, late>>
      BY <2>1 DEF StartCall
    <3>2. \A w \in Workers : worker'[w].state \in {"absent", "round"} /\ worker'[w].result = NoResult
      BY <2>1 DEF StartCall, Absent
    <3>3. Range(results') = {}
      BY <3>1 DEF Range
    <3>4. pipe = <<>> => Range(pipe') = {}
      BY <3>1 DEF Range
    <3>5. \A w \in Workers : ~(w <= joined')
      BY <3>1, SearchAssumption DEF SearchAssumption, Workers
    <3> QED
      BY <1>2, <3>1, <3>2, <3>3, <3>4, <3>5, NoResultIsNone
      DEF NoneLiveJoined, ResultsCollected, ReportsAreKept, ResultsOwn, WinnerIsOwn,
          EventForWinner, StopsOnlyForWinner
  <2>2. CASE LookForLiveWorker \/ FindQueueEmpty
    <3>1. /\ manager' \in {"getting", "joining", "polling"}
          /\ UNCHANGED <<call, joined, results, winner, success_event, pipe, worker, late>>
      BY <2>2, Zenon DEF LookForLiveWorker, FindQueueEmpty
    <3> QED
      BY <1>2, <3>1
      DEF NoneLiveJoined, ResultsCollected, ReportsAreKept, ResultsOwn, WinnerIsOwn,
          EventForWinner, StopsOnlyForWinner
  <2>3. CASE StopJoining
    BY <1>2, <2>3
    DEF StopJoining, NoneLiveJoined, ResultsCollected, ReportsAreKept, ResultsOwn, WinnerIsOwn,
        EventForWinner, StopsOnlyForWinner
  <2>4. CASE ReturnWinner
    <3>1. pipe = <<>> /\ manager = "draining" /\ manager' = "returned"
          /\ UNCHANGED <<call, joined, results, winner, success_event, pipe, worker, late>>
      BY <2>4 DEF ReturnWinner
    <3>2. Range(pipe) = {}
      BY <3>1 DEF Range
    <3> QED
      BY <1>2, <3>1, <3>2
      DEF NoneLiveJoined, ResultsCollected, ReportsAreKept, ResultsOwn, WinnerIsOwn,
          EventForWinner, StopsOnlyForWinner
  <2>5. CASE TakeResult \/ DrainResult
    <3>1. /\ pipe # <<>> /\ pipe' = Tail(pipe) /\ results' = Append(results, Head(pipe))
          /\ UNCHANGED <<call, joined, worker, late>>
      BY <2>5 DEF TakeResult, DrainResult, Receive
    <3>2. Head(pipe) \in Result /\ Range(pipe) = Range(pipe') \cup {Head(pipe)}
      BY <2>0, <3>1, RangeOfTail DEF TypeOK
    <3>3. Range(results') = Range(results) \cup {Head(pipe)}
      BY <2>0, <3>1, <3>2, RangeOfAppend DEF TypeOK
    <3>4. /\ winner' = winner \/ winner' = Head(pipe)
          /\ winner # NoResult => winner' # NoResult
          /\ Succeeded(Head(pipe)) => winner' # NoResult
          /\ success_event' => success_event \/ winner' # NoResult
      BY <2>5, <3>2, NoResultIsNone DEF TakeResult, DrainResult
    <3>5. manager' \in {"joining", "polling", "draining"} /\ (manager' = "draining" => manager = "draining")
      BY <2>5, Zenon DEF TakeResult, DrainResult
    <3>6. Range(pipe') \cup Range(results') = Range(pipe) \cup Range(results)
      BY <3>2, <3>3
    <3>7. NoneLiveJoined'
      BY <1>2, <3>1, <3>5 DEF NoneLiveJoined
    <3>8. ResultsCollected'
      BY <1>2, <3>1, <3>3, <3>4, <3>5, <3>6 DEF ResultsCollected, ReportsAreKept
    <3>9. ResultsOwn'
      BY <1>2, <3>1, <3>2, <3>4, <3>5 DEF ResultsOwn, WinnerIsOwn
    <3>10. EventForWinner'
      BY <1>2, <3>1, <3>4 DEF EventForWinner, StopsOnlyForWinner
    <3> QED
      BY <3>7, <3>8, <3>9, <3>10
  <2>6. CASE JoinWorker
    <3>1. /\ manager = "joining" /\ manager' = "joining" /\ joined' = joined + 1
          /\ UNCHANGED <<call, results, winner, success_event, pipe, late>>
      BY <2>6 DEF JoinWorker
    <3>2. joined \in Nat /\ joined + 1 \in Workers
      BY <2>0, <2>6, SearchAssumption DEF JoinWorker, TypeOK, SearchAssumption, Workers
    <3>3. /\ \A o \in Workers : worker'[o].result = worker[o].result
          /\ \A o \in Workers : worker'[o] = worker[o] \/ worker'[o].state = "dying"
          /\ worker'[joined + 1].state \notin Live
      <4>1. CASE Alive(joined + 1)
        <5>1. worker' = [worker EXCEPT ![joined + 1].state = "dying"]
          BY <2>6, <4>1 DEF JoinWorker
        <5>2. /\ worker'[joined + 1].state = "dying"
              /\ worker'[joined + 1].result = worker[joined + 1].result
              /\ \A o \in Workers \ {joined + 1} : worker'[o] = worker[o]
          BY <1>2, <3>2, <5>1, StateTyped
        <5> QED
          BY <5>2 DEF Live
      <4>2. CASE ~Alive(joined + 1)
        BY <2>6, <4>2 DEF JoinWorker, Alive
      <4> QED
        BY <4>1, <4>2
    <3>4. \A w \in Workers : w <= joined' => w <= joined \/ w = joined + 1
      BY <3>1, <3>2 DEF Workers
    <3>5. "dying" \notin Live
      BY DEF Live
    <3>6. NoneLiveJoined'
      BY <1>2, <3>1, <3>3, <3>4, <3>5 DEF NoneLiveJoined
    <3>7. ResultsCollected' /\ ResultsOwn' /\ EventForWinner'
      BY <1>2, <3>1, <3>3
      DEF ResultsCollected, ReportsAreKept, ResultsOwn, WinnerIsOwn, EventForWinner, StopsOnlyForWinner
    <3> QED
      BY <3>6, <3>7
  <2>7. ASSUME NEW w \in Workers, Work(w)
        PROVE  SearchInv'
    BY <1>2, <2>7, WorkKeepsSearch
  <2>8. CASE UNCHANGED vars
    BY <1>2, <2>8
    DEF vars, NoneLiveJoined, ResultsCollected, ReportsAreKept, ResultsOwn, WinnerIsOwn,
        EventForWinner, StopsOnlyForWinner
  <2> QED
    BY <1>2, <2>1, <2>2, <2>3, <2>4, <2>5, <2>6, <2>7, <2>8 DEF Next, Manage
<1> QED
  BY <1>1, <1>2, ManagerKept, PTL DEF Spec

(* A worker that came to its end is never forgotten: its result is among those the call
   has collected when it returns. *)
THEOREM ReportsKept == Spec => []ReportsAreKept
<1>1. SearchInv => ReportsAreKept
  BY DEF SearchInv, ResultsCollected
<1> QED
  BY <1>1, SearchKept, PTL

(* A worker stops early only when its call has a winner. *)
THEOREM StopsForWinner == Spec => []StopsOnlyForWinner
<1>1. SearchInv => StopsOnlyForWinner
  BY DEF SearchInv, EventForWinner
<1> QED
  BY <1>1, SearchKept, PTL

-----------------------------------------------------------------------------
(* A build is a run of its manager: every step of the command is one of the manager's or
   leaves the manager as it is. *)
THEOREM BuildImplementsManager == BuildSpec => Spec
<1>1. BuildInit => Init
  BY DEF BuildInit
<1>2. [BuildNext]_buildVars => [Next]_vars
  BY DEF BuildNext, Build, Generate, GenerationRaises, BeginSave, RemoveFile, MakeDirectory, OpenFile,
         FillFile, EndSave, EndCommand, Search, Crash, Next, buildVars
<1> QED
  BY <1>1, <1>2, PTL DEF BuildSpec, Spec

(* A build whose call returns no kernel had no worker with one. *)
THEOREM SuccessNeverLost == BuildSpec => []NoSuccessLost
<1>1. SearchInv => NoSuccessLost
  BY DEF SearchInv, ResultsCollected, ReportsAreKept, NoSuccessLost
<1> QED
  BY <1>1, SearchKept, BuildImplementsManager, PTL

(* The kernel saved for a problem is one of its own workers', if no terminated worker has
   written to the queue. *)
THEOREM WinnerOfOwnCall == BuildSpec => []WinnerIsOwn
<1>1. SearchInv => WinnerIsOwn
  BY DEF SearchInv, ResultsOwn
<1> QED
  BY <1>1, SearchKept, BuildImplementsManager, PTL

-----------------------------------------------------------------------------
(* The manager implements ParallelSearch *)

(* What is in the queue was put there by a worker that is through, or it came late; the
   winner is a success of such a worker; and a call looks for one until it has one, and
   joins workers that are alive only when it has one. *)
ReportsOwned ==
    \A r \in Range(pipe) :
        late \/ (worker[r.worker].state = "exited" /\ worker[r.worker].result = r)

WinnerOwned ==
    winner # NoResult =>
        /\ winner \in Result /\ Succeeded(winner)
        /\ late \/ (/\ worker[winner.worker].state = "exited"
                    /\ worker[winner.worker].result = winner)

FirstWinner ==
    /\ manager \in {"idle", "polling", "getting"} => winner = NoResult
    /\ manager = "joining" /\ winner = NoResult => \A w \in Workers : ~Alive(w)

AnswerInv == ReportsOwned /\ WinnerOwned /\ FirstWinner

(* No worker has the number that stands for none. *)
LEMMA WinnerNumbers ==
    ASSUME SearchAssumption
    PROVE  /\ NoResult.worker = 0 /\ 0 \notin Workers
           /\ \A r \in Result : r.worker \in Workers
BY DEF SearchAssumption, NoResult, Result, Workers

(* An exited worker stays as it is while the call lasts. *)
LEMMA ExitedStays ==
    ASSUME ManagerOK, NEW w \in Workers, Work(w)
    PROVE  \A o \in Workers : worker[o].state = "exited" => worker'[o] = worker[o]
BY DEF ManagerOK, TypeOK, Work, BeginRound, PassTests, FailTests, RaiseInWorker,
       WriteSmallResult, BeginLargeResult, EndLargeResult, Die, Finish

(* Workers come to no new life, and what they put in the queue is their own. *)
LEMMA WorkKeepsAnswer ==
    ASSUME SearchAssumption, ManagerOK, AnswerInv, NEW w \in Workers, Work(w)
    PROVE  AnswerInv'
<1>1. /\ UNCHANGED <<call, manager, joined, results, winner, success_event>>
      /\ late => late'
      /\ \A o \in Workers : worker[o].state = "exited" => worker'[o] = worker[o]
  BY WorkSteps, ExitedStays
<1>2. TypeOK /\ WorkersInv
  BY DEF ManagerOK
<1>3. \A o \in Workers : Alive(o)' => Alive(o)
  <2>1. \A o \in Workers \ {w} : worker'[o] = worker[o]
    BY <1>2 DEF TypeOK, Work, BeginRound, PassTests, FailTests, RaiseInWorker,
                WriteSmallResult, BeginLargeResult, EndLargeResult, Die, Finish
  <2>2. Alive(w)
    BY DEF Work, BeginRound, PassTests, FailTests, RaiseInWorker, WriteSmallResult,
           BeginLargeResult, EndLargeResult, Die, Alive, Live
  <2> QED
    BY <2>1, <2>2 DEF Alive
<1>4. \A r \in Range(pipe) : r \in Result
  BY <1>2 DEF TypeOK, Range
<1>5. \A r \in Range(pipe') :
          \/ r \in Range(pipe)
          \/ late'
          \/ r = worker[w].result /\ worker'[w].state = "exited" /\ worker'[w].result = r
             /\ r \in Result /\ r.worker = w
  <2>1. CASE BeginRound(w) \/ PassTests(w) \/ FailTests(w) \/ RaiseInWorker(w) \/ BeginLargeResult(w)
    BY <2>1 DEF BeginRound, PassTests, FailTests, RaiseInWorker, BeginLargeResult
  <2>2. CASE WriteSmallResult(w) \/ EndLargeResult(w)
    <3>1. /\ worker' = [worker EXCEPT ![w].state = "exited"]
          /\ worker[w].state \in {"reporting", "writing"}
          /\ pipe' = Append(pipe, worker[w].result) \/ pipe' = <<writing>>
          /\ pipe' = <<writing>> => worker[w].state = "writing" \/ pipe' = Append(pipe, worker[w].result)
      BY <2>2 DEF WriteSmallResult, EndLargeResult
    <3>2. worker[w].result \in Result /\ worker[w].result.worker = w
      BY <1>2, <3>1, NoResultIsNone DEF WorkersInv, HasResult
    <3>3. worker'[w].state = "exited" /\ worker'[w].result = worker[w].result
      BY <3>1, StateTyped
    <3>4. \A r \in Range(pipe') : r \in Range(pipe) \/ r = worker[w].result
      <4>1. CASE pipe' = Append(pipe, worker[w].result)
        BY <1>2, <3>2, <4>1, RangeOfAppend DEF TypeOK
      <4>2. CASE pipe' = <<writing>> /\ worker[w].state = "writing"
        BY <1>2, <4>2 DEF WorkersInv, Range
      <4> QED
        BY <3>1, <4>1, <4>2
    <3> QED
      BY <3>2, <3>3, <3>4
  <2>3. CASE Die(w)
    BY <2>3 DEF Die
  <2> QED
    BY <2>1, <2>2, <2>3 DEF Work
<1>6. ReportsOwned'
  BY <1>1, <1>4, <1>5, WinnerNumbers DEF AnswerInv, ReportsOwned
<1>7. WinnerOwned'
  BY <1>1, WinnerNumbers DEF AnswerInv, WinnerOwned
<1>8. FirstWinner'
  BY <1>1, <1>3 DEF AnswerInv, FirstWinner
<1> QED
  BY <1>6, <1>7, <1>8 DEF AnswerInv

(* The manager takes for the winner what is first in the queue, and only a call that has
   one terminates anybody. *)
LEMMA AnswerKept == Spec => [](ManagerOK /\ SearchInv /\ AnswerInv)
<1> USE SearchAssumption
<1>1. ASSUME Init
      PROVE  AnswerInv
  BY <1>1 DEF Init, AnswerInv, ReportsOwned, WinnerOwned, FirstWinner, Range
<1>2. ASSUME ManagerOK, SearchInv, AnswerInv, [Next]_vars
      PROVE  AnswerInv'
  <2>0. TypeOK /\ WorkersInv
    BY <1>2 DEF ManagerOK
  <2>1. CASE StartCall
    <3>1. /\ manager \in {"idle", "returned"} /\ manager' = "polling" /\ winner' = NoResult
          /\ UNCHANGED <<pipe, late>>
      BY <2>1 DEF StartCall
    <3>2. pipe' = <<>> \/ late'
      BY <1>2, <3>1 DEF SearchInv, ResultsOwn
    <3> QED
      BY <3>1, <3>2 DEF AnswerInv, ReportsOwned, WinnerOwned, FirstWinner, Range
  <2>2. CASE LookForLiveWorker \/ FindQueueEmpty \/ StopJoining \/ ReturnWinner
    <3>1. UNCHANGED <<winner, pipe, worker, late>>
      BY <2>2 DEF LookForLiveWorker, FindQueueEmpty, StopJoining, ReturnWinner
    <3>2. /\ manager' \in {"polling", "getting"} => manager \in {"polling", "getting"}
          /\ manager' = "joining" => \A w \in Workers : ~Alive(w)
          /\ manager' # "idle"
      BY <2>2, Zenon DEF LookForLiveWorker, FindQueueEmpty, StopJoining, ReturnWinner
    <3> QED
      BY <1>2, <3>1, <3>2 DEF AnswerInv, ReportsOwned, WinnerOwned, FirstWinner, Alive
  <2>3. CASE TakeResult \/ DrainResult
    <3>1. /\ pipe # <<>> /\ pipe' = Tail(pipe) /\ UNCHANGED <<worker, late>>
      BY <2>3 DEF TakeResult, DrainResult
    <3>2. Head(pipe) \in Result /\ Range(pipe) = Range(pipe') \cup {Head(pipe)}
      BY <2>0, <3>1, RangeOfTail DEF TypeOK
    <3>3. winner' = winner \/ (winner' = Head(pipe) /\ Succeeded(Head(pipe)))
      BY <2>3 DEF TakeResult, DrainResult
    <3>4. FirstWinner'
      <4>1. CASE TakeResult
        BY <1>2, <3>2, <4>1, NoResultIsNone DEF TakeResult, AnswerInv, FirstWinner
      <4>2. CASE DrainResult
        BY <4>2 DEF DrainResult, FirstWinner
      <4> QED
        BY <2>3, <4>1, <4>2
    <3> QED
      BY <1>2, <3>1, <3>2, <3>3, <3>4 DEF AnswerInv, ReportsOwned, WinnerOwned
  <2>4. CASE JoinWorker
    <3>1. UNCHANGED <<winner, pipe, late>> /\ manager = "joining" /\ manager' = "joining"
      BY <2>4 DEF JoinWorker
    <3>2. joined + 1 \in Workers
      BY <2>0, <2>4 DEF JoinWorker, TypeOK, SearchAssumption, Workers
    <3>3. \A o \in Workers : worker[o].state = "exited" => worker'[o] = worker[o]
      BY <2>0, <2>4 DEF JoinWorker, Alive, Live, TypeOK
    <3>4. winner = NoResult => worker' = worker
      BY <1>2, <2>4, <3>1, <3>2 DEF AnswerInv, FirstWinner, JoinWorker
    <3>5. \A r \in Range(pipe) : r \in Result
      BY <2>0 DEF TypeOK, Range
    <3> QED
      BY <1>2, <3>1, <3>3, <3>4, <3>5, WinnerNumbers
      DEF AnswerInv, ReportsOwned, WinnerOwned, FirstWinner, Alive
  <2>5. ASSUME NEW w \in Workers, Work(w)
        PROVE  AnswerInv'
    BY <1>2, <2>5, WorkKeepsAnswer
  <2>6. CASE UNCHANGED vars
    BY <1>2, <2>6 DEF vars, AnswerInv, ReportsOwned, WinnerOwned, FirstWinner, Alive
  <2> QED
    BY <1>2, <2>1, <2>2, <2>3, <2>4, <2>5, <2>6 DEF Next, Manage
<1> QED
  BY <1>1, <1>2, SearchKept, PTL DEF Spec

(* When one worker changes, so does its attempt and no other. *)
LEMMA OneAttempt ==
    ASSUME NEW w \in Workers, \A o \in Workers \ {w} : worker'[o] = worker[o]
    PROVE  [o \in Workers |-> Attempt(o)]' = [[o \in Workers |-> Attempt(o)] EXCEPT ![w] = Attempt(w)']
<1>1. \A o \in Workers \ {w} : Attempt(o)' = Attempt(o)
  BY DEF Attempt
<1> QED
  BY <1>1

(* A worker's step is its attempt's. *)
LEMMA WorkImplements ==
    ASSUME SearchAssumption, ManagerOK, SearchInv, AnswerInv, NEW w \in Workers, Work(w)
    PROVE  [FirstSuccess!Next]_(FirstSuccess!searchVars)
<1> DEFINE attempt == [o \in Workers |-> Attempt(o)]
<1>1. TypeOK /\ WorkersInv
  BY DEF ManagerOK
<1>2. UNCHANGED <<manager, winner>> /\ \A o \in Workers \ {w} : worker'[o] = worker[o]
  BY <1>1 DEF TypeOK, Work, BeginRound, PassTests, FailTests, RaiseInWorker, WriteSmallResult,
              BeginLargeResult, EndLargeResult, Die, Finish
<1>3. attempt' = [attempt EXCEPT ![w] = Attempt(w)'] /\ attempt[w] = Attempt(w)
  BY <1>2, OneAttempt
<1>4. attempt' = attempt \/ Attempt(w)' # Attempt(w)
  BY <1>3
<1>5. CASE Die(w)
  <2>1. Attempt(w) = "terminated" /\ Attempt(w)' = "terminated"
    BY <1>1, <1>5 DEF Die, Attempt, TypeOK, WorkerState
  <2>2. late' = late \/ late' = TRUE
    BY <1>5 DEF Die
  <2>3. attempt' = attempt
    BY <1>4, <2>1
  <2>4. CASE late' = late
    BY <1>2, <2>3, <2>4 DEF FirstSuccess!searchVars
  <2>5. CASE late' = TRUE
    BY <1>2, <1>3, <2>1, <2>3, <2>5 DEF FirstSuccess!Next, FirstSuccess!Speak
  <2> QED
    BY <2>2, <2>4, <2>5
<1>6. CASE ~Die(w)
  <2>1. late' = late /\ worker[w].state \in Live
    BY <1>6 DEF Work, BeginRound, PassTests, FailTests, RaiseInWorker, WriteSmallResult,
                BeginLargeResult, EndLargeResult, Live
  <2>2. manager \notin {"idle", "returned"}
    BY <2>1 DEF SearchInv, NoneLiveJoined, SearchAssumption, Workers
  <2>3. \/ Attempt(w)' = Attempt(w)
        \/ Attempt(w) = "trying" /\ Attempt(w)' \in {"passed", "failed"}
        \/ Attempt(w) = "trying" /\ Attempt(w)' = "gave_up" /\ success_event
    <3>1. CASE BeginRound(w)
      <4>1. worker[w].state = "round" /\ Attempt(w) = "trying"
        BY <3>1 DEF BeginRound, Attempt
      <4>2. CASE worker' = [worker EXCEPT ![w].state = "testing"]
        <5>1. worker'[w].state = "testing"
          BY <4>2, StateTyped DEF Live
        <5> QED
          BY <4>1, <5>1 DEF Attempt
      <4>3. ASSUME NEW outcome \in {"max_rounds_reached", "stopped_early"}, NEW size,
                   Finish(w, outcome, size, worker[w].round),
                   outcome = "stopped_early" => success_event
            PROVE  Attempt(w)' = "failed" \/ (Attempt(w)' = "gave_up" /\ success_event)
        <5>1. worker'[w].state = "reporting" /\ worker'[w].result.outcome = outcome
          BY <1>1, <4>3 DEF Finish, TypeOK
        <5> QED
          BY <4>3, <5>1 DEF Attempt, Succeeded
      <4> QED
        BY <3>1, <4>1, <4>2, <4>3 DEF BeginRound
    <3>2. CASE PassTests(w)
      <4>1. worker[w].state = "testing" /\ Attempt(w) = "trying"
        BY <3>2 DEF PassTests, Attempt
      <4>2. worker'[w].state = "reporting" /\ worker'[w].result.outcome = "success"
        BY <1>1, <3>2 DEF PassTests, Finish, TypeOK
      <4> QED
        BY <4>1, <4>2 DEF Attempt, Succeeded
    <3>3. CASE FailTests(w)
      <4>1. worker[w].state = "testing" /\ worker'[w].state = "round"
        BY <1>1, <3>3 DEF FailTests, TypeOK, WorkerState
      <4> QED
        BY <4>1 DEF Attempt
    <3>4. CASE RaiseInWorker(w)
      <4>1. worker[w].state = "testing" /\ worker'[w].state = "raised"
        BY <3>4, StateTyped DEF RaiseInWorker
      <4> QED
        BY <4>1 DEF Attempt
    <3>5. CASE WriteSmallResult(w) \/ BeginLargeResult(w) \/ EndLargeResult(w)
      <4>1. PICK state \in {"exited", "writing"} : worker' = [worker EXCEPT ![w].state = state]
        BY <3>5 DEF WriteSmallResult, BeginLargeResult, EndLargeResult
      <4>2. worker'[w].state = state /\ worker'[w].result = worker[w].result
        BY <4>1, StateTyped DEF Live
      <4>3. worker[w].state \in {"reporting", "writing"}
        BY <3>5 DEF WriteSmallResult, BeginLargeResult, EndLargeResult
      <4> QED
        BY <4>1, <4>2, <4>3 DEF Attempt
    <3> QED
      BY <1>6, <3>1, <3>2, <3>3, <3>4, <3>5 DEF Work
  <2>4. success_event => winner.worker # NoResult.worker
    BY WinnerNumbers DEF SearchInv, EventForWinner, AnswerInv, WinnerOwned
  <2>5. CASE Attempt(w)' = Attempt(w)
    BY <1>2, <1>4, <2>1, <2>5 DEF FirstSuccess!searchVars
  <2>6. CASE Attempt(w) = "trying" /\ Attempt(w)' \in {"passed", "failed"}
    BY <1>2, <1>3, <2>1, <2>2, <2>6 DEF FirstSuccess!Next, FirstSuccess!End, FirstSuccess!Become
  <2>7. CASE Attempt(w) = "trying" /\ Attempt(w)' = "gave_up" /\ success_event
    BY <1>2, <1>3, <2>1, <2>2, <2>4, <2>7 DEF FirstSuccess!Next, FirstSuccess!GiveUp, FirstSuccess!Become
  <2> QED
    BY <2>3, <2>5, <2>6, <2>7
<1> QED
  BY <1>5, <1>6

(* The manager's steps: a call begins, takes its answer, terminates who is left, returns. *)
LEMMA ManageImplements ==
    ASSUME SearchAssumption, ManagerOK, SearchInv, AnswerInv, StartCall \/ Manage
    PROVE  [FirstSuccess!Next]_(FirstSuccess!searchVars)
<1> DEFINE attempt == [o \in Workers |-> Attempt(o)]
<1>1. TypeOK /\ WorkersInv
  BY DEF ManagerOK
<1>2. worker' = worker => attempt' = attempt
  BY DEF Attempt
<1>3. CASE StartCall
  <2>1. /\ manager \in {"idle", "returned"} /\ manager' = "polling" /\ winner' = NoResult /\ late' = late
    BY <1>3 DEF StartCall
  <2>2. PICK seeds \in Workers :
            worker' = [w \in Workers |->
                          IF w <= seeds THEN [Absent EXCEPT !.state = "round"] ELSE Absent]
    BY <1>3 DEF StartCall
  <2>3. /\ \A w \in Workers : worker'[w].state \in {"absent", "round"}
        /\ worker'[seeds].state = "round"
    BY <2>2 DEF Absent, SearchAssumption, Workers
  <2>4. /\ \A w \in Workers : Attempt(w)' \in {"absent", "trying"}
        /\ Attempt(seeds)' = "trying"
    BY <2>3 DEF Attempt
  <2>5. /\ attempt' \in [Workers -> {"absent", "trying"}]
        /\ \E w \in Workers : attempt'[w] = "trying"
    BY <2>4
  <2>6. FirstSuccess!Begin
    BY <2>1, <2>5 DEF FirstSuccess!Begin
  <2> QED
    BY <2>6 DEF FirstSuccess!Next
<1>4. CASE LookForLiveWorker \/ FindQueueEmpty \/ StopJoining
  <2>1. /\ UNCHANGED <<winner, worker, late>>
        /\ manager \notin {"idle", "returned"} /\ manager' \notin {"idle", "returned"}
    BY <1>4, Zenon DEF LookForLiveWorker, FindQueueEmpty, StopJoining
  <2> QED
    BY <1>2, <2>1 DEF FirstSuccess!searchVars
<1>5. CASE TakeResult \/ DrainResult
  <2>1. /\ pipe # <<>> /\ UNCHANGED <<worker, late>>
        /\ manager \notin {"idle", "returned"} /\ manager' \notin {"idle", "returned"}
    BY <1>5, Zenon DEF TakeResult, DrainResult
  <2>2. Head(pipe) \in Result /\ Head(pipe) \in Range(pipe)
    BY <1>1, <2>1, RangeOfTail DEF TypeOK
  <2>3. CASE winner' = winner
    BY <1>2, <2>1, <2>3 DEF FirstSuccess!searchVars
  <2>4. CASE winner' # winner
    <3>1. winner = NoResult /\ winner' = Head(pipe) /\ Succeeded(Head(pipe))
      BY <1>5, <2>4 DEF TakeResult, DrainResult, AnswerInv, FirstWinner
    <3>2. PICK w \in Workers : w = Head(pipe).worker
      BY <2>2, WinnerNumbers
    <3>3. late \/ Attempt(w) = "passed"
      <4>1. late \/ (worker[w].state = "exited" /\ Succeeded(worker[w].result))
        BY <2>2, <3>1, <3>2 DEF AnswerInv, ReportsOwned
      <4>2. worker[w].state = "exited" /\ Succeeded(worker[w].result) => Attempt(w) = "passed"
        BY DEF Attempt, Succeeded
      <4> QED
        BY <4>1, <4>2
    <3>4. FirstSuccess!Answer(w)
      BY <1>2, <2>1, <3>1, <3>2, <3>3 DEF FirstSuccess!Answer
    <3> QED
      BY <3>4 DEF FirstSuccess!Next
  <2> QED
    BY <2>3, <2>4
<1>6. CASE JoinWorker
  <2>1. UNCHANGED <<manager, winner, late>> /\ manager = "joining"
    BY <1>6 DEF JoinWorker
  <2>2. PICK w \in Workers : w = joined + 1
    BY <1>1, <1>6 DEF JoinWorker, TypeOK, SearchAssumption, Workers
  <2>3. CASE ~Alive(w)
    <3>1. worker' = worker
      BY <1>6, <2>2, <2>3 DEF JoinWorker
    <3> QED
      BY <1>2, <2>1, <3>1 DEF FirstSuccess!searchVars
  <2>4. CASE Alive(w)
    <3>1. worker' = [worker EXCEPT ![w].state = "dying"]
      BY <1>6, <2>2, <2>4 DEF JoinWorker
    <3>2. worker'[w].state = "dying" /\ \A o \in Workers \ {w} : worker'[o] = worker[o]
      BY <3>1, StateTyped
    <3>3. Attempt(w)' = "terminated"
      BY <3>2 DEF Attempt
    <3>4. attempt' = [attempt EXCEPT ![w] = "terminated"] /\ attempt[w] = Attempt(w)
      BY <3>2, <3>3, OneAttempt
    <3>5. worker[w].state \notin {"absent", "exited"}
      BY <2>4 DEF Alive, Live
    <3>6. Attempt(w) # "absent"
      BY <3>5 DEF Attempt
    <3>7. winner # NoResult
      BY <2>1, <2>4 DEF AnswerInv, FirstWinner
    <3>8. winner.worker # NoResult.worker /\ (winner.worker # w \/ late)
      BY <3>5, <3>7, WinnerNumbers DEF AnswerInv, WinnerOwned
    <3>9. FirstSuccess!Terminate(w)
      BY <2>1, <3>4, <3>6, <3>8 DEF FirstSuccess!Terminate, FirstSuccess!Become
    <3> QED
      BY <3>9 DEF FirstSuccess!Next
  <2> QED
    BY <2>3, <2>4
<1>7. CASE ReturnWinner
  <2>1. /\ manager = "draining" /\ manager' = "returned" /\ pipe = <<>>
        /\ UNCHANGED <<winner, worker, late>>
    BY <1>7 DEF ReturnWinner
  <2>2. Range(pipe) = {}
    BY <2>1 DEF Range
  <2>3. ASSUME winner.worker = NoResult.worker, NEW w \in Workers
        PROVE  Attempt(w) # "passed"
    <3>1. winner = NoResult
      BY <2>3, WinnerNumbers DEF AnswerInv, WinnerOwned
    <3>2. worker[w].state \notin Live
      BY <2>1 DEF SearchInv, NoneLiveJoined, SearchAssumption, Workers
    <3>3. worker[w].state = "exited" => ~Succeeded(worker[w].result)
      BY <2>2, <3>1 DEF SearchInv, ResultsCollected
    <3> QED
      BY <1>1, <3>2, <3>3, WorkerParts DEF Attempt, Live
  <2>4. FirstSuccess!Return
    BY <1>2, <2>1, <2>3 DEF FirstSuccess!Return
  <2> QED
    BY <2>4 DEF FirstSuccess!Next
<1> QED
  BY <1>3, <1>4, <1>5, <1>6, <1>7 DEF Manage

(* So whatever its queue, its processes and its timeouts do, the manager of a build makes
   calls as ParallelSearch allows them. *)
THEOREM BuildImplementsSearch == BuildSpec => SearchSpec
<1> USE SearchAssumption
<1>1. Init => FirstSuccess!Init
  BY DEF Init, FirstSuccess!Init, Attempt, Absent
<1>2. ManagerOK /\ SearchInv /\ AnswerInv /\ [Next]_vars
        => [FirstSuccess!Next]_(FirstSuccess!searchVars)
  <2>1. UNCHANGED vars => UNCHANGED FirstSuccess!searchVars
    BY DEF vars, FirstSuccess!searchVars, Attempt
  <2> QED
    BY <2>1, WorkImplements, ManageImplements DEF Next
<1>3. Spec => SearchSpec
  BY <1>1, <1>2, AnswerKept, PTL DEF Spec, SearchSpec, FirstSuccess!Spec
<1> QED
  BY <1>3, BuildImplementsManager

-----------------------------------------------------------------------------
(* The files of an entry, in the order in which they are written. *)
LEMMA FilesInOrder ==
    /\ Len(Files) = 4
    /\ Files[1] = "kernel.py" /\ Files[2] = "test.py"
    /\ Files[3] = "meta.json" /\ Files[4] = "error.txt"
    /\ FileNames = {"kernel.py", "test.py", "meta.json", "error.txt"}
    /\ \A i \in 1 .. 4 : Files[i] \in FileNames
BY DEF Files, FileNames, Range

(* The calls are counted by StartCall alone. *)
LEMMA SearchCalls ==
    ASSUME Manage \/ \E w \in Workers : Work(w)
    PROVE  call' = call
BY DEF Manage, Work, LookForLiveWorker, TakeResult, FindQueueEmpty, JoinWorker, StopJoining, DrainResult,
       ReturnWinner, BeginRound, PassTests, FailTests, RaiseInWorker, WriteSmallResult,
       BeginLargeResult, EndLargeResult, Die

(* Type correctness of a build: the builder, its problem, the files written and what is
   in them stay in their ranges, and there are no more calls than problems. *)
THEOREM BuildTypeCorrect == BuildSpec => []BuildTypeOK
<1> USE SearchAssumption
<1>1. ASSUME BuildInit
      PROVE  /\ builder \in {"ready", "searching", "removing", "saving", "stopped"}
             /\ job \in 0 .. MaxCalls /\ call \in Nat /\ call <= job
             /\ written \in 0 .. Len(Files)
             /\ entries \in [Jobs -> [FileNames -> Content]]
  <2>1. \A leftover \in Leftovers : leftover \in [FileNames -> Content]
    BY FilesInOrder DEF Leftovers, NoEntry, WholeEntry, Content
  <2> QED
    BY <1>1, <2>1, FilesInOrder DEF BuildInit, Init, SearchAssumption
<1> DEFINE BuilderOK ==
        /\ builder \in {"ready", "searching", "removing", "saving", "stopped"}
        /\ job \in 0 .. MaxCalls /\ call <= job
        /\ written \in 0 .. Len(Files)
        /\ entries \in [Jobs -> [FileNames -> Content]]
<1>2. ASSUME TypeOK, BuilderOK, [BuildNext]_buildVars
      PROVE  BuilderOK'
  <2> USE <1>2
  <2>0. MaxCalls \in Nat /\ call \in Nat /\ job \in Nat
    BY DEF SearchAssumption, TypeOK
  <2>1. CASE Generate
    <3>1. builder' = "searching" /\ job' = job + 1 /\ job < MaxCalls /\ call' = call + 1
          /\ UNCHANGED <<written, entries>>
      BY <2>1 DEF Generate, StartCall
    <3> QED
      BY <2>0, <3>1
  <2>2. CASE GenerationRaises
    BY <2>0, <2>2 DEF GenerationRaises, vars
  <2>3. CASE Search
    <3>1. call' = call /\ UNCHANGED builderVars
      BY <2>3, SearchCalls DEF Search
    <3> QED
      BY <3>1 DEF builderVars
  <2>4. CASE BeginSave \/ MakeDirectory \/ EndSave \/ EndCommand \/ Crash
    BY <2>4, FilesInOrder DEF BeginSave, MakeDirectory, EndSave, EndCommand, Crash, vars
  <2>5. CASE RemoveFile
    <3>1. PICK f \in FileNames : entries' = [entries EXCEPT ![job][f] = "none"]
      BY <2>5 DEF RemoveFile
    <3>2. entries' \in [Jobs -> [FileNames -> Content]]
      BY <3>1 DEF Content
    <3> QED
      BY <2>5, <3>2 DEF RemoveFile, vars
  <2>6. CASE OpenFile \/ FillFile
    <3>1. written + 1 \in 1 .. 4 /\ written' \in 0 .. Len(Files)
      BY <2>6, FilesInOrder DEF OpenFile, FillFile
    <3>2. Files[written + 1] \in FileNames
      BY <3>1, FilesInOrder
    <3>3. entries' \in [Jobs -> [FileNames -> Content]]
      BY <2>6, <3>2 DEF OpenFile, FillFile, Content
    <3> QED
      BY <2>6, <3>1, <3>3 DEF OpenFile, FillFile, vars
  <2>7. CASE UNCHANGED buildVars
    BY <2>7 DEF buildVars, vars
  <2> QED
    BY <2>1, <2>2, <2>3, <2>4, <2>5, <2>6, <2>7 DEF BuildNext, Build
<1>3. BuildSpec => []TypeOK
  BY ManagerTypeCorrect, BuildImplementsManager, PTL
<1>4. BuildInit => BuilderOK
  BY <1>1
<1>5. TypeOK /\ BuilderOK => BuildTypeOK
  BY DEF BuildTypeOK
<1> QED
  BY <1>2, <1>3, <1>4, <1>5, PTL DEF BuildSpec

(* While an entry is removed it is still an earlier build's, and so are those of the
   problems to come; while it is saved its files are new up to the one being written. *)
EntriesInv ==
    /\ \A j \in Jobs : \A f \in FileNames :
          j > job \/ (j = job /\ builder \in {"searching", "removing"})
              => entries[j][f] \in {"none", "old"}
    /\ builder = "saving" =>
          /\ job \in Jobs
          /\ \A i \in 1 .. 4 :
                /\ i <= written => entries[job][Files[i]] = "new"
                /\ i = written + 1 => entries[job][Files[i]] \in {"none", "torn"}
                /\ i > written + 1 => entries[job][Files[i]] = "none"
    /\ builder \in {"searching", "removing"} => job \in Jobs
    /\ builder = "removing" => written = 0
    /\ EntryIsOfOneBuild

(* A file that is opened or filled in its turn leaves the entries in order. *)
LEMMA FileChanged ==
    ASSUME BuildTypeOK, EntriesInv, builder = "saving", job \in Jobs, written + 1 \in 1 .. 4,
           NEW content \in {"torn", "new"},
           entries' = [entries EXCEPT ![job][Files[written + 1]] = content],
           written' = IF content = "new" THEN written + 1 ELSE written,
           UNCHANGED <<builder, job>>
    PROVE  EntriesInv'
<1>1. written \in 0 .. 4 /\ entries \in [Jobs -> [FileNames -> Content]] /\ job \in Nat
  BY FilesInOrder DEF BuildTypeOK
<1>2. /\ \A j \in Jobs \ {job} : entries'[j] = entries[j]
      /\ \A f \in FileNames :
            entries'[job][f] = IF f = Files[written + 1] THEN content ELSE entries[job][f]
  BY <1>1
<1>3. \A i, k \in 1 .. 4 : Files[i] = Files[k] => i = k
  BY FilesInOrder
<1>4. \A i \in 1 .. 4 :
          /\ i <= written' => entries'[job][Files[i]] = "new"
          /\ i = written' + 1 => entries'[job][Files[i]] \in {"none", "torn"}
          /\ i > written' + 1 => entries'[job][Files[i]] = "none"
  <2>1. ASSUME NEW i \in 1 .. 4
        PROVE  entries'[job][Files[i]] = IF i = written + 1 THEN content ELSE entries[job][Files[i]]
    BY <1>2, <1>3, FilesInOrder
  <2> QED
    BY <1>1, <2>1 DEF EntriesInv
<1>5. EntryIsOfOneBuild'
  <2>1. \A f \in FileNames :
            /\ entries'[job]["meta.json"] # "old"
            /\ entries'[job]["meta.json"] = "new" =>
                  \/ entries'[job][f] = "new"
                  \/ f = "error.txt" /\ entries'[job][f] \in {"none", "torn"}
    BY <1>1, <1>4, FilesInOrder
  <2> QED
    BY <1>2, <2>1, FilesInOrder DEF EntriesInv, EntryIsOfOneBuild
<1> QED
  <2>1. \A j \in Jobs : j > job => j # job
    BY <1>1 DEF Jobs
  <2> QED
    BY <1>2, <1>4, <1>5, <2>1 DEF EntriesInv

(* Whenever the command is stopped, a meta.json is beside the files of its own build. *)
THEOREM OneBuildPerEntry == BuildSpec => []EntryIsOfOneBuild
<1> USE SearchAssumption
<1>1. ASSUME BuildInit
      PROVE  EntriesInv
  <2>1. \A leftover \in Leftovers : \A f \in FileNames : leftover[f] \in {"none", "old"}
    BY FilesInOrder DEF Leftovers, NoEntry, WholeEntry
  <2> QED
    BY <1>1, <2>1, FilesInOrder DEF BuildInit, EntriesInv, EntryIsOfOneBuild
<1>2. ASSUME BuildTypeOK, EntriesInv, [BuildNext]_buildVars
      PROVE  EntriesInv'
  <2> USE <1>2
  <2>0. /\ MaxCalls \in Nat /\ job \in Nat /\ written \in 0 .. 4
        /\ entries \in [Jobs -> [FileNames -> Content]]
    BY FilesInOrder DEF SearchAssumption, BuildTypeOK
  <2>1. CASE Generate \/ GenerationRaises
    <3>1. /\ builder = "ready" /\ builder' \in {"ready", "searching"} /\ job' = job + 1
          /\ job < MaxCalls /\ UNCHANGED <<written, entries>>
      BY <2>1 DEF Generate, GenerationRaises
    <3>2. job' \in Jobs /\ \A j \in Jobs : j >= job' => j > job
      BY <2>0, <3>1 DEF Jobs
    <3> QED
      BY <2>0, <3>1, <3>2 DEF EntriesInv, EntryIsOfOneBuild, Jobs
  <2>2. CASE Search \/ UNCHANGED buildVars
    BY <2>2 DEF Search, builderVars, buildVars, EntriesInv, EntryIsOfOneBuild
  <2>3. CASE BeginSave \/ EndSave \/ EndCommand \/ Crash
    BY <2>3 DEF BeginSave, EndSave, EndCommand, Crash, EntriesInv, EntryIsOfOneBuild
  <2>4. CASE RemoveFile
    <3>1. PICK f \in FileNames : entries' = [entries EXCEPT ![job][f] = "none"]
      BY <2>4 DEF RemoveFile
    <3>2. builder = "removing" /\ job \in Jobs /\ UNCHANGED <<builder, job, written>>
      BY <2>4 DEF RemoveFile, EntriesInv
    <3>3. \A j \in Jobs : \A g \in FileNames :
              entries'[j][g] = IF j = job /\ g = f THEN "none" ELSE entries[j][g]
      BY <2>0, <3>1, <3>2
    <3>4. \A g \in FileNames : entries'[job][g] \in {"none", "old"}
      BY <3>2, <3>3 DEF EntriesInv
    <3> QED
      BY <3>2, <3>3, <3>4, FilesInOrder DEF EntriesInv, EntryIsOfOneBuild
  <2>5. CASE MakeDirectory
    <3>1. /\ builder = "removing" /\ builder' = "saving" /\ entries[job] = NoEntry /\ job \in Jobs
          /\ UNCHANGED <<job, written, entries>>
      BY <2>5 DEF MakeDirectory, EntriesInv
    <3> QED
      BY <2>0, <3>1, FilesInOrder DEF EntriesInv, EntryIsOfOneBuild, NoEntry
  <2>6. CASE OpenFile
    <3>1. /\ builder = "saving" /\ written + 1 \in 1 .. 4 /\ job \in Jobs
          /\ entries' = [entries EXCEPT ![job][Files[written + 1]] = "torn"]
          /\ UNCHANGED <<builder, job, written>>
      BY <2>0, <2>6, FilesInOrder DEF OpenFile, EntriesInv
    <3> QED
      BY <3>1, FileChanged DEF Content
  <2>7. CASE FillFile
    <3>1. /\ builder = "saving" /\ written + 1 \in 1 .. 4 /\ job \in Jobs
          /\ entries' = [entries EXCEPT ![job][Files[written + 1]] = "new"]
          /\ written' = written + 1 /\ UNCHANGED <<builder, job>>
      BY <2>0, <2>7, FilesInOrder DEF FillFile, EntriesInv
    <3> QED
      BY <3>1, FileChanged DEF Content
  <2> QED
    BY <2>1, <2>2, <2>3, <2>4, <2>5, <2>6, <2>7 DEF BuildNext, Build
<1>3. EntriesInv => EntryIsOfOneBuild
  BY DEF EntriesInv
<1>4. BuildInit => EntriesInv
  BY <1>1
<1> QED
  BY <1>2, <1>3, <1>4, BuildTypeCorrect, PTL DEF BuildSpec
=============================================================================
