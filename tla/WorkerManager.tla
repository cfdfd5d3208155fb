--------------------------- MODULE WorkerManager ---------------------------
(* KernelAgent's parallel search for one working kernel: the manager starts one process
   per seed, each verifies and refines its kernel for at most max_rounds rounds and puts
   one result in the queue all of them share; the first success ends the search
   (triton_kernel_agent/manager.py, worker.py).  The queue and the event live as long as
   the manager, and build_dataset.py calls the same manager for problem after problem.

   A multiprocessing queue is a pipe behind a lock: a process hands its result to a
   feeder thread, the feeder takes the lock and writes, and the process does not exit
   before the feeder is done.  A result bigger than the pipe is written only while
   somebody reads.  *)
EXTENDS Integers, Sequences, SequencesExt

CONSTANTS
    NumWorkers,    \* num_workers
    MaxRounds,     \* max_rounds
    MaxCalls,      \* bound: calls of run_verification
    ResultSizes    \* sizes of a result that carries a history: "small", "large"

ASSUME SearchAssumption ==
    /\ NumWorkers \in Nat \ {0}
    /\ MaxRounds \in Nat
    /\ MaxCalls \in Nat
    /\ ResultSizes \subseteq {"small", "large"}

Workers == 1 .. NumWorkers

VARIABLES
    call,           \* how many calls were made; the last one is the current one
    manager,        \* where run_verification is
    joined,         \* the workers joined so far
    results,        \* all_results of the current call
    winner,         \* successful_result of the current call
    success_event,
    pipe,           \* the complete results in the queue
    writing,        \* the process that holds the write lock, its result half-written
    worker,         \* the processes of the current call
    late            \* history: a process wrote while it was being terminated

vars == <<call, manager, joined, results, winner, success_event, pipe, writing, worker, late>>

(* What a worker returns: a kernel that passed, nothing because another one won, or the
   history of max_rounds failures.  Only the second is always short. *)
Outcome == {"success", "stopped_early", "max_rounds_reached"}
Result == [call : 1 .. MaxCalls, worker : Workers, outcome : Outcome, size : {"small", "large"}]
NoResult == [call |-> 0, worker |-> 0, outcome |-> "none", size |-> "small"]

Succeeded(result) == result.outcome = "success"

(* A terminated process is "dying" until the signal takes effect, then "dead". *)
Live == {"round", "testing", "reporting", "writing"}
WorkerState == [state : {"absent", "exited", "raised", "dying", "dead"} \cup Live,
                round : 0 .. MaxRounds,
                result : Result \cup {NoResult}]
Absent == [state |-> "absent", round |-> 0, result |-> NoResult]

Alive(w) == worker[w].state \in Live \cup {"dying"}

TypeOK ==
    /\ call \in 0 .. MaxCalls
    /\ manager \in {"idle", "polling", "getting", "joining", "draining", "returned"}
    /\ joined \in 0 .. NumWorkers
    /\ results \in Seq(Result)
    /\ winner \in Result \cup {NoResult}
    /\ success_event \in BOOLEAN
    /\ pipe \in Seq(Result)
    /\ writing \in Result \cup {NoResult}
    /\ worker \in [Workers -> WorkerState]
    /\ late \in BOOLEAN

Init ==
    /\ call = 0
    /\ manager = "idle"
    /\ joined = 0
    /\ results = <<>>
    /\ winner = NoResult
    /\ success_event = FALSE
    /\ pipe = <<>>
    /\ writing = NoResult
    /\ worker = [w \in Workers |-> Absent]
    /\ late = FALSE

-----------------------------------------------------------------------------
(* The manager *)

(* A call clears the event and forgets the processes of the call before; the queue stays
   as it is.  There is a process for every seed that could be extracted from the answers
   of the model, at least one.  The model calls before it outlast a dying process. *)
StartCall ==
    /\ manager \in {"idle", "returned"}
    /\ call < MaxCalls
    /\ \A w \in Workers : worker[w].state # "dying"
    /\ call' = call + 1
    /\ manager' = "polling"
    /\ joined' = 0
    /\ results' = <<>>
    /\ winner' = NoResult
    /\ \E seeds \in Workers :
           worker' = [w \in Workers |->
                         IF w <= seeds THEN [Absent EXCEPT !.state = "round"] ELSE Absent]
    /\ success_event' = FALSE
    /\ UNCHANGED <<pipe, writing, late>>

(* Mutant: while there is no winner. *)
LookForWinner ==
    /\ manager = "polling"
    /\ manager' = "getting"
    /\ UNCHANGED <<call, joined, results, winner, success_event, pipe, writing, worker, late>>

(* Mutant: while all of them are alive. *)
LookForDeadWorker ==
    /\ manager = "polling"
    /\ manager' = IF \A w \in Workers : Alive(w) THEN "getting" ELSE "joining"
    /\ UNCHANGED <<call, joined, results, winner, success_event, pipe, writing, worker, late>>

(* while any(w.is_alive()) *)
LookForLiveWorker ==
    /\ manager = "polling"
    /\ manager' = IF \E w \in Workers : Alive(w) THEN "getting" ELSE "joining"
    /\ UNCHANGED <<call, joined, results, winner, success_event, pipe, writing, worker, late>>

Receive(result) == results' = Append(results, result)

(* result_queue.get in the loop: a success sets the event and leaves the loop. *)
TakeResult ==
    /\ manager = "getting"
    /\ pipe # <<>>
    /\ pipe' = Tail(pipe)
    /\ Receive(Head(pipe))
    /\ IF Succeeded(Head(pipe))
       THEN /\ winner' = Head(pipe)
            /\ success_event' = TRUE
            /\ manager' = "joining"
       ELSE /\ manager' = "polling"
            /\ UNCHANGED <<winner, success_event>>
    /\ UNCHANGED <<call, joined, writing, worker, late>>

(* get times out, unless part of a result is there: then it reads on without a timeout. *)
FindQueueEmpty ==
    /\ manager = "getting"
    /\ pipe = <<>>
    /\ writing = NoResult
    /\ manager' = "polling"
    /\ UNCHANGED <<call, joined, results, winner, success_event, pipe, writing, worker, late>>

(* join(timeout=5.0) of the next worker: it ends in time or is terminated, and a
   terminated process is not joined again. *)
JoinWorker ==
    /\ manager = "joining"
    /\ joined < NumWorkers
    /\ joined' = joined + 1
    /\ worker' = IF Alive(joined + 1)
                 THEN [worker EXCEPT ![joined + 1].state = "dying"]
                 ELSE worker
    /\ UNCHANGED <<call, manager, results, winner, success_event, pipe, writing, late>>

StopJoining ==
    /\ manager = "joining"
    /\ joined = NumWorkers
    /\ manager' = "draining"
    /\ UNCHANGED <<call, joined, results, winner, success_event, pipe, writing, worker, late>>

(* get_nowait of a complete result.  Of half a result it would wait for the rest: with
   nobody left to write it the manager has no step any more. *)
DrainResult ==
    /\ manager = "draining"
    /\ pipe # <<>>
    /\ pipe' = Tail(pipe)
    /\ Receive(Head(pipe))
    /\ winner' = IF Succeeded(Head(pipe)) /\ winner = NoResult THEN Head(pipe) ELSE winner
    /\ UNCHANGED <<call, manager, joined, success_event, writing, worker, late>>

(* Mutant: nothing is drained. *)
ReturnAtOnce ==
    /\ manager = "draining"
    /\ manager' = "returned"
    /\ UNCHANGED <<call, joined, results, winner, success_event, pipe, writing, worker, late>>

ReturnWinner ==
    /\ manager = "draining"
    /\ pipe = <<>>
    /\ writing = NoResult
    /\ manager' = "returned"
    /\ UNCHANGED <<call, joined, results, winner, success_event, pipe, writing, worker, late>>

-----------------------------------------------------------------------------
(* The workers *)

Finish(w, outcome, size, round) ==
    worker' = [worker EXCEPT ![w] =
        [state |-> "reporting", round |-> round,
         result |-> [call |-> call, worker |-> w, outcome |-> outcome, size |-> size]]]

(* The head of the loop of VerificationWorker.run. *)
BeginRound(w) ==
    /\ worker[w].state = "round"
    /\ IF worker[w].round >= MaxRounds
       THEN \E size \in ResultSizes : Finish(w, "max_rounds_reached", size, worker[w].round)
       ELSE IF success_event
       THEN Finish(w, "stopped_early", "small", worker[w].round)
       ELSE worker' = [worker EXCEPT ![w].state = "testing"]
    /\ UNCHANGED <<call, manager, joined, results, winner, success_event, pipe, writing, late>>

(* The kernel passes every test; or it fails one or uses what it may not use, and is
   refined. *)
PassTests(w) ==
    /\ worker[w].state = "testing"
    /\ \E size \in ResultSizes : Finish(w, "success", size, worker[w].round + 1)
    /\ UNCHANGED <<call, manager, joined, results, winner, success_event, pipe, writing, late>>

FailTests(w) ==
    /\ worker[w].state = "testing"
    /\ worker' = [worker EXCEPT ![w].state = "round", ![w].round = @ + 1]
    /\ UNCHANGED <<call, manager, joined, results, winner, success_event, pipe, writing, late>>

(* A file that cannot be written ends a process without a result. *)
RaiseInWorker(w) ==
    /\ worker[w].state = "testing"
    /\ worker' = [worker EXCEPT ![w].state = "raised"]
    /\ UNCHANGED <<call, manager, joined, results, winner, success_event, pipe, writing, late>>

(* The feeder writes a result that fits in one go, and the process exits. *)
WriteSmallResult(w) ==
    /\ worker[w].state = "reporting"
    /\ worker[w].result.size = "small"
    /\ writing = NoResult
    /\ pipe' = Append(pipe, worker[w].result)
    /\ worker' = [worker EXCEPT ![w].state = "exited"]
    /\ UNCHANGED <<call, manager, joined, results, winner, success_event, writing, late>>

(* It writes the part of a large one that fits and waits, the lock held ... *)
BeginLargeResult(w) ==
    /\ worker[w].state = "reporting"
    /\ worker[w].result.size = "large"
    /\ writing = NoResult
    /\ writing' = worker[w].result
    /\ worker' = [worker EXCEPT ![w].state = "writing"]
    /\ UNCHANGED <<call, manager, joined, results, winner, success_event, pipe, late>>

(* ... until the manager, in a get, has read everything before and now reads this. *)
EndLargeResult(w) ==
    /\ worker[w].state = "writing"
    /\ manager = "getting"
    /\ pipe = <<>>
    /\ pipe' = <<writing>>
    /\ writing' = NoResult
    /\ worker' = [worker EXCEPT ![w].state = "exited"]
    /\ UNCHANGED <<call, manager, joined, results, winner, success_event, late>>

(* SIGTERM takes effect; a process with a result may still have written what it could. *)
Die(w) ==
    /\ worker[w].state = "dying"
    /\ worker' = [worker EXCEPT ![w].state = "dead"]
    /\ \/ UNCHANGED <<pipe, writing, late>>
       \/ /\ worker[w].result # NoResult
          /\ writing = NoResult
          /\ IF worker[w].result.size = "small"
             THEN pipe' = Append(pipe, worker[w].result) /\ UNCHANGED writing
             ELSE writing' = worker[w].result /\ UNCHANGED pipe
          /\ late' = TRUE
    /\ UNCHANGED <<call, manager, joined, results, winner, success_event>>

-----------------------------------------------------------------------------
Manage ==
    \/ LookForLiveWorker
    \/ TakeResult
    \/ FindQueueEmpty
    \/ JoinWorker
    \/ StopJoining
    \/ DrainResult
    \/ ReturnWinner

Work(w) ==
    \/ BeginRound(w)
    \/ PassTests(w)
    \/ FailTests(w)
    \/ RaiseInWorker(w)
    \/ WriteSmallResult(w)
    \/ BeginLargeResult(w)
    \/ EndLargeResult(w)
    \/ Die(w)

Next == StartCall \/ Manage \/ \E w \in Workers : Work(w)

Spec == Init /\ [][Next]_vars

(* Every process keeps running: a test ends by its timeout, a get and a join by theirs,
   a model call by the timeout of the client.  Nobody has to make another call. *)
FairSpec ==
    /\ Spec
    /\ WF_vars(Manage)
    /\ \A w \in Workers : WF_vars(Work(w))

-----------------------------------------------------------------------------
(* Half a result whose writer is no more: no process will ever write to the queue again. *)
Torn ==
    /\ writing # NoResult
    /\ \A w \in Workers : worker[w].result = writing => worker[w].state # "writing"

(* "Collect any remaining results": a worker that came to its end has its result among
   the collected ones when the call returns, though nothing looks into the queue between
   the end of the loop and the last join; so no failure goes without an outcome file. *)
ReportsAreKept ==
    manager = "returned" =>
        \A w \in Workers : worker[w].state = "exited" => worker[w].result \in Range(results)

(* A call that returns no kernel had no worker with one: a success is not overlooked
   because its process was gone before its result was read. *)
NoSuccessLost ==
    manager = "returned" /\ winner = NoResult =>
        \A w \in Workers : worker[w].state = "exited" => ~Succeeded(worker[w].result)

(* The result a call returns is one of its own workers', not one left in the queue by an
   earlier problem's, unless that worker wrote it after the drain, while it was being
   terminated. *)
WinnerIsOwn == winner # NoResult => winner.call = call \/ late

(* A worker gives up early only because this call has a winner, not because an earlier
   call had one: the event is cleared between the calls, while no process can see it. *)
StopsOnlyForWinner ==
    \A w \in Workers :
        worker[w].result.outcome = "stopped_early" => winner # NoResult

(* run_verification's docstring: it returns a "Dictionary with successful kernel and
   metadata, or None". *)
EveryCallReturns == manager = "polling" ~> manager = "returned"
(* Together, for every call: it implements ParallelSearch.  The queue, which is left out
   there, neither loses nor invents an answer, and nobody is stopped, by the event or by
   terminate(), in a call that has no winner. *)
Attempt(w) ==
    CASE worker[w].state = "absent" -> "absent"
      [] worker[w].state \in {"round", "testing"} -> "trying"
      [] worker[w].state = "raised" -> "failed"
      [] worker[w].state \in {"dying", "dead"} -> "terminated"
      [] OTHER -> CASE Succeeded(worker[w].result) -> "passed"
                    [] worker[w].result.outcome = "stopped_early" -> "gave_up"
                    [] OTHER -> "failed"

FirstSuccess ==
    INSTANCE ParallelSearch WITH
        Attempts  <- Workers,
        NoAttempt <- NoResult.worker,
        searching <- manager \notin {"idle", "returned"},
        attempt   <- [w \in Workers |-> Attempt(w)],
        answer    <- winner.worker,
        straggler <- late

SearchSpec == FirstSuccess!Spec
=============================================================================
