------------------------- MODULE FuserOrchestrator -------------------------
(* Fuser's race for one fused program: worker processes ask a model for programs and run
   them, the first that passes wins (Fuser/orchestrator.py, worker.py, runner.py).  A
   program is run by the worker that registers its digest first, by creating a file in a
   directory all workers share (dedup.py).  *)
EXTENDS Integers, Sequences, FiniteSets

CONSTANTS
    Workers,       \* the worker processes
    Codes,         \* the programs the model may write, up to their digest
    Passing,       \* those that pass when they are run to their end
    MaxIters,      \* max_iters
    None           \* no worker, no program

(* A digest's file: there is none, or it is there and its owner not yet written. *)
NoFile == "no file"
EmptyFile == "empty"

ASSUME RaceAssumption ==
    /\ Workers # {}
    /\ Passing \subseteq Codes
    /\ MaxIters \in Nat
    /\ None \notin Workers \cup Codes \cup [worker : Workers, code : Codes]
    /\ {NoFile, EmptyFile} \cap Workers = {}

VARIABLES
    main,           \* where Orchestrator.run is
    cancel_event,
    winner_queue,   \* what a get would return: at most one winner
    slot,           \* the queue has room for a put
    winner,
    reason,         \* of the summary
    digests,        \* per program: no file, an empty file, or a file with its owner
    worker,         \* the processes
    candidate,      \* per worker: is a program it started still running?
    inherited,      \* the processes were forked: they have the handler of the signals
    ran,            \* history, per program: the workers that started it, start by start
    accidents       \* history: what happened that no code foresees

vars == <<main, cancel_event, winner_queue, slot, winner, reason, digests, worker,
          candidate, inherited, ran, accidents>>

Winner == [worker : Workers, code : Codes]

Live == {"iterating", "asking", "registering", "registered", "running", "passed", "flushing"}
WorkerState == [state : Live \cup {"exited", "duplicate", "raised", "killed"},
                iter : 0 .. MaxIters,
                code : Codes \cup {None}]

Alive(w) == worker[w].state \in Live

TypeOK ==
    /\ main \in {"looking", "getting", "counting", "stopping", "joining", "packing", "done"}
    /\ cancel_event \in BOOLEAN
    /\ winner_queue \in Seq(Winner)
    /\ slot \in BOOLEAN
    /\ winner \in Winner \cup {None}
    /\ reason \in {"none", "pass", "canceled", "no_passing_solution", "packaging_failure"}
    /\ digests \in [Codes -> {NoFile, EmptyFile} \cup Workers]
    /\ worker \in [Workers -> WorkerState]
    /\ candidate \in [Workers -> BOOLEAN]
    /\ inherited \in BOOLEAN
    /\ ran \in [Codes -> Seq(Workers)]
    /\ accidents \subseteq {"signal", "raise", "timeout"}

(* cli.py spawns its processes, subgraph_extractor.py takes the default and forks them. *)
Init ==
    /\ main = "looking"
    /\ cancel_event = FALSE
    /\ winner_queue = <<>>
    /\ slot = TRUE
    /\ winner = None
    /\ reason = "none"
    /\ digests = [c \in Codes |-> NoFile]
    /\ worker = [w \in Workers |-> [state |-> "iterating", iter |-> 0, code |-> None]]
    /\ candidate = [w \in Workers |-> FALSE]
    /\ inherited \in BOOLEAN
    /\ ran = [c \in Codes |-> <<>>]
    /\ accidents = {}

-----------------------------------------------------------------------------
(* The orchestrator's loop: is it cancelled, has anybody won, is anybody left? *)

mainVars == <<main, winner, reason>>
workerVars == <<digests, worker, candidate, ran>>

LookForCancel ==
    /\ main = "looking"
    /\ main' = IF cancel_event THEN "stopping" ELSE "getting"
    /\ reason' = IF cancel_event THEN "canceled" ELSE reason
    /\ UNCHANGED <<cancel_event, winner_queue, slot, winner, inherited, accidents, workerVars>>

GetWinner ==
    /\ main = "getting"
    /\ winner_queue # <<>>
    /\ winner' = Head(winner_queue)
    /\ winner_queue' = Tail(winner_queue)
    /\ slot' = TRUE
    /\ cancel_event' = TRUE
    /\ reason' = "pass"
    /\ main' = "stopping"
    /\ UNCHANGED <<inherited, accidents, workerVars>>

(* get(timeout=0.1) raises Empty ... *)
GetNothing ==
    /\ main = "getting"
    /\ winner_queue = <<>>
    /\ main' = "counting"
    /\ UNCHANGED <<cancel_event, winner_queue, slot, winner, reason, inherited, accidents, workerVars>>

(* Mutant: the search is over when one worker is. *)
CountDeadWorkers ==
    /\ main = "counting"
    /\ IF \A w \in Workers : Alive(w)
       THEN main' = "looking" /\ UNCHANGED reason
       ELSE main' = "stopping" /\ reason' = "no_passing_solution"
    /\ UNCHANGED <<cancel_event, winner_queue, slot, winner, inherited, accidents, workerVars>>

(* ... and only then the processes are looked at. *)
CountWorkers ==
    /\ main = "counting"
    /\ IF \E w \in Workers : Alive(w)
       THEN main' = "looking" /\ UNCHANGED reason
       ELSE main' = "stopping" /\ reason' = "no_passing_solution"
    /\ UNCHANGED <<cancel_event, winner_queue, slot, winner, inherited, accidents, workerVars>>

(* terminate() kills a spawned process.  A forked one runs the handler it inherited,
   which sets the event once more.  The program a process runs has a session of its own
   and is not reached. *)
TerminateWorkers ==
    /\ main = "stopping"
    /\ main' = "joining"
    /\ IF inherited
       THEN /\ cancel_event' = (cancel_event \/ \E w \in Workers : Alive(w))
            /\ UNCHANGED worker
       ELSE /\ worker' = [w \in Workers |->
                             IF Alive(w) THEN [worker[w] EXCEPT !.state = "killed"] ELSE worker[w]]
            /\ UNCHANGED cancel_event
    /\ UNCHANGED <<winner_queue, slot, winner, reason, digests, candidate, inherited, ran, accidents>>

(* join(timeout=5.0), then kill(). *)
KillWorker(w) ==
    /\ main = "joining"
    /\ Alive(w)
    /\ worker' = [worker EXCEPT ![w].state = "killed"]
    /\ UNCHANGED <<main, cancel_event, winner_queue, slot, winner, reason, digests, candidate,
                   inherited, ran, accidents>>

AllJoined ==
    /\ main = "joining"
    /\ ~ \E w \in Workers : Alive(w)
    /\ main' = "packing"
    /\ UNCHANGED <<cancel_event, winner_queue, slot, winner, reason, inherited, accidents, workerVars>>

(* The winner's files are packed, or that fails; then the summary is written. *)
Package ==
    /\ main = "packing"
    /\ main' = "done"
    /\ \/ UNCHANGED reason
       \/ winner # None /\ reason' = "packaging_failure"
    /\ UNCHANGED <<cancel_event, winner_queue, slot, winner, inherited, accidents, workerVars>>

(* SIGINT or SIGTERM: the handler sets the event. *)
Signal ==
    /\ main # "done"
    /\ "signal" \notin accidents
    /\ cancel_event' = TRUE
    /\ accidents' = accidents \cup {"signal"}
    /\ UNCHANGED <<mainVars, winner_queue, slot, inherited, workerVars>>

-----------------------------------------------------------------------------
(* The workers *)

shared == <<cancel_event, winner_queue, slot>>

Goto(w, state) == worker' = [worker EXCEPT ![w].state = state]

BeginIteration(w) ==
    /\ worker[w].state = "iterating"
    /\ IF worker[w].iter = MaxIters \/ cancel_event
       THEN Goto(w, "exited")
       ELSE worker' = [worker EXCEPT ![w] = [state |-> "asking", iter |-> @.iter + 1, code |-> None]]
    /\ UNCHANGED <<mainVars, shared, digests, candidate, inherited, ran, accidents>>

(* The model answers with a program, with none, or not at all. *)
Answer(w) ==
    /\ worker[w].state = "asking"
    /\ IF cancel_event
       THEN Goto(w, "exited")
       ELSE \/ Goto(w, "iterating")
            \/ \E c \in Codes :
                   worker' = [worker EXCEPT ![w].state = "registering", ![w].code = c]
    /\ UNCHANGED <<mainVars, shared, digests, candidate, inherited, ran, accidents>>

(* What a worker does with a program, given the digests that count as free and where it
   goes when it finds its own. *)
RegisterIn(w, free, own) ==
    /\ worker[w].state = "registering"
    /\ LET c == worker[w].code IN
       IF digests[c] \in free
       THEN digests' = [digests EXCEPT ![c] = EmptyFile] /\ Goto(w, "registered")
       ELSE /\ Goto(w, IF digests[c] = w THEN own ELSE "duplicate")
            /\ UNCHANGED digests
    /\ UNCHANGED <<mainVars, shared, candidate, inherited, ran, accidents>>

(* Mutants: a file without an owner is taken over; a worker starts its own program again,
   or gives way to itself, or asks at once for another one. *)
RegisterUnowned(w) == RegisterIn(w, {NoFile, EmptyFile}, "iterating")
RegisterOwnAgain(w) == RegisterIn(w, {NoFile}, "registered")
RegisterOwnAsOther(w) == RegisterIn(w, {NoFile}, "duplicate")
RegisterAndAskAgain(w) == RegisterIn(w, {NoFile}, "asking")

(* open("x"): the file is created, or it is there and its owner is read.  An owner that
   cannot be read yet is somebody else. *)
RegisterDigest(w) == RegisterIn(w, {NoFile}, "iterating")

(* The owner is written, and the program started. *)
RunCandidate(w) ==
    /\ worker[w].state = "registered"
    /\ digests' = [digests EXCEPT ![worker[w].code] = w]
    /\ candidate' = [candidate EXCEPT ![w] = TRUE]
    /\ ran' = [ran EXCEPT ![worker[w].code] = Append(@, w)]
    /\ Goto(w, "running")
    /\ UNCHANGED <<mainVars, shared, inherited, accidents>>

(* Mutant: a program that ended has passed. *)
CandidatePasses(w) ==
    /\ candidate[w]
    /\ candidate' = [candidate EXCEPT ![w] = FALSE]
    /\ IF worker[w].state = "running" THEN Goto(w, "passed") ELSE UNCHANGED worker
    /\ UNCHANGED <<mainVars, shared, digests, inherited, ran, accidents>>

(* The program ends, and the worker, if it lives, judges it by its output. *)
CandidateEnds(w) ==
    /\ candidate[w]
    /\ candidate' = [candidate EXCEPT ![w] = FALSE]
    /\ IF worker[w].state = "running"
       THEN Goto(w, IF worker[w].code \in Passing THEN "passed" ELSE "iterating")
       ELSE UNCHANGED worker
    /\ UNCHANGED <<mainVars, shared, digests, inherited, ran, accidents>>

(* A worker kills its program when it sees the event or the program takes too long. *)
KillCandidate(w) ==
    /\ worker[w].state = "running"
    /\ candidate' = [candidate EXCEPT ![w] = FALSE]
    /\ Goto(w, "iterating")
    /\ accidents' = IF cancel_event THEN accidents ELSE accidents \cup {"timeout"}
    /\ UNCHANGED <<mainVars, shared, digests, inherited, ran>>

(* winner_queue.put(timeout=0.1): there is room for one; a later winner is dropped. *)
PutWinner(w) ==
    /\ worker[w].state = "passed"
    /\ IF slot
       THEN slot' = FALSE /\ Goto(w, "flushing")
       ELSE UNCHANGED slot /\ Goto(w, "exited")
    /\ UNCHANGED <<mainVars, cancel_event, winner_queue, digests, candidate, inherited, ran, accidents>>

(* The feeder thread writes the winner to the pipe; the process waits for it and exits. *)
FlushWinner(w) ==
    /\ worker[w].state = "flushing"
    /\ winner_queue' = Append(winner_queue, [worker |-> w, code |-> worker[w].code])
    /\ Goto(w, "exited")
    /\ UNCHANGED <<mainVars, cancel_event, slot, digests, candidate, inherited, ran, accidents>>

(* An exception that nothing catches, while files are written or a program is started. *)
RaiseInWorker(w) ==
    /\ worker[w].state \in {"asking", "registering", "registered"}
    /\ Goto(w, "raised")
    /\ accidents' = accidents \cup {"raise"}
    /\ UNCHANGED <<mainVars, shared, digests, candidate, inherited, ran>>

-----------------------------------------------------------------------------
Orchestrate ==
    \/ LookForCancel
    \/ GetWinner
    \/ GetNothing
    \/ CountWorkers
    \/ TerminateWorkers
    \/ \E w \in Workers : KillWorker(w)
    \/ AllJoined
    \/ Package

(* What a worker does of itself; a program may also run until it is killed. *)
WorkOn(w) ==
    \/ BeginIteration(w)
    \/ Answer(w)
    \/ RegisterDigest(w)
    \/ RunCandidate(w)
    \/ KillCandidate(w)
    \/ PutWinner(w)
    \/ FlushWinner(w)

Next ==
    \/ Orchestrate
    \/ Signal
    \/ \E w \in Workers : WorkOn(w) \/ CandidateEnds(w) \/ RaiseInWorker(w)

Spec == Init /\ [][Next]_vars

(* The processes are scheduled; a model call ends by its timeout, a program's run by the
   timeout its worker watches.  An orphan program has no deadline. *)
FairSpec ==
    /\ Spec
    /\ WF_vars(Orchestrate)
    /\ \A w \in Workers : WF_vars(WorkOn(w))

-----------------------------------------------------------------------------
(* "Atomically register a digest": no program is started twice, by whichever workers
   wrote it in whatever iterations, one worker in two of its own among them, though a
   digest file is empty for a moment. *)
ProgramRunsOnce ==
    \A c \in Codes : Len(ran[c]) <= 1

(* A worker gives way to another one only when that one exists and has the program in
   its hands, or had: the digest it stumbled on is not its own. *)
GivesWayToOwner ==
    \A w \in Workers :
        worker[w].state = "duplicate" =>
            \/ digests[worker[w].code] \in Workers \ {w}
            \/ digests[worker[w].code] = EmptyFile /\
                  \E o \in Workers \ {w} :
                      /\ worker[o].code = worker[w].code
                      /\ worker[o].state \in {"registered", "raised", "killed"}

Started(w, c) == \E i \in DOMAIN ran[c] : ran[c][i] = w

(* The program that is packed passed, in the run of the very worker named as winner. *)
WinnerRanIt ==
    winner # None =>
        /\ winner.code \in Passing
        /\ Started(winner.worker, winner.code)
        /\ digests[winner.code] = winner.worker

(* A program that passes is not given up for lost because two workers wrote it: once one
   did, somebody wins, unless a signal, a timeout or an exception stops the one who had
   it, or the winner arrived when the orchestrator had looked for the last time. *)
PassingProgramWins ==
    (\E w \in Workers : worker[w].state = "registering" /\ worker[w].code \in Passing)
        ~> \/ winner # None
           \/ accidents # {}
           \/ reason = "no_passing_solution" /\ winner_queue # <<>>

(* The call comes to its end, with its processes forked or spawned. *)
Finishes == <>(main = "done")
=============================================================================
