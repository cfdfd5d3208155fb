# KernelVerification in TLA+

A verification development for this repository: models of its agentic verification
workflow, its dataset builder and the control of the programs it depends on, TLC runs
on small instances, and TLAPS proofs for all instances. Paths below are relative to
the repository.

## 1. Inventory

`src/verifier` decides whether a GPU kernel is trustworthy by a debate of
language-model agents, and builds the dataset of kernels to decide about.
`src/KernelAgent` generates, fuses and optimizes kernels. `src/KernelBench` is a
benchmark suite, `src/dataset` its problems.

| Part | State it keeps | Operations | Hard behaviour |
| --- | --- | --- | --- |
| Claim ledger (`verifier/agentic/ledger.py`, `state.py`) | claims: status, scope, evidence | record a claim, append evidence, update a status | long legal sequences; two-step updates |
| Tools (`tools/*.py`) | event log, Skeptic's review, verdict, convergence, description tasks | 18 role-scoped tools, one event per attempt | handlers that raise half-way; limits per turn; probe output used once |
| Agent turns (`orchestrator.py` 75-139) | the turn being executed | execute a response, check for a verdict, drain description tasks | a verdict in the middle of a response; an agent that raises |
| Verification workflow (`orchestrator.py` 184-296) | round, coverage budget, stop reason | debate, coverage, gates, Judge | stale reviews, budgets, forced rounds, termination |
| Sequential loop (`orchestrator.py` 141-182) | round, skipped Judge | call agents in order | the Judge passed over |
| Run driver (`agentic_run.py`) | options, run directory | load context, choose and run a loop, replay | a run state that already has a verdict, a replay by the other loop |
| Persistence (`persistence.py`) | five files of a run directory | persist, load | crash between files, files of an older run |
| Dataset (`build_dataset.py`, `dataset.py`) | one directory per problem | remove an entry, write it file by file | crash in between, over an older entry |
| KernelAgent worker manager (`triton_kernel_agent/manager.py`, `worker.py`) | queue, success event, processes | start, first success wins, join, terminate, drain | results in a pipe nobody reads, half-written results, results of an earlier call |
| Fuser (`Fuser/orchestrator.py`, `worker.py`, `dedup.py`, `runner.py`) | worker processes, winner queue, digest files | race, dedup, cancel | a winner lost between two looks, a file created and then written |
| Fuser pipeline (`Fuser/pipeline.py`, `subgraph_extractor.py`, `dispatch_kernel_agent.py`, `compose_end_to_end.py`) | subgraphs, a directory per id, attempts | extract, have a kernel written per subgraph, compose | threads in directories a model named, stages that raise |
| KernelAgent search (`opt_manager.py`, `searching/`, `platform/nvidia.py`, `benchmark.py`) | best programs, history file, benchmark lock | greedy and beam search over rounds of processes | processes killed with a lock or half a result, saving in place |
| One worker's optimization (`optimization_orchestrator.py`) | two best kernels, the one explored | profile, generate, verify, measure, for a number of rounds | measurements that fail or diverge |
| KernelBench (`scripts/generate_samples.py`, `eval_from_generations.py`) | kernel files, one results file, build cache | generate, evaluate batch by batch, pass@k | commands killed and started again, samples that hang, locks left behind |
| LLM clients, protocol, prompts | none | one request | the environment of everything above |
| auto-router, performance models, platforms, UIs, oink, numeric parts of KernelBench | - | straight-line or numeric | - |

How they interact. `agentic_run.py` builds an `AgenticOrchestrator` around one
`RunState`. The orchestrator calls an agent, which asks a model for a list of tool
calls; `ToolRegistry.call` runs them one by one against the run state. That is one
thread: the difficulty is not interleaved memory accesses but the order in which a
model, which may answer anything, calls the tools in each role, and what the
orchestrator concludes from the state it finds between turns. A run reaches the next
only through the files of a run directory.

`kv-build` calls one KernelAgent worker manager for problem after problem and saves
what it returns. The manager, Fuser and the optimization manager are each a process
that starts others, hears of them through a queue, and terminates them: here the
difficulty is what is in the pipe when a process dies. Fuser's pipeline calls Fuser,
then KernelAgent in threads. KernelBench's two scripts meet only in a directory.

What makes the parts correct:
- ledger: settled claims carry their evidence, nothing is lost or reversed silently;
- tools: roles and limits hold, a probe's output is used once and for its claim,
  a review is stale as soon as anything it was about has changed, failed calls included;
- workflow: a verdict stands on a reviewed and covered ledger, a reject on
  benchmark-scoped confirmed claims, budgets are respected, stop reasons are true,
  and the run ends;
- files: nothing a later command reads is taken from another run, or half of one;
- worker manager, Fuser, search: the first success is reported and no success lost,
  results are of this call, the best program is kept, and the call ends;
- pipeline: each kernel is composed for its own subgraph, a success has passed;
- KernelBench: each sample is recorded once and as what it is, pass@k is unbiased.

`PROJECT.json` lists the hazards at their lines.

## 2. Modules

| Module | Models | Extends |
| --- | --- | --- |
| `ClaimLedger` | the guard and effect of each ledger method, as operators | |
| `ToolRegistry` | run state and one action per tool handler; `Spec` lets any role call any tool at any time | `ClaimLedger` |
| `AgentTurns` | options, context loading, executing a response, verdict checks, the Describer's drain, replay | `ToolRegistry` |
| `VerificationWorkflow` | `run_verification_workflow` | `AgentTurns` |
| `SequentialLoop` | `run_agents_sequential` | `AgentTurns` |
| `AgenticRun` | the choice between the two loops, by a run and by its replay | both |
| `DebateProtocol` | the abstract promise of the workflow: raise, investigate, sign off, decide, finish | |
| `ParallelSearch` | the abstract promise of the worker manager: attempts in parallel, the first that passes answers | |
| `ResultsTable` | the abstract promise of a KernelBench directory: a table each place of which is written once | |
| `RunDirectory` | `persist_run` file by file, `load_run_state`, the directory a command writes to | |
| `WorkerManager` | `run_verification` and its worker processes, over several calls | |
| `DatasetBuild` | `kv-build`: calls of the manager, `save_entry` file by file | `WorkerManager` |
| `FuserOrchestrator` | the race for a fused program, the digests, the runs of programs | |
| `FuserPipeline` | extraction, dispatch and composition around the race | `FuserOrchestrator` |
| `OptimizationSearch` | rounds of processes, greedy and beam strategies, the history file | |
| `KernelOptimization` | `optimize_kernel`: what one of those processes does | |
| `BenchmarkRun` | generation and evaluation commands on one KernelBench directory | |
| `MCToolRegistry`, `MCVerificationWorkflow`, `MCAgenticRun`, `MCRunDirectory` | values and symmetry for TLC | |
| `ToolRegistryProofs`, `AgenticRunProofs`, `RunDirectoryProofs`, `DatasetBuildProofs`, `FuserOrchestratorProofs`, `OptimizationSearchProofs`, `KernelOptimizationProofs`, `BenchmarkRunProofs` | the theorems of section 5 and their lemmas | the module of the name (`FuserOrchestratorProofs`: `FuserPipeline`); `AgenticRunProofs` also `ToolRegistryProofs` |

### The verifier

State. `claims` is `RunState.claims` with claim `c<n>` as its n-th element, and
`toolEvents` the log with event `tool-<n>` as its n-th element. Texts, prompts,
files and probe output are left out; what the properties tell apart stays: a
claim's scope and whether its scope evidence names a benchmark artifact, the
status a piece of evidence supports and the event it cites, the claim a probe
event was run for. A response is not stored as a list: `ExecuteToolCall` picks the
next call when it is executed, which allows exactly the lists of at most
`MaxCallsPerTurn` calls. A call that raises without effect is `RejectedCall`; a
handler that raises after it has changed something (`finalize_probe_evidence`,
`record_description_update`) does both in one action. A model that answers
nothing usable, or a provider that fails, is the second branch of `CallAgent`.

Control. `pc` names the place in the loop: `loading`, then `debate`, `coverage`
and `judge` (or `round` in the sequential loop), `acting` and `draining` while a
response is executed, `returned` after it, `stopped`. Loop variables are the
Python locals of the same meaning. `args` holds the command-line options; a replay
(`Resume`) starts a new loop on the same run state with options of its own, in
`AgenticRun` also the other loop.

`skepticReview` has two fields the code does not have, `ledger` and `description`:
history, the state the Skeptic had before it when it signed off. No guard reads them.
Five tools every role may read with are one tool, `read`. `--tool-budget` accepts
negative numbers, which act like 0.

Files. `RunDirectory` is about what happens between commands, so it keeps of a run
state only the log and the verdict, told apart by the command that made them:
`disk[d][f]` says which command wrote file `f` of directory `d`, whether it came to
the end, and what of its run state is in it. `Path.write_text` truncates and then
fills, so a write that stops leaves a torn file: not JSON any more, except that a
`tool_events.jsonl` torn between two lines can still be read. The handler in
`_run_one_entry` writes everything again when the first attempt raised (`fatal`).
A command may use any directory and replay the `run.json` of any: without
`--run-dir` the directory depends only on the entry and the agents, so a second run
finds the files of the first. One command runs at a time. `saved` and `chain` are
history; no guard reads them.

### Processes and queues

A `multiprocessing` queue is modelled by what its documentation says of it and the
code suffers from: `put` hands the result to a feeder thread of the process; the
feeder takes the queue's write lock and writes to a pipe; a process does not exit
before its feeder is done; a result larger than the pipe is written only while
somebody reads; a process terminated in the middle leaves half a result and the lock
held. `pipe` is what a `get` returns, `writing` the half-written result.

- `WorkerManager`: `manager` is the place in `run_verification` (polling, getting,
  joining with timeouts, draining), `worker` the processes of the call. A test and a
  model's answer are nondeterministic. The queue and the success event outlive a call.
- `DatasetBuild`: `entries[j][f]` says whether a file of problem `j` is missing, torn,
  of an earlier command or of this one. `rmtree` takes the files in any order.
- `FuserOrchestrator`: `digests[c]` is the file of program `c`: none, empty (created,
  the owner not yet written) or with its owner. `inherited` tells forked processes,
  which have the signal handlers, from spawned ones. A program outlives the worker
  that started it when that one is terminated. `accidents` and `ran`, which has every
  start of every program, are history.
- `FuserPipeline`: `stage` is the place in `run_pipeline`, `thread` what each thread of
  the dispatch does, `kernel_py` what is in the directory of an id. What KernelAgent
  and the models answer is nondeterministic; `passed` is history.
- `OptimizationSearch`: `top` is the strategy's kernels, `file` the history file, whole
  or torn, `lock` the benchmark lock; `finished`, history, has the results of every round
  whose save came to its end, in all runs. What a worker finds is nondeterministic: that it
  does its rounds is `KernelOptimization`, where `best_runtime` and `best_sol` are
  whole measurements and `measured`, history, has them all.
  Sorting is stated by the place an element takes (`Entries`, `ByTime`; in `BenchmarkRun`
  `SampleList`): the sorts of the library are recursive, and could not be reasoned about.
- `BenchmarkRun`: `kernel`, `results`, `cache` and `passAtK` are the files, `batch` the
  samples being evaluated, `task` what the thread or process of a sample does,
  `loaded` the results in memory while their file is truncated,
  and `overdue` says that the batch has used up its timeout.

## 3. Runs

| Run | Question | States |
| --- | --- | --- |
| `tools_any_order` | five calls of all roles in any order, a refused call, probe results cited by hand | 2.5 M |
| `wf_evidence` | two debate rounds, claims of two kinds, evidence by hand; refinement of `DebateProtocol` | 0.2 M |
| `wf_probes` | probes, forced rounds past the budget, with a Judge and (as a method call) without one, and a replay | 2.0 M |
| `agentic_run` | both loops and a replay by either, tool budgets, Describer drains, a context that fails to load; liveness | 0.4 M |
| `run_files` | three commands, two directories, fresh or replays, crashes and failing writes anywhere | 6.5 M |
| `workers` | `kv-build` over two problems, two workers, small and large results, a crash anywhere; refinement of `ParallelSearch`; liveness | 0.7 M |
| `fuser` | the race of two workers over two programs, and the pipeline around it; liveness | 1.1 M |
| `search` | two runs on one file, greedy and beam, workers that hang or are killed anywhere, crashes; liveness | 0.9 M |
| `kernel` | three rounds over two kernels, every measurement | 0.1 M |
| `bench` | three commands, two samples of two problems, kills anywhere; refinement of `ResultsTable`; liveness | 1.0 M |
| `doc_workers_hang`, `doc_bench_skips` | documented statements the code does not keep (section 6) | |

What each property says is above its definition.

Bounds of the verifier's runs. `MaxToolEvents` bounds the log, `MaxCallsPerTurn` a
response, `MaxReplays` the replays; the four `Max...` limits of the tools are the code's
own constants at smaller values. Two debate rounds are the least with a last round and
one that is not; two claims make one settled while another is open; settling a
claim by hand takes two calls and by a probe two, so responses of two or three
calls and logs of six to eight events let a claim be raised, settled, reviewed
and judged, once directly and once after a deferred Judge. `agentic_run` has options
whose tool budget, not the bound on the log, ends the run, and options without a budget.
In `tools_any_order` any call may cite event 2, which may be a probe of either claim, or
not be there yet: five calls run a probe, cite it for the other claim and finalize it.

`run_files`: three commands are a first run, a replay that crashes and a command that
finds what both left; two directories, interchangeable, let a replay come from
elsewhere; a log of two lets it grow in a replay and be torn between two events.

`workers`: two calls let a result of the first be found by the second; two workers let
one win while the other writes; two rounds let a worker fail, refine, and see the
event. `doc_workers_hang` needs one call and one round. `fuser`: two workers are the
least that compete for one program, with two iterations each a worker meets a digest of
its own; two subgraphs with one id or none in two threads, two attempts. `search`: a
beam of two with times of two values has ties and programs pushed out; two rounds and
two runs give the same ids twice. `kernel`: two times and the infinite one, three
efficiencies. `bench`: three commands are a generation, an evaluation that is cut short
and the next one; two samples of two problems make a batch full, a batch of two
problems and a problem with one sample recorded; pass@k is compared with the share of
subsets for up to six samples.

`CHECK_DEADLOCK FALSE` wherever the system really stops: a stopped run or command
stays stopped, and the number of commands, calls and replays is bounded. `Spec` of
`ToolRegistry` never deadlocks (a turn can always begin).

Fairness.
- `agentic_run`: weak fairness of the agent turns and of the orchestrator's own steps,
  because one thread executes them one after the other, a response is a finite list,
  and every handler returns. The agents of this run use no probe: a probe is killed at
  its timeout, but see section 6. Nothing else is assumed of what the agents do. Nobody
  has to replay.
- `workers`: the command and every process keep running: tests, joins, gets and model
  calls have timeouts. Nothing forces a crash.
- `fuser`: the orchestrator and its workers are scheduled; a model call and a program's
  run end by their timeouts, but an orphaned program has no deadline. Of the models and
  KernelAgent in the pipeline nothing is assumed.
- `search`: only the manager, whose joins have deadlines. A worker need not get
  anywhere, because the benchmark lock has none.
- `bench`: the steps of the command and of the generation threads. Nothing makes a
  build or a kernel end; the batch's timeout does.

`VerdictOnReviewedLedger`, `VerdictLeavesNothingOpen`, `SequenceVerdictIsCovered` speak
of runs that were not replayed: a replay may start on a state that already has a
verdict and then stops after one turn (`VerdictEndsRun`). `BuildEnds` and `SearchEnds`
except a queue torn by a terminated worker, which stops everything (`Torn`, `torn`), and
`SuccessesAreKept` speaks of results that got into the queue: those of workers killed while
they write are lost. `PassingProgramWins` excepts a winner put after the last look into the
queue and every signal, timeout and exception in whatever worker, so it shows that duplicates
alone lose nothing. `ForcedRoundsConsume` is a count over the whole run: it does not say which
turn a call on the ledger pays for, nor that the loop goes on as long as it should.
`FinalizationsHaveProbes` compares two numbers.

## 4. Refinement

`ProtocolSpec`: the workflow with a Skeptic, not replayed, implements
`DebateProtocol` with the claims' statuses and evidence counts as its ledger and
the ledger remembered by the review as its sign-off. A review that another one
replaces, a turn that changes nothing and every orchestrator step are stutters.
`wf_evidence` checks it on an instance; `WorkflowImplementsProtocol` proves it for all,
if nothing is replayed (`MaxReplays = 0`) and every choice of options has a Skeptic:
without one nobody signs off, and a replay may begin with a verdict.

`SearchSpec`: the worker manager implements `ParallelSearch`. A worker process is an
attempt, "trying" until it has a result and "terminated" from `terminate()` on; the
manager is searching from the beginning of `run_verification` to its return; the winner's
worker is the answer. Queue, feeder threads, the write lock, polling and joining are
stutters. A terminated worker that still puts something into the queue is the abstract
specification's one exception (`Speak`): what it says may be taken for an answer of a later
call. Without that, an answer has passed in its own call and its worker is never
terminated. Always, nobody gives up or is terminated in a call that has no answer, no
answer is replaced by another, and a call without one had no attempt that passed
(`NoSuccessLost`). `workers` checks it; `BuildImplementsSearch` proves it of every build.

`TableSpec`: a KernelBench directory implements `ResultsTable`. A sample's outcome is that
of its record in the results file, or in memory while the file is being filled (`Held`,
`Outcome`). Commands, batches, processes and the build cache are stutters; a writer killed
between truncating and filling is `Lose`, which takes all results for good. So over any
number of commands no result is ever replaced or dropped alone, a correct one had its
kernel, and nothing is entered after pass@k has been written: a table scored is final.
`bench` checks it; `RunImplementsTable` proves it.

Each composed module implements the one it extends, and that is proved: the two loops
implement `ToolRegistry` (`WorkflowUsesTools`, `SequenceUsesTools`), and so does a run that
chooses between them (`RunUsesTools`), `DatasetBuild` the manager (`BuildImplementsManager`), `FuserPipeline` the race (`PipelineRunsRace`). What
is proved of the smaller specification therefore holds in the larger one.

## 5. Proofs

Everything below is checked by TLAPS for every value of the constants, under the
assumptions stated with them: the limits are natural numbers (`LimitsAssumption`), the
tools, claim kinds and cited events of an instance are of their types
(`InputsAssumption`), the options are ones `agentic_run.py` can parse, for any set of
them (`OptionsAssumption`); there is a worker and rounds, calls and sizes are of their
types (`SearchAssumption` of `WorkerManager`); the programs that pass are programs, and
workers, programs and the values that stand for none are different
(`RaceAssumption`); the strategies are the two there are, with places, rounds and times of
at least one (`SearchAssumption` of `OptimizationSearch`); there are finitely many numbers
of samples and a device, and a torn file is no results (`BenchmarkAssumption`); ids a model
gives are none of those made of a signature (`PipelineAssumption`), and different ids are
different directories: the 32 bits of a hash an id is made of (`subgraph_extractor.py` 351)
and what `str()` and a path make of an id (`dispatch_kernel_agent.py` 362) are taken as
injective; rounds, times and thresholds are natural numbers
(`OptimizationAssumption`). The bounds of the runs are any naturals, so none is part of
a theorem.

`ToolRegistryProofs`, about `Spec` (any role, any tool, any time):
- `TypeCorrect`. `TypeOK` alone is not inductive: a finalized probe's claim must
  exist for its evidence to have a place. `ProbesNameClaims` is the missing half,
  and holds because the ledger only grows.
- `SettledClaimsSupported`. Every effect a call has on the ledger is a `LedgerStep`
  (a claim added, evidence added, a status updated, or evidence and then a status),
  and each of these keeps the rule; the last is `finalize_probe_evidence`.
- `LedgerHistoryIsKept`. The same four steps drop and reverse nothing.
- `CurrentReviewIsComplete`. The review is a length of the log, so the invariant
  adds that it is never ahead of the log (`ReviewBehindLog`); a call then either is
  in `StaleTools` and makes the review stale, or changes neither ledger nor
  description, or is the sign-off itself.
- `VerdictHolds`. The reasons of a verdict concern statuses, scopes and the set of
  open claims. A call that can change those succeeds under one of three names and so
  leaves its event behind the verdict; evidence, and a `finalize_probe_evidence` that
  fails after appending it, leave the reasons as they were.
- `ProbeEvidenceStaysOwn`, from `CitationInv`: the property over places in the ledger
  instead of a set of pairs, with the types. Every call keeps all citations there are, and
  only `finalize_probe_evidence` adds one: at the end of the evidence of the claim its
  probe was run for, of an event nothing cites yet.
- `FinalizationsStayPaired`, whatever agents cite. The property compares two numbers: no
  call takes a probe out of the set of those their own claims cite, because evidence is
  never dropped, and the one call that adds a finalization to the log adds a probe that was
  not in that set, for it was not consumed.

`AgenticRunProofs`, about the two loops and the run that chooses between them:
- `WorkflowUsesTools`, `SequenceUsesTools`, `RunUsesTools`: each loop, replays included,
  implements `Spec`. So the theorems above hold of every run, whichever loop made it.
- `VerdictIsReviewed`, `VerdictIsCovered`, `RejectStaysGrounded`, `VerdictIsFinal`
  follow from one inductive invariant, `DecisionInv`. A verdict's property is about
  the present ledger, but the gate that establishes it was passed some calls
  earlier: `DecisionInv` therefore says that the gates hold for as long as the Judge
  acts. It needs `CurrentReviewSeesAll` where the Judge is called (a current review
  has seen the very ledger) and `JudgeKeepsLedger` for the calls after it (no tool
  the Judge may call changes the ledger or the review), and that a Judge's turn is
  never one of a drain, which is what makes the check after the turn see the verdict.
- `SequenceVerdictCovered`, from `CoverageInv`: this loop has one gate, the passing
  over of the Judge, and the argument is the same with that gate alone.
  `VerdictEndsEveryRun`, `RunVerdictCovered`: of the chosen loop the invariant of that loop
  holds (`RunDecisionInv`); a replay, which may choose the other one, is not fresh.
- `ForcedRoundsArePaid` from `LoopInv`. The property compares the numbers of turns and of
  logged calls, but
  what lets the loop go on after a forced turn is a comparison of ledgers before and after
  it. `ExperimentInv` ties the two: while the loop runs the turns are paid for with nothing
  to spare, the ledger only grows during a turn (`LedgerGrown`), a changed one means a
  call logged since the turn began, and a forced turn began with a probe result that was
  not consumed (`ProbeWaited`), so that consuming it is such a change. `LoopPlaces` says
  which turn returns where.
- `StopReasonsAreTrue` from the same invariant: what a loop tested before it stopped
  is still so afterwards, because no step is between the test and the stop.
- `CoverageReasonsAreTrue` from `RunReasonInv`. In the sequential loop the reason rests on
  `skipped_judge_for_coverage`, set turns earlier. `SkipInv` shows it still true: a run
  whose agents include both Judge and Experimenter is given to the workflow, so where the
  Judge was passed over no agent can settle the claim it was passed over for.
- `TurnsStayWithinBudget` from `BudgetInv`: before the Judge nothing asks for the budget,
  but no call is made between the last question and its turn.
- `WorkflowImplementsProtocol` from `ProtocolInv` (`DecisionInv` of a fresh run with a
  Skeptic). Each tool call maps to the protocol's step of its kind or to a stutter, and a
  call after the verdict cannot touch the ledger, by `JudgeKeepsLedger`.

`RunDirectoryProofs`, for any directories, number of commands and length of the log:
- `RunFilesTyped`, `RunJsonStaysNewest`, `SavedRunIsOnDisk` from `DiskInv`. The
  property of the disk alone is not inductive: a write must know what the same
  command has written before. `WrittenAgrees` says it: the files before `next` are
  complete, and whatever the command wrote whole, in this attempt or in the one that
  failed, is of the run state it still holds. `WritesInTurn` adds that no other
  command wrote anything later.
- `HistoryStaysOwn` from `ChainInv`: between commands a chain's event log is a prefix
  of the log in its `run.json`, if that is whole, and during one a prefix of the log
  in memory. It holds because `run.json` is written before the event log.

`DatasetBuildProofs`, for any number of workers, rounds, calls and problems:
- `ManagerTypeCorrect`, from `TypeOK` and what each state of a worker says of its
  result and the pipe (`WorkersInv`).
- `ReportsKept`, `SuccessNeverLost`, `WinnerOfOwnCall`, `StopsForWinner` from
  `SearchInv`. A worker's result is on its way through feeder, pipe and results, and a
  worker exits only when its result is in the pipe, so: workers that were joined are
  not alive (`NoneLiveJoined`), the results of exited ones are in the pipe or
  collected (`ResultsCollected`), what is anywhere is of this call unless somebody
  wrote late (`ResultsOwn`), and the event is set only with a winner
  (`EventForWinner`).
- `BuildImplementsSearch` from `SearchInv` and `AnswerInv`, which says whose the results in
  the queue are: unless somebody wrote late, each is the result of a worker that is
  through with it (`ReportsOwned`), hence so is the winner (`WinnerOwned`); and that the
  manager joins workers that are alive only with a winner (`FirstWinner`), because it leaves
  its loop for a success or when nobody is alive. Every step then maps to a step of
  `ParallelSearch` or to a stutter (`WorkImplements`, `ManageImplements`).
- `OneBuildPerEntry` from `EntriesInv`: the files before `written` are of this build,
  those after it missing, and problems not yet reached as they were.

`FuserOrchestratorProofs`, for any workers, programs and iterations:
- `OnceOnly`, `DuplicatesGiveWay` from `RaceInv`: who is past the registration of a
  program made its file or owns it; an empty file has exactly one maker; what was
  started was started once, by the owner (`RanByOwner`), since the maker of an empty file
  is about to start what nobody has. Steps that touch neither digests nor runs keep all
  of it at once (`QuietMovesKeepRace`).
- `TrueWinner`: a result in the queue, or on its way there, is of a run that passed.
- `KernelsStayOwn`, `SuccessHasPassed` from `PipelineInv`: subgraphs have signatures of
  their own (`GroupedApart`), a directory has the kernel of a subgraph whose thread
  succeeded, and that of another one than its own only with the same id; a winner stops
  the race (`WinnerStops`), which does not change its outcome any more (`RaceIsOver`).

`OptimizationSearchProofs`, for any strategies, beam, rounds, workers, times and runs:
- `TypeCorrect`, from `RoundInv`: the type invariant needs that the strategy's places are
  filled when a run has begun (`PlacesInv`), or a parent would not exist; the rest says
  who may be alive (`WorkersInv`) and that every exited worker has left exactly one result
  (`ResultsInv`).
- `SuccessesStay`: a success is in the pipe or among the results until the round is over
  (`ResultsInv`) and then in the database (`KeptInv`). No later result of the round takes
  its id, because a worker leaves one.
- `FileIsComplete` from `FileInv`: what was finished is in the database of every manager
  (`DatabaseIsComplete`), because a manager begins with a whole file and an update only
  replaces programs with the id of one of its own; those of finished rounds of the same
  run have other ids (`FinishedIsPast`), so what is replaced is of an earlier run.
- `BestIsKept`, from `BestInv`. Sorted lists are functions from places: an element's place
  is the number of those not after it. That every place is taken by one element
  (`PlacesFill`) is proved with cardinalities, the pigeonhole principle and no induction;
  an element cut off the beam then has a place behind all of the beam, and so a time no
  less (`BeamKeepsBest`). `FirstByTime` and `GreedyKeepsBest` are the case of one place.

`KernelOptimizationProofs`, for any kernels, times, efficiencies and thresholds:
- `BestsStayBest` from `BestsSoFar`, `StopsAtRooflineOnly` from `StopIsLast`.
- `BestRoundNeverTracked`: the branch that records the best round is dead.

`BenchmarkRunProofs`, for any problems, samples, devices and commands, all from `BenchInv`:
- `TypeCorrect`. Results are collected in step with their batch (`BatchInv`), and recorded
  in the same order.
- `RecordsStayOwn`. A sample waits in the work or in the batch, once (`OnceInv`, from
  `PlacesFill` for the list both commands go through), and while it waits it has no record
  (`RecordsInv`); a task that builds or tests has a whole kernel file (`CorrectInv`), and
  a generation writes only files that were not there (`GenerationInv`).
- `FinishedStaysRecorded`: what an evaluation began with waits or has its record, and what
  it left aside is of a problem that has records (`CoverInv`).
- `PassAtIsShare`: what `calc_pass_at_k` multiplies together is, for any n, c and k, the
  share of the sets of k samples that have a correct one. The product is a recursive function
  and is compared with the cardinality of a set of sets, so this is an induction over data,
  for which the library's theorems cannot be used. It is carried out as the refutation of a
  least counterexample: a set of natural numbers with a member has a least one
  (`LeastNumber`), and at a least wrong place the next factor (`RisingSteps`) contradicts
  Pascal's rule for the sets of k elements (`DrawsPascal`, `DrawsCompare`).
- `PassAtKStaysUnbiased` from `PassInv`: once there is pass@k it is what the function gives for
  the records of every problem, the results are whole, and no evaluation finds anything to
  do (`StartEvaluationFindsNothing`), so nothing is written that would make it wrong.
- `RunImplementsTable` from `BenchInv` and `PassInv`: a record that is added is the first of its
  sample (`AddResultEnters`), the records in memory are those that were in the file, and every
  other step leaves the outcomes as they are.

## 6. Where code and documents differ

- `doc_workers_hang`: `run_verification` may never return. A worker with a large
  history that is terminated (`manager.py` 231) while its feeder has written half of it
  leaves a queue that is not empty; `get_nowait` (236) waits for the rest for ever.
  The docstring (160) says that it returns a dictionary or None.
- `doc_bench_skips`: `check_if_eval_exists_local` (`eval_from_generations.py` 709-719)
  ignores its `sample_id`. After a kill between two records of a problem, or when more
  samples are generated later, the rest of the problem is never evaluated.

Observed, without a run of its own.

Verifier:
- `finalize_probe_evidence` is called atomic (`src/README.md` 194): its evidence stays
  when the status update raises (`execution.py` 257).
- The Judge may replace its verdict within a response (`verdict.py` 78), though it is
  said to be set once; trust is not refused when a confirmed in-scope claim is on the
  ledger (`verdict.py` 70).
- `verdict.json` may be an earlier run's, which nothing removes (`persistence.py` 53).
- A replay of a run with a verdict makes one more turn, which may open a claim, and
  then stops with the old verdict (`orchestrator.py` 132).
- A crash while `run.json` is written leaves neither the earlier run nor the new one
  to replay; the event log beside it is still that of the earlier run.
- `retrieve_experiment_history` reads the files of the directory, not the run: a fresh
  run in a directory used before, or a replay of a run from another one, is shown
  calls it never made. `HistoryIsOwn` therefore speaks of chains in one directory.
- The tool budget is compared between turns; a response is executed to its end and
  a Describer drain is not checked, so `--tool-budget` is overshot by a bounded amount.
- `skipped_judge_for_coverage` is never reset. Only a caller that gives the
  sequential loop a Judge before an Experimenter sees it: such a run can end with
  `claim_coverage_required` with every claim settled. `CoverageReasonTrue` holds for
  the commands `agentic_run.py` accepts.
- With coverage required, the test of lines 265-266 and the return of line 295 are
  never reached with an open claim: the coverage loop ends only without one.
- `append_evidence` accepts any event id, so an agent can cite a probe before it
  was run, or another claim's; `ProbeEvidenceIsOwn` therefore speaks of agents that
  leave citations to `finalize_probe_evidence`.
- With `--no-require-claim-coverage` the workflow never calls the Experimenter.
- `_kill_process_group` says that no process a probe spawned is left; one that left the
  group is, and while it has the pipe open the second `communicate()` (`execution.py`
  314) waits for it, without a timeout.
- The files of a probe are named by its event (`execution.py` 285) and written at once,
  `run.json` at the end. A fresh run in a used directory that crashes leaves evidence
  that names the files of other probes; a replay in another directory names none.
- `save_entry`: a removal that is cut short may leave `meta.json` without its kernel; a
  crash between `meta.json` and `error.txt` leaves a failed entry without its error; a
  generator that raises leaves the old entry.

KernelAgent and Fuser:
- The winner put between the last look into Fuser's queue and the count of live
  processes is dropped (`Fuser/orchestrator.py` 265); a cancel drops one that is queued
  (258); a terminated worker's program runs on (283).
- Two subgraphs with one id share a directory (`dispatch_kernel_agent.py` 362);
  `compose_end_to_end.py` writes the last attempt to `composed_kernel.py` though it
  failed; a stage that raises leaves no summary.
- `best_round_num` and the final profile are never set: `optimization_orchestrator.py`
  582 compares with bests that were just replaced. The file of a round is written
  over with the kernel the next round starts from (730), which may be another; `last_attempt` and
  `last_reflexion` may repeat those of an earlier round (1217-1220).
- The initial time is not given to the strategy (`opt_manager.py` 320): the best may be
  slower than the initial program. `beam_search.py` 73 says duplicates will be removed;
  nothing removes them. `greedy.py` 34 ends after several rounds without improvement;
  rounds in which every worker failed are not counted.
- `nvidia.py` 251 joins before it reads, so a large result costs its worker; a worker
  killed with `benchmark_lock` (`benchmark.py` 57) blocks all later ones.
- `json_db.py`: a torn file makes the constructor raise; ids are the same in every run
  on one file, and `get_top_k` does not ask for which problem.

KernelBench:
- `remove_cache_dir` is said to remove a sample's cache and removes all of them
  (`eval_from_generations.py` 431), so one that timed out breaks its neighbours' builds.
- An error text with "lock" in it, "block" for one, counts as a lock to be waited for
  (`eval.py` 530): it ends the command at line 738, and every rerun again.
- A torn `eval_results.json` stops every later evaluation; a torn kernel file counts as
  generated (`generate_samples.py` 199).
- The docstring's formula of pass@k (864-869) is not the one of the code, which is the
  unbiased one; averages divide by all problems (926), those without the key included.

## 7. Only model-checked, and not modelled

Out of the prover's reach: liveness and `ENABLED`, so `Terminates`, `BuildEnds`,
`PassingProgramWins`, `Finishes`, `SearchEnds`, `CommandsEnd` are model-checked. Every other
property of a run that finds no error is proved. The type invariants and
`StopsOnlyAtRoofline` are proved and not in a run, nor are `NoSuccessLost`, which
`SearchSpec` implies, and `VerdictLeavesNothingOpen`, which `ProtocolSpec` implies where
coverage is required. `StopReasonsAreTrue` and `ForcedRoundsArePaid` are about the
workflow, with replays by itself; where a replay may choose the other loop,
`RunReasonInv` keeps the first of them and what the second is proved from (`LoopInv`).

Left out of the modelled parts: schemas of arguments (any refused call is
`RejectedCall`), texts and files, token and time accounting, the sandbox of a probe
(a probe is one step that leaves an event; its processes and its files are not there), the batch over entries (entries
share nothing), the console output of Fuser's workers, what is measured and prompted in
an optimization round, KernelBench's cache building in advance and its modal mode.

Not modelled, with reasons in `PROJECT.json`: LLM clients and prompts (the
environment), the routing of `auto_agent.py` (one choice by a model and one fallback),
platform tables, user interfaces. More than half of the repository's lines are GPU
kernels (`oink`), numeric checks and timings of KernelBench, profiler front ends,
problems and prompts: straight-line or numeric code without a state that more than one
step or actor could get wrong, of which a model would be a copy. The map therefore
covers the control of the system and a small share of its lines.

## 8. What could come next

1. Compose `OptimizationSearch` with `KernelOptimization`: a worker's report is what its
   rounds make, with the history of earlier rounds it is given.
2. The router of `auto_agent.py` around `FuserPipeline` and `WorkerManager`.

Runs stay small (at most some million states, a minute or two each).
