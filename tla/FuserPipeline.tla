--------------------------- MODULE FuserPipeline ---------------------------
(* Fuser's pipeline around the race: a model splits the program that won into subgraphs,
   a thread per subgraph has KernelAgent write its kernel into a directory named by the
   subgraph's id, and a model composes the kernels until the result passes
   (Fuser/pipeline.py, subgraph_extractor.py, dispatch_kernel_agent.py,
   compose_end_to_end.py).  A stage that raises ends the pipeline. *)
EXTENDS FuserOrchestrator

CONSTANTS
    Signatures,       \* a subgraph's operations, shapes and weights
    Ids,              \* the ids a model gives; it may give None, and one id twice
    MaxSubgraphs,     \* bound: items in the model's answer
    MaxComposeIters   \* compose_max_iters

ASSUME PipelineAssumption ==
    /\ MaxSubgraphs \in Nat
    /\ MaxComposeIters \in Nat \ {0}
    /\ Ids \cap (Signatures \cup {None}) = {}

VARIABLES
    stage,
    subgraphs,       \* subgraphs.json, in no order
    jobs,            \* threads of the dispatch
    thread,          \* per subgraph, what _handle_one does
    kernel_py,       \* per directory, the subgraph whose kernel is in it
    kernels,         \* the composition's: an entry of the summary, the subgraph of its code
    verify,
    attempt,         \* attempts at the composition so far
    verify_passed,   \* of the last one
    composed,        \* the attempt in composed_kernel.py, or 0
    success,
    passed           \* history: the attempts that passed when they were run

dispatchVars == <<subgraphs, jobs, thread, kernel_py>>
composeVars == <<kernels, verify, attempt, verify_passed, composed, success, passed>>
pipelineVars == <<stage, dispatchVars, composeVars>>
allVars == <<vars, pipelineVars>>

Directories == Ids \cup Signatures
Subgraph == [id : Directories, signature : Signatures]

PipelineInit ==
    /\ Init
    /\ stage = "extracting"
    /\ subgraphs = {}
    /\ jobs = 1
    /\ thread = [g \in subgraphs |-> "submitted"]
    /\ kernel_py = [d \in Directories |-> None]
    /\ kernels = {}
    /\ verify = TRUE
    /\ attempt = 0
    /\ verify_passed = FALSE
    /\ composed = 0
    /\ success = FALSE
    /\ passed = {}

Race == Next /\ UNCHANGED pipelineVars

-----------------------------------------------------------------------------
(* Mutant: subgraphs without an id share one. *)
CommonId(item) == IF item.id = None THEN CHOOSE s \in Signatures : TRUE ELSE item.id

(* An id that is missing is made of the signature. *)
SubgraphId(item) == IF item.id = None THEN item.signature ELSE item.id

Items == [id : Ids \cup {None}, signature : Signatures]
Answers == UNION {[1 .. n -> Items] : n \in 0 .. MaxSubgraphs}

(* The first item of a signature stands for all of them. *)
Grouped(data) ==
    {[id |-> SubgraphId(data[i]), signature |-> data[i].signature] :
        i \in {i \in DOMAIN data :
                  \A j \in 1 .. (i - 1) : data[j].signature # data[i].signature}}

Raise ==
    /\ stage' = "done"
    /\ success' = FALSE

(* No winner, or none that was packed, and no list from the model: SystemExit. *)
ExtractionRaises ==
    /\ stage = "extracting"
    /\ main = "done"
    /\ Raise
    /\ UNCHANGED <<vars, dispatchVars, kernels, verify, attempt, verify_passed, composed, passed>>

ExtractSubgraphs ==
    /\ stage = "extracting"
    /\ main = "done"
    /\ winner # None
    /\ reason # "packaging_failure"
    /\ stage' = "dispatching"
    /\ \E data \in Answers : subgraphs' = Grouped(data)
    /\ jobs' \in 1 .. MaxSubgraphs
    /\ thread' = [g \in subgraphs' |-> "submitted"]
    /\ UNCHANGED <<vars, kernel_py, composeVars>>

-----------------------------------------------------------------------------
(* The threads of the dispatch.  A single job is no thread: it stops at an exception. *)

Threads(states) == {g \in subgraphs : thread[g] \in states}

HandleOne(g) ==
    /\ stage = "dispatching"
    /\ thread[g] = "submitted"
    /\ Cardinality(Threads({"generating"})) < jobs
    /\ jobs = 1 => Threads({"raised"}) = {}
    /\ thread' = [thread EXCEPT ![g] = "generating"]
    /\ UNCHANGED <<vars, stage, subgraphs, jobs, kernel_py, composeVars>>

(* A kernel is written to the directory of the id; an exception of generate_kernel is a
   failure, one of anything else leaves the thread. *)
KernelGenerated(g) ==
    /\ stage = "dispatching"
    /\ thread[g] = "generating"
    /\ \/ /\ thread' = [thread EXCEPT ![g] = "success"]
          /\ kernel_py' = [kernel_py EXCEPT ![g.id] = g]
       \/ /\ \E end \in {"failed", "raised"} : thread' = [thread EXCEPT ![g] = end]
          /\ UNCHANGED kernel_py
    /\ UNCHANGED <<vars, stage, subgraphs, jobs, composeVars>>

ThreadsEnded ==
    /\ Threads({"generating"}) = {}
    /\ Threads({"submitted"}) = {} \/ (jobs = 1 /\ Threads({"raised"}) # {})

DispatchRaises ==
    /\ stage = "dispatching"
    /\ ThreadsEnded
    /\ Threads({"raised"}) # {}
    /\ Raise
    /\ UNCHANGED <<vars, dispatchVars, kernels, verify, attempt, verify_passed, composed, passed>>

(* The kernel of every successful subgraph is read from its directory. *)
LoadKernels ==
    /\ stage = "dispatching"
    /\ ThreadsEnded
    /\ Threads({"raised"}) = {}
    /\ Threads({"success"}) # {}
    /\ stage' = "composing"
    /\ verify' \in BOOLEAN
    /\ kernels' = {[entry |-> g, code |-> kernel_py[g.id]] : g \in Threads({"success"})}
    /\ UNCHANGED <<vars, dispatchVars, attempt, verify_passed, composed, success, passed>>

(* "no successful kernels in summary.json": SystemExit. *)
NothingToCompose ==
    /\ stage = "dispatching"
    /\ ThreadsEnded
    /\ Threads({"raised", "success"}) = {}
    /\ Raise
    /\ UNCHANGED <<vars, dispatchVars, kernels, verify, attempt, verify_passed, composed, passed>>

-----------------------------------------------------------------------------
Compose ==
    /\ stage = "composing"
    /\ attempt < MaxComposeIters
    /\ verify => ~verify_passed
    /\ ~verify => attempt = 0
    /\ attempt' = attempt + 1
    /\ verify_passed' \in BOOLEAN
    /\ verify_passed' => verify
    /\ passed' = IF verify_passed' THEN passed \cup {attempt'} ELSE passed
    /\ UNCHANGED <<vars, stage, dispatchVars, kernels, verify, composed, success>>

(* The provider fails, or a file cannot be written. *)
ComposeRaises ==
    /\ stage = "composing"
    /\ Raise
    /\ UNCHANGED <<vars, dispatchVars, kernels, verify, attempt, verify_passed, composed, passed>>

Composed(code) ==
    /\ stage = "composing"
    /\ attempt > 0
    /\ verify => verify_passed \/ attempt = MaxComposeIters
    /\ stage' = "done"
    /\ composed' = code
    /\ success' = (verify_passed \/ ~verify)
    /\ UNCHANGED <<vars, dispatchVars, kernels, verify, attempt, verify_passed, passed>>

(* Mutant: the first attempt is kept. *)
KeepFirst == Composed(1)

(* "Write final composed file as the last attempt", whether it passed or not. *)
WriteComposed == Composed(attempt)

-----------------------------------------------------------------------------
Pipeline ==
    \/ ExtractionRaises
    \/ ExtractSubgraphs
    \/ \E g \in subgraphs : HandleOne(g) \/ KernelGenerated(g)
    \/ DispatchRaises
    \/ LoadKernels
    \/ NothingToCompose
    \/ Compose
    \/ ComposeRaises
    \/ WriteComposed

PipelineNext == Race \/ Pipeline

PipelineSpec == PipelineInit /\ [][PipelineNext]_allVars

(* The race as in FairSpec; nothing is assumed of KernelAgent and the models. *)
FairPipelineSpec ==
    /\ PipelineSpec
    /\ WF_allVars(Race /\ Orchestrate)
    /\ \A w \in Workers : WF_allVars(Race /\ WorkOn(w))

-----------------------------------------------------------------------------
(* Unless the model gave one id to two subgraphs, the code that is composed for a subgraph
   is the kernel written and tested for it, in whatever order the threads end, and with
   ids that were missing. *)
KernelsAreOwn ==
    \A k \in kernels :
        \/ k.code = k.entry
        \/ k.entry.id \in Ids /\ \E g \in subgraphs \ {k.entry} : g.id = k.entry.id

(* A result that is called a success when results are verified is the text of an attempt
   that passed, composed from kernels of subgraphs of a program that won the race. *)
SuccessPassed ==
    success =>
        /\ verify => composed \in passed
        /\ kernels # {} /\ \A k \in kernels : k.code \in Threads({"success"})
        /\ winner # None /\ reason = "pass"
=============================================================================
