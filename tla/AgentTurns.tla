----------------------------- MODULE AgentTurns -----------------------------
(***************************************************************************)
(* One agent turn as the orchestrator runs it, the part its two loops      *)
(* share (verifier/agentic/orchestrator.py): call the agent, execute the   *)
(* tool calls of its response, stop on a verdict, otherwise let the        *)
(* Describer answer the description requests the turn left open.           *)
(*                                                                         *)
(* The orchestrator is one thread; pc is where it is.  The loops that use  *)
(* this module call an agent with CallAgent and find pc = "returned" when  *)
(* its turn is over, unless the run has stopped.                           *)
(***************************************************************************)
EXTENDS ToolRegistry, SequencesExt

CONSTANTS
    Options,           \* the command lines of this instance, as _parse_args returns them
    None,              \* Python's None
    MaxDescriberTurns, \* 3: default of run_pending_description_tasks
    MaxCallsPerTurn,   \* bound on the tool calls of one response
    MaxReplays         \* bound on how often the run is replayed

(***************************************************************************)
(* agents are the roles in the order they are called, and tool_budget is   *)
(* None when the option is not given.  The sequential loop reads           *)
(* max_debate_rounds as its number of rounds and not the three after it.   *)
(***************************************************************************)
Positive == Nat \ {0}

OptionsType ==
    [agents                         : Seq(Roles \ {"orchestrator"}),
     tool_budget                    : Nat \cup {None},
     require_claim_coverage         : BOOLEAN,
     stop_when_no_open_claims       : BOOLEAN,
     max_debate_rounds              : Positive,
     max_claim_rounds               : Positive,
     max_claim_rounds_per_claim     : Positive,
     min_debate_rounds_before_judge : Positive]

ASSUME OptionsAssumption ==
    /\ Options \subseteq OptionsType
    /\ None \notin Nat
    /\ MaxDescriberTurns \in Positive
    /\ MaxCallsPerTurn \in Nat
    /\ MaxReplays \in Nat

VARIABLES
    args,        \* the options of the command being run
    pc,          \* where the orchestrator is
    caller,      \* the loop position that called the agent
    callsMade,   \* tool calls of the current response executed so far
    drainsLeft,  \* Describer turns still allowed in this drain
    drainBefore, \* description signature before the current Describer turn
    startEvents, \* length of the event log when the loop began
    stopReason,  \* why the loop returned, "none" while it runs
    replays      \* how often the run was loaded again

frame == <<turn, caller, callsMade, drainsLeft, drainBefore>>
turnVars == <<runState, frame, args, pc, startEvents, stopReason, replays>>

Agents == args.agents
AgentRoles == ToSet(Agents)
ToolBudget == args.tool_budget
RequireClaimCoverage == args.require_claim_coverage

(* The locals of a drain that is not running. *)
NoSignature == <<>>

(* What the loop has spent of its budget. *)
LoopCalls == IF pc = "loading" THEN 0 ELSE Len(toolEvents) - startEvents

BudgetExhausted == ToolBudget # None /\ LoopCalls >= ToolBudget

InitTurns ==
    /\ Init
    /\ args \in Options
    /\ caller = "none"
    /\ callsMade = 0
    /\ drainsLeft = 0
    /\ drainBefore = NoSignature
    /\ startEvents = 0
    /\ stopReason = "none"
    /\ pc = "loading"
    /\ replays = 0

OpenClaimsLeft == OpenClaims(claims) # {}

(* --stop-when-no-open-claims *)
AllSettled == args.stop_when_no_open_claims /\ claims # <<>> /\ ~OpenClaimsLeft

Goto(label) == pc' = label /\ UNCHANGED stopReason

Stop(reason) == pc' = "stopped" /\ stopReason' = reason

(* The turn is over; its context and the locals of the drain are gone. *)
LeaveTurn ==
    /\ TakeTurn("orchestrator")
    /\ callsMade' = 0
    /\ drainsLeft' = 0
    /\ drainBefore' = NoSignature
    /\ UNCHANGED caller

(***************************************************************************)
(* The orchestrator's own response, executed before the agents are built:  *)
(* load_artifact, inspect_problem, inspect_kernel_source.  A call of it    *)
(* that fails is logged like any other and the run goes on without.        *)
(***************************************************************************)
ContextTools == <<"load_artifact", "read", "read">>

LoadContext ==
    /\ pc = "loading"
    /\ callsMade < Len(ContextTools)
    /\ \/ ObservingCall(ContextTools[callsMade + 1])
       \/ RejectedCall(ContextTools[callsMade + 1])
    /\ callsMade' = callsMade + 1
    /\ UNCHANGED <<args, caller, drainsLeft, drainBefore, pc, startEvents, stopReason,
                   replays>>

(* The loop counts its budget from here. *)
BeginLoop(first) ==
    /\ pc = "loading"
    /\ callsMade = Len(ContextTools)
    /\ Goto(first)
    /\ LeaveTurn
    /\ startEvents' = Len(toolEvents)
    /\ UNCHANGED <<runState, args, replays>>

(***************************************************************************)
(* Agent.act returns a response, or raises (provider failure, response     *)
(* that is not JSON): the run then ends with what it has persisted.        *)
(***************************************************************************)
CallAgent(role, from) ==
    \/ /\ Goto("acting")
       /\ TakeTurn(role)
       /\ caller' = from
       /\ UNCHANGED <<callsMade, drainsLeft, drainBefore>>
    \/ Stop("fatal_workflow_error") /\ UNCHANGED frame

CallDescriber(turnsLeft) ==
    \/ /\ Goto("draining")
       /\ TakeTurn("describer")
       /\ callsMade' = 0
       /\ drainsLeft' = turnsLeft
       /\ drainBefore' = DescriptionSignature
       /\ UNCHANGED caller
    \/ Stop("fatal_workflow_error") /\ LeaveTurn

(* The calls of the response are executed in order. *)
ExecuteToolCall ==
    /\ pc \in {"acting", "draining"}
    /\ callsMade < MaxCallsPerTurn
    /\ ToolCall
    /\ callsMade' = callsMade + 1
    /\ UNCHANGED <<args, caller, drainsLeft, drainBefore, pc, startEvents, stopReason,
                   replays>>

(* Mutant: only the Judge's own turn is asked for a verdict. *)
JudgeDecided == verdict # NoVerdict /\ turnRole = "judge"

VerdictRecorded == verdict # NoVerdict

EndMainTurn ==
    /\ pc = "acting"
    /\ \/ /\ VerdictRecorded
          /\ Stop("verdict_recorded")
          /\ LeaveTurn
       \/ /\ ~VerdictRecorded
          /\ turnRole # "describer"
          /\ "describer" \in AgentRoles
          /\ OpenTasks # {}
          /\ CallDescriber(MaxDescriberTurns - 1)
       \/ /\ ~VerdictRecorded
          /\ turnRole = "describer" \/ "describer" \notin AgentRoles \/ OpenTasks = {}
          /\ Goto("returned")
          /\ LeaveTurn
    /\ UNCHANGED <<runState, args, startEvents, replays>>

(* The drain ends when all is answered, when it stalls, or after its last turn. *)
DrainOver ==
    \/ OpenTasks = {}
    \/ DescriptionSignature = drainBefore
    \/ drainsLeft = 0

EndDescriberTurn ==
    /\ pc = "draining"
    /\ IF DrainOver
       THEN /\ IF VerdictRecorded THEN Stop("verdict_recorded")
                                  ELSE Goto("returned")
            /\ LeaveTurn
       ELSE CallDescriber(drainsLeft - 1)
    /\ UNCHANGED <<runState, args, startEvents, replays>>

(***************************************************************************)
(* --replay-run: persist_run wrote the run state, load_run_state reads it  *)
(* back, and a new loop starts on it, with options of its own and without  *)
(* loading the context again.                                              *)
(***************************************************************************)
Resume(first) ==
    /\ pc = "stopped"
    /\ replays < MaxReplays
    /\ replays' = replays + 1
    /\ args' \in Options
    /\ pc' = first
    /\ stopReason' = "none"
    /\ startEvents' = Len(toolEvents)
    /\ LeaveTurn
    /\ UNCHANGED runState

AgentTurn == LoadContext \/ ExecuteToolCall \/ EndMainTurn \/ EndDescriberTurn

(* Nothing of the run state was loaded from an earlier run. *)
Fresh == replays = 0

=============================================================================
