----------------------------- MODULE AgenticRun -----------------------------
(***************************************************************************)
(* _run_one_entry_unsafe (verifier/agentic_run.py): one command, and the   *)
(* commands that replay its run.  The agents named on the command line     *)
(* decide which of the two loops is run, so a run that one loop stopped    *)
(* may be continued by the other.                                          *)
(***************************************************************************)
EXTENDS VerificationWorkflow, SequentialLoop

runVars == <<turnVars, loopVars, roundVars>>

(* Mutant: a Judge is enough for the verification workflow. *)
UsesWorkflowForJudge == "judge" \in AgentRoles

UsesWorkflow == {"experimenter", "judge"} \subseteq AgentRoles

RunInit ==
    /\ InitTurns
    /\ InitLoop
    /\ AtFirstRound(round, agentIndex, skippedJudgeForCoverage)

RunLoop ==
    \/ UsesWorkflow /\ Orchestrate /\ UNCHANGED roundVars
    \/ ~UsesWorkflow /\ RunRounds /\ UNCHANGED loopVars

TakeAgentTurn == AgentTurn /\ UNCHANGED <<loopVars, roundVars>>

(* A new command on the run state of the last one, with either loop. *)
ReplayRun ==
    /\ \E first \in {"debate", "round"} :
          /\ Resume(first)
          /\ UsesWorkflow' <=> first = "debate"
    /\ RestartLoop
    /\ AtFirstRound(round', agentIndex', skippedJudgeForCoverage')

RunNext == TakeAgentTurn \/ RunLoop \/ ReplayRun

RunSpec == RunInit /\ [][RunNext]_runVars

(* One thread, finite responses, handlers that return; nobody has to replay. *)
FairRunSpec == RunSpec /\ WF_runVars(TakeAgentTurn) /\ WF_runVars(RunLoop)
=============================================================================
