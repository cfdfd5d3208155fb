--------------------------- MODULE SequentialLoop ---------------------------
(***************************************************************************)
(* run_agents_sequential (verifier/agentic/orchestrator.py): the loop      *)
(* agentic_run.py uses when Experimenter and Judge are not both in the     *)
(* run.  Every round calls the agents in their order; only the Judge may   *)
(* be passed over, and nothing asks for a Skeptic's sign-off.              *)
(***************************************************************************)
EXTENDS AgentTurns

VARIABLES
    round,
    agentIndex,              \* next agent of the round
    skippedJudgeForCoverage  \* the Judge was passed over, in this or an earlier round

roundVars == <<round, agentIndex, skippedJudgeForCoverage>>
seqVars == <<turnVars, roundVars>>

AtFirstRound(r, i, skipped) == r = 1 /\ i = 1 /\ skipped = FALSE

SeqInit == InitTurns /\ AtFirstRound(round, agentIndex, skippedJudgeForCoverage)

BeginSequence == BeginLoop("round") /\ UNCHANGED roundVars

ReplaySequence ==
    /\ Resume("round")
    /\ AtFirstRound(round', agentIndex', skippedJudgeForCoverage')

(* Mutant: the Judge is passed over only once. *)
JudgeMustWaitOnce ==
    /\ RequireClaimCoverage /\ Agents[agentIndex] = "judge" /\ OpenClaimsLeft
    /\ ~skippedJudgeForCoverage

(* Mutant: the Judge is passed over whether a claim is open or not. *)
JudgeNeverActs == RequireClaimCoverage /\ Agents[agentIndex] = "judge"

JudgeMustWait ==
    RequireClaimCoverage /\ Agents[agentIndex] = "judge" /\ OpenClaimsLeft

SkipJudge ==
    /\ pc = "round"
    /\ agentIndex <= Len(Agents)
    /\ ~BudgetExhausted
    /\ JudgeMustWait
    /\ agentIndex' = agentIndex + 1
    /\ skippedJudgeForCoverage' = TRUE
    /\ UNCHANGED <<turnVars, round>>

CallNextAgent ==
    /\ pc = "round"
    /\ agentIndex <= Len(Agents)
    /\ IF BudgetExhausted
       THEN Stop("tool_budget_exhausted") /\ UNCHANGED frame
       ELSE ~JudgeMustWait /\ CallAgent(Agents[agentIndex], "round")
    /\ UNCHANGED <<runState, args, startEvents, replays, roundVars>>

AgentReturned ==
    /\ pc = "returned"
    /\ IF BudgetExhausted
       THEN Stop("tool_budget_exhausted") /\ UNCHANGED agentIndex
       ELSE Goto("round") /\ agentIndex' = agentIndex + 1
    /\ UNCHANGED <<runState, frame, args, startEvents, replays, round,
                   skippedJudgeForCoverage>>

EndSequenceRound ==
    /\ pc = "round"
    /\ agentIndex > Len(Agents)
    /\ \/ /\ AllSettled
          /\ Stop("no_open_claims")
          /\ UNCHANGED <<round, agentIndex>>
       \/ /\ ~AllSettled
          /\ round < args.max_debate_rounds
          /\ Goto("round")
          /\ round' = round + 1
          /\ agentIndex' = 1
       \/ /\ ~AllSettled
          /\ round = args.max_debate_rounds
          /\ Stop(IF skippedJudgeForCoverage THEN "claim_coverage_required"
                                             ELSE "max_rounds_exhausted")
          /\ UNCHANGED <<round, agentIndex>>
    /\ UNCHANGED <<runState, frame, args, startEvents, replays, skippedJudgeForCoverage>>

RunRounds ==
    \/ BeginSequence
    \/ SkipJudge \/ CallNextAgent \/ AgentReturned
    \/ EndSequenceRound

SeqNext ==
    \/ AgentTurn /\ UNCHANGED roundVars
    \/ RunRounds
    \/ ReplaySequence

SeqSpec == SeqInit /\ [][SeqNext]_seqVars
-----------------------------------------------------------------------------

(***************************************************************************)
(* With coverage required, a verdict of this loop leaves no claim open,    *)
(* even if the Skeptic and the Describer act between the Judge's turns.    *)
(***************************************************************************)
SequenceVerdictIsCovered ==
    Fresh /\ RequireClaimCoverage /\ verdict # NoVerdict => ~OpenClaimsLeft

(***************************************************************************)
(* In a run agentic_run.py starts (not both an Experimenter and a Judge),  *)
(* the loop blames missing coverage only while a claim is open: nobody in  *)
(* such a run settles the claims the Judge was passed over for.  The other *)
(* loop gives this reason only while its Experimenter is due.              *)
(***************************************************************************)
CoverageReasonTrue ==
    stopReason = "claim_coverage_required" => OpenClaimsLeft
=============================================================================
