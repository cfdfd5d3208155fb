------------------------ MODULE VerificationWorkflow ------------------------
(***************************************************************************)
(* run_verification_workflow (verifier/agentic/orchestrator.py).           *)
(*                                                                         *)
(* Each debate round calls the Describer and the Skeptic ("debate"), then  *)
(* calls the Experimenter until no claim is open ("coverage"), then, when  *)
(* the gates allow it, the Judge ("judge").  A stopped run may be loaded   *)
(* from its run.json and continued (agentic_run.py --replay-run).          *)
(***************************************************************************)
EXTENDS AgentTurns

VARIABLES
    debateRound,
    debateAgent,      \* place of the debate agent last called in this round
    claimRounds,      \* Experimenter turns of this round
    claimRoundBudget, \* Experimenter turns the round grants
    forced,           \* the Experimenter turn is past that budget
    before            \* what the Experimenter turn is compared with

loopVars == <<debateRound, debateAgent, claimRounds, claimRoundBudget, forced, before>>
wfVars == <<turnVars, loopVars>>

(* The places of the debate agents the round has still to call. *)
DebateAgentsLeft ==
    {i \in DOMAIN Agents : /\ Agents[i] \notin {"experimenter", "judge"}
                           /\ i > debateAgent}

SignatureOf(ledger) ==
    [c \in DOMAIN ledger |-> <<ledger[c].status, Len(ledger[c].evidence)>>]

ClaimSignature == SignatureOf(claims)

Snapshot == [claims      |-> ClaimSignature,
             description |-> DescriptionSignature,
             events      |-> Len(toolEvents)]

NoSnapshot == [claims |-> <<>>, description |-> NoSignature, events |-> 0]

Greatest(a, b) == IF a >= b THEN a ELSE b

ClaimRoundBudget ==
    Greatest(args.max_claim_rounds,
             Cardinality(OpenClaims(claims)) * args.max_claim_rounds_per_claim)

InitLoop ==
    /\ debateRound = 1
    /\ debateAgent = 0
    /\ claimRounds = 0
    /\ claimRoundBudget = 0
    /\ forced = FALSE
    /\ before = NoSnapshot

WFInit == InitTurns /\ InitLoop

BeginWorkflow == BeginLoop("debate") /\ UNCHANGED loopVars

LastRound == debateRound >= args.max_debate_rounds

(***************************************************************************)
(* The round is over: the next one begins, or the loop falls through to    *)
(* its last two returns.                                                   *)
(***************************************************************************)
EndRound ==
    /\ IF ~LastRound
       THEN /\ Goto("debate")
            /\ debateRound' = debateRound + 1
            /\ debateAgent' = 0
       ELSE /\ Stop(IF RequireClaimCoverage /\ OpenClaimsLeft
                    THEN "claim_coverage_required"
                    ELSE "max_rounds_exhausted")
            /\ UNCHANGED <<debateRound, debateAgent>>
    /\ claimRounds' = 0
    /\ claimRoundBudget' = 0
    /\ UNCHANGED <<forced, before>>
-----------------------------------------------------------------------------
(* The debate agents of the round. *)

CallDebateAgent ==
    /\ pc = "debate"
    /\ \E i \in DebateAgentsLeft :
          /\ \A j \in DebateAgentsLeft : i <= j
          /\ IF BudgetExhausted
             THEN Stop("tool_budget_exhausted") /\ UNCHANGED <<frame, debateAgent>>
             ELSE CallAgent(Agents[i], "debate") /\ debateAgent' = i
    /\ UNCHANGED <<runState, args, startEvents, debateRound, claimRounds,
                   claimRoundBudget, forced, before, replays>>

(* Mutant: the budget is not checked after a debate agent's turn. *)
DebateAgentReturnedUnchecked ==
    /\ pc = "returned"
    /\ caller = "debate"
    /\ Goto("debate")
    /\ UNCHANGED <<runState, frame, args, startEvents, loopVars, replays>>

DebateAgentReturned ==
    /\ pc = "returned"
    /\ caller = "debate"
    /\ IF BudgetExhausted THEN Stop("tool_budget_exhausted") ELSE Goto("debate")
    /\ UNCHANGED <<runState, frame, args, startEvents, loopVars, replays>>

BeginCoverage ==
    /\ pc = "debate"
    /\ DebateAgentsLeft = {}
    /\ Goto("coverage")
    /\ claimRounds' = 0
    /\ claimRoundBudget' = ClaimRoundBudget
    /\ UNCHANGED <<runState, frame, args, startEvents, debateRound, debateAgent,
                   forced, before, replays>>
-----------------------------------------------------------------------------
(* The claim coverage loop. *)

CoverageDue == RequireClaimCoverage /\ OpenClaimsLeft

(***************************************************************************)
(* Past its budget the loop goes on as long as a probe result waits to be  *)
(* turned into evidence.                                                   *)
(***************************************************************************)
ForceProbeConsumption ==
    claimRounds >= claimRoundBudget /\ UnconsumedProbes # {}

CoverageImpossible ==
    \/ "experimenter" \notin AgentRoles
    \/ claimRounds >= claimRoundBudget /\ ~ForceProbeConsumption

CallExperimenter ==
    /\ pc = "coverage"
    /\ CoverageDue
    /\ IF CoverageImpossible
       THEN Stop("claim_coverage_required") /\ UNCHANGED <<frame, forced, before>>
       ELSE IF BudgetExhausted
       THEN Stop("tool_budget_exhausted") /\ UNCHANGED <<frame, forced, before>>
       ELSE /\ CallAgent("experimenter", "coverage")
            /\ forced' = ForceProbeConsumption
            /\ before' = Snapshot
    /\ UNCHANGED <<runState, args, startEvents, debateRound, debateAgent, claimRounds,
                   claimRoundBudget, replays>>

ClaimsChanged == ClaimSignature # before.claims
DescriptionChanged == DescriptionSignature # before.description
ProbeRun ==
    \E i \in DOMAIN toolEvents :
        /\ i > before.events
        /\ toolEvents[i].tool \in {"run_python_probe", "run_claim_probe"}

(* Mutant: another probe run counts as consuming the last one. *)
ProbesUnconsumed == forced /\ ~ClaimsChanged /\ ~ProbeRun

ProbeOutputUnconsumed == forced /\ ~ClaimsChanged

ExperimenterReturned ==
    /\ pc = "returned"
    /\ caller = "coverage"
    /\ IF BudgetExhausted
       THEN Stop("tool_budget_exhausted")
       ELSE IF ProbeOutputUnconsumed
       THEN Stop("probe_output_unconsumed")
       ELSE IF ~(ClaimsChanged \/ ProbeRun \/ DescriptionChanged)
       THEN Stop("claim_coverage_stalled")
       ELSE Goto("coverage")
    /\ claimRounds' = claimRounds + 1
    /\ forced' = FALSE
    /\ before' = NoSnapshot
    /\ UNCHANGED <<runState, frame, args, startEvents, debateRound, debateAgent,
                   claimRoundBudget, replays>>

EndCoverage ==
    /\ pc = "coverage"
    /\ ~CoverageDue
    /\ Goto("judge")
    /\ UNCHANGED <<runState, frame, args, startEvents, loopVars, replays>>
-----------------------------------------------------------------------------
(* The gates before the Judge, and the Judge. *)

JudgeAbsent ==
    /\ pc = "judge"
    /\ "judge" \notin AgentRoles
    /\ IF AllSettled
       THEN Stop("no_open_claims") /\ UNCHANGED loopVars
       ELSE EndRound
    /\ UNCHANGED <<runState, frame, args, startEvents, replays>>

RequestMoreDebateInternally ==
    /\ convergence' = "internal"
    /\ UNCHANGED <<claims, toolEvents, skepticReview, verdict,
                   descriptionTasks, descriptionUpdates>>

TooEarlyForJudge == debateRound < args.min_debate_rounds_before_judge

(* Mutant: any sign-off will do, a stale one too. *)
NeverReviewed == "skeptic" \in AgentRoles /\ skepticReview = NoReview

(* Mutant: the sign-off is asked for only when no round is left to get it. *)
ReviewMissingAtLast == "skeptic" \in AgentRoles /\ ~ReviewCurrent /\ LastRound

ReviewMissing == "skeptic" \in AgentRoles /\ ~ReviewCurrent

(* Mutant: a deferred Judge does not use up a debate round. *)
RepeatRound ==
    /\ pc = "judge"
    /\ "judge" \in AgentRoles
    /\ TooEarlyForJudge \/ ReviewMissing
    /\ Goto("debate")
    /\ debateAgent' = 0
    /\ RequestMoreDebateInternally
    /\ UNCHANGED <<frame, args, startEvents, replays, debateRound, claimRounds,
                   claimRoundBudget, forced, before>>

(* No open claim is left here when coverage is required: EndCoverage saw to it. *)
DeferJudge ==
    /\ pc = "judge"
    /\ "judge" \in AgentRoles
    /\ \/ TooEarlyForJudge /\ EndRound
       \/ /\ ~TooEarlyForJudge
          /\ ReviewMissing
          /\ IF ~LastRound
             THEN EndRound
             ELSE Stop("skeptic_review_required") /\ UNCHANGED loopVars
    /\ RequestMoreDebateInternally
    /\ UNCHANGED <<frame, args, startEvents, replays>>

(* Mutant: an earlier request for more debate is left standing. *)
CallJudgeOnOldRequest ==
    /\ pc = "judge"
    /\ "judge" \in AgentRoles
    /\ ~TooEarlyForJudge
    /\ ~ReviewMissing
    /\ CallAgent("judge", "judge")
    /\ UNCHANGED <<runState, args, startEvents, loopVars, replays>>

CallJudge ==
    /\ pc = "judge"
    /\ "judge" \in AgentRoles
    /\ ~TooEarlyForJudge
    /\ ~ReviewMissing
    /\ convergence' = "none"
    /\ CallAgent("judge", "judge")
    /\ UNCHANGED <<claims, toolEvents, skepticReview, verdict, descriptionTasks,
                   descriptionUpdates, args, startEvents, loopVars, replays>>

JudgeReturned ==
    /\ pc = "returned"
    /\ caller = "judge"
    /\ IF BudgetExhausted
       THEN Stop("tool_budget_exhausted") /\ UNCHANGED loopVars
       ELSE IF convergence # "none" /\ LastRound
       THEN Stop("more_debate_requested") /\ UNCHANGED loopVars
       ELSE EndRound
    /\ UNCHANGED <<runState, frame, args, startEvents, replays>>
-----------------------------------------------------------------------------
RestartLoop ==
    /\ debateRound' = 1
    /\ debateAgent' = 0
    /\ claimRounds' = 0
    /\ claimRoundBudget' = 0
    /\ forced' = FALSE
    /\ before' = NoSnapshot

Replay == Resume("debate") /\ RestartLoop

Orchestrate ==
    \/ BeginWorkflow
    \/ CallDebateAgent \/ DebateAgentReturned
    \/ BeginCoverage \/ CallExperimenter \/ ExperimenterReturned \/ EndCoverage
    \/ JudgeAbsent \/ DeferJudge \/ CallJudge \/ JudgeReturned

WFNext ==
    \/ AgentTurn /\ UNCHANGED loopVars
    \/ Orchestrate
    \/ Replay

WFSpec == WFInit /\ [][WFNext]_wfVars
-----------------------------------------------------------------------------
(***************************************************************************)
(* In a run that was not replayed, a verdict is about exactly the ledger   *)
(* the Skeptic signed off: no claim, evidence or status has changed since, *)
(* and none changes afterwards (the review gate before the Judge, and the  *)
(* stop on a verdict).                                                     *)
(***************************************************************************)
VerdictOnReviewedLedger ==
    Fresh /\ verdict # NoVerdict /\ "skeptic" \in AgentRoles
       => skepticReview # NoReview /\ claims = skepticReview.ledger

(***************************************************************************)
(* In a run that was not replayed, trust and reject stand on a ledger      *)
(* without open claims, and with coverage required so does any verdict.    *)
(***************************************************************************)
VerdictLeavesNothingOpen ==
    Fresh /\ verdict # NoVerdict
          /\ (RequireClaimCoverage \/ verdict.verdict \in {"trust", "reject"})
       => ~OpenClaimsLeft

(***************************************************************************)
(* In a run that was not replayed, the claims a reject verdict names are   *)
(* confirmed, in scope and tied to the benchmark, and stay so.             *)
(***************************************************************************)
RejectIsGrounded ==
    Fresh /\ verdict.verdict = "reject" =>
        /\ verdict.decisive # {}
        /\ \A c \in verdict.decisive :
              /\ c \in DOMAIN claims
              /\ claims[c].status = "confirmed"
              /\ claims[c].scope = "in_scope"
              /\ claims[c].benchmark

(***************************************************************************)
(* The stop reason written to the transcript is true of the state it       *)
(* stopped in: each one tells the user what to do next.                    *)
(***************************************************************************)
StopReasonTrue ==
    /\ stopReason = "verdict_recorded" => verdict # NoVerdict
    /\ stopReason = "tool_budget_exhausted" => BudgetExhausted
    /\ stopReason \in {"claim_coverage_required", "claim_coverage_stalled",
                       "probe_output_unconsumed"} => OpenClaimsLeft
    /\ stopReason = "probe_output_unconsumed" => UnconsumedProbes # {}
    /\ stopReason = "skeptic_review_required" => ~ReviewCurrent /\ ~CoverageDue
    /\ stopReason = "more_debate_requested" => convergence = "judge"
    /\ stopReason = "no_open_claims" => claims # <<>> /\ ~OpenClaimsLeft
    /\ stopReason = "max_rounds_exhausted" => debateRound = args.max_debate_rounds /\ ~CoverageDue

(***************************************************************************)
(* A verdict ends the run.  No turn goes on after the one that records it, *)
(* nor after the first turn of a replay that starts with one; a run that   *)
(* was not replayed gets it from the Judge and reports it.                 *)
(***************************************************************************)
VerdictEndsRun ==
    /\ verdict # NoVerdict => pc \notin {"returned", "draining"}
    /\ Fresh /\ verdict # NoVerdict =>
          pc = "stopped" \/ (pc = "acting" /\ turnRole = "judge")
    /\ Fresh /\ pc = "stopped" /\ verdict # NoVerdict => stopReason = "verdict_recorded"

(***************************************************************************)
(* Experimenter turns past the budget of a round are paid for by calls on  *)
(* the ledger: there are no more of them than such calls, but for the one  *)
(* that ends the run, so that forced rounds, which are there to consume    *)
(* probe output, cannot repeat for ever without consuming any.             *)
(***************************************************************************)
LedgerCalls ==
    {i \in DOMAIN toolEvents : toolEvents[i].tool \in
        {"append_evidence", "update_claim_status", "finalize_probe_evidence"}}

ForcedRoundsConsume ==
    claimRounds <= claimRoundBudget + Cardinality(LedgerCalls) + 1

(***************************************************************************)
(* With a budget of at least one call, either loop starts the turn of an   *)
(* agent only while the budget is not used up (but no budget stops the     *)
(* Describer's drain).                                                     *)
(***************************************************************************)
TurnsStartWithinBudget ==
    [][pc' = "acting" /\ pc # "acting" => ~BudgetExhausted \/ ToolBudget = 0]_wfVars

(***************************************************************************)
(* The run ends: the workflow when it has a tool budget, as a turn of the  *)
(* Experimenter that does not end the coverage loop has made a call; the   *)
(* other loop without one, as rounds, responses and drains are bounded.    *)
(***************************************************************************)
Terminates == []<>(pc = "stopped")

(***************************************************************************)
(* A run with a Skeptic that is not replayed implements DebateProtocol.    *)
(***************************************************************************)
Protocol ==
    INSTANCE DebateProtocol WITH
        CoverageRequired <- \A o \in Options : o.require_claim_coverage,
        Unsigned <- None,
        ledger   <- ClaimSignature,
        signed   <- IF skepticReview = NoReview THEN None
                    ELSE SignatureOf(skepticReview.ledger),
        verdict  <- verdict.verdict,
        done     <- pc = "stopped"

ProtocolSpec == Protocol!Spec
=============================================================================
