-------------------------- MODULE AgenticRunProofs --------------------------
(***************************************************************************)
(* What holds of a run, for any agents, options, limits and replays.       *)
(* Every step of either loop is a step of ToolRegistry, so what            *)
(* ToolRegistryProofs shows of any order of turns holds of both.  Then the *)
(* gates before the Judge are followed to the verdict, the budgets to the  *)
(* turns they allow and the stop reasons to what they say, in each loop    *)
(* and in runs that a replay takes from one to the other; last, the        *)
(* workflow is shown to implement DebateProtocol.                          *)
(***************************************************************************)
EXTENDS AgenticRun, ToolRegistryProofs, FiniteSetTheorems

-----------------------------------------------------------------------------
(* The turns the two loops share. *)

(* A call does not change whose turn it is. *)
LEMMA ToolCallKeepsRole == ToolCall => turnRole' = turnRole
  BY DEF ToolCall, RejectedCall, ObservingCall, RecordClaimCall, AppendEvidenceCall,
         UpdateClaimStatusCall, RecordNoNewClaims, RunClaimProbe, FinalizeProbeEvidence,
         RequestDescription, RecordDescriptionUpdate, RequestMoreDebate, RecordVerdict,
         Succeed, Attempt

(* No tool the Judge may call changes the ledger or the Skeptic's review. *)
LEMMA JudgeKeepsLedger ==
    ToolCall /\ turnRole = "judge" => UNCHANGED <<claims, skepticReview>>
  BY DEF ToolCall, RejectedCall, ObservingCall, RecordClaimCall, AppendEvidenceCall,
         UpdateClaimStatusCall, RecordNoNewClaims, RunClaimProbe, FinalizeProbeEvidence,
         RequestDescription, RecordDescriptionUpdate, RequestMoreDebate, RecordVerdict,
         Succeed, Accepted, AllowedRoles, Roles

(* A verdict changes only by a justified call of the Judge. *)
LEMMA OnlyJudgeDecides ==
    ToolCall => \/ verdict' = verdict
                \/ turnRole = "judge" /\ verdict' # NoVerdict /\ Justified(verdict', claims)
<1>1. ASSUME NEW v \in Verdicts, NEW cs \in SUBSET DOMAIN claims, RecordVerdict(v, cs)
      PROVE  turnRole = "judge" /\ verdict' # NoVerdict /\ Justified(verdict', claims)
  BY <1>1 DEF RecordVerdict, Succeed, Accepted, AllowedRoles, Justified, Verdicts, NoVerdict
<1> QED
  BY <1>1
  DEF ToolCall, RejectedCall, ObservingCall, RecordClaimCall, AppendEvidenceCall,
      UpdateClaimStatusCall, RecordNoNewClaims, RunClaimProbe, FinalizeProbeEvidence,
      RequestDescription, RecordDescriptionUpdate, RequestMoreDebate

(* A step that leaves the run state alone and may start a role's turn is a step of ToolRegistry. *)
LEMMA TurnChangeRefines ==
    ASSUME UNCHANGED runState, UNCHANGED turn \/ \E r \in Roles : TakeTurn(r)
    PROVE  [Next]_vars
  BY DEF Next, BetweenCalls, runState, turn, vars

(* Leaving a turn and calling the Describer start turns of known roles. *)
LEMMA TurnsOfKnownRoles ==
    /\ LeaveTurn => \E r \in Roles : TakeTurn(r)
    /\ \A n : CallDescriber(n) => \E r \in Roles : TakeTurn(r)
<1>1. LeaveTurn => \E r \in Roles : TakeTurn(r)
  <2> SUFFICES ASSUME LeaveTurn PROVE TakeTurn("orchestrator")
    BY DEF Roles
  <2> QED BY DEF LeaveTurn
<1>2. ASSUME NEW n, CallDescriber(n)
      PROVE  \E r \in Roles : TakeTurn(r)
  <2>1. TakeTurn("describer") \/ LeaveTurn
    BY <1>2 DEF CallDescriber
  <2> QED BY <1>1, <2>1 DEF Roles
<1> QED BY <1>1, <1>2

(* The calls the orchestrator executes, its own and an agent's, are calls of ToolRegistry. *)
LEMMA TurnsCallTools ==
    callsMade \in Nat /\ (LoadContext \/ ExecuteToolCall) => ToolCall
<1>1. ASSUME callsMade \in Nat, LoadContext
      PROVE  ToolCall
  <2>1. callsMade + 1 \in 1..3
    BY <1>1 DEF LoadContext, ContextTools
  <2>2. ContextTools[callsMade + 1] \in ToolNames
    BY <2>1 DEF ContextTools, ToolNames, AllowedRoles
  <2> QED BY <1>1, <2>2 DEF LoadContext, ToolCall
<1>2. ExecuteToolCall => ToolCall
  BY DEF ExecuteToolCall
<1> QED BY <1>1, <1>2

(* Every step of a turn is a step of ToolRegistry. *)
LEMMA AgentTurnRefines == callsMade \in Nat /\ AgentTurn => [Next]_vars
<1> SUFFICES ASSUME callsMade \in Nat, AgentTurn
             PROVE  [Next]_vars
  OBVIOUS
<1>1. LoadContext \/ ExecuteToolCall => Next
  BY TurnsCallTools DEF Next
<1>2. EndMainTurn => [Next]_vars
  BY TurnChangeRefines, TurnsOfKnownRoles DEF EndMainTurn
<1>3. EndDescriberTurn => [Next]_vars
  BY TurnChangeRefines, TurnsOfKnownRoles DEF EndDescriberTurn
<1> QED BY <1>1, <1>2, <1>3 DEF AgentTurn
-----------------------------------------------------------------------------
(* The verification workflow: its steps. *)

(* What the mapping to ToolRegistry's steps needs to know of the locals. *)
LocalsInv ==
    /\ args \in Options
    /\ callsMade \in Nat
    /\ replays \in Nat

(* The orchestrator calls only roles it knows. *)
LEMMA CallAgentRefines ==
    ASSUME NEW role \in Roles, NEW from, CallAgent(role, from)
    PROVE  UNCHANGED turn \/ \E r \in Roles : TakeTurn(r)
  BY DEF CallAgent, frame

(* The agents of the command line are roles. *)
LEMMA AgentsAreRoles ==
    ASSUME args \in Options
    PROVE  \A i \in DOMAIN Agents : Agents[i] \in Roles
<1>1. Agents \in Seq(Roles \ {"orchestrator"})
  BY OptionsAssumption DEF Agents, OptionsType
<1> QED BY <1>1, ElementOfSeq

(***************************************************************************)
(* The orchestrator's own steps start turns and write convergence; they    *)
(* change nothing else of the run state.                                   *)
(***************************************************************************)
LEMMA OrchestrateRefines == LocalsInv /\ Orchestrate => [Next]_vars
<1> SUFFICES ASSUME LocalsInv, Orchestrate
             PROVE  [Next]_vars
  OBVIOUS
<1>1. CASE BeginWorkflow
  BY <1>1, TurnChangeRefines, TurnsOfKnownRoles DEF BeginWorkflow, BeginLoop
<1>2. CASE CallDebateAgent
  <2>1. UNCHANGED turn \/ \E r \in Roles : TakeTurn(r)
    <3>1. PICK i \in DebateAgentsLeft :
                 \/ UNCHANGED frame
                 \/ CallAgent(Agents[i], "debate")
      BY <1>2 DEF CallDebateAgent
    <3>2. Agents[i] \in Roles
      BY AgentsAreRoles DEF DebateAgentsLeft, LocalsInv
    <3> QED BY <3>1, <3>2, CallAgentRefines DEF frame
  <2>2. UNCHANGED runState
    BY <1>2 DEF CallDebateAgent
  <2> QED BY <2>1, <2>2, TurnChangeRefines
<1>3. CASE CallExperimenter
  <2>1. UNCHANGED frame \/ CallAgent("experimenter", "coverage")
    BY <1>3 DEF CallExperimenter
  <2>2. UNCHANGED turn \/ \E r \in Roles : TakeTurn(r)
    BY <2>1, CallAgentRefines DEF frame, Roles
  <2>3. UNCHANGED runState
    BY <1>3 DEF CallExperimenter
  <2> QED BY <2>2, <2>3, TurnChangeRefines
<1>4. CASE CallJudge
  <2>1. UNCHANGED turn \/ TakeTurn("judge")
    BY <1>4 DEF CallJudge, CallAgent, frame
  <2> QED BY <1>4, <2>1 DEF CallJudge, Next, BetweenCalls
<1>5. CASE DeferJudge
  BY <1>5 DEF DeferJudge, RequestMoreDebateInternally, Next, BetweenCalls, frame
<1>6. CASE \/ DebateAgentReturned \/ BeginCoverage \/ ExperimenterReturned
           \/ EndCoverage \/ JudgeAbsent \/ JudgeReturned
  BY <1>6, TurnChangeRefines
  DEF DebateAgentReturned, BeginCoverage, ExperimenterReturned, EndCoverage,
      JudgeAbsent, JudgeReturned, frame
<1> QED BY <1>1, <1>2, <1>3, <1>4, <1>5, <1>6 DEF Orchestrate

(* The locals keep their type. *)
LEMMA LocalsStep == LocalsInv /\ [WFNext]_wfVars => LocalsInv'
<1> SUFFICES ASSUME LocalsInv, [WFNext]_wfVars
             PROVE  LocalsInv'
  OBVIOUS
<1> USE DEF LocalsInv
<1>1. CASE AgentTurn
  BY <1>1 DEF AgentTurn, LoadContext, ExecuteToolCall, EndMainTurn, EndDescriberTurn,
              LeaveTurn, CallDescriber
<1>2. CASE Orchestrate
  BY <1>2
  DEF Orchestrate, BeginWorkflow, BeginLoop, LeaveTurn, CallDebateAgent, CallAgent,
      DebateAgentReturned, BeginCoverage, CallExperimenter, ExperimenterReturned,
      EndCoverage, JudgeAbsent, DeferJudge, CallJudge, JudgeReturned, frame
<1>3. CASE Replay
  BY <1>3 DEF Replay, RestartLoop, Resume, LeaveTurn
<1>4. CASE UNCHANGED wfVars
  BY <1>4 DEF wfVars, turnVars, frame
<1> QED BY <1>1, <1>2, <1>3, <1>4 DEF WFNext

(* A step of the workflow is one of ToolRegistry or changes none of its variables. *)
LEMMA StepRefines == LocalsInv /\ [WFNext]_wfVars => [Next]_vars
<1> SUFFICES ASSUME LocalsInv, [WFNext]_wfVars
             PROVE  [Next]_vars
  OBVIOUS
<1>1. CASE AgentTurn
  BY <1>1, AgentTurnRefines DEF LocalsInv
<1>2. CASE Orchestrate
  BY <1>2, OrchestrateRefines
<1>3. CASE Replay
  BY <1>3, TurnChangeRefines, TurnsOfKnownRoles DEF Replay, RestartLoop, Resume
<1>4. CASE UNCHANGED wfVars
  BY <1>4 DEF wfVars, turnVars, frame, vars
<1> QED BY <1>1, <1>2, <1>3, <1>4 DEF WFNext

(***************************************************************************)
(* The workflow, with replays, is one of the schedules ToolRegistry's Spec *)
(* allows: roles only call tools they may call, one call after the other.  *)
(***************************************************************************)
THEOREM WorkflowUsesTools == WFSpec => Spec
<1>1. WFInit => Init /\ LocalsInv
  BY DEF WFInit, InitTurns, LocalsInv
<1>2. LocalsInv /\ [WFNext]_wfVars => LocalsInv'
  BY LocalsStep
<1>3. LocalsInv /\ [WFNext]_wfVars => [Next]_vars
  BY StepRefines
<1> QED BY <1>1, <1>2, <1>3, PTL DEF WFSpec, Spec
-----------------------------------------------------------------------------
(* From the gates to the verdict. *)

JudgeActs == pc = "acting" /\ turnRole = "judge"

(* The Skeptic has signed off exactly this ledger. *)
Reviewed ==
    "skeptic" \in AgentRoles
       => skepticReview # NoReview /\ claims = skepticReview.ledger

Covered == RequireClaimCoverage => ~OpenClaimsLeft

(***************************************************************************)
(* The gates are passed when the Judge is called.  They still hold when it *)
(* records a verdict, because no tool of the Judge changes the ledger or   *)
(* the review, and when the run has stopped on it.  The Judge's turn is a  *)
(* main turn, never one of a drain, so a verdict is always seen by the     *)
(* check that follows the turn.                                            *)
(***************************************************************************)
DecisionInv ==
    /\ pc # "acting" => turnRole # "judge"
    /\ JudgeActs => caller = "judge"
    /\ verdict # NoVerdict => pc \notin {"returned", "draining"}
    /\ Fresh =>
        /\ verdict # NoVerdict => JudgeActs \/ (pc = "stopped" /\ caller = "judge")
        /\ verdict # NoVerdict /\ pc = "stopped" => stopReason = "verdict_recorded"
        /\ JudgeActs \/ verdict # NoVerdict => Reviewed /\ Covered
        /\ pc = "judge" => Covered
        /\ Justified(verdict, claims)

(* A step that neither decides nor brings the Judge or its gate closer. *)
CalmStep ==
    /\ UNCHANGED <<claims, verdict, skepticReview, args, replays>>
    /\ pc' # "judge"
    /\ turnRole' # "judge"
    /\ Fresh => verdict = NoVerdict
    /\ verdict # NoVerdict => pc' \notin {"returned", "draining"}

(* Calm steps keep the invariant. *)
LEMMA CalmStepKeeps == DecisionInv /\ CalmStep => DecisionInv'
  BY DEF DecisionInv, CalmStep, JudgeActs, Reviewed, Covered, Justified, Fresh,
         AgentRoles, Agents, RequireClaimCoverage, OpenClaimsLeft

(* In a run that was not replayed nothing is decided while the orchestrator is elsewhere. *)
LEMMA UndecidedElsewhere ==
    DecisionInv /\ Fresh /\ pc \notin {"acting", "stopped"} => verdict = NoVerdict
  BY DEF DecisionInv, JudgeActs

(* The tool calls of a turn keep the invariant: only the Judge's can decide. *)
LEMMA CallsKeepDecision ==
    LocalsInv /\ DecisionInv /\ (LoadContext \/ ExecuteToolCall) => DecisionInv'
<1> SUFFICES ASSUME LocalsInv, DecisionInv, LoadContext \/ ExecuteToolCall
             PROVE  DecisionInv'
  OBVIOUS
<1>1. ToolCall
  BY TurnsCallTools DEF LocalsInv
<1>2. /\ UNCHANGED <<args, caller, pc, stopReason, replays, turnRole>>
      /\ pc \in {"loading", "acting", "draining"}
  BY <1>1, ToolCallKeepsRole DEF LoadContext, ExecuteToolCall
<1>3. CASE turnRole = "judge"
  <2>1. pc = "acting" /\ JudgeActs
    BY <1>3 DEF DecisionInv, JudgeActs
  <2>2. UNCHANGED <<claims, skepticReview>>
    BY <1>1, <1>3, JudgeKeepsLedger
  <2>3. \/ verdict' = verdict
        \/ verdict' # NoVerdict /\ Justified(verdict', claims)
    BY <1>1, OnlyJudgeDecides
  <2>4. Fresh => Justified(verdict', claims')
    BY <2>2, <2>3 DEF DecisionInv
  <2>5. Fresh => Reviewed' /\ Covered'
    BY <1>2, <2>1, <2>2
    DEF DecisionInv, Reviewed, Covered, AgentRoles, Agents, RequireClaimCoverage,
        OpenClaimsLeft
  <2> QED BY <1>2, <2>1, <2>4, <2>5 DEF DecisionInv, JudgeActs, Fresh
<1>4. CASE turnRole # "judge"
  <2>1. verdict' = verdict
    BY <1>1, <1>4, OnlyJudgeDecides
  <2>2. Fresh => verdict = NoVerdict
    BY <1>2, <1>4 DEF DecisionInv, JudgeActs
  <2>3. Fresh => Justified(verdict', claims')
    BY <2>1, <2>2 DEF Justified, NoVerdict
  <2> QED BY <1>2, <1>4, <2>1, <2>2, <2>3 DEF DecisionInv, JudgeActs, Fresh
<1> QED BY <1>3, <1>4

(* The end of a turn keeps it: a verdict stops the run there. *)
LEMMA TurnEndsKeepDecision ==
    LocalsInv /\ DecisionInv /\ (EndMainTurn \/ EndDescriberTurn) => DecisionInv'
<1> SUFFICES ASSUME LocalsInv, DecisionInv, EndMainTurn \/ EndDescriberTurn
             PROVE  DecisionInv'
  OBVIOUS
<1>1. UNCHANGED <<claims, verdict, skepticReview, args, replays>>
  BY DEF EndMainTurn, EndDescriberTurn, runState
<1>2. CASE EndMainTurn /\ VerdictRecorded
  <2>1. /\ pc = "acting" /\ pc' = "stopped"
        /\ stopReason' = "verdict_recorded"
        /\ turnRole' = "orchestrator"
        /\ UNCHANGED caller
    BY <1>2 DEF EndMainTurn, Stop, LeaveTurn, TakeTurn
  <2>2. Fresh => caller = "judge" /\ Reviewed /\ Covered
    BY <1>2, <2>1 DEF DecisionInv, VerdictRecorded
  <2>3. Fresh => Reviewed' /\ Covered'
    BY <1>1, <2>2
    DEF Reviewed, Covered, AgentRoles, Agents, RequireClaimCoverage, OpenClaimsLeft
  <2> QED BY <1>1, <2>1, <2>2, <2>3 DEF DecisionInv, JudgeActs, Fresh
<1>3. CASE EndMainTurn /\ ~VerdictRecorded
  BY <1>1, <1>3, CalmStepKeeps
  DEF CalmStep, EndMainTurn, VerdictRecorded, CallDescriber, LeaveTurn, TakeTurn, Goto, Stop
<1>4. CASE EndDescriberTurn
  <2>1. pc = "draining" /\ verdict = NoVerdict
    BY <1>4 DEF EndDescriberTurn, DecisionInv
  <2>2. pc' # "judge" /\ turnRole' # "judge"
    BY <1>4 DEF EndDescriberTurn, CallDescriber, LeaveTurn, TakeTurn, Goto, Stop
  <2> QED BY <1>1, <2>1, <2>2, CalmStepKeeps DEF CalmStep
<1> QED BY <1>2, <1>3, <1>4

(* The steps of the orchestrator that neither open nor use the Judge's gate. *)
CalmOrchestrate ==
    \/ BeginWorkflow \/ CallDebateAgent \/ DebateAgentReturned \/ BeginCoverage
    \/ CallExperimenter \/ ExperimenterReturned \/ JudgeAbsent \/ DeferJudge
    \/ JudgeReturned

(* They are calm. *)
LEMMA CalmOrchestrateIsCalm ==
    LocalsInv /\ DecisionInv /\ CalmOrchestrate => CalmStep
<1> SUFFICES ASSUME LocalsInv, DecisionInv, CalmOrchestrate
             PROVE  CalmStep
  OBVIOUS
<1>1. pc \notin {"acting", "draining", "stopped"}
  BY DEF CalmOrchestrate, BeginWorkflow, BeginLoop, CallDebateAgent, DebateAgentReturned,
         BeginCoverage, CallExperimenter, ExperimenterReturned, JudgeAbsent, DeferJudge,
         JudgeReturned
<1>2. Fresh => verdict = NoVerdict
  BY <1>1, UndecidedElsewhere
<1>3. turnRole # "judge"
  BY <1>1 DEF DecisionInv
<1>4. /\ UNCHANGED <<claims, verdict, skepticReview, args, replays>>
      /\ pc' \notin {"judge", "returned", "draining"}
  BY DEF CalmOrchestrate, BeginWorkflow, BeginLoop, CallDebateAgent, DebateAgentReturned,
         BeginCoverage, CallExperimenter, ExperimenterReturned, JudgeAbsent, DeferJudge,
         JudgeReturned, RequestMoreDebateInternally, EndRound, CallAgent, Goto, Stop,
         runState
<1>5. CASE CallDebateAgent
  <2>1. turnRole' = turnRole \/ \E i \in DebateAgentsLeft : turnRole' = Agents[i]
    BY <1>5 DEF CallDebateAgent, CallAgent, TakeTurn, frame, turn
  <2>2. turnRole' # "judge"
    BY <1>3, <2>1 DEF DebateAgentsLeft
  <2> QED BY <1>2, <1>4, <2>2 DEF CalmStep
<1>6. CASE CallExperimenter
  <2>1. turnRole' \in {turnRole, "experimenter"}
    BY <1>6 DEF CallExperimenter, CallAgent, TakeTurn, frame, turn
  <2> QED BY <1>2, <1>3, <1>4, <2>1 DEF CalmStep
<1>7. CASE BeginWorkflow
  <2>1. turnRole' = "orchestrator"
    BY <1>7 DEF BeginWorkflow, BeginLoop, LeaveTurn, TakeTurn
  <2> QED BY <1>2, <1>4, <2>1 DEF CalmStep
<1>8. CASE \/ DebateAgentReturned \/ BeginCoverage \/ ExperimenterReturned
           \/ JudgeAbsent \/ DeferJudge \/ JudgeReturned
  <2>1. turnRole' = turnRole
    BY <1>8
    DEF DebateAgentReturned, BeginCoverage, ExperimenterReturned, JudgeAbsent, DeferJudge,
        JudgeReturned, frame, turn
  <2> QED BY <1>2, <1>3, <1>4, <2>1 DEF CalmStep
<1> QED BY <1>5, <1>6, <1>7, <1>8 DEF CalmOrchestrate

(* Leaving the coverage loop finds the ledger covered, if that is required. *)
LEMMA CoverageEndsCovered == DecisionInv /\ EndCoverage => DecisionInv'
<1> SUFFICES ASSUME DecisionInv, EndCoverage
             PROVE  DecisionInv'
  OBVIOUS
<1>1. /\ pc = "coverage" /\ pc' = "judge"
      /\ ~CoverageDue
      /\ UNCHANGED <<claims, verdict, skepticReview, args, replays, turnRole>>
  BY DEF EndCoverage, Goto, runState, frame, turn
<1>2. Covered'
  BY <1>1 DEF CoverageDue, Covered, RequireClaimCoverage, OpenClaimsLeft
<1>3. Fresh => verdict = NoVerdict
  BY <1>1, UndecidedElsewhere
<1> QED BY <1>1, <1>2, <1>3 DEF DecisionInv, JudgeActs, Justified, NoVerdict, Fresh

(***************************************************************************)
(* The Judge is called on a current review, and a current review has seen  *)
(* the ledger as it is (CurrentReviewSeesAll, proved of ToolRegistry).     *)
(***************************************************************************)
LEMMA JudgeIsCalledOnReviewedLedger ==
    DecisionInv /\ CurrentReviewSeesAll /\ CallJudge => DecisionInv'
<1> SUFFICES ASSUME DecisionInv, CurrentReviewSeesAll, CallJudge
             PROVE  DecisionInv'
  OBVIOUS
<1>1. /\ pc = "judge"
      /\ ~ReviewMissing
      /\ UNCHANGED <<claims, verdict, skepticReview, args, replays>>
  BY DEF CallJudge
<1>2. CASE pc' = "stopped" /\ UNCHANGED frame
  BY <1>1, <1>2, UndecidedElsewhere, CalmStepKeeps DEF CalmStep, DecisionInv, frame, turn
<1>3. CASE pc' = "acting" /\ TakeTurn("judge") /\ caller' = "judge"
  <2>1. "skeptic" \in AgentRoles => ReviewCurrent
    BY <1>1 DEF ReviewMissing
  <2>2. Reviewed
    BY <2>1 DEF Reviewed, CurrentReviewSeesAll, ReviewCurrent, NoReview
  <2>3. Reviewed'
    BY <1>1, <2>2 DEF Reviewed, AgentRoles, Agents
  <2>4. Fresh => Covered'
    BY <1>1 DEF DecisionInv, Covered, RequireClaimCoverage, OpenClaimsLeft
  <2>5. Fresh => verdict = NoVerdict
    BY <1>1, UndecidedElsewhere
  <2> QED BY <1>1, <1>3, <2>3, <2>4, <2>5
          DEF DecisionInv, JudgeActs, Justified, NoVerdict, Fresh
<1> QED BY <1>2, <1>3 DEF CallJudge, CallAgent, Goto, Stop

(* Every step keeps it; a replay is not fresh. *)
LEMMA DecisionStep ==
    LocalsInv /\ CurrentReviewSeesAll /\ DecisionInv /\ [WFNext]_wfVars => DecisionInv'
<1> SUFFICES ASSUME LocalsInv, CurrentReviewSeesAll, DecisionInv, [WFNext]_wfVars
             PROVE  DecisionInv'
  OBVIOUS
<1>1. CASE AgentTurn
  BY <1>1, CallsKeepDecision, TurnEndsKeepDecision DEF AgentTurn
<1>2. CASE Orchestrate
  <2>1. CalmOrchestrate \/ EndCoverage \/ CallJudge
    BY <1>2 DEF Orchestrate, CalmOrchestrate
  <2> QED BY <2>1, CalmOrchestrateIsCalm, CalmStepKeeps, CoverageEndsCovered,
             JudgeIsCalledOnReviewedLedger
<1>3. CASE Replay
  <2>1. /\ pc' = "debate" /\ turnRole' = "orchestrator"
        /\ replays' = replays + 1
    BY <1>3 DEF Replay, RestartLoop, Resume, LeaveTurn, TakeTurn
  <2>2. ~Fresh'
    BY <2>1 DEF Fresh, LocalsInv
  <2> QED BY <2>1, <2>2 DEF DecisionInv, JudgeActs
<1>4. CASE UNCHANGED wfVars
  BY <1>4
  DEF wfVars, turnVars, frame, turn, runState, DecisionInv, JudgeActs, Reviewed, Covered,
      Justified, Fresh, AgentRoles, Agents, RequireClaimCoverage, OpenClaimsLeft
<1> QED BY <1>1, <1>2, <1>3, <1>4 DEF WFNext

(* Nothing is decided at the start. *)
LEMMA DecisionInit == WFInit => DecisionInv
  BY DEF WFInit, InitTurns, Init, DecisionInv, JudgeActs, Justified, NoVerdict

(* The decision invariant holds of every run, replayed or not. *)
LEMMA DecisionsAreKept == WFSpec => []DecisionInv
<1>1. WFInit => LocalsInv /\ DecisionInv
  BY DecisionInit DEF WFInit, InitTurns, LocalsInv
<1>2. LocalsInv /\ [WFNext]_wfVars => LocalsInv'
  BY LocalsStep
<1>3. LocalsInv /\ CurrentReviewSeesAll /\ DecisionInv /\ [WFNext]_wfVars => DecisionInv'
  BY DecisionStep
<1>4. WFSpec => []CurrentReviewSeesAll
  BY WorkflowUsesTools, CurrentReviewIsComplete, PTL
<1> QED BY <1>1, <1>2, <1>3, <1>4, PTL DEF WFSpec

(***************************************************************************)
(* A fresh run's verdict is about the very ledger the Skeptic signed off.  *)
(***************************************************************************)
THEOREM VerdictIsReviewed == WFSpec => []VerdictOnReviewedLedger
<1>1. DecisionInv => VerdictOnReviewedLedger
  BY DEF DecisionInv, VerdictOnReviewedLedger, Reviewed
<1> QED BY <1>1, DecisionsAreKept, PTL

(***************************************************************************)
(* A fresh run decides trust and reject, and with coverage required any    *)
(* verdict, on a ledger without open claims, and none opens afterwards.    *)
(***************************************************************************)
THEOREM VerdictIsCovered == WFSpec => []VerdictLeavesNothingOpen
<1>1. DecisionInv => VerdictLeavesNothingOpen
  BY DEF DecisionInv, VerdictLeavesNothingOpen, Covered, Justified, OpenClaimsLeft
<1> QED BY <1>1, DecisionsAreKept, PTL

(***************************************************************************)
(* A fresh run's reject names claims that are confirmed, in scope and tied *)
(* to the benchmark, when it is recorded and when the run has ended.       *)
(***************************************************************************)
THEOREM RejectStaysGrounded == WFSpec => []RejectIsGrounded
<1>1. DecisionInv => RejectIsGrounded
  <2> SUFFICES ASSUME DecisionInv, Fresh, verdict.verdict = "reject"
               PROVE  RejectAllowed(claims, verdict.decisive)
    BY DEF RejectIsGrounded, RejectAllowed, Decisive
  <2> QED BY DEF DecisionInv, Justified
<1> QED BY <1>1, DecisionsAreKept, PTL

(***************************************************************************)
(* A verdict ends the run in the turn that records it, which in a fresh    *)
(* run is the Judge's, and the run reports it as its stop reason.          *)
(***************************************************************************)
THEOREM VerdictIsFinal == WFSpec => []VerdictEndsRun
<1>1. DecisionInv => VerdictEndsRun
  BY DEF DecisionInv, VerdictEndsRun, JudgeActs
<1> QED BY <1>1, DecisionsAreKept, PTL
-----------------------------------------------------------------------------
(***************************************************************************)
(* Where the orchestrator is in the workflow's loops.  A turn belongs to   *)
(* the place that called it until the run is back there or has stopped.    *)
(***************************************************************************)
InTurn == pc \in {"acting", "draining", "returned"}
ExperimenterTurn == InTurn /\ caller = "coverage"
JudgeTurn == InTurn /\ caller = "judge"

LoopPlaces ==
    /\ debateRound \in Positive /\ debateRound <= args.max_debate_rounds
    /\ pc # "stopped" => stopReason = "none"
    /\ pc = "judge" => ~CoverageDue
    /\ JudgeTurn => convergence \in {"none", "judge"}
    /\ ExperimenterTurn /\ pc = "acting" => turnRole = "experimenter"
    /\ pc = "draining" => turnRole = "describer"

(* A command allows at least one round. *)
LEMMA RoundsAllowed ==
    ASSUME NEW o \in Options
    PROVE  o.max_debate_rounds \in Positive
  BY OptionsAssumption DEF OptionsType

(* Only the Judge asks for more debate by a call. *)
LEMMA CallsAndConvergence ==
    ToolCall => convergence' \in {convergence, "none", "judge"}
  BY DEF ToolCall, RejectedCall, ObservingCall, RecordClaimCall, AppendEvidenceCall,
         UpdateClaimStatusCall, RecordNoNewClaims, RunClaimProbe, FinalizeProbeEvidence,
         RequestDescription, RecordDescriptionUpdate, RequestMoreDebate, RecordVerdict

(* The places are kept by every step. *)
LEMMA PlacesStep ==
    LocalsInv /\ LoopPlaces /\ [WFNext]_wfVars => LoopPlaces'
<1> SUFFICES ASSUME LocalsInv, LoopPlaces, [WFNext]_wfVars
             PROVE  LoopPlaces'
  OBVIOUS
<1>max. args.max_debate_rounds \in Positive
  BY RoundsAllowed DEF LocalsInv
<1> USE DEF LoopPlaces, InTurn, ExperimenterTurn, JudgeTurn, Positive
<1>1. CASE (LoadContext \/ ExecuteToolCall) /\ UNCHANGED loopVars
  <2>1. ToolCall
    BY <1>1, TurnsCallTools DEF LocalsInv
  <2>2. /\ UNCHANGED <<args, caller, pc, stopReason, turnRole, debateRound>>
        /\ pc \in {"loading", "acting", "draining"}
    BY <1>1, <2>1, ToolCallKeepsRole DEF LoadContext, ExecuteToolCall, loopVars
  <2>3. convergence' \in {convergence, "none", "judge"}
    BY <2>1, CallsAndConvergence
  <2> QED BY <2>2, <2>3
<1>2. CASE (EndMainTurn \/ EndDescriberTurn) /\ UNCHANGED loopVars
  BY <1>2
  DEF EndMainTurn, EndDescriberTurn, CallDescriber, LeaveTurn, TakeTurn, Goto, Stop,
      runState, loopVars
<1>3. CASE BeginWorkflow
  BY <1>3 DEF BeginWorkflow, BeginLoop, LeaveTurn, TakeTurn, Goto, loopVars
<1>4. CASE CallDebateAgent \/ CallExperimenter \/ CallJudge
  BY <1>4
  DEF CallDebateAgent, CallExperimenter, CallJudge, CallAgent, TakeTurn, Goto, Stop,
      runState, loopVars, frame
<1>5. CASE DebateAgentReturned \/ BeginCoverage \/ ExperimenterReturned
  BY <1>5 DEF DebateAgentReturned, BeginCoverage, ExperimenterReturned, Goto, Stop,
              loopVars, frame
<1>6. CASE EndCoverage
  BY <1>6 DEF EndCoverage, Goto, CoverageDue, OpenClaimsLeft, RequireClaimCoverage,
              runState, loopVars, frame
<1>7. CASE JudgeAbsent \/ DeferJudge \/ JudgeReturned
  BY <1>7, <1>max
  DEF JudgeAbsent, DeferJudge, JudgeReturned, EndRound, LastRound, Goto, Stop, loopVars, frame
<1>8. CASE Replay
  BY <1>8, RoundsAllowed DEF Replay, RestartLoop, Resume
<1>9. CASE UNCHANGED wfVars
  BY <1>9 DEF wfVars, turnVars, frame, turn, runState, loopVars, CoverageDue,
              OpenClaimsLeft, RequireClaimCoverage
<1> QED BY <1>1, <1>2, <1>3, <1>4, <1>5, <1>6, <1>7, <1>8, <1>9
        DEF WFNext, AgentTurn, Orchestrate
-----------------------------------------------------------------------------
(***************************************************************************)
(* An Experimenter turn and what it is compared with when it returns.  The *)
(* ledger only grows during the turn; the claim that made it due was open; *)
(* a forced turn began with a probe result no evidence cited, and evidence *)
(* that cites it has been added since; a changed ledger means a call that  *)
(* changes it was logged since; and before the turn the rounds were paid.  *)
(***************************************************************************)
LedgerGrown ==
    \A c \in DOMAIN before.claims :
        /\ c \in DOMAIN claims
        /\ before.claims[c][2] \in Nat
        /\ before.claims[c][2] <= Len(claims[c].evidence)

CitedOnlySince(i) ==
    \A c \in DOMAIN claims : \A j \in DOMAIN claims[c].evidence :
        claims[c].evidence[j].event = i =>
            c \notin DOMAIN before.claims \/ j > before.claims[c][2]

ProbeWaited ==
    \E i \in DOMAIN toolEvents : toolEvents[i].claim # 0 /\ CitedOnlySince(i)

WasOpen == \E c \in DOMAIN before.claims : before.claims[c][1] = "open"

CallsBefore == {i \in LedgerCalls : i <= before.events}

LedgerCalledSince == \E i \in LedgerCalls : i > before.events

ExperimentInv ==
    /\ claimRounds \in Nat
    /\ claimRoundBudget \in Nat
    /\ pc # "stopped" => claimRounds <= claimRoundBudget + Cardinality(LedgerCalls)
    /\ ExperimenterTurn =>
        /\ before.events \in 0..Len(toolEvents)
        /\ LedgerGrown
        /\ WasOpen
        /\ forced => ProbeWaited
        /\ ClaimsChanged => LedgerCalledSince
        /\ claimRounds <= claimRoundBudget + Cardinality(CallsBefore)
        /\ ~forced => claimRounds < claimRoundBudget

(* The log only grows, and earlier calls stay what they were. *)
LEMMA LogGrows ==
    ASSUME TypeInv, ToolCall
    PROVE  /\ Len(toolEvents) \in Nat
           /\ Len(toolEvents') = Len(toolEvents) + 1
           /\ DOMAIN toolEvents = 1..Len(toolEvents)
           /\ DOMAIN toolEvents' = 1..Len(toolEvents')
           /\ \A i \in DOMAIN toolEvents : toolEvents'[i] = toolEvents[i]
<1>1. PICK tool \in ToolNames, ok \in BOOLEAN, claim \in {0} \cup DOMAIN claims :
             Attempt(tool, ok, claim)
  BY ToolCallAppends
<1>2. [tool |-> tool, ok |-> ok, claim |-> claim] \in ToolEvent
  BY LenProperties DEF ToolEvent, TypeInv, TypeOK, Ledger
<1>3. toolEvents \in Seq(ToolEvent)
  BY DEF TypeInv, TypeOK
<1> QED BY <1>1, <1>2, <1>3, AppendProperties, LenProperties DEF Attempt

(* Sets of positions in a log are finite, and a subset is no larger. *)
LEMMA PositionsFinite ==
    ASSUME NEW n \in Nat, NEW T \in SUBSET (1..n), NEW S \in SUBSET T
    PROVE  /\ Cardinality(T) \in Nat
           /\ Cardinality(S) \in Nat
           /\ Cardinality(S) <= Cardinality(T)
           /\ Cardinality(S) = Cardinality(T) => S = T
<1>1. IsFiniteSet(1..n)
  BY FS_Interval
<1>2. IsFiniteSet(T) /\ IsFiniteSet(S)
  BY <1>1, FS_Subset
<1> QED BY <1>2, FS_Subset, FS_CardinalityType

(* Of a call by the Experimenter or the Describer that changes the ledger the log keeps a trace. *)
LEMMA LedgerCallIsLogged ==
    ASSUME TypeInv, ToolCall, turnRole \in {"experimenter", "describer"}, claims' # claims
    PROVE  Len(toolEvents') \in LedgerCalls'
<1> DEFINE tools == {"append_evidence", "update_claim_status", "finalize_probe_evidence"}
<1>1. \E tool \in tools, ok \in BOOLEAN : Attempt(tool, ok, 0)
  <2>1. ASSUME NEW c \in DOMAIN claims, NEW s \in Settled, NEW e \in CitedEvents,
               AppendEvidenceCall(c, s, e)
        PROVE  Attempt("append_evidence", TRUE, 0)
    BY <2>1 DEF AppendEvidenceCall, Succeed
  <2>2. ASSUME NEW c \in DOMAIN claims, NEW s \in ClaimStatus, UpdateClaimStatusCall(c, s)
        PROVE  Attempt("update_claim_status", TRUE, 0)
    BY <2>2 DEF UpdateClaimStatusCall, Succeed
  <2>3. ASSUME NEW e \in DOMAIN toolEvents, NEW s \in Settled, NEW st \in ClaimStatus,
               FinalizeProbeEvidence(e, s, st)
        PROVE  \E ok \in BOOLEAN : Attempt("finalize_probe_evidence", ok, 0)
    <3>1. MayUpdateStatus(AppendEvidence(claims, toolEvents[e].claim, s, e),
                          toolEvents[e].claim, st) \in BOOLEAN
      BY DEF MayUpdateStatus
    <3> QED BY <2>3, <3>1 DEF FinalizeProbeEvidence
  <2>4. ASSUME NEW k \in ClaimKinds, RecordClaimCall(k[1], k[2])
        PROVE  FALSE
    BY <2>4 DEF RecordClaimCall, Succeed, Accepted, AllowedRoles
  <2>5. CASE \/ \E t \in ToolNames : RejectedCall(t) \/ ObservingCall(t)
             \/ RecordNoNewClaims \/ \E c \in DOMAIN claims : RunClaimProbe(c)
             \/ RequestDescription \/ RequestMoreDebate
             \/ \E ds \in SUBSET DOMAIN descriptionTasks, known \in BOOLEAN :
                   RecordDescriptionUpdate(ds, known)
             \/ \E v \in Verdicts, cs \in SUBSET DOMAIN claims : RecordVerdict(v, cs)
    BY <2>5 DEF RejectedCall, ObservingCall, RecordNoNewClaims, RunClaimProbe,
                RequestDescription, RequestMoreDebate, RecordDescriptionUpdate, RecordVerdict
  <2> QED BY <2>1, <2>2, <2>3, <2>4, <2>5 DEF ToolCall
<1>2. PICK tool \in tools, ok \in BOOLEAN : Attempt(tool, ok, 0)
  BY <1>1
<1>3. [tool |-> tool, ok |-> ok, claim |-> 0] \in ToolEvent
  BY DEF ToolEvent, ToolNames, AllowedRoles
<1>4. /\ Len(toolEvents') \in DOMAIN toolEvents'
      /\ toolEvents'[Len(toolEvents')].tool \in tools
  BY <1>2, <1>3, AppendProperties, LenProperties DEF Attempt, TypeInv, TypeOK
<1> QED BY <1>4 DEF LedgerCalls

(* The calls that change the ledger are counted. *)
LEMMA LedgerCallsCounted ==
    ASSUME TypeInv
    PROVE  /\ LedgerCalls \in SUBSET (1..Len(toolEvents)) /\ Len(toolEvents) \in Nat
           /\ Cardinality(LedgerCalls) \in Nat
<1>1. LedgerCalls \in SUBSET (1..Len(toolEvents)) /\ Len(toolEvents) \in Nat
  BY LenProperties DEF LedgerCalls, TypeInv, TypeOK
<1> QED BY <1>1, PositionsFinite

(* Such calls are never forgotten. *)
LEMMA LedgerCallsGrow ==
    ASSUME TypeInv, ToolCall
    PROVE  /\ LedgerCalls \subseteq LedgerCalls'
           /\ Cardinality(LedgerCalls) <= Cardinality(LedgerCalls')
           /\ before.events \in 0..Len(toolEvents) /\ UNCHANGED before
                 => CallsBefore' = CallsBefore
<1>1. LedgerCalls \subseteq LedgerCalls'
  BY LogGrows DEF LedgerCalls
<1>2. LedgerCalls' \in SUBSET (1..Len(toolEvents')) /\ Len(toolEvents') \in Nat
  BY LogGrows DEF LedgerCalls
<1>3. Cardinality(LedgerCalls) <= Cardinality(LedgerCalls')
  BY <1>1, <1>2, PositionsFinite
<1>4. ASSUME before.events \in 0..Len(toolEvents), UNCHANGED before
      PROVE  CallsBefore' = CallsBefore
  BY <1>4, LogGrows DEF CallsBefore, LedgerCalls
<1> QED BY <1>1, <1>3, <1>4

(* A tool call changes the ledger only by adding to it. *)
LEMMA ToolCallKeepsHistory ==
    TypeInv /\ ToolCall => LedgerKept(claims, claims')
  BY ToolCallLedgerStep, LedgerStepKept DEF TypeInv, TypeOK

(* What a turn is compared with survives the calls of the turn. *)
LEMMA CallsKeepComparison ==
    ASSUME TypeInv, ToolCall, UNCHANGED before,
           before.events \in 0..Len(toolEvents), LedgerGrown
    PROVE  /\ before.events' \in 0..Len(toolEvents')
           /\ LedgerGrown'
           /\ ProbeWaited => ProbeWaited'
           /\ LedgerCalledSince => LedgerCalledSince'
<1>1. LedgerKept(claims, claims')
  BY ToolCallKeepsHistory
<1>2. before.events' \in 0..Len(toolEvents')
  BY LogGrows
<1>types. /\ \A c \in DOMAIN claims : claims[c].evidence \in Seq(Evidence)
          /\ \A c \in DOMAIN claims' : claims'[c].evidence \in Seq(Evidence)
  <2>1. claims \in Seq(Claim) /\ claims' \in Seq(Claim)
    BY ToolCallType DEF TypeInv, TypeOK, Ledger
  <2>2. \A c \in DOMAIN claims : claims[c] \in Claim
    BY <2>1, ElementOfSeq
  <2>3. \A c \in DOMAIN claims' : claims'[c] \in Claim
    BY <2>1, ElementOfSeq
  <2> QED BY <2>2, <2>3 DEF Claim
<1>lens. /\ \A c \in DOMAIN claims : /\ Len(claims[c].evidence) \in Nat
                                   /\ DOMAIN claims[c].evidence = 1..Len(claims[c].evidence)
         /\ \A c \in DOMAIN claims' : /\ Len(claims'[c].evidence) \in Nat
                                    /\ DOMAIN claims'[c].evidence = 1..Len(claims'[c].evidence)
  BY <1>types, LenProperties
<1>3. LedgerGrown'
  BY <1>1, <1>lens DEF LedgerGrown, LedgerKept, NoSilentReversal
<1>4. ASSUME NEW i, CitedOnlySince(i)
      PROVE  CitedOnlySince(i)'
  <2> SUFFICES ASSUME NEW c \in DOMAIN claims', NEW j \in DOMAIN claims'[c].evidence,
                      claims'[c].evidence[j].event = i,
                      c \in DOMAIN before.claims, ~(j > before.claims[c][2])
               PROVE  FALSE
    BY DEF CitedOnlySince
  <2>1. /\ c \in DOMAIN claims
        /\ before.claims[c][2] \in Nat
        /\ before.claims[c][2] <= Len(claims[c].evidence)
    BY DEF LedgerGrown
  <2>2. j \in DOMAIN claims[c].evidence
    BY <2>1, <1>lens
  <2>3. claims'[c].evidence[j] = claims[c].evidence[j]
    BY <1>1, <2>1, <2>2 DEF LedgerKept, NoSilentReversal
  <2> QED BY <1>4, <2>1, <2>2, <2>3 DEF CitedOnlySince
<1>5. ProbeWaited => ProbeWaited'
  BY <1>4, LogGrows DEF ProbeWaited
<1>6. LedgerCalledSince => LedgerCalledSince'
  BY LedgerCallsGrow DEF LedgerCalledSince
<1> QED BY <1>2, <1>3, <1>5, <1>6

(* A step outside the calls that keeps the comparison and starts no Experimenter turn. *)
LEMMA SameExperiment ==
    ASSUME ExperimentInv,
           UNCHANGED <<claims, toolEvents, claimRounds, claimRoundBudget, forced, before>>,
           ExperimenterTurn' => ExperimenterTurn,
           pc' # "stopped" => pc # "stopped"
    PROVE  ExperimentInv'
  BY DEF ExperimentInv, LedgerCalls, LedgerGrown, WasOpen, ProbeWaited, CitedOnlySince,
         ClaimsChanged, ClaimSignature, SignatureOf, LedgerCalledSince, CallsBefore

(* A step that begins to count anew. *)
LEMMA NewCount ==
    ASSUME TypeInv, UNCHANGED toolEvents,
           claimRounds' = 0, claimRoundBudget' \in Nat, ~ExperimenterTurn'
    PROVE  ExperimentInv'
<1>1. Cardinality(LedgerCalls)' \in Nat
  BY LedgerCallsCounted DEF LedgerCalls
<1> QED BY <1>1 DEF ExperimentInv

(* A turn's calls keep it. *)
LEMMA CallsKeepExperiment ==
    ASSUME LocalsInv, TypeInv, LoopPlaces, ExperimentInv,
           LoadContext \/ ExecuteToolCall, UNCHANGED loopVars
    PROVE  ExperimentInv'
<1>1. ToolCall
  BY TurnsCallTools DEF LocalsInv
<1>2. /\ UNCHANGED <<caller, pc, turnRole, claimRounds, claimRoundBudget, forced, before>>
      /\ pc \in {"loading", "acting", "draining"}
  BY <1>1, ToolCallKeepsRole DEF LoadContext, ExecuteToolCall, loopVars
<1>3. /\ Cardinality(LedgerCalls) \in Nat
      /\ Cardinality(LedgerCalls') \in Nat
      /\ Cardinality(LedgerCalls) <= Cardinality(LedgerCalls')
  <2>1. LedgerCalls' \in SUBSET (1..Len(toolEvents')) /\ Len(toolEvents') \in Nat
    BY <1>1, LogGrows DEF LedgerCalls
  <2> QED BY <1>1, <2>1, LedgerCallsCounted, LedgerCallsGrow, PositionsFinite
<1>4. ASSUME ExperimenterTurn
      PROVE  /\ before.events' \in 0..Len(toolEvents')
             /\ LedgerGrown'
             /\ WasOpen'
             /\ forced' => ProbeWaited'
             /\ ClaimsChanged' => LedgerCalledSince'
             /\ claimRounds' <= claimRoundBudget' + Cardinality(CallsBefore')
             /\ ~forced' => claimRounds' < claimRoundBudget'
  <2>1. /\ before.events \in 0..Len(toolEvents)
        /\ LedgerGrown /\ WasOpen
        /\ forced => ProbeWaited
        /\ ClaimsChanged => LedgerCalledSince
    BY <1>4 DEF ExperimentInv
  <2>2. /\ before.events' \in 0..Len(toolEvents')
        /\ LedgerGrown'
        /\ ProbeWaited => ProbeWaited'
        /\ LedgerCalledSince => LedgerCalledSince'
    BY <1>1, <1>2, <2>1, CallsKeepComparison
  <2>3. turnRole \in {"experimenter", "describer"}
    BY <1>2, <1>4 DEF LoopPlaces, ExperimenterTurn, InTurn
  <2>4. ClaimsChanged' => LedgerCalledSince'
    <3>1. CASE claims' = claims
      BY <1>2, <2>1, <2>2, <3>1 DEF ClaimsChanged, ClaimSignature
    <3>2. CASE claims' # claims
      <4>1. Len(toolEvents') \in LedgerCalls'
        BY <1>1, <2>3, <3>2, LedgerCallIsLogged
      <4>2. Len(toolEvents') > before.events'
        BY <1>1, <1>2, <2>1, LogGrows
      <4> QED BY <4>1, <4>2 DEF LedgerCalledSince
    <3> QED BY <3>1, <3>2
  <2>5. CallsBefore' = CallsBefore
    BY <1>1, <1>2, <2>1, LedgerCallsGrow
  <2> QED BY <1>2, <1>4, <2>1, <2>2, <2>4, <2>5 DEF ExperimentInv, WasOpen
<1>5. ExperimenterTurn' = ExperimenterTurn
  BY <1>2 DEF ExperimenterTurn, InTurn
<1> QED BY <1>2, <1>3, <1>4, <1>5 DEF ExperimentInv

(* So does the call of an Experimenter: a forced turn finds a probe result to consume. *)
LEMMA CallKeepsExperiment ==
    ASSUME LocalsInv, TypeInv, ExperimentInv, CallExperimenter
    PROVE  ExperimentInv'
<1>1. /\ UNCHANGED <<claims, toolEvents, claimRounds, claimRoundBudget>>
      /\ pc = "coverage"
  BY DEF CallExperimenter, runState
<1>2. CASE UNCHANGED <<forced, before>> /\ pc' = "stopped"
  <2>1. ~ExperimenterTurn'
    BY <1>2 DEF ExperimenterTurn, InTurn
  <2> QED BY <1>1, <1>2, <2>1, SameExperiment
<1>3. CASE forced' = ForceProbeConsumption /\ before' = Snapshot /\ ~CoverageImpossible
  <2>1. before' = [claims |-> ClaimSignature, description |-> DescriptionSignature,
                   events |-> Len(toolEvents)]
    BY <1>3 DEF Snapshot
  <2>2. /\ Len(toolEvents) \in Nat
        /\ Cardinality(LedgerCalls) \in Nat
        /\ LedgerCalls \in SUBSET (1..Len(toolEvents))
    BY LedgerCallsCounted
  <2>3. DOMAIN ClaimSignature = DOMAIN claims
    BY DEF ClaimSignature, SignatureOf
  <2>4. \A c \in DOMAIN claims : /\ ClaimSignature[c][1] = claims[c].status
                                /\ ClaimSignature[c][2] = Len(claims[c].evidence)
    BY DEF ClaimSignature, SignatureOf
  <2>5. \A c \in DOMAIN claims : /\ Len(claims[c].evidence) \in Nat
                                /\ DOMAIN claims[c].evidence = 1..Len(claims[c].evidence)
    <3>1. \A c \in DOMAIN claims : claims[c] \in Claim
      BY ElementOfSeq DEF TypeInv, TypeOK, Ledger
    <3> QED BY <3>1, LenProperties DEF Claim
  <2>6. LedgerGrown'
    BY <1>1, <2>1, <2>3, <2>4, <2>5 DEF LedgerGrown
  <2>7. WasOpen'
    BY <1>1, <2>1, <2>3, <2>4
    DEF WasOpen, CallExperimenter, CoverageDue, OpenClaimsLeft, OpenClaims
  <2>8. forced' => ProbeWaited'
    <3> SUFFICES ASSUME UnconsumedProbes # {}
                 PROVE  ProbeWaited'
      BY <1>3 DEF ForceProbeConsumption
    <3>1. PICK i \in UnconsumedProbes : TRUE
      OBVIOUS
    <3>2. i \in DOMAIN toolEvents /\ toolEvents[i].claim # 0 /\ i \notin CitedBy(claims)
      BY <3>1 DEF UnconsumedProbes
    <3>3. i # 0
      BY <3>2, LenProperties DEF TypeInv, TypeOK
    <3>4. \A c \in DOMAIN claims : \A j \in DOMAIN claims[c].evidence :
                claims[c].evidence[j].event # i
      <4> SUFFICES ASSUME NEW c \in DOMAIN claims, NEW j \in DOMAIN claims[c].evidence,
                          claims[c].evidence[j].event = i
                   PROVE  i \in CitedBy(claims)
        BY <3>2
      <4> DEFINE cited(d) == {claims[d].evidence[k].event : k \in DOMAIN claims[d].evidence}
      <4>1. i \in cited(c)
        OBVIOUS
      <4>2. i \in UNION {cited(d) : d \in DOMAIN claims}
        BY <4>1
      <4> QED BY <3>3, <4>2 DEF CitedBy, NoEvent
    <3>5. CitedOnlySince(i)'
      BY <1>1, <3>4 DEF CitedOnlySince
    <3> QED BY <1>1, <3>2, <3>5 DEF ProbeWaited
  <2>9. ~ClaimsChanged'
    BY <1>1, <2>1 DEF ClaimsChanged, ClaimSignature
  <2>10. CallsBefore' = LedgerCalls
    BY <1>1, <2>1, <2>2 DEF CallsBefore, LedgerCalls
  <2>11. ~forced' => claimRounds < claimRoundBudget
    <3>1. ~forced' => ~(claimRounds >= claimRoundBudget)
      BY <1>3 DEF CoverageImpossible
    <3> QED BY <3>1 DEF ExperimentInv
  <2>12. LedgerCalls' = LedgerCalls
    BY <1>1 DEF LedgerCalls
  <2> QED BY <1>1, <2>1, <2>2, <2>6, <2>7, <2>8, <2>9, <2>10, <2>11, <2>12 DEF ExperimentInv
<1> QED BY <1>1, <1>2, <1>3 DEF CallExperimenter, CallAgent, Stop, Goto

(* The signature of an unchanged ledger has neither new evidence nor another status. *)
LEMMA UnchangedLedger ==
    ASSUME TypeInv, ~ClaimsChanged
    PROVE  /\ WasOpen => OpenClaimsLeft
           /\ ProbeWaited => UnconsumedProbes # {}
<1>1. /\ DOMAIN before.claims = DOMAIN claims
      /\ \A c \in DOMAIN claims : /\ before.claims[c][1] = claims[c].status
                                /\ before.claims[c][2] = Len(claims[c].evidence)
  BY DEF ClaimsChanged, ClaimSignature, SignatureOf
<1>2. WasOpen => OpenClaimsLeft
  BY <1>1 DEF WasOpen, OpenClaimsLeft, OpenClaims
<1>3. ASSUME ProbeWaited
      PROVE  UnconsumedProbes # {}
  <2>1. PICK i \in DOMAIN toolEvents : toolEvents[i].claim # 0 /\ CitedOnlySince(i)
    BY <1>3 DEF ProbeWaited
  <2>2. ASSUME NEW c \in DOMAIN claims, NEW j \in DOMAIN claims[c].evidence
        PROVE  claims[c].evidence[j].event # i
    <3>1. claims[c] \in Claim
      BY ElementOfSeq DEF TypeInv, TypeOK, Ledger
    <3>2. j <= Len(claims[c].evidence) /\ j \in Nat /\ Len(claims[c].evidence) \in Nat
      BY <3>1, LenProperties DEF Claim
    <3> QED BY <1>1, <2>1, <3>2 DEF CitedOnlySince
  <2>3. i \notin CitedBy(claims)
    BY <2>2 DEF CitedBy
  <2> QED BY <2>1, <2>3 DEF UnconsumedProbes
<1> QED BY <1>2, <1>3

(* A turn that returns is paid for, or it is the last one. *)
LEMMA ReturnKeepsExperiment ==
    ASSUME TypeInv, ExperimentInv, ExperimenterReturned
    PROVE  ExperimentInv'
<1>1. /\ UNCHANGED <<claims, toolEvents, claimRoundBudget>>
      /\ claimRounds' = claimRounds + 1
      /\ ExperimenterTurn
      /\ ~ExperimenterTurn'
  BY DEF ExperimenterReturned, runState, ExperimenterTurn, InTurn, Stop, Goto
<1>2. ASSUME pc' # "stopped"
      PROVE  claimRounds + 1 <= claimRoundBudget + Cardinality(LedgerCalls)
  <2>1. forced => ClaimsChanged
    BY <1>2 DEF ExperimenterReturned, ProbeOutputUnconsumed, Stop
  <2>2. /\ LedgerCalls \in SUBSET (1..Len(toolEvents)) /\ Len(toolEvents) \in Nat
        /\ Cardinality(LedgerCalls) \in Nat
    BY LedgerCallsCounted
  <2>3. CASE forced
    <3>1. PICK i \in LedgerCalls : i > before.events
      BY <1>1, <2>1, <2>3 DEF ExperimentInv, LedgerCalledSince
    <3>2. CallsBefore \subseteq LedgerCalls /\ CallsBefore # LedgerCalls
      BY <1>1, <2>2, <3>1 DEF CallsBefore, ExperimentInv
    <3>3. /\ Cardinality(CallsBefore) \in Nat
          /\ Cardinality(CallsBefore) < Cardinality(LedgerCalls)
      <4>1. CallsBefore \in SUBSET LedgerCalls
        BY <3>2
      <4>2. /\ Cardinality(CallsBefore) \in Nat
            /\ Cardinality(CallsBefore) <= Cardinality(LedgerCalls)
            /\ Cardinality(CallsBefore) # Cardinality(LedgerCalls)
        BY <2>2, <3>2, <4>1, PositionsFinite
      <4> QED BY <2>2, <4>2
    <3> QED BY <1>1, <2>2, <3>3 DEF ExperimentInv
  <2>4. CASE ~forced
    BY <1>1, <2>2, <2>4 DEF ExperimentInv
  <2> QED BY <2>3, <2>4
<1>3. LedgerCalls' = LedgerCalls
  BY <1>1 DEF LedgerCalls
<1> QED BY <1>1, <1>2, <1>3 DEF ExperimentInv

(* A round's budget of Experimenter turns is a number. *)
LEMMA BudgetIsNumber ==
    ASSUME LocalsInv, TypeInv
    PROVE  ClaimRoundBudget \in Nat
<1>1. /\ args.max_claim_rounds \in Nat
      /\ args.max_claim_rounds_per_claim \in Nat
  BY OptionsAssumption DEF LocalsInv, OptionsType, Positive
<1>2. /\ Len(claims) \in Nat
      /\ OpenClaims(claims) \in SUBSET (1..Len(claims))
  BY LenProperties DEF OpenClaims, TypeInv, TypeOK, Ledger
<1>3. Cardinality(OpenClaims(claims)) \in Nat
  BY <1>2, PositionsFinite
<1>4. Cardinality(OpenClaims(claims)) * args.max_claim_rounds_per_claim \in Nat
  BY <1>1, <1>3
<1> QED BY <1>1, <1>4 DEF ClaimRoundBudget, Greatest

(* Every step keeps the account of the Experimenter's turns. *)
LEMMA ExperimentStep ==
    LocalsInv /\ TypeInv /\ LoopPlaces /\ ExperimentInv /\ [WFNext]_wfVars => ExperimentInv'
<1> SUFFICES ASSUME LocalsInv, TypeInv, LoopPlaces, ExperimentInv, [WFNext]_wfVars
             PROVE  ExperimentInv'
  OBVIOUS
<1>1. CASE (LoadContext \/ ExecuteToolCall) /\ UNCHANGED loopVars
  BY <1>1, CallsKeepExperiment
<1>2. CASE (EndMainTurn \/ EndDescriberTurn) /\ UNCHANGED loopVars
  <2>1. /\ UNCHANGED <<claims, toolEvents, claimRounds, claimRoundBudget, forced, before>>
        /\ ExperimenterTurn' => ExperimenterTurn
        /\ pc # "stopped"
    BY <1>2
    DEF EndMainTurn, EndDescriberTurn, CallDescriber, LeaveTurn, runState, loopVars,
        ExperimenterTurn, InTurn
  <2> QED BY <2>1, SameExperiment
<1>3. CASE CallExperimenter
  BY <1>3, CallKeepsExperiment
<1>4. CASE ExperimenterReturned
  BY <1>4, ReturnKeepsExperiment
<1>5. CASE BeginWorkflow \/ CallDebateAgent \/ DebateAgentReturned \/ EndCoverage \/ CallJudge
  <2>1. /\ UNCHANGED <<claims, toolEvents, claimRounds, claimRoundBudget, forced, before>>
        /\ ~ExperimenterTurn'
        /\ pc # "stopped"
    BY <1>5
    DEF BeginWorkflow, BeginLoop, CallDebateAgent, DebateAgentReturned, EndCoverage,
        CallJudge, CallAgent, Goto, Stop, runState, loopVars, ExperimenterTurn, InTurn
  <2> QED BY <2>1, SameExperiment
<1>6. CASE BeginCoverage
  <2>1. /\ UNCHANGED toolEvents /\ pc' = "coverage"
        /\ claimRounds' = 0 /\ claimRoundBudget' = ClaimRoundBudget
    BY <1>6 DEF BeginCoverage, runState, Goto
  <2> QED BY <2>1, BudgetIsNumber, NewCount DEF ExperimenterTurn, InTurn
<1>7. CASE JudgeAbsent \/ DeferJudge \/ JudgeReturned
  <2>1. UNCHANGED <<claims, toolEvents>> /\ pc # "stopped" /\ ~ExperimenterTurn'
    BY <1>7
    DEF JudgeAbsent, DeferJudge, JudgeReturned, RequestMoreDebateInternally, EndRound,
        Goto, Stop, runState, frame, ExperimenterTurn, InTurn
  <2>2. CASE UNCHANGED loopVars
    BY <2>1, <2>2, SameExperiment DEF loopVars
  <2>3. CASE EndRound
    BY <2>1, <2>3, NewCount DEF EndRound
  <2> QED BY <1>7, <2>2, <2>3 DEF JudgeAbsent, DeferJudge, JudgeReturned
<1>8. CASE Replay
  <2>1. /\ UNCHANGED toolEvents /\ pc' = "debate"
        /\ claimRounds' = 0 /\ claimRoundBudget' = 0
    BY <1>8 DEF Replay, Resume, RestartLoop, runState
  <2> QED BY <2>1, NewCount DEF ExperimenterTurn, InTurn
<1>9. CASE UNCHANGED wfVars
  <2>1. /\ UNCHANGED <<claims, toolEvents, claimRounds, claimRoundBudget, forced, before>>
        /\ UNCHANGED <<pc, caller>>
    BY <1>9 DEF wfVars, turnVars, frame, runState, loopVars
  <2> QED BY <2>1, SameExperiment DEF ExperimenterTurn, InTurn
<1> QED BY <1>1, <1>2, <1>3, <1>4, <1>5, <1>6, <1>7, <1>8, <1>9
        DEF WFNext, AgentTurn, Orchestrate

(* The invariant of the workflow's loops. *)
LoopInv == LoopPlaces /\ ExperimentInv

(* Only the turn that ends the run may exceed the account, by itself. *)
LEMMA ForcedStep ==
    LocalsInv /\ TypeInv /\ LoopInv /\ ForcedRoundsConsume /\ [WFNext]_wfVars
       => ForcedRoundsConsume'
<1> SUFFICES ASSUME LocalsInv, TypeInv, LoopInv, ForcedRoundsConsume, [WFNext]_wfVars
             PROVE  ForcedRoundsConsume'
  OBVIOUS
<1>1. ExperimentInv'
  BY ExperimentStep DEF LoopInv
<1>2. Cardinality(LedgerCalls) \in Nat
  BY LedgerCallsCounted
<1>3. TypeInv'
  BY TypeStep, StepRefines
<1>4. Cardinality(LedgerCalls)' \in Nat
  <2>1. LedgerCalls' \in SUBSET (1..Len(toolEvents')) /\ Len(toolEvents') \in Nat
    BY <1>3, LenProperties DEF LedgerCalls, TypeInv, TypeOK
  <2> QED BY <2>1, PositionsFinite
<1>5. CASE pc' # "stopped"
  BY <1>1, <1>4, <1>5 DEF ExperimentInv, ForcedRoundsConsume
<1>6. CASE pc' = "stopped" /\ claimRounds' = 0 /\ claimRoundBudget' = 0
  BY <1>4, <1>6 DEF ForcedRoundsConsume
<1>7. CASE /\ pc' = "stopped" /\ pc # "stopped"
           /\ UNCHANGED <<toolEvents, claimRoundBudget>>
           /\ claimRounds' \in {claimRounds, claimRounds + 1}
  <2>1. LedgerCalls' = LedgerCalls
    BY <1>7 DEF LedgerCalls
  <2> QED BY <1>2, <1>7, <2>1 DEF LoopInv, ExperimentInv, ForcedRoundsConsume
<1>8. CASE UNCHANGED wfVars
  BY <1>8 DEF wfVars, turnVars, runState, loopVars, ForcedRoundsConsume, LedgerCalls
<1>9. CASE WFNext
  <2>1. CASE AgentTurn /\ UNCHANGED loopVars
    <3>1. CASE LoadContext \/ ExecuteToolCall
      BY <1>5, <3>1 DEF LoadContext, ExecuteToolCall
    <3>2. CASE EndMainTurn \/ EndDescriberTurn
      BY <1>5, <1>7, <2>1, <3>2 DEF EndMainTurn, EndDescriberTurn, runState, loopVars
    <3> QED BY <2>1, <3>1, <3>2 DEF AgentTurn
  <2>2. CASE BeginWorkflow \/ BeginCoverage \/ EndCoverage \/ Replay
    BY <1>5, <2>2 DEF BeginWorkflow, BeginLoop, BeginCoverage, EndCoverage, Replay, Resume, Goto
  <2>3. CASE CallDebateAgent \/ DebateAgentReturned \/ CallExperimenter \/ CallJudge
    BY <1>5, <1>7, <2>3
    DEF CallDebateAgent, DebateAgentReturned, CallExperimenter, CallJudge, runState, loopVars
  <2>4. CASE ExperimenterReturned
    BY <1>5, <1>7, <2>4 DEF ExperimenterReturned, runState
  <2>5. CASE JudgeAbsent \/ DeferJudge \/ JudgeReturned
    BY <1>5, <1>6, <1>7, <2>5
    DEF JudgeAbsent, DeferJudge, JudgeReturned, RequestMoreDebateInternally, EndRound,
        runState, loopVars
  <2> QED BY <1>9, <2>1, <2>2, <2>3, <2>4, <2>5 DEF WFNext, Orchestrate
<1> QED BY <1>8, <1>9

(* At the start no turn is under way and none is counted. *)
LEMMA LoopInit == WFInit => LocalsInv /\ TypeInv /\ LoopInv /\ ForcedRoundsConsume
<1> SUFFICES ASSUME WFInit
             PROVE  LocalsInv /\ TypeInv /\ LoopInv /\ ForcedRoundsConsume
  OBVIOUS
<1>1. LocalsInv /\ TypeInv
  BY InitType DEF WFInit, InitTurns, LocalsInv
<1>2. Cardinality(LedgerCalls) \in Nat
  BY <1>1, LedgerCallsCounted
<1>3. args.max_debate_rounds \in Positive
  BY <1>1, RoundsAllowed DEF LocalsInv
<1> QED BY <1>1, <1>2, <1>3
        DEF WFInit, InitTurns, InitLoop, LoopInv, LoopPlaces, ExperimentInv, InTurn,
            ExperimenterTurn, JudgeTurn, ForcedRoundsConsume, Positive

(* The loop's invariant holds of every run. *)
LEMMA LoopsAreKept == WFSpec => [](LocalsInv /\ TypeInv /\ LoopInv)
<1>1. WFInit => LocalsInv /\ TypeInv /\ LoopInv
  BY LoopInit
<1>2. LocalsInv /\ TypeInv /\ LoopInv /\ [WFNext]_wfVars => LocalsInv' /\ TypeInv' /\ LoopInv'
  BY LocalsStep, StepRefines, TypeStep, PlacesStep, ExperimentStep DEF LoopInv
<1> QED BY <1>1, <1>2, PTL DEF WFSpec

(***************************************************************************)
(* There are no more Experimenter turns past the rounds' budgets than      *)
(* calls on the ledger, but for one: the loop cannot be kept going by      *)
(* probes nobody consumes.                                                 *)
(***************************************************************************)
THEOREM ForcedRoundsArePaid == WFSpec => []ForcedRoundsConsume
<1>1. WFInit => ForcedRoundsConsume
  BY LoopInit
<1>2. LocalsInv /\ TypeInv /\ LoopInv /\ ForcedRoundsConsume /\ [WFNext]_wfVars
        => ForcedRoundsConsume'
  BY ForcedStep
<1> QED BY <1>1, <1>2, LoopsAreKept, PTL DEF WFSpec
-----------------------------------------------------------------------------
(* What the run says of its end. *)

(* The reasons say nothing while the run goes on. *)
LEMMA RunningReason == stopReason = "none" => StopReasonTrue
  BY DEF StopReasonTrue

(* A reason stays true while nothing it speaks of changes. *)
LEMMA StoppedReason ==
    ASSUME StopReasonTrue, pc = "stopped", UNCHANGED wfVars
    PROVE  StopReasonTrue'
  BY DEF StopReasonTrue, wfVars, turnVars, frame, turn, runState, loopVars, BudgetExhausted,
         LoopCalls, ToolBudget, OpenClaimsLeft, UnconsumedProbes, ReviewCurrent, CoverageDue,
         RequireClaimCoverage

(* Every return of the loop gives a reason that is true of the state it leaves. *)
LEMMA StopStep ==
    LocalsInv /\ TypeInv /\ LoopInv /\ StopReasonTrue /\ [WFNext]_wfVars => StopReasonTrue'
<1> SUFFICES ASSUME LocalsInv, TypeInv, LoopInv, StopReasonTrue, [WFNext]_wfVars
             PROVE  StopReasonTrue'
  OBVIOUS
<1>places. LoopPlaces /\ ExperimentInv
  BY DEF LoopInv
<1>running. CASE pc' # "stopped"
  <2>1. LoopPlaces'
    BY <1>places, PlacesStep
  <2>2. stopReason' = "none"
    BY <1>running, <2>1 DEF LoopPlaces
  <2> QED BY <2>2, RunningReason DEF StopReasonTrue
<1>stays. CASE UNCHANGED wfVars
  <2>1. CASE pc = "stopped"
    BY <1>stays, <2>1, StoppedReason
  <2>2. CASE pc # "stopped"
    BY <1>stays, <1>running, <2>2 DEF wfVars, turnVars
  <2> QED BY <2>1, <2>2
(* What the step leaves alone, as the reasons speak of it. *)
<1>same. ASSUME UNCHANGED <<runState, args, startEvents>>, pc # "loading", pc' # "loading"
         PROVE  /\ (verdict # NoVerdict)' = (verdict # NoVerdict)
                /\ BudgetExhausted' = BudgetExhausted
                /\ OpenClaimsLeft' = OpenClaimsLeft
                /\ UnconsumedProbes' = UnconsumedProbes
                /\ ReviewCurrent' = ReviewCurrent
                /\ CoverageDue' = CoverageDue
                /\ claims' = claims /\ convergence' = convergence
  BY <1>same DEF runState, BudgetExhausted, LoopCalls, ToolBudget, OpenClaimsLeft,
                 UnconsumedProbes, ReviewCurrent, CoverageDue, RequireClaimCoverage
<1>1. CASE AgentTurn /\ UNCHANGED loopVars
  <2>1. CASE LoadContext \/ ExecuteToolCall
    BY <1>running, <2>1 DEF LoadContext, ExecuteToolCall
  <2>2. CASE EndMainTurn \/ EndDescriberTurn
    <3> SUFFICES ASSUME pc' = "stopped" PROVE StopReasonTrue'
      BY <1>running
    <3>1. \/ stopReason' = "fatal_workflow_error"
          \/ stopReason' = "verdict_recorded" /\ verdict # NoVerdict
      BY <2>2 DEF EndMainTurn, EndDescriberTurn, CallDescriber, Stop, Goto, VerdictRecorded
    <3>2. verdict' = verdict
      BY <2>2 DEF EndMainTurn, EndDescriberTurn, runState
    <3> QED BY <3>1, <3>2 DEF StopReasonTrue
  <2> QED BY <1>1, <2>1, <2>2 DEF AgentTurn
<1>2. CASE BeginWorkflow \/ BeginCoverage \/ EndCoverage \/ Replay
  BY <1>running, <1>2
  DEF BeginWorkflow, BeginLoop, BeginCoverage, EndCoverage, Replay, Resume, Goto
<1>3. CASE CallDebateAgent \/ DebateAgentReturned
  <2> SUFFICES ASSUME pc' = "stopped" PROVE StopReasonTrue'
    BY <1>running
  <2>1. \/ stopReason' = "fatal_workflow_error"
        \/ stopReason' = "tool_budget_exhausted" /\ BudgetExhausted
    BY <1>3 DEF CallDebateAgent, DebateAgentReturned, CallAgent, Stop, Goto
  <2>2. UNCHANGED <<runState, args, startEvents>> /\ pc # "loading"
    BY <1>3 DEF CallDebateAgent, DebateAgentReturned
  <2> QED BY <1>same, <2>1, <2>2 DEF StopReasonTrue
<1>4. CASE CallExperimenter
  <2> SUFFICES ASSUME pc' = "stopped" PROVE StopReasonTrue'
    BY <1>running
  <2>1. \/ stopReason' = "fatal_workflow_error"
        \/ stopReason' = "tool_budget_exhausted" /\ BudgetExhausted
        \/ stopReason' = "claim_coverage_required" /\ OpenClaimsLeft
    BY <1>4 DEF CallExperimenter, CallAgent, Stop, Goto, CoverageDue
  <2>2. UNCHANGED <<runState, args, startEvents>> /\ pc # "loading"
    BY <1>4 DEF CallExperimenter
  <2> QED BY <1>same, <2>1, <2>2 DEF StopReasonTrue
<1>5. CASE ExperimenterReturned
  <2> SUFFICES ASSUME pc' = "stopped" PROVE StopReasonTrue'
    BY <1>running
  <2>1. \/ stopReason' = "tool_budget_exhausted" /\ BudgetExhausted
        \/ stopReason' = "probe_output_unconsumed" /\ forced /\ ~ClaimsChanged
        \/ stopReason' = "claim_coverage_stalled" /\ ~ClaimsChanged
    BY <1>5 DEF ExperimenterReturned, Stop, Goto, ProbeOutputUnconsumed
  <2>2. UNCHANGED <<runState, args, startEvents>> /\ pc # "loading" /\ ExperimenterTurn
    BY <1>5 DEF ExperimenterReturned, ExperimenterTurn, InTurn
  <2>3. ~ClaimsChanged => OpenClaimsLeft /\ (forced => UnconsumedProbes # {})
    BY <1>places, <2>2, UnchangedLedger DEF ExperimentInv
  <2> QED BY <1>same, <2>1, <2>2, <2>3 DEF StopReasonTrue
<1>6. CASE EndRound /\ pc' = "stopped" /\ UNCHANGED <<claims, args>>
  <2>1. \/ stopReason' = "claim_coverage_required" /\ OpenClaimsLeft
        \/ stopReason' = "max_rounds_exhausted" /\ ~CoverageDue
    BY <1>6 DEF EndRound, Stop, Goto, CoverageDue
  <2>2. debateRound' = args.max_debate_rounds
    <3>1. debateRound >= args.max_debate_rounds /\ debateRound' = debateRound
      BY <1>6 DEF EndRound, Stop, Goto, LastRound
    <3>2. args.max_debate_rounds \in Positive
      BY RoundsAllowed DEF LocalsInv
    <3> QED BY <1>places, <3>1, <3>2 DEF LoopPlaces, Positive
  <2>3. OpenClaimsLeft' = OpenClaimsLeft /\ CoverageDue' = CoverageDue
    BY <1>6 DEF OpenClaimsLeft, CoverageDue, RequireClaimCoverage
  <2> QED BY <1>6, <2>1, <2>2, <2>3 DEF StopReasonTrue
<1>7. CASE JudgeAbsent
  <2>1. UNCHANGED <<runState, args, startEvents>> /\ pc # "loading"
    BY <1>7 DEF JudgeAbsent
  <2>2. CASE Stop("no_open_claims") /\ AllSettled
    BY <1>same, <2>1, <2>2 DEF Stop, AllSettled, StopReasonTrue
  <2> QED BY <1>6, <1>7, <1>running, <2>1, <2>2 DEF JudgeAbsent, runState
<1>8. CASE DeferJudge
  <2>1. UNCHANGED <<claims, toolEvents, skepticReview, args>> /\ pc = "judge"
    BY <1>8 DEF DeferJudge, RequestMoreDebateInternally
  <2>2. CASE Stop("skeptic_review_required") /\ ReviewMissing
    <3>1. ~ReviewCurrent /\ ~CoverageDue
      BY <1>places, <2>1, <2>2 DEF ReviewMissing, LoopPlaces
    <3>2. ReviewCurrent' = ReviewCurrent /\ CoverageDue' = CoverageDue
      BY <2>1 DEF ReviewCurrent, CoverageDue, OpenClaimsLeft, RequireClaimCoverage
    <3> QED BY <2>2, <3>1, <3>2 DEF Stop, StopReasonTrue
  <2> QED BY <1>6, <1>8, <1>running, <2>1, <2>2 DEF DeferJudge
<1>9. CASE CallJudge
  <2>1. pc' = "stopped" => stopReason' = "fatal_workflow_error"
    BY <1>9 DEF CallJudge, CallAgent, Stop, Goto
  <2> QED BY <1>running, <2>1 DEF StopReasonTrue
<1>10. CASE JudgeReturned
  <2>1. UNCHANGED <<runState, args, startEvents>> /\ pc # "loading" /\ JudgeTurn
    BY <1>10 DEF JudgeReturned, JudgeTurn, InTurn
  <2>2. CASE Stop("tool_budget_exhausted") /\ BudgetExhausted
    BY <1>same, <2>1, <2>2 DEF Stop, StopReasonTrue
  <2>3. CASE Stop("more_debate_requested") /\ convergence # "none"
    BY <1>same, <1>places, <2>1, <2>3 DEF Stop, StopReasonTrue, LoopPlaces
  <2> QED BY <1>6, <1>10, <1>running, <2>1, <2>2, <2>3 DEF JudgeReturned, runState
<1> QED BY <1>stays, <1>1, <1>2, <1>3, <1>4, <1>5, <1>7, <1>8, <1>9, <1>10
        DEF WFNext, Orchestrate

(***************************************************************************)
(* What the transcript gives as the reason for the end is true of the run  *)
(* state it ended with, with any options and after any replays.            *)
(***************************************************************************)
THEOREM StopReasonsAreTrue == WFSpec => []StopReasonTrue
<1>1. WFInit => StopReasonTrue
  BY RunningReason DEF WFInit, InitTurns
<1>2. LocalsInv /\ TypeInv /\ LoopInv /\ StopReasonTrue /\ [WFNext]_wfVars => StopReasonTrue'
  BY StopStep
<1> QED BY <1>1, <1>2, LoopsAreKept, PTL DEF WFSpec
-----------------------------------------------------------------------------
(* The types of the locals the proofs below need. *)
SequenceLocals ==
    /\ args \in Options
    /\ callsMade \in Nat
    /\ replays \in Nat
    /\ agentIndex \in Positive

(* The next agent to be called has a role. *)
LEMMA NextAgentIsRole ==
    ASSUME SequenceLocals, agentIndex <= Len(Agents)
    PROVE  Agents[agentIndex] \in Roles
<1>1. Agents \in Seq(Roles \ {"orchestrator"})
  BY OptionsAssumption DEF SequenceLocals, Agents, OptionsType
<1>2. agentIndex \in 1..Len(Agents)
  BY <1>1, LenProperties DEF SequenceLocals, Positive
<1> QED BY <1>1, <1>2, ElementOfSeq

(* The loop's own steps start turns and change nothing of the run state. *)
LEMMA RunRoundsRefines == SequenceLocals /\ RunRounds => [Next]_vars
<1> SUFFICES ASSUME SequenceLocals, RunRounds
             PROVE  [Next]_vars
  OBVIOUS
<1>1. CASE BeginSequence
  BY <1>1, TurnChangeRefines, TurnsOfKnownRoles DEF BeginSequence, BeginLoop
<1>2. CASE CallNextAgent
  <2>1. UNCHANGED turn \/ \E r \in Roles : TakeTurn(r)
    BY <1>2, NextAgentIsRole DEF CallNextAgent, CallAgent, frame
  <2> QED BY <1>2, <2>1, TurnChangeRefines DEF CallNextAgent
<1>3. CASE SkipJudge \/ AgentReturned \/ EndSequenceRound
  BY <1>3, TurnChangeRefines
  DEF SkipJudge, AgentReturned, EndSequenceRound, turnVars, frame
<1> QED BY <1>1, <1>2, <1>3 DEF RunRounds

(* A step of the loop is one of ToolRegistry or changes none of its variables. *)
LEMMA SequenceStepRefines == SequenceLocals /\ [SeqNext]_seqVars => [Next]_vars
<1> SUFFICES ASSUME SequenceLocals, [SeqNext]_seqVars
             PROVE  [Next]_vars
  OBVIOUS
<1>1. CASE AgentTurn
  BY <1>1, AgentTurnRefines DEF SequenceLocals
<1>2. CASE RunRounds
  BY <1>2, RunRoundsRefines
<1>3. CASE ReplaySequence
  BY <1>3, TurnChangeRefines, TurnsOfKnownRoles DEF ReplaySequence, Resume
<1>4. CASE UNCHANGED seqVars
  BY <1>4 DEF seqVars, turnVars, frame, vars
<1> QED BY <1>1, <1>2, <1>3, <1>4 DEF SeqNext

(* The locals keep their types. *)
LEMMA SequenceLocalsStep == SequenceLocals /\ [SeqNext]_seqVars => SequenceLocals'
<1> SUFFICES ASSUME SequenceLocals, [SeqNext]_seqVars
             PROVE  SequenceLocals'
  OBVIOUS
<1> USE DEF SequenceLocals, Positive
<1>1. CASE AgentTurn /\ UNCHANGED roundVars
  BY <1>1 DEF AgentTurn, LoadContext, ExecuteToolCall, EndMainTurn, EndDescriberTurn,
              LeaveTurn, CallDescriber, roundVars
<1>2. CASE RunRounds
  BY <1>2 DEF RunRounds, BeginSequence, BeginLoop, LeaveTurn, SkipJudge, CallNextAgent,
              CallAgent, AgentReturned, EndSequenceRound, frame, roundVars, turnVars
<1>3. CASE ReplaySequence
  BY <1>3 DEF ReplaySequence, Resume, LeaveTurn, AtFirstRound
<1>4. CASE UNCHANGED seqVars
  BY <1>4 DEF seqVars, turnVars, frame, roundVars
<1> QED BY <1>1, <1>2, <1>3, <1>4 DEF SeqNext

(* They have them at the start. *)
LEMMA SequenceLocalsInit == SeqInit => SequenceLocals
  BY DEF SeqInit, InitTurns, AtFirstRound, SequenceLocals, Positive

(***************************************************************************)
(* The sequential loop, with replays, is one of the schedules              *)
(* ToolRegistry's Spec allows.                                             *)
(***************************************************************************)
THEOREM SequenceUsesTools == SeqSpec => Spec
<1>1. SeqInit => Init /\ SequenceLocals
  BY SequenceLocalsInit DEF SeqInit, InitTurns
<1>2. SequenceLocals /\ [SeqNext]_seqVars => SequenceLocals'
  BY SequenceLocalsStep
<1>3. SequenceLocals /\ [SeqNext]_seqVars => [Next]_vars
  BY SequenceStepRefines
<1> QED BY <1>1, <1>2, <1>3, PTL DEF SeqSpec, Spec
-----------------------------------------------------------------------------
(***************************************************************************)
(* The Judge is called only when no claim is open, if coverage is          *)
(* required, and none opens before its turn ends; if that turn decides,    *)
(* the run stops with the ledger as it is.                                 *)
(***************************************************************************)
CoverageInv ==
    /\ pc # "acting" => turnRole # "judge"
    /\ verdict # NoVerdict => pc \notin {"returned", "draining"}
    /\ Fresh =>
        /\ verdict # NoVerdict => JudgeActs \/ pc = "stopped"
        /\ verdict # NoVerdict /\ pc = "stopped" => stopReason = "verdict_recorded"
        /\ JudgeActs \/ verdict # NoVerdict => Covered

(* The tool calls of a turn keep the invariant. *)
LEMMA CallsKeepCoverage ==
    SequenceLocals /\ CoverageInv /\ (LoadContext \/ ExecuteToolCall) => CoverageInv'
<1> SUFFICES ASSUME SequenceLocals, CoverageInv, LoadContext \/ ExecuteToolCall
             PROVE  CoverageInv'
  OBVIOUS
<1>1. ToolCall
  BY TurnsCallTools DEF SequenceLocals
<1>2. /\ UNCHANGED <<args, pc, replays, turnRole>>
      /\ pc \in {"loading", "acting", "draining"}
  BY <1>1, ToolCallKeepsRole DEF LoadContext, ExecuteToolCall
<1>3. CASE turnRole = "judge"
  <2>1. UNCHANGED claims /\ JudgeActs
    BY <1>1, <1>3, JudgeKeepsLedger DEF CoverageInv, JudgeActs
  <2>2. Covered => Covered'
    BY <1>2, <2>1 DEF Covered, RequireClaimCoverage, OpenClaimsLeft
  <2> QED BY <1>2, <2>1, <2>2 DEF CoverageInv, JudgeActs, Fresh
<1>4. CASE turnRole # "judge"
  <2>1. verdict' = verdict
    BY <1>1, <1>4, OnlyJudgeDecides
  <2> QED BY <1>2, <1>4, <2>1 DEF CoverageInv, JudgeActs, Fresh
<1> QED BY <1>3, <1>4

(* A step that leaves the run state alone and after which the Judge does not act. *)
LEMMA QuietStepKeepsCoverage ==
    ASSUME CoverageInv,
           UNCHANGED <<claims, verdict, args, replays>>,
           turnRole' # "judge",
           verdict # NoVerdict => pc' \notin {"returned", "draining"},
           Fresh => \/ verdict = NoVerdict
                    \/ pc' = "stopped" /\ stopReason' = "verdict_recorded"
    PROVE  CoverageInv'
  BY DEF CoverageInv, JudgeActs, Covered, Fresh, RequireClaimCoverage, OpenClaimsLeft

(* The end of a turn keeps it. *)
LEMMA TurnEndsKeepCoverage ==
    CoverageInv /\ (EndMainTurn \/ EndDescriberTurn) => CoverageInv'
<1> SUFFICES ASSUME CoverageInv, EndMainTurn \/ EndDescriberTurn
             PROVE  CoverageInv'
  OBVIOUS
<1>1. UNCHANGED <<claims, verdict, args, replays>>
  BY DEF EndMainTurn, EndDescriberTurn, runState
<1>2. turnRole' # "judge"
  BY DEF EndMainTurn, EndDescriberTurn, CallDescriber, LeaveTurn, TakeTurn
<1>3. CASE EndMainTurn
  <2>1. \/ verdict = NoVerdict
        \/ pc' = "stopped" /\ stopReason' = "verdict_recorded"
    BY <1>3 DEF EndMainTurn, VerdictRecorded, Stop
  <2> QED BY <1>1, <1>2, <2>1, QuietStepKeepsCoverage
<1>4. CASE EndDescriberTurn
  <2>1. verdict = NoVerdict
    BY <1>4 DEF EndDescriberTurn, CoverageInv
  <2> QED BY <1>1, <1>2, <2>1, QuietStepKeepsCoverage
<1> QED BY <1>3, <1>4

(* So do the loop's own steps: the Judge is called on a covered ledger. *)
LEMMA RunRoundsKeepsCoverage == CoverageInv /\ RunRounds => CoverageInv'
<1> SUFFICES ASSUME CoverageInv, RunRounds
             PROVE  CoverageInv'
  OBVIOUS
<1>1. /\ UNCHANGED <<claims, verdict, args, replays>>
      /\ pc \in {"loading", "round", "returned"}
      /\ pc' \notin {"returned", "draining"}
  BY DEF RunRounds, BeginSequence, BeginLoop, SkipJudge, CallNextAgent, CallAgent,
         AgentReturned, EndSequenceRound, Goto, Stop, turnVars, runState
<1>2. turnRole # "judge" /\ (Fresh => verdict = NoVerdict)
  BY <1>1 DEF CoverageInv, JudgeActs
<1>3. CASE turnRole' # "judge"
  BY <1>1, <1>2, <1>3, QuietStepKeepsCoverage
<1>4. CASE turnRole' = "judge"
  <2>1. CallNextAgent
    BY <1>2, <1>4
    DEF RunRounds, BeginSequence, BeginLoop, LeaveTurn, TakeTurn, SkipJudge,
        AgentReturned, EndSequenceRound, turnVars, frame, turn
  <2>2. CallAgent(Agents[agentIndex], "round") /\ ~JudgeMustWait
    BY <1>2, <1>4, <2>1 DEF CallNextAgent, frame, turn
  <2>3. Agents[agentIndex] = "judge" /\ pc' = "acting"
    BY <1>2, <1>4, <2>2 DEF CallAgent, TakeTurn, Goto, frame, turn
  <2>4. Covered
    BY <2>2, <2>3 DEF JudgeMustWait, Covered
  <2>5. Covered'
    BY <1>1, <2>4 DEF Covered, RequireClaimCoverage, OpenClaimsLeft
  <2> QED BY <1>1, <2>3, <2>5 DEF CoverageInv, JudgeActs, Fresh
<1> QED BY <1>3, <1>4

(* Every step keeps it. *)
LEMMA CoverageStep ==
    SequenceLocals /\ CoverageInv /\ [SeqNext]_seqVars => CoverageInv'
<1> SUFFICES ASSUME SequenceLocals, CoverageInv, [SeqNext]_seqVars
             PROVE  CoverageInv'
  OBVIOUS
<1>1. CASE AgentTurn
  BY <1>1, CallsKeepCoverage, TurnEndsKeepCoverage DEF AgentTurn
<1>2. CASE RunRounds
  BY <1>2, RunRoundsKeepsCoverage
<1>3. CASE ReplaySequence
  <2>1. turnRole' = "orchestrator" /\ replays' = replays + 1 /\ pc' = "round"
    BY <1>3 DEF ReplaySequence, Resume, LeaveTurn, TakeTurn
  <2> QED BY <2>1 DEF CoverageInv, Fresh, SequenceLocals
<1>4. CASE UNCHANGED seqVars
  BY <1>4 DEF seqVars, turnVars, frame, turn, runState, CoverageInv, JudgeActs, Covered,
              Fresh, RequireClaimCoverage, OpenClaimsLeft
<1> QED BY <1>1, <1>2, <1>3, <1>4 DEF SeqNext

(***************************************************************************)
(* With coverage required, the verdict of a run of this loop that was not  *)
(* replayed leaves no claim open.                                          *)
(***************************************************************************)
THEOREM SequenceVerdictCovered == SeqSpec => []SequenceVerdictIsCovered
<1>1. SeqInit => SequenceLocals /\ CoverageInv
  BY SequenceLocalsInit DEF SeqInit, InitTurns, Init, CoverageInv, JudgeActs
<1>2. SequenceLocals /\ [SeqNext]_seqVars => SequenceLocals'
  BY SequenceLocalsStep
<1>3. SequenceLocals /\ CoverageInv /\ [SeqNext]_seqVars => CoverageInv'
  BY CoverageStep
<1>4. CoverageInv => SequenceVerdictIsCovered
  BY DEF CoverageInv, SequenceVerdictIsCovered, Covered
<1> QED BY <1>1, <1>2, <1>3, <1>4, PTL DEF SeqSpec
-----------------------------------------------------------------------------
(***************************************************************************)
(* The run driver: a run and its replays, with either loop.  What was      *)
(* shown of a loop holds while the agents select it, as a step that is not *)
(* a replay keeps the agents; a replay starts the selected loop afresh.    *)
(***************************************************************************)
RunLocals == LocalsInv /\ SequenceLocals

(* A step of the run is a step of the selected loop, or a replay. *)
LEMMA StepOfSelectedLoop ==
    ASSUME [RunNext]_runVars, ~ReplayRun
    PROVE  /\ UNCHANGED replays
           /\ UsesWorkflow' = UsesWorkflow
           /\ UsesWorkflow => [WFNext]_wfVars /\ UNCHANGED roundVars
           /\ ~UsesWorkflow => [SeqNext]_seqVars /\ UNCHANGED loopVars
<1>1. UNCHANGED <<args, replays>>
  <2>1. CASE TakeAgentTurn
    BY <2>1 DEF TakeAgentTurn, AgentTurn, LoadContext, ExecuteToolCall, EndMainTurn,
                EndDescriberTurn
  <2>2. CASE Orchestrate
    BY <2>2
    DEF Orchestrate, BeginWorkflow, BeginLoop, CallDebateAgent, DebateAgentReturned,
        BeginCoverage, CallExperimenter, ExperimenterReturned, EndCoverage, JudgeAbsent,
        DeferJudge, CallJudge, JudgeReturned
  <2>3. CASE RunRounds
    BY <2>3 DEF RunRounds, BeginSequence, BeginLoop, SkipJudge, CallNextAgent,
                AgentReturned, EndSequenceRound, turnVars
  <2>4. CASE UNCHANGED runVars
    BY <2>4 DEF runVars, turnVars
  <2> QED BY <2>1, <2>2, <2>3, <2>4 DEF RunNext, RunLoop
<1>2. UsesWorkflow' = UsesWorkflow
  BY <1>1 DEF UsesWorkflow, AgentRoles, Agents
<1>3. UsesWorkflow => [WFNext]_wfVars /\ UNCHANGED roundVars
  BY DEF RunNext, RunLoop, TakeAgentTurn, WFNext, runVars, wfVars
<1>4. ~UsesWorkflow => [SeqNext]_seqVars /\ UNCHANGED loopVars
  BY DEF RunNext, RunLoop, TakeAgentTurn, SeqNext, runVars, seqVars
<1> QED BY <1>1, <1>2, <1>3, <1>4

(* A replay starts a loop and leaves the run state alone. *)
LEMMA ReplayEffect ==
    ASSUME RunLocals, ReplayRun
    PROVE  /\ UNCHANGED runState
           /\ turnRole' = "orchestrator" /\ TakeTurn("orchestrator")
           /\ pc' \in {"debate", "round"}
           /\ stopReason' = "none"
           /\ args' \in Options
           /\ startEvents' = Len(toolEvents)
           /\ RestartLoop
           /\ AtFirstRound(round', agentIndex', skippedJudgeForCoverage')
           /\ callsMade' = 0
           /\ replays' \in Nat /\ ~Fresh'
  BY DEF RunLocals, LocalsInv, ReplayRun, Resume, LeaveTurn, TakeTurn, Fresh

(* The locals of both loops keep their types. *)
LEMMA RunLocalsStep == RunLocals /\ [RunNext]_runVars => RunLocals'
<1> SUFFICES ASSUME RunLocals, [RunNext]_runVars
             PROVE  RunLocals'
  OBVIOUS
<1>1. CASE ReplayRun
  BY <1>1, ReplayEffect DEF RunLocals, LocalsInv, SequenceLocals, AtFirstRound, Positive
<1>2. CASE ~ReplayRun /\ UsesWorkflow
  <2>1. LocalsInv' /\ UNCHANGED roundVars
    BY <1>2, StepOfSelectedLoop, LocalsStep DEF RunLocals
  <2> QED BY <2>1 DEF RunLocals, LocalsInv, SequenceLocals, roundVars
<1>3. CASE ~ReplayRun /\ ~UsesWorkflow
  <2>1. SequenceLocals'
    BY <1>3, StepOfSelectedLoop, SequenceLocalsStep DEF RunLocals
  <2> QED BY <2>1 DEF RunLocals, LocalsInv, SequenceLocals
<1> QED BY <1>1, <1>2, <1>3

(* A step of the run is one of ToolRegistry or changes none of its variables. *)
LEMMA RunStepRefines == RunLocals /\ [RunNext]_runVars => [Next]_vars
<1> SUFFICES ASSUME RunLocals, [RunNext]_runVars
             PROVE  [Next]_vars
  OBVIOUS
<1>1. CASE ReplayRun
  <2>1. UNCHANGED runState /\ \E r \in Roles : TakeTurn(r)
    BY <1>1, ReplayEffect DEF Roles
  <2> QED BY <2>1, TurnChangeRefines
<1>2. CASE ~ReplayRun
  BY <1>2, StepOfSelectedLoop, StepRefines, SequenceStepRefines DEF RunLocals
<1> QED BY <1>1, <1>2

(* A run begins where either loop begins. *)
LEMMA RunInitStarts == RunInit => WFInit /\ SeqInit /\ RunLocals
  BY SequenceLocalsInit DEF RunInit, WFInit, SeqInit, InitTurns, RunLocals, LocalsInv

(***************************************************************************)
(* Whatever loops a run and its replays use, they are among the schedules  *)
(* ToolRegistry's Spec allows.                                             *)
(***************************************************************************)
THEOREM RunUsesTools == RunSpec => Spec
<1>1. RunInit => Init /\ RunLocals
  BY RunInitStarts DEF RunInit, InitTurns
<1>2. RunLocals /\ [RunNext]_runVars => RunLocals'
  BY RunLocalsStep
<1>3. RunLocals /\ [RunNext]_runVars => [Next]_vars
  BY RunStepRefines
<1> QED BY <1>1, <1>2, <1>3, PTL DEF RunSpec, Spec

(* The locals and the run state of a run are well typed. *)
LEMMA RunIsTyped == RunSpec => [](RunLocals /\ TypeInv)
<1>1. RunInit => RunLocals /\ TypeInv
  BY RunInitStarts, InitType DEF RunInit, InitTurns
<1>2. RunLocals /\ TypeInv /\ [RunNext]_runVars => RunLocals' /\ TypeInv'
  BY RunLocalsStep, RunStepRefines, TypeStep
<1> QED BY <1>1, <1>2, PTL DEF RunSpec
-----------------------------------------------------------------------------
(* A verdict ends a run of either loop. *)

RunDecisionInv ==
    /\ UsesWorkflow => DecisionInv
    /\ ~UsesWorkflow => CoverageInv

(* Each loop keeps its part, and a replay is not fresh. *)
LEMMA RunDecisionStep ==
    RunLocals /\ CurrentReviewSeesAll /\ RunDecisionInv /\ [RunNext]_runVars
       => RunDecisionInv'
<1> SUFFICES ASSUME RunLocals, CurrentReviewSeesAll, RunDecisionInv, [RunNext]_runVars
             PROVE  RunDecisionInv'
  OBVIOUS
<1>1. CASE ReplayRun
  BY <1>1, ReplayEffect DEF RunDecisionInv, DecisionInv, CoverageInv, JudgeActs
<1>2. CASE ~ReplayRun
  BY <1>2, StepOfSelectedLoop, DecisionStep, CoverageStep DEF RunDecisionInv, RunLocals
<1> QED BY <1>1, <1>2

(* It holds of every run. *)
LEMMA RunDecisionsAreKept == RunSpec => []RunDecisionInv
<1>1. RunInit => RunDecisionInv
  <2>1. RunInit => DecisionInv
    BY RunInitStarts, DecisionInit
  <2>2. RunInit => CoverageInv
    BY DEF RunInit, InitTurns, Init, CoverageInv, JudgeActs
  <2> QED BY <2>1, <2>2 DEF RunDecisionInv
<1>2. RunLocals /\ CurrentReviewSeesAll /\ RunDecisionInv /\ [RunNext]_runVars
        => RunDecisionInv'
  BY RunDecisionStep
<1>3. RunSpec => []CurrentReviewSeesAll
  BY RunUsesTools, CurrentReviewIsComplete, PTL
<1> QED BY <1>1, <1>2, <1>3, RunIsTyped, PTL DEF RunSpec

(***************************************************************************)
(* Whichever loop its agents select, a run ends with the turn that records *)
(* a verdict and reports it; a replay of a run with a verdict ends after   *)
(* its first turn.                                                         *)
(***************************************************************************)
THEOREM VerdictEndsEveryRun == RunSpec => []VerdictEndsRun
<1>1. RunDecisionInv => VerdictEndsRun
  BY DEF RunDecisionInv, DecisionInv, CoverageInv, VerdictEndsRun, JudgeActs
<1> QED BY <1>1, RunDecisionsAreKept, PTL

(***************************************************************************)
(* With coverage required, a run that was not replayed gives no verdict    *)
(* with a claim open, whichever loop its agents select.                    *)
(***************************************************************************)
THEOREM RunVerdictCovered == RunSpec => []SequenceVerdictIsCovered
<1>1. RunDecisionInv => SequenceVerdictIsCovered
  BY DEF RunDecisionInv, DecisionInv, CoverageInv, SequenceVerdictIsCovered, Covered
<1> QED BY <1>1, RunDecisionsAreKept, PTL
-----------------------------------------------------------------------------
(***************************************************************************)
(* The budget.  Where the loops start a turn without asking for it, the    *)
(* budget was asked for on the way there.                                  *)
(***************************************************************************)
WithinBudget == ~BudgetExhausted \/ ToolBudget = 0

BudgetInv ==
    /\ pc \in {"debate", "coverage", "judge"} => WithinBudget
    /\ startEvents \in Nat

(* A loop that begins has spent nothing. *)
LEMMA FreshLoopWithinBudget ==
    ASSUME args' \in Options, TypeInv, UNCHANGED toolEvents,
           startEvents' = Len(toolEvents), pc' # "loading"
    PROVE  WithinBudget' /\ startEvents' \in Nat
<1>1. Len(toolEvents) \in Nat
  BY LenProperties DEF TypeInv, TypeOK
<1>2. ToolBudget' \in Nat \cup {None}
  BY OptionsAssumption DEF OptionsType, ToolBudget
<1>3. LoopCalls' = 0
  BY <1>1 DEF LoopCalls
<1> QED BY <1>1, <1>2, <1>3 DEF WithinBudget, BudgetExhausted

(* Within a loop the budget changes only with the log. *)
LEMMA SameBudget ==
    ASSUME UNCHANGED <<toolEvents, args, startEvents>>, pc # "loading", pc' # "loading"
    PROVE  WithinBudget' = WithinBudget
  BY DEF WithinBudget, BudgetExhausted, LoopCalls, ToolBudget

(* Every step keeps the budget invariant. *)
LEMMA BudgetStep ==
    RunLocals /\ TypeInv /\ BudgetInv /\ [RunNext]_runVars => BudgetInv'
<1> SUFFICES ASSUME RunLocals, TypeInv, BudgetInv, [RunNext]_runVars
             PROVE  BudgetInv'
  OBVIOUS
<1> USE DEF BudgetInv
<1>1. CASE TakeAgentTurn
  BY <1>1
  DEF TakeAgentTurn, AgentTurn, LoadContext, ExecuteToolCall, EndMainTurn,
      EndDescriberTurn, CallDescriber, Goto, Stop
<1>2. CASE BeginWorkflow \/ BeginSequence
  <2>1. /\ UNCHANGED <<args, toolEvents>>
        /\ startEvents' = Len(toolEvents) /\ pc' # "loading"
    BY <1>2 DEF BeginWorkflow, BeginSequence, BeginLoop, Goto, runState
  <2> QED BY <2>1, FreshLoopWithinBudget DEF RunLocals, LocalsInv
<1>3. CASE Orchestrate /\ ~BeginWorkflow
  <2>1. /\ UNCHANGED <<toolEvents, args, startEvents>>
        /\ pc \in {"debate", "coverage", "judge", "returned"}
        /\ pc' # "loading"
        /\ pc = "returned" /\ pc' # "stopped" => ~BudgetExhausted
    BY <1>3
    DEF Orchestrate, CallDebateAgent, DebateAgentReturned, BeginCoverage, CallExperimenter,
        ExperimenterReturned, EndCoverage, JudgeAbsent, DeferJudge, CallJudge, JudgeReturned,
        CallAgent, EndRound, RequestMoreDebateInternally, Goto, Stop, runState
  <2> QED BY <2>1, SameBudget DEF WithinBudget
<1>4. CASE RunRounds /\ ~BeginSequence
  BY <1>4
  DEF RunRounds, SkipJudge, CallNextAgent, AgentReturned, EndSequenceRound, CallAgent,
      Goto, Stop, turnVars
<1>5. CASE ReplayRun
  <2>1. /\ args' \in Options /\ UNCHANGED toolEvents
        /\ startEvents' = Len(toolEvents) /\ pc' # "loading"
    BY <1>5, ReplayEffect DEF runState
  <2> QED BY <2>1, FreshLoopWithinBudget
<1>6. CASE UNCHANGED runVars
  BY <1>6 DEF runVars, turnVars, runState, WithinBudget, BudgetExhausted, LoopCalls, ToolBudget
<1> QED BY <1>1, <1>2, <1>3, <1>4, <1>5, <1>6 DEF RunNext, RunLoop

(* No step of a run starts a turn beyond the budget. *)
LEMMA TurnStartStep ==
    ASSUME BudgetInv, [RunNext]_runVars, pc' = "acting", pc # "acting"
    PROVE  WithinBudget
<1>1. CASE TakeAgentTurn
  BY <1>1
  DEF TakeAgentTurn, AgentTurn, LoadContext, ExecuteToolCall, EndMainTurn,
      EndDescriberTurn, CallDescriber, Goto, Stop
<1>2. CASE Orchestrate
  <2>1. pc \in {"debate", "coverage", "judge"}
    BY <1>2
    DEF Orchestrate, BeginWorkflow, BeginLoop, CallDebateAgent, DebateAgentReturned,
        BeginCoverage, CallExperimenter, ExperimenterReturned, EndCoverage, JudgeAbsent,
        DeferJudge, CallJudge, JudgeReturned, EndRound, Goto, Stop
  <2> QED BY <2>1 DEF BudgetInv
<1>3. CASE RunRounds
  BY <1>3
  DEF RunRounds, BeginSequence, BeginLoop, SkipJudge, CallNextAgent, AgentReturned,
      EndSequenceRound, CallAgent, Goto, Stop, turnVars, WithinBudget
<1>4. CASE ReplayRun
  BY <1>4 DEF ReplayRun, Resume
<1>5. CASE UNCHANGED runVars
  BY <1>5 DEF runVars, turnVars
<1> QED BY <1>1, <1>2, <1>3, <1>4, <1>5 DEF RunNext, RunLoop

(***************************************************************************)
(* Given a budget of at least one call, no loop starts an agent's turn     *)
(* when the budget is used up, not even the Judge's, before which nothing  *)
(* asks for it.                                                            *)
(***************************************************************************)
THEOREM TurnsStayWithinBudget == RunSpec => TurnsStartWithinBudget
<1>1. RunInit => BudgetInv
  BY DEF RunInit, InitTurns, BudgetInv
<1>2. RunLocals /\ TypeInv /\ BudgetInv /\ [RunNext]_runVars => BudgetInv'
  BY BudgetStep
<1>3. BudgetInv /\ [RunNext]_runVars
        => [pc' = "acting" /\ pc # "acting" => ~BudgetExhausted \/ ToolBudget = 0]_wfVars
  BY TurnStartStep DEF WithinBudget
<1> QED BY <1>1, <1>2, <1>3, RunIsTyped, PTL DEF RunSpec, TurnsStartWithinBudget
-----------------------------------------------------------------------------
(***************************************************************************)
(* The reason of the sequential loop.  Once the Judge was passed over,     *)
(* there is a Judge and so no Experimenter in the run, and no one else     *)
(* settles the claim it was passed over for.                               *)
(***************************************************************************)
SkipInv ==
    /\ pc # "stopped" => stopReason = "none"
    /\ CoverageReasonTrue
    /\ skippedJudgeForCoverage => OpenClaimsLeft /\ "judge" \in AgentRoles
    /\ turnRole = "experimenter" => "experimenter" \in AgentRoles

(* Only the Experimenter settles claims. *)
LEMMA OthersLeaveClaimsOpen ==
    ASSUME TypeInv, ToolCall, turnRole # "experimenter", OpenClaimsLeft
    PROVE  OpenClaimsLeft'
<1>1. \/ claims' = claims
      \/ \E k \in ClaimKinds : claims' = RecordClaim(claims, k[1], k[2])
  BY DEF ToolCall, RejectedCall, ObservingCall, RecordClaimCall, AppendEvidenceCall,
         UpdateClaimStatusCall, RecordNoNewClaims, RunClaimProbe, FinalizeProbeEvidence,
         RequestDescription, RecordDescriptionUpdate, RequestMoreDebate, RecordVerdict,
         Succeed, Accepted, AllowedRoles
<1>2. CASE claims' = claims
  BY <1>2 DEF OpenClaimsLeft
<1>3. ASSUME NEW k \in ClaimKinds, claims' = RecordClaim(claims, k[1], k[2])
      PROVE  OpenClaimsLeft'
  <2>1. k[1] \in ClaimScope /\ k[2] \in BOOLEAN
    BY InputsAssumption
  <2>2. \A c \in DOMAIN claims : c \in DOMAIN claims' /\ claims'[c] = claims[c]
    BY <1>3, <2>1, RecordClaimEffect DEF TypeInv, TypeOK
  <2> QED BY <2>2 DEF OpenClaimsLeft, OpenClaims
<1> QED BY <1>1, <1>2, <1>3

(* A step that leaves the ledger, the reason and the agents alone. *)
LEMMA SameSkip ==
    ASSUME SkipInv, UNCHANGED <<claims, args, stopReason, skippedJudgeForCoverage>>,
           pc' # "stopped" => pc # "stopped",
           turnRole' = "experimenter" => "experimenter" \in AgentRoles
    PROVE  SkipInv'
  BY DEF SkipInv, CoverageReasonTrue, OpenClaimsLeft, AgentRoles, Agents

(* A step that stops for another reason. *)
LEMMA OtherStop ==
    ASSUME SkipInv, UNCHANGED <<claims, args, skippedJudgeForCoverage>>,
           pc' = "stopped", stopReason' # "claim_coverage_required",
           turnRole' = "experimenter" => "experimenter" \in AgentRoles
    PROVE  SkipInv'
  BY DEF SkipInv, CoverageReasonTrue, OpenClaimsLeft, AgentRoles, Agents

(* The loop called by its own agents keeps it. *)
LEMMA SkipStep ==
    SequenceLocals /\ TypeInv /\ ~UsesWorkflow /\ SkipInv /\ [SeqNext]_seqVars /\ UNCHANGED replays
       => SkipInv'
<1> SUFFICES ASSUME SequenceLocals, TypeInv, ~UsesWorkflow, SkipInv, [SeqNext]_seqVars,
                    UNCHANGED replays
             PROVE  SkipInv'
  OBVIOUS
<1>replay. ~ReplaySequence
  BY DEF ReplaySequence, Resume, SequenceLocals
<1>1. CASE (LoadContext \/ ExecuteToolCall) /\ UNCHANGED roundVars
  <2>1. ToolCall
    BY <1>1, TurnsCallTools DEF SequenceLocals
  <2>2. /\ UNCHANGED <<args, pc, stopReason, turnRole, skippedJudgeForCoverage>>
        /\ pc # "stopped"
    BY <1>1, <2>1, ToolCallKeepsRole DEF LoadContext, ExecuteToolCall, roundVars
  <2>3. skippedJudgeForCoverage => turnRole # "experimenter"
    BY DEF SkipInv, UsesWorkflow
  <2>4. skippedJudgeForCoverage => OpenClaimsLeft'
    BY <2>1, <2>3, OthersLeaveClaimsOpen DEF SkipInv
  <2> QED BY <2>2, <2>4 DEF SkipInv, CoverageReasonTrue, AgentRoles, Agents
<1>2. CASE (EndMainTurn \/ EndDescriberTurn) /\ UNCHANGED roundVars
  <2>1. /\ UNCHANGED <<claims, args, skippedJudgeForCoverage>> /\ pc # "stopped"
        /\ turnRole' # "experimenter"
        /\ \/ UNCHANGED stopReason
           \/ pc' = "stopped" /\ stopReason' # "claim_coverage_required"
    BY <1>2
    DEF EndMainTurn, EndDescriberTurn, CallDescriber, LeaveTurn, TakeTurn, Goto, Stop,
        runState, roundVars
  <2> QED BY <2>1, SameSkip, OtherStop
<1>3. CASE BeginSequence
  <2>1. /\ UNCHANGED <<claims, args, stopReason, skippedJudgeForCoverage>>
        /\ pc = "loading" /\ turnRole' = "orchestrator"
    BY <1>3 DEF BeginSequence, BeginLoop, LeaveTurn, TakeTurn, Goto, runState, roundVars
  <2> QED BY <2>1, SameSkip
<1>4. CASE SkipJudge
  <2>1. /\ UNCHANGED <<claims, args, pc, stopReason, turnRole>>
        /\ OpenClaimsLeft
        /\ agentIndex \in Nat /\ agentIndex > 0 /\ agentIndex <= Len(Agents)
        /\ Agents[agentIndex] = "judge"
    BY <1>4 DEF SkipJudge, JudgeMustWait, turnVars, runState, frame, turn, SequenceLocals,
                Positive
  <2>2. "judge" \in AgentRoles
    <3>1. Agents \in Seq(Roles \ {"orchestrator"})
      BY OptionsAssumption DEF SequenceLocals, Agents, OptionsType
    <3>2. agentIndex \in DOMAIN Agents
      BY <2>1, <3>1, LenProperties
    <3> QED BY <2>1, <3>2 DEF AgentRoles, ToSet
  <2> QED BY <2>1, <2>2 DEF SkipInv, CoverageReasonTrue, OpenClaimsLeft, AgentRoles, Agents
<1>5. CASE CallNextAgent
  <2>1. UNCHANGED <<claims, args, skippedJudgeForCoverage>> /\ pc = "round"
    BY <1>5 DEF CallNextAgent, runState, roundVars
  <2>2. turnRole' = turnRole \/ turnRole' = Agents[agentIndex]
    BY <1>5 DEF CallNextAgent, CallAgent, TakeTurn, frame, turn
  <2>3. turnRole' = "experimenter" => "experimenter" \in AgentRoles
    <3>1. Agents \in Seq(Roles \ {"orchestrator"})
      BY OptionsAssumption DEF SequenceLocals, Agents, OptionsType
    <3>2. agentIndex \in DOMAIN Agents
      BY <1>5, <3>1, LenProperties DEF CallNextAgent, SequenceLocals, Positive
    <3> QED BY <2>2, <3>2 DEF SkipInv, AgentRoles, ToSet
  <2>4. \/ UNCHANGED stopReason
        \/ pc' = "stopped" /\ stopReason' # "claim_coverage_required"
    BY <1>5 DEF CallNextAgent, CallAgent, Goto, Stop
  <2> QED BY <2>1, <2>3, <2>4, SameSkip, OtherStop
<1>6. CASE AgentReturned
  <2>1. /\ UNCHANGED <<claims, args, skippedJudgeForCoverage, turnRole>>
        /\ pc = "returned"
        /\ \/ UNCHANGED stopReason
           \/ pc' = "stopped" /\ stopReason' # "claim_coverage_required"
    BY <1>6 DEF AgentReturned, Goto, Stop, runState, frame, turn
  <2>2. turnRole' = "experimenter" => "experimenter" \in AgentRoles
    BY <2>1 DEF SkipInv
  <2> QED BY <2>1, <2>2, SameSkip, OtherStop
<1>7. CASE EndSequenceRound
  <2>1. /\ UNCHANGED <<claims, args, skippedJudgeForCoverage, turnRole>>
        /\ pc = "round"
        /\ \/ UNCHANGED stopReason
           \/ pc' = "stopped" /\ stopReason' # "claim_coverage_required"
           \/ /\ pc' = "stopped" /\ stopReason' = "claim_coverage_required"
              /\ skippedJudgeForCoverage
    BY <1>7 DEF EndSequenceRound, Goto, Stop, runState, frame, turn
  <2>2. turnRole' = "experimenter" => "experimenter" \in AgentRoles
    BY <2>1 DEF SkipInv
  <2>3. CASE pc' = "stopped" /\ skippedJudgeForCoverage
    BY <2>1, <2>3 DEF SkipInv, CoverageReasonTrue, OpenClaimsLeft, AgentRoles, Agents
  <2> QED BY <2>1, <2>2, <2>3, SameSkip, OtherStop
<1>8. CASE UNCHANGED seqVars
  <2>1. UNCHANGED <<claims, args, stopReason, skippedJudgeForCoverage, pc, turnRole>>
    BY <1>8 DEF seqVars, turnVars, runState, frame, turn, roundVars
  <2> QED BY <2>1 DEF SkipInv, CoverageReasonTrue, OpenClaimsLeft, AgentRoles, Agents
<1> QED BY <1>replay, <1>1, <1>2, <1>3, <1>4, <1>5, <1>6, <1>7, <1>8
        DEF SeqNext, AgentTurn, RunRounds

(* The reasons of the selected loop. *)
RunReasonInv ==
    /\ UsesWorkflow => LoopInv /\ StopReasonTrue
    /\ ~UsesWorkflow => SkipInv

(* A replay begins the workflow's loops anew. *)
LEMMA ReplayStartsLoops ==
    ASSUME RunLocals, TypeInv, ReplayRun
    PROVE  (LoopInv /\ StopReasonTrue /\ SkipInv)'
<1>1. /\ UNCHANGED runState
      /\ turnRole' = "orchestrator"
      /\ pc' \in {"debate", "round"} /\ stopReason' = "none"
      /\ args' \in Options
      /\ RestartLoop
      /\ skippedJudgeForCoverage' = FALSE
  BY ReplayEffect DEF AtFirstRound
<1>2. LoopPlaces'
  BY <1>1, RoundsAllowed
  DEF LoopPlaces, InTurn, ExperimenterTurn, JudgeTurn, RestartLoop, Positive
<1>3. ExperimentInv'
  BY <1>1, NewCount DEF RestartLoop, runState, ExperimenterTurn, InTurn
<1>4. StopReasonTrue'
  BY <1>1 DEF StopReasonTrue
<1>5. SkipInv'
  BY <1>1 DEF SkipInv, CoverageReasonTrue
<1> QED BY <1>2, <1>3, <1>4, <1>5 DEF LoopInv

(* Every step of a run keeps the reasons of the selected loop. *)
LEMMA RunReasonStep ==
    RunLocals /\ TypeInv /\ RunReasonInv /\ [RunNext]_runVars => RunReasonInv'
<1> SUFFICES ASSUME RunLocals, TypeInv, RunReasonInv, [RunNext]_runVars
             PROVE  RunReasonInv'
  OBVIOUS
<1>1. CASE ReplayRun
  BY <1>1, ReplayStartsLoops DEF RunReasonInv
<1>2. CASE ~ReplayRun /\ UsesWorkflow
  <2>1. UsesWorkflow' /\ [WFNext]_wfVars
    BY <1>2, StepOfSelectedLoop
  <2>2. LoopInv' /\ StopReasonTrue'
    BY <1>2, <2>1, PlacesStep, ExperimentStep, StopStep DEF RunReasonInv, RunLocals, LoopInv
  <2> QED BY <2>1, <2>2 DEF RunReasonInv
<1>3. CASE ~ReplayRun /\ ~UsesWorkflow
  <2>1. ~UsesWorkflow' /\ [SeqNext]_seqVars
    BY <1>3, StepOfSelectedLoop
  <2>2. UNCHANGED replays
    BY <1>3, StepOfSelectedLoop
  <2>3. SkipInv'
    BY <1>3, <2>1, <2>2, SkipStep DEF RunReasonInv, RunLocals
  <2> QED BY <2>1, <2>3 DEF RunReasonInv
<1> QED BY <1>1, <1>2, <1>3

(***************************************************************************)
(* A run that stops for missing coverage has a claim open, in either loop, *)
(* even though the sequential loop remembers only that it has passed over  *)
(* its Judge once.                                                         *)
(***************************************************************************)
THEOREM CoverageReasonsAreTrue == RunSpec => []CoverageReasonTrue
<1>1. RunInit => RunReasonInv
  <2>1. RunInit => LoopInv /\ StopReasonTrue
    BY RunInitStarts, LoopInit, RunningReason DEF RunInit, InitTurns
  <2>2. RunInit => SkipInv
    BY DEF RunInit, InitTurns, Init, AtFirstRound, SkipInv, CoverageReasonTrue
  <2> QED BY <2>1, <2>2 DEF RunReasonInv
<1>2. RunLocals /\ TypeInv /\ RunReasonInv /\ [RunNext]_runVars => RunReasonInv'
  BY RunReasonStep
<1>3. RunReasonInv => CoverageReasonTrue
  BY DEF RunReasonInv, StopReasonTrue, SkipInv, CoverageReasonTrue
<1> QED BY <1>1, <1>2, <1>3, RunIsTyped, PTL DEF RunSpec
-----------------------------------------------------------------------------
(***************************************************************************)
(* The workflow implements DebateProtocol: a call of a tool is one of the  *)
(* protocol's steps on the signature of the ledger or a stutter, and of    *)
(* the orchestrator's steps the protocol sees only the one that stops.     *)
(***************************************************************************)
SignatureEntry == ClaimStatus \X Nat

(* The signature of a ledger lists its claims' statuses and amounts of evidence. *)
LEMMA SignatureType ==
    ASSUME NEW ledger \in Ledger
    PROVE  /\ SignatureOf(ledger) \in Seq(SignatureEntry)
           /\ DOMAIN SignatureOf(ledger) = DOMAIN ledger
           /\ DOMAIN ledger = 1..Len(ledger) /\ Len(ledger) \in Nat
           /\ \A c \in DOMAIN ledger :
                 SignatureOf(ledger)[c] = <<ledger[c].status, Len(ledger[c].evidence)>>
           /\ \A c \in DOMAIN ledger : /\ ledger[c].status \in ClaimStatus
                                       /\ ledger[c].evidence \in Seq(Evidence)
                                       /\ Len(ledger[c].evidence) \in Nat
<1>1. \A c \in DOMAIN ledger : ledger[c] \in Claim
  BY ElementOfSeq DEF Ledger
<1>2. \A c \in DOMAIN ledger : /\ ledger[c].status \in ClaimStatus
                               /\ ledger[c].evidence \in Seq(Evidence)
                               /\ Len(ledger[c].evidence) \in Nat
  BY <1>1, LenProperties DEF Claim
<1>3. DOMAIN ledger = 1..Len(ledger) /\ Len(ledger) \in Nat
  BY LenProperties DEF Ledger
<1>4. \A c \in 1..Len(ledger) :
         <<ledger[c].status, Len(ledger[c].evidence)>> \in SignatureEntry
  BY <1>2, <1>3 DEF SignatureEntry
<1>5. SignatureOf(ledger) \in Seq(SignatureEntry)
  BY <1>3, <1>4, IsASeq DEF SignatureOf
<1> QED BY <1>2, <1>3, <1>5 DEF SignatureOf

(* A recorded claim is open and without evidence. *)
LEMMA RecordClaimSignature ==
    ASSUME NEW ledger \in Ledger, NEW scope \in ClaimScope, NEW benchmark \in BOOLEAN
    PROVE  SignatureOf(RecordClaim(ledger, scope, benchmark))
              = Append(SignatureOf(ledger), <<"open", 0>>)
<1> DEFINE new == RecordClaim(ledger, scope, benchmark)
           sig == SignatureOf(ledger)
           more == Append(sig, <<"open", 0>>)
<1>1. new \in Ledger
  BY RecordClaimLedger
<1>2. /\ Len(new) = Len(ledger) + 1
      /\ DOMAIN new = 1..Len(new)
      /\ \A c \in DOMAIN ledger : c \in DOMAIN new /\ new[c] = ledger[c]
      /\ new[Len(new)].status = "open"
  BY RecordClaimEffect
<1>3. new[Len(new)].evidence = <<>>
  <2>1. [status |-> "open", scope |-> scope, benchmark |-> benchmark,
         evidence |-> <<>>] \in Claim
    BY EmptySeq DEF Claim, ClaimStatus
  <2> QED BY <1>2, <2>1, AppendProperties DEF Ledger, RecordClaim
<1>4. <<"open", 0>> \in SignatureEntry
  BY DEF SignatureEntry, ClaimStatus
<1>5. /\ more \in Seq(SignatureEntry)
      /\ Len(more) = Len(sig) + 1
      /\ \A c \in 1..Len(sig) : more[c] = sig[c]
      /\ more[Len(sig) + 1] = <<"open", 0>>
  BY <1>4, SignatureType, AppendProperties
<1>6. Len(sig) = Len(ledger) /\ Len(ledger) \in Nat
  BY SignatureType, LenProperties
<1>7. SignatureOf(new) \in Seq(SignatureEntry) /\ DOMAIN SignatureOf(new) = 1..Len(new)
  BY <1>1, <1>2, SignatureType
<1>8. DOMAIN more = 1..Len(new)
  BY <1>2, <1>5, <1>6, LenProperties
<1>9. ASSUME NEW c \in 1..Len(new)
      PROVE  SignatureOf(new)[c] = more[c]
  <2>1. SignatureOf(new)[c] = <<new[c].status, Len(new[c].evidence)>>
    BY <1>1, <1>2, SignatureType
  <2>2. CASE c \in 1..Len(ledger)
    <3>1. new[c] = ledger[c] /\ c \in DOMAIN ledger
      BY <1>2, <2>2, SignatureType
    <3>2. sig[c] = <<ledger[c].status, Len(ledger[c].evidence)>>
      BY <3>1, SignatureType
    <3> QED BY <1>5, <1>6, <2>1, <2>2, <3>1, <3>2
  <2>3. CASE c = Len(ledger) + 1
    BY <1>2, <1>3, <1>5, <1>6, <2>1, <2>3, EmptySeq
  <2> QED BY <1>2, <1>6, <2>2, <2>3
<1> QED BY <1>5, <1>7, <1>8, <1>9

(* A change of one claim changes one entry. *)
LEMMA OneEntryChanges ==
    ASSUME NEW old \in Ledger, NEW new \in Ledger, NEW c \in DOMAIN old,
           DOMAIN new = DOMAIN old, \A d \in DOMAIN old \ {c} : new[d] = old[d]
    PROVE  SignatureOf(new) = [SignatureOf(old) EXCEPT
                                 ![c] = <<new[c].status, Len(new[c].evidence)>>]
  BY DEF SignatureOf

(* One investigation step of the protocol on a signature. *)
Investigated(old, new) ==
    \E c \in DOMAIN old, added \in {0, 1} :
        \E status \in Protocol!Reachable(old[c][1]) :
            new = [old EXCEPT ![c] = <<status, @[2] + added>>]

(* A valid transition, and no transition, is within reach. *)
LEMMA TransitionReachable ==
    ASSUME NEW current \in ClaimStatus, NEW next \in ClaimStatus,
           next = current \/ ValidTransition(current, next)
    PROVE  next \in Protocol!Reachable(current)
  BY DEF ClaimStatus, ValidTransition, Protocol!Reachable

(* Evidence and status, of one claim, in one call. *)
LEMMA ChangeInvestigates ==
    ASSUME NEW old \in Ledger, NEW new \in Ledger, NEW c \in DOMAIN old,
           DOMAIN new = DOMAIN old, \A d \in DOMAIN old \ {c} : new[d] = old[d],
           NEW added \in {0, 1}, Len(new[c].evidence) = Len(old[c].evidence) + added,
           new[c].status = old[c].status \/ ValidTransition(old[c].status, new[c].status)
    PROVE  Investigated(SignatureOf(old), SignatureOf(new))
<1>1. SignatureOf(new) = [SignatureOf(old) EXCEPT
                            ![c] = <<new[c].status, Len(new[c].evidence)>>]
  BY OneEntryChanges
<1>2. c \in DOMAIN SignatureOf(old)
      /\ SignatureOf(old)[c] = <<old[c].status, Len(old[c].evidence)>>
  BY SignatureType
<1>3. new[c].status \in Protocol!Reachable(old[c].status)
  BY SignatureType, TransitionReachable
<1>4. SignatureOf(new) = [SignatureOf(old) EXCEPT ![c] = <<new[c].status, @[2] + added>>]
  BY <1>1, <1>2
<1>5. new[c].status \in Protocol!Reachable(SignatureOf(old)[c][1])
  BY <1>2, <1>3
<1> QED BY <1>2, <1>4, <1>5 DEF Investigated

(* What a tool call does to the signature. *)
LEMMA ToolCallSignature ==
    ASSUME TypeInv, ToolCall
    PROVE  \/ ClaimSignature' = ClaimSignature
           \/ ClaimSignature' = Append(ClaimSignature, <<"open", 0>>)
           \/ Investigated(ClaimSignature, ClaimSignature')
<1> USE DEF ClaimSignature
<1>ledger. claims \in Ledger /\ claims' \in Ledger
  BY ToolCallType DEF TypeInv, TypeOK
<1>1. ASSUME NEW k \in ClaimKinds, RecordClaimCall(k[1], k[2])
      PROVE  ClaimSignature' = Append(ClaimSignature, <<"open", 0>>)
  BY <1>1, <1>ledger, InputsAssumption, RecordClaimSignature DEF RecordClaimCall
<1>2. ASSUME NEW c \in DOMAIN claims, NEW s \in Settled, NEW e \in Nat,
             claims' = AppendEvidence(claims, c, s, e)
      PROVE  Investigated(ClaimSignature, ClaimSignature')
  <2>1. /\ DOMAIN claims' = DOMAIN claims
        /\ \A d \in DOMAIN claims \ {c} : claims'[d] = claims[d]
        /\ claims'[c].status = claims[c].status
        /\ claims'[c].evidence = Append(claims[c].evidence, [supports |-> s, event |-> e])
    BY <1>2, <1>ledger, AppendEvidenceEffect
  <2>2. Len(claims'[c].evidence) = Len(claims[c].evidence) + 1
    BY <1>ledger, <2>1, SignatureType, AppendProperties DEF Evidence
  <2> QED BY <1>ledger, <2>1, <2>2, ChangeInvestigates
<1>3. ASSUME NEW c \in DOMAIN claims, NEW s \in ClaimStatus, UpdateClaimStatusCall(c, s)
      PROVE  Investigated(ClaimSignature, ClaimSignature')
  <2>1. /\ DOMAIN claims' = DOMAIN claims
        /\ \A d \in DOMAIN claims \ {c} : claims'[d] = claims[d]
        /\ claims'[c].status = s
        /\ claims'[c].evidence = claims[c].evidence
    BY <1>3, <1>ledger, UpdateClaimStatusEffect DEF UpdateClaimStatusCall
  <2>2. s = claims[c].status \/ ValidTransition(claims[c].status, s)
    BY <1>3 DEF UpdateClaimStatusCall, MayUpdateStatus
  <2>3. Len(claims'[c].evidence) = Len(claims[c].evidence) + 0
    BY <1>ledger, <2>1, SignatureType
  <2> QED BY <1>ledger, <2>1, <2>2, <2>3, ChangeInvestigates
<1>4. ASSUME NEW e \in DOMAIN toolEvents, NEW s \in Settled, NEW st \in ClaimStatus,
             FinalizeProbeEvidence(e, s, st)
      PROVE  Investigated(ClaimSignature, ClaimSignature')
  <2> DEFINE c == toolEvents[e].claim
             mid == AppendEvidence(claims, c, s, e)
  <2>1. c \in DOMAIN claims /\ e \in Nat
    BY <1>4, LenProperties
    DEF FinalizeProbeEvidence, UnconsumedProbes, TypeInv, ProbesNameClaims, TypeOK, Ledger
  <2>2. CASE claims' = mid
    BY <1>2, <2>1, <2>2
  <2>3. CASE MayUpdateStatus(mid, c, st) /\ claims' = UpdateClaimStatus(mid, c, st)
    <3>1. mid \in Ledger
      BY <1>ledger, <2>1, AppendEvidenceLedger
    <3>2. /\ DOMAIN mid = DOMAIN claims
          /\ \A d \in DOMAIN claims \ {c} : mid[d] = claims[d]
          /\ mid[c].status = claims[c].status
          /\ mid[c].evidence = Append(claims[c].evidence, [supports |-> s, event |-> e])
      BY <1>ledger, <2>1, AppendEvidenceEffect
    <3>3. /\ DOMAIN claims' = DOMAIN mid
          /\ \A d \in DOMAIN mid \ {c} : claims'[d] = mid[d]
          /\ claims'[c].status = st
          /\ claims'[c].evidence = mid[c].evidence
      BY <2>1, <2>3, <3>1, <3>2, UpdateClaimStatusEffect
    <3>4. st = claims[c].status \/ ValidTransition(claims[c].status, st)
      BY <2>3, <3>2 DEF MayUpdateStatus
    <3>5. Len(claims'[c].evidence) = Len(claims[c].evidence) + 1
      BY <1>ledger, <2>1, <3>2, <3>3, SignatureType, AppendProperties DEF Evidence
    <3>6. \A d \in DOMAIN claims \ {c} : claims'[d] = claims[d]
      BY <3>2, <3>3
    <3> QED BY <1>ledger, <2>1, <3>2, <3>3, <3>4, <3>5, <3>6, ChangeInvestigates
  <2> QED BY <1>4, <2>2, <2>3 DEF FinalizeProbeEvidence
<1>5. ASSUME NEW c \in DOMAIN claims, NEW s \in Settled, NEW e \in CitedEvents,
             AppendEvidenceCall(c, s, e)
      PROVE  Investigated(ClaimSignature, ClaimSignature')
  BY <1>2, <1>5, InputsAssumption DEF AppendEvidenceCall
<1>6. ASSUME \/ \E t \in ToolNames : RejectedCall(t) \/ ObservingCall(t)
             \/ RecordNoNewClaims \/ \E c \in DOMAIN claims : RunClaimProbe(c)
             \/ RequestDescription \/ RequestMoreDebate
             \/ \E ds \in SUBSET DOMAIN descriptionTasks, known \in BOOLEAN :
                   RecordDescriptionUpdate(ds, known)
             \/ \E v \in Verdicts, cs \in SUBSET DOMAIN claims : RecordVerdict(v, cs)
      PROVE  claims' = claims
  BY <1>6 DEF RejectedCall, ObservingCall, RecordNoNewClaims, RunClaimProbe,
              RequestDescription, RequestMoreDebate, RecordDescriptionUpdate, RecordVerdict
<1> QED BY <1>1, <1>3, <1>4, <1>5, <1>6 DEF ToolCall

(* Only the Skeptic's tool writes a review, and it signs off the ledger it finds. *)
LEMMA ToolCallReview ==
    ASSUME TypeInv, ToolCall
    PROVE  \/ UNCHANGED skepticReview
           \/ /\ UNCHANGED <<claims, verdict>>
              /\ skepticReview' # NoReview /\ skepticReview'.ledger = claims
<1>1. ASSUME RecordNoNewClaims
      PROVE  /\ UNCHANGED <<claims, verdict>>
             /\ skepticReview' # NoReview /\ skepticReview'.ledger = claims
  <2>1. Len(toolEvents) \in Nat
    BY LenProperties DEF TypeInv, TypeOK
  <2> QED BY <1>1, <2>1 DEF RecordNoNewClaims, NoReview
<1>2. RecordNoNewClaims \/ UNCHANGED skepticReview
  BY DEF ToolCall, RejectedCall, ObservingCall, RecordClaimCall, AppendEvidenceCall,
         UpdateClaimStatusCall, RunClaimProbe, FinalizeProbeEvidence, RequestDescription,
         RecordDescriptionUpdate, RequestMoreDebate, RecordVerdict
<1> QED BY <1>1, <1>2

(* With the Skeptic in every run and no replay. *)
ProtocolInv ==
    /\ LocalsInv /\ TypeInv /\ DecisionInv
    /\ Fresh
    /\ "skeptic" \in AgentRoles

SignedLedger == IF skepticReview = NoReview THEN None ELSE SignatureOf(skepticReview.ledger)

(* The protocol sees nothing of a step that keeps what it is about, or its end. *)
LEMMA QuietStepImplements ==
    ASSUME UNCHANGED <<claims, skepticReview, verdict>>, pc = "stopped" => pc' = "stopped"
    PROVE  [Protocol!Next]_(Protocol!abstractVars)
<1>1. UNCHANGED <<ClaimSignature, SignedLedger, verdict.verdict>>
  BY DEF ClaimSignature, SignedLedger
<1>2. CASE (pc = "stopped") = (pc' = "stopped")
  BY <1>1, <1>2 DEF Protocol!abstractVars, SignedLedger
<1>3. CASE pc # "stopped" /\ pc' = "stopped"
  <2>1. Protocol!Finish
    BY <1>1, <1>3 DEF Protocol!Finish, SignedLedger
  <2> QED BY <2>1 DEF Protocol!Next
<1> QED BY <1>2, <1>3

(* A call of a tool is a step of the protocol. *)
LEMMA CallImplements ==
    ASSUME ProtocolInv, ToolCall, pc # "stopped", UNCHANGED pc
    PROVE  [Protocol!Next]_(Protocol!abstractVars)
<1>same. (pc = "stopped") = FALSE /\ (pc' = "stopped") = FALSE
  OBVIOUS
<1>1. CASE turnRole = "judge"
  <2>1. UNCHANGED <<claims, skepticReview>>
    BY <1>1, JudgeKeepsLedger
  <2>2. CASE verdict' = verdict
    BY <2>1, <2>2, QuietStepImplements
  <2>3. CASE verdict' # NoVerdict /\ Justified(verdict', claims)
    <3>1. Reviewed /\ Covered
      BY <1>1 DEF ProtocolInv, DecisionInv, JudgeActs
    <3>2. SignedLedger = ClaimSignature
      BY <3>1 DEF ProtocolInv, Reviewed, SignedLedger, ClaimSignature
    <3>3. UNCHANGED <<ClaimSignature, SignedLedger>>
      BY <2>1 DEF ClaimSignature, SignedLedger
    <3>4. verdict.verdict' \in {"trust", "reject", "needs_more_evidence"}
      <4>1. verdict' \in Verdict
        BY ToolCallType DEF ProtocolInv, TypeInv, TypeOK
      <4> QED BY <2>3, <4>1 DEF Verdict, Verdicts
    <3>5. /\ (\A o \in Options : o.require_claim_coverage) => OpenClaims(claims) = {}
          /\ verdict.verdict' \in {"trust", "reject"} => OpenClaims(claims) = {}
      BY <2>3, <3>1 DEF Justified, Covered, RequireClaimCoverage, OpenClaimsLeft,
                        ProtocolInv, LocalsInv
    <3>6. Protocol!Pending = OpenClaims(claims)
      BY DEF Protocol!Pending, OpenClaims, ClaimSignature, SignatureOf
    <3>7. Protocol!Decide
      BY <1>same, <3>2, <3>3, <3>4, <3>5, <3>6 DEF Protocol!Decide, SignedLedger
    <3> QED BY <3>7 DEF Protocol!Next
  <2> QED BY <2>2, <2>3, OnlyJudgeDecides
<1>2. CASE turnRole # "judge"
  <2>1. verdict' = verdict
    BY <1>2, OnlyJudgeDecides
  <2>2. verdict.verdict = "none" /\ UNCHANGED verdict.verdict
    BY <1>2, <2>1 DEF ProtocolInv, DecisionInv, JudgeActs, NoVerdict
  <2>3. CASE UNCHANGED claims /\ skepticReview' # NoReview /\ skepticReview'.ledger = claims
    <3>1. UNCHANGED ClaimSignature /\ SignedLedger' = ClaimSignature
      BY <2>3 DEF ClaimSignature, SignedLedger
    <3>2. Protocol!SignOff
      BY <1>same, <2>2, <3>1 DEF Protocol!SignOff, Protocol!Undecided, SignedLedger
    <3> QED BY <3>2 DEF Protocol!Next
  <2>4. CASE UNCHANGED skepticReview
    <3>0. UNCHANGED SignedLedger
      BY <2>4 DEF SignedLedger
    <3>1. CASE ClaimSignature' = ClaimSignature
      BY <1>same, <2>2, <3>0, <3>1 DEF Protocol!abstractVars, SignedLedger
    <3>2. CASE ClaimSignature' = Append(ClaimSignature, <<"open", 0>>)
      <4>1. Protocol!Raise
        BY <1>same, <2>2, <3>0, <3>2 DEF Protocol!Raise, Protocol!Undecided, SignedLedger
      <4> QED BY <4>1 DEF Protocol!Next
    <3>3. CASE Investigated(ClaimSignature, ClaimSignature')
      <4>1. Protocol!Investigate
        BY <1>same, <2>2, <3>0, <3>3
        DEF Protocol!Investigate, Protocol!Undecided, SignedLedger, Investigated
      <4> QED BY <4>1 DEF Protocol!Next
    <3> QED BY <3>1, <3>2, <3>3, ToolCallSignature DEF ProtocolInv
  <2> QED BY <2>3, <2>4, ToolCallReview DEF ProtocolInv
<1> QED BY <1>1, <1>2

(* Every step of the workflow that is not a replay is a step of the protocol. *)
LEMMA StepImplements ==
    ASSUME ProtocolInv, [WFNext]_wfVars, ~Replay
    PROVE  [Protocol!Next]_(Protocol!abstractVars)
<1>1. CASE LoadContext \/ ExecuteToolCall
  <2>1. ToolCall
    BY <1>1, TurnsCallTools DEF ProtocolInv, LocalsInv
  <2>2. pc # "stopped" /\ UNCHANGED pc
    BY <1>1 DEF LoadContext, ExecuteToolCall
  <2> QED BY <2>1, <2>2, CallImplements
<1>2. CASE EndMainTurn \/ EndDescriberTurn
  <2>1. UNCHANGED <<claims, skepticReview, verdict>> /\ pc # "stopped"
    BY <1>2 DEF EndMainTurn, EndDescriberTurn, runState
  <2> QED BY <2>1, QuietStepImplements
<1>3. CASE Orchestrate
  <2>1. UNCHANGED <<claims, skepticReview, verdict>> /\ pc # "stopped"
    BY <1>3
    DEF Orchestrate, BeginWorkflow, BeginLoop, CallDebateAgent, DebateAgentReturned,
        BeginCoverage, CallExperimenter, ExperimenterReturned, EndCoverage, JudgeAbsent,
        DeferJudge, RequestMoreDebateInternally, CallJudge, JudgeReturned, runState
  <2> QED BY <2>1, QuietStepImplements
<1>4. CASE UNCHANGED wfVars
  <2>1. UNCHANGED <<claims, skepticReview, verdict, pc>>
    BY <1>4 DEF wfVars, turnVars, runState
  <2> QED BY <2>1, QuietStepImplements
<1> QED BY <1>1, <1>2, <1>3, <1>4 DEF WFNext, AgentTurn

(***************************************************************************)
(* A run with a Skeptic that is not replayed implements DebateProtocol:    *)
(* whatever rounds, budgets and tool calls it takes, its verdict is about  *)
(* the ledger signed off, covered as required, and the ledger is frozen    *)
(* from then on.                                                           *)
(***************************************************************************)
THEOREM WorkflowImplementsProtocol ==
    ASSUME MaxReplays = 0, \A o \in Options : "skeptic" \in ToSet(o.agents)
    PROVE  WFSpec => ProtocolSpec
<1>1. WFInit => Protocol!Init /\ Fresh
  BY DEF WFInit, InitTurns, Init, Fresh, NoVerdict, ClaimSignature, SignatureOf, Protocol!Init
<1>2. LocalsInv /\ Fresh /\ [WFNext]_wfVars => Fresh' /\ ~Replay
  <2> SUFFICES ASSUME LocalsInv, Fresh, [WFNext]_wfVars
               PROVE  Fresh' /\ ~Replay
    OBVIOUS
  <2>1. ~Replay
    BY DEF Replay, Resume, Fresh
  <2>2. CASE AgentTurn
    BY <2>1, <2>2
    DEF AgentTurn, LoadContext, ExecuteToolCall, EndMainTurn, EndDescriberTurn, Fresh
  <2>3. CASE Orchestrate
    BY <2>1, <2>3
    DEF Orchestrate, BeginWorkflow, BeginLoop, CallDebateAgent, DebateAgentReturned,
        BeginCoverage, CallExperimenter, ExperimenterReturned, EndCoverage, JudgeAbsent,
        DeferJudge, CallJudge, JudgeReturned, Fresh
  <2>4. CASE UNCHANGED wfVars
    BY <2>1, <2>4 DEF wfVars, turnVars, Fresh
  <2> QED BY <2>1, <2>2, <2>3, <2>4 DEF WFNext
<1>3. LocalsInv => "skeptic" \in AgentRoles
  BY DEF LocalsInv, AgentRoles, Agents
<1>4. LocalsInv /\ TypeInv /\ DecisionInv /\ Fresh /\ [WFNext]_wfVars
        => [Protocol!Next]_(Protocol!abstractVars)
  BY <1>2, <1>3, StepImplements DEF ProtocolInv
<1>5. WFSpec => []Fresh
  BY <1>1, <1>2, LoopsAreKept, PTL DEF WFSpec
<1> QED BY <1>1, <1>4, <1>5, LoopsAreKept, DecisionsAreKept, PTL
        DEF WFSpec, ProtocolSpec, Protocol!Spec
=============================================================================
