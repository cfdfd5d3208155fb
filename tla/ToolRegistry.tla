---------------------------- MODULE ToolRegistry ----------------------------
(***************************************************************************)
(* The run state and the role-scoped tools that change it                  *)
(* (verifier/agentic/tools/*.py over verifier/agentic/state.py).           *)
(*                                                                         *)
(* An agent's turn is a list of tool calls.  ToolRegistry.call executes    *)
(* them one by one and logs exactly one tool event per call, whether the   *)
(* handler succeeds or raises.  A call is an action here; its arguments    *)
(* are chosen by a language model, hence by \E.  In Spec the roles take    *)
(* turns in any order: what holds of Spec holds however the orchestrator   *)
(* schedules them.  VerificationWorkflow adds that schedule.               *)
(***************************************************************************)
EXTENDS ClaimLedger, Integers, FiniteSets

CONSTANTS
    MaxSkepticClaimsPerTurn,       \* 3 in tools/claims.py
    MaxDescriptionRequestsPerTurn, \* 2 in tools/description.py
    MaxOpenDescriptionTasks,       \* 4 in tools/description.py
    MaxDescriptionTasks,           \* 20 in tools/description.py
    CalledTools,                   \* the tools the agents of this instance call
    FailingTools,                  \* those of them it also calls in a way that is refused
    ClaimKinds,                    \* the <<scope, benchmark>> pairs of its claims
    CitedEvents,                   \* the event ids its agents write down
    MaxToolEvents                  \* bound on the length of a run's event log

Roles == {"orchestrator", "describer", "skeptic", "experimenter", "judge"}

(***************************************************************************)
(* "read" stands for the five tools every role may read with               *)
(* (inspect_problem, inspect_kernel_source, list_artifact_files,           *)
(* read_artifact_file, read_claim_ledger) and "unknown" for a name no tool *)
(* is registered under.                                                    *)
(***************************************************************************)
AllowedRoles ==
    [load_artifact             |-> {"orchestrator"},
     read                      |-> Roles,
     retrieve_experiment_history |-> {"skeptic", "experimenter", "judge"},
     request_description       |-> {"skeptic", "experimenter", "judge"},
     record_description_update |-> {"describer"},
     record_claim              |-> {"skeptic"},
     record_no_new_claims      |-> {"skeptic"},
     append_evidence           |-> {"experimenter"},
     update_claim_status       |-> {"experimenter"},
     run_python_probe          |-> {"experimenter"},
     run_claim_probe           |-> {"experimenter"},
     finalize_probe_evidence   |-> {"experimenter"},
     request_more_debate       |-> {"judge"},
     record_verdict            |-> {"judge"},
     unknown                   |-> {}]

ToolNames == DOMAIN AllowedRoles

(* The tools whose calls within one turn are counted against a limit. *)
LimitedTools == {"record_claim", "request_description"}

Verdicts == {"trust", "reject", "needs_more_evidence"}

ASSUME LimitsAssumption ==
    /\ MaxSkepticClaimsPerTurn \in Nat
    /\ MaxDescriptionRequestsPerTurn \in Nat
    /\ MaxOpenDescriptionTasks \in Nat
    /\ MaxDescriptionTasks \in Nat
    /\ MaxToolEvents \in Nat

ASSUME InputsAssumption ==
    /\ CalledTools \subseteq ToolNames
    /\ FailingTools \subseteq ToolNames
    /\ ClaimKinds \subseteq ClaimScope \X BOOLEAN
    /\ CitedEvents \subseteq Nat

VARIABLES
    claims,             \* the ledger
    toolEvents,         \* the log: one record per attempted call
    skepticReview,      \* the last record_no_new_claims
    verdict,            \* the last record_verdict
    convergence,        \* who asked for more debate, if anyone
    descriptionTasks,   \* status of each description request
    descriptionUpdates, \* number of Describer updates
    turnRole,           \* the role whose response is being executed
    turnCalls           \* calls of each limited tool attempted in this turn

runState == <<claims, toolEvents, skepticReview, verdict, convergence,
              descriptionTasks, descriptionUpdates>>
turn == <<turnRole, turnCalls>>
vars == <<runState, turn>>

(***************************************************************************)
(* claim is the claim a successful run_claim_probe was run for, 0 for any  *)
(* other event.                                                            *)
(***************************************************************************)
ToolEvent == [tool : ToolNames, ok : BOOLEAN, claim : Nat]

(***************************************************************************)
(* count is the code's reviewed_tool_event_count.  ledger and description  *)
(* are not in the code: they remember what the Skeptic had before it when  *)
(* it signed off, so that properties can speak of it.                      *)
(***************************************************************************)
Description == Seq({"open", "resolved"}) \X Nat
NoReview == [count |-> -1, ledger |-> <<>>, description |-> <<<<>>, 0>>]
Review == [count : Nat, ledger : Ledger, description : Description] \cup {NoReview}

NoVerdict == [verdict |-> "none", decisive |-> {}]
Verdict == [verdict : Verdicts, decisive : SUBSET Nat] \cup {NoVerdict}

(***************************************************************************)
(* The code tells the orchestrator's own more-debate request from the      *)
(* Judge's by its reason; here by its author.                              *)
(***************************************************************************)
Convergence == {"none", "internal", "judge"}

TypeOK ==
    /\ claims \in Ledger
    /\ toolEvents \in Seq(ToolEvent)
    /\ skepticReview \in Review
    /\ verdict \in Verdict
    /\ convergence \in Convergence
    /\ descriptionTasks \in Seq({"open", "resolved"})
    /\ descriptionUpdates \in Nat
    /\ turnRole \in Roles
    /\ turnCalls \in [LimitedTools -> Nat]

(* A fresh run, before the orchestrator has loaded the artifact. *)
Init ==
    /\ claims = <<>>
    /\ toolEvents = <<>>
    /\ skepticReview = NoReview
    /\ verdict = NoVerdict
    /\ convergence = "none"
    /\ descriptionTasks = <<>>
    /\ descriptionUpdates = 0
    /\ turnRole = "orchestrator"
    /\ turnCalls = [t \in LimitedTools |-> 0]
-----------------------------------------------------------------------------
(* What the tools and the orchestrator ask of the run state. *)

(***************************************************************************)
(* The description model's lists change only together with the number of   *)
(* updates, and so does the response stored with a task.                   *)
(***************************************************************************)
DescriptionSignature == <<descriptionTasks, descriptionUpdates>>

OpenTasks == {d \in DOMAIN descriptionTasks : descriptionTasks[d] = "open"}

(* Mutant: the tool that can fail after it has changed the ledger is forgotten. *)
StaleToolsWithoutFinalize ==
    {"record_claim", "append_evidence", "update_claim_status", "run_python_probe",
     "run_claim_probe", "request_description", "record_description_update"}

(* Any later call of one of these, failed or not, makes a review stale. *)
StaleTools == {"record_claim", "append_evidence", "update_claim_status",
               "run_python_probe", "run_claim_probe", "finalize_probe_evidence",
               "request_description", "record_description_update"}

ReviewCurrent ==
    /\ skepticReview.count >= 0
    /\ \A i \in DOMAIN toolEvents :
          i > skepticReview.count => toolEvents[i].tool \notin StaleTools

(* Mutant: probe results that are evidence already still count. *)
AllProbes == {i \in DOMAIN toolEvents : toolEvents[i].claim # 0}

UnconsumedProbes ==
    {i \in DOMAIN toolEvents : toolEvents[i].claim # 0} \ CitedBy(claims)
-----------------------------------------------------------------------------
(* ToolRegistry.call: every attempt is counted and leaves one event. *)

Attempt(tool, ok, claim) ==
    /\ Len(toolEvents) < MaxToolEvents
    /\ toolEvents' = Append(toolEvents, [tool |-> tool, ok |-> ok, claim |-> claim])
    /\ turnCalls' = IF tool \in LimitedTools
                    THEN [turnCalls EXCEPT ![tool] = @ + 1]
                    ELSE turnCalls
    /\ UNCHANGED turnRole

(* The call is made, its role may make it and its arguments fit the schema. *)
Accepted(tool) == tool \in CalledTools /\ turnRole \in AllowedRoles[tool]

Succeed(tool) == Accepted(tool) /\ Attempt(tool, TRUE, 0)

(***************************************************************************)
(* A call that raises before it has changed anything: an unknown tool, a   *)
(* role without permission, a missing or superfluous argument, or a guard  *)
(* of the handler.  Malformed arguments make any call of any tool fail.    *)
(***************************************************************************)
RejectedCall(tool) ==
    /\ tool \in FailingTools
    /\ Attempt(tool, FALSE, 0)
    /\ UNCHANGED <<claims, skepticReview, verdict, convergence,
                   descriptionTasks, descriptionUpdates>>

(* A call that reads files or the ledger, or runs a probe tied to no claim. *)
ObservingCall(tool) ==
    /\ tool \in {"load_artifact", "read", "retrieve_experiment_history",
                 "run_python_probe"}
    /\ Succeed(tool)
    /\ UNCHANGED <<claims, skepticReview, verdict, convergence,
                   descriptionTasks, descriptionUpdates>>
-----------------------------------------------------------------------------
(* tools/claims.py *)

RecordClaimCall(scope, benchmark) ==
    /\ turnCalls["record_claim"] < MaxSkepticClaimsPerTurn
    /\ Succeed("record_claim")
    /\ claims' = RecordClaim(claims, scope, benchmark)
    /\ UNCHANGED <<skepticReview, verdict, convergence,
                   descriptionTasks, descriptionUpdates>>

AppendEvidenceCall(c, supports, event) ==
    /\ Succeed("append_evidence")
    /\ claims' = AppendEvidence(claims, c, supports, event)
    /\ UNCHANGED <<skepticReview, verdict, convergence,
                   descriptionTasks, descriptionUpdates>>

UpdateClaimStatusCall(c, status) ==
    /\ MayUpdateStatus(claims, c, status)
    /\ Succeed("update_claim_status")
    /\ claims' = UpdateClaimStatus(claims, c, status)
    /\ UNCHANGED <<skepticReview, verdict, convergence,
                   descriptionTasks, descriptionUpdates>>

RecordNoNewClaims ==
    /\ Succeed("record_no_new_claims")
    /\ skepticReview' = [count       |-> Len(toolEvents),
                         ledger      |-> claims,
                         description |-> DescriptionSignature]
    /\ UNCHANGED <<claims, verdict, convergence,
                   descriptionTasks, descriptionUpdates>>
-----------------------------------------------------------------------------
(* tools/execution.py *)

RunClaimProbe(c) ==
    /\ Accepted("run_claim_probe")
    /\ Attempt("run_claim_probe", TRUE, c)
    /\ UNCHANGED <<claims, skepticReview, verdict, convergence,
                   descriptionTasks, descriptionUpdates>>

(***************************************************************************)
(* Evidence is appended to the probe's claim first; the status update that *)
(* follows may raise, and the evidence then stays although the call is     *)
(* logged as an error.                                                     *)
(***************************************************************************)
FinalizeProbeEvidence(event, supports, status) ==
    LET c == toolEvents[event].claim
        withEvidence == AppendEvidence(claims, c, supports, event)
        settles == MayUpdateStatus(withEvidence, c, status)
    IN  /\ event \in UnconsumedProbes
        /\ Accepted("finalize_probe_evidence")
        /\ Attempt("finalize_probe_evidence", settles, 0)
        /\ claims' = IF settles
                     THEN UpdateClaimStatus(withEvidence, c, status)
                     ELSE withEvidence
        /\ UNCHANGED <<skepticReview, verdict, convergence,
                       descriptionTasks, descriptionUpdates>>
-----------------------------------------------------------------------------
(* tools/description.py *)

RequestDescription ==
    /\ turnCalls["request_description"] < MaxDescriptionRequestsPerTurn
    /\ Len(descriptionTasks) < MaxDescriptionTasks
    /\ Cardinality(OpenTasks) < MaxOpenDescriptionTasks
    /\ Succeed("request_description")
    /\ descriptionTasks' = Append(descriptionTasks, "open")
    /\ UNCHANGED <<claims, skepticReview, verdict, convergence,
                   descriptionUpdates>>

(***************************************************************************)
(* The update is stored, then the listed tasks are resolved one by one.    *)
(* An id that names no task raises after the tasks before it were          *)
(* resolved: allKnown is FALSE and the call is logged as an error.         *)
(***************************************************************************)
RecordDescriptionUpdate(resolved, allKnown) ==
    /\ Accepted("record_description_update")
    /\ Attempt("record_description_update", allKnown, 0)
    /\ descriptionUpdates' = descriptionUpdates + 1
    /\ descriptionTasks' = [d \in DOMAIN descriptionTasks |->
                              IF d \in resolved THEN "resolved"
                                                ELSE descriptionTasks[d]]
    /\ UNCHANGED <<claims, skepticReview, verdict, convergence>>
-----------------------------------------------------------------------------
(* tools/verdict.py *)

RequestMoreDebate ==
    /\ Succeed("request_more_debate")
    /\ convergence' = "judge"
    /\ UNCHANGED <<claims, skepticReview, verdict,
                   descriptionTasks, descriptionUpdates>>

(* Mutant: the scope guard of record_verdict is gone. *)
DecisiveByStatus(claim) == claim.status = "confirmed"

(* A claim a reject verdict may rest on. *)
Decisive(claim) ==
    /\ claim.status = "confirmed"
    /\ claim.scope = "in_scope"
    /\ claim.benchmark

RejectAllowed(ledger, decisive) ==
    /\ decisive # {}
    /\ \A c \in decisive : c \in DOMAIN ledger /\ Decisive(ledger[c])

(* Mutant: only trust is refused while a claim is open. *)
RecordVerdictWhileOpen(v, decisive) ==
    /\ v = "trust" => OpenClaims(claims) = {}
    /\ v = "reject" => RejectAllowed(claims, decisive)
    /\ Succeed("record_verdict")
    /\ verdict' = [verdict |-> v, decisive |-> decisive]
    /\ convergence' = "none"
    /\ UNCHANGED <<claims, skepticReview, descriptionTasks, descriptionUpdates>>

RecordVerdict(v, decisive) ==
    /\ v \in {"trust", "reject"} => OpenClaims(claims) = {}
    /\ v = "reject" => RejectAllowed(claims, decisive)
    /\ Succeed("record_verdict")
    /\ verdict' = [verdict |-> v, decisive |-> decisive]
    /\ convergence' = "none"
    /\ UNCHANGED <<claims, skepticReview, descriptionTasks, descriptionUpdates>>
-----------------------------------------------------------------------------
(* One tool call of the current turn. *)
ToolCall ==
    \/ \E t \in ToolNames : RejectedCall(t) \/ ObservingCall(t)
    \/ \E k \in ClaimKinds : RecordClaimCall(k[1], k[2])
    \/ \E c \in DOMAIN claims, s \in Settled, e \in CitedEvents :
          AppendEvidenceCall(c, s, e)
    \/ \E c \in DOMAIN claims, s \in ClaimStatus : UpdateClaimStatusCall(c, s)
    \/ RecordNoNewClaims
    \/ \E c \in DOMAIN claims : RunClaimProbe(c)
    \/ \E e \in DOMAIN toolEvents, s \in Settled, st \in ClaimStatus :
          FinalizeProbeEvidence(e, s, st)
    \/ RequestDescription
    \/ \E ds \in SUBSET DOMAIN descriptionTasks, known \in BOOLEAN :
          RecordDescriptionUpdate(ds, known)
    \/ RequestMoreDebate
    \/ \E v \in Verdicts, cs \in SUBSET DOMAIN claims : RecordVerdict(v, cs)

(* apply_agent_response: the tool context, and its counters, are new in every turn. *)
TakeTurn(role) ==
    /\ turnRole' = role
    /\ turnCalls' = [t \in LimitedTools |-> 0]

(***************************************************************************)
(* What the orchestrator does between tool calls: it starts the turn of a  *)
(* role, and in the workflow it clears convergence before the Judge's turn *)
(* or asks for more debate itself.                                         *)
(***************************************************************************)
BetweenCalls ==
    /\ \/ \E r \in Roles : TakeTurn(r) /\ UNCHANGED convergence
       \/ TakeTurn("judge") /\ convergence' = "none"
       \/ UNCHANGED turn /\ convergence' \in {"none", "internal"}
    /\ UNCHANGED <<claims, toolEvents, skepticReview, verdict,
                   descriptionTasks, descriptionUpdates>>

Next == ToolCall \/ BetweenCalls

Spec == Init /\ [][Next]_vars
-----------------------------------------------------------------------------
(***************************************************************************)
(* A claim that is not open carries evidence supporting the very status it *)
(* has, whatever calls were made in whatever order, failed ones included   *)
(* (the rule update_claim_status enforces, ledger.py).                     *)
(***************************************************************************)
SettledClaimsAreSupported ==
    \A c \in DOMAIN claims :
        claims[c].status # "open" => Supported(claims[c], claims[c].status)

(***************************************************************************)
(* As long as _skeptic_review_current holds, the ledger and the            *)
(* description are the ones the Skeptic signed off: no claim, evidence,    *)
(* status, question or answer is newer, not even through a call that was   *)
(* logged as an error after changing them.                                 *)
(***************************************************************************)
CurrentReviewSeesAll ==
    ReviewCurrent => /\ claims = skepticReview.ledger
                     /\ DescriptionSignature = skepticReview.description

(***************************************************************************)
(* What the guards of record_verdict ask of the ledger.                    *)
(***************************************************************************)
Justified(v, ledger) ==
    /\ v.verdict \in {"trust", "reject"} => OpenClaims(ledger) = {}
    /\ v.verdict = "reject" => RejectAllowed(ledger, v.decisive)

(***************************************************************************)
(* Whoever calls the tools, the log tells whether a verdict may be doubted *)
(* (record_verdict, verdict.py): its reasons hold until a later call that  *)
(* succeeds records a claim or changes a status.  Evidence alone, a failed *)
(* call, or another role's turn cannot take them away.                     *)
(***************************************************************************)
VerdictEvents ==
    {i \in DOMAIN toolEvents : toolEvents[i].tool = "record_verdict" /\ toolEvents[i].ok}

LedgerMoved ==
    \E i \in DOMAIN toolEvents :
        /\ toolEvents[i].tool \in {"record_claim", "update_claim_status",
                                   "finalize_probe_evidence"}
        /\ toolEvents[i].ok
        /\ \A j \in VerdictEvents : j < i

VerdictHoldsUntilLedgerMoves ==
    verdict # NoVerdict => LedgerMoved \/ Justified(verdict, claims)

(***************************************************************************)
(* Where agents leave citing probe events to finalize_probe_evidence, a    *)
(* probe result becomes evidence for the claim it was run for, and becomes *)
(* evidence only once (_probe_event_consumed, execution.py).               *)
(***************************************************************************)
CitedEvent(p) == claims[p[1]].evidence[p[2]].event

Citations ==
    {p \in UNION {{c} \X DOMAIN claims[c].evidence : c \in DOMAIN claims} :
        CitedEvent(p) # NoEvent}

ProbeEvidenceIsOwn ==
    CitedEvents = {NoEvent} =>
        \A p \in Citations :
            /\ CitedEvent(p) \in DOMAIN toolEvents
            /\ toolEvents[CitedEvent(p)].claim = p[1]
            /\ \A q \in Citations : CitedEvent(q) = CitedEvent(p) => q = p

(***************************************************************************)
(* append_evidence may cite any event and so use a probe result up that is *)
(* another claim's (claims.py).  Even then finalizing makes no results:    *)
(* there are never more successful finalize_probe_evidence calls than      *)
(* probe results among the evidence of the claims they were run for.       *)
(***************************************************************************)
Finalizations ==
    {i \in DOMAIN toolEvents : toolEvents[i].tool = "finalize_probe_evidence" /\ toolEvents[i].ok}

ProbesOfOwnEvidence ==
    {e \in DOMAIN toolEvents :
        /\ toolEvents[e].claim # 0
        /\ \E i \in DOMAIN claims[toolEvents[e].claim].evidence :
              claims[toolEvents[e].claim].evidence[i].event = e}

FinalizationsHaveProbes ==
    Cardinality(Finalizations) <= Cardinality(ProbesOfOwnEvidence)

(***************************************************************************)
(* One tool call never drops a claim or a piece of evidence, never reopens *)
(* a settled claim and never turns a confirmed claim into a rebutted one   *)
(* or the reverse: a reversal passes through inconclusive, with evidence   *)
(* for each of its steps (ledger.py, _validate_transition).                *)
(***************************************************************************)
NoSilentReversal(old, new) ==
    /\ Len(old.evidence) <= Len(new.evidence)
    /\ \A i \in DOMAIN old.evidence : new.evidence[i] = old.evidence[i]
    /\ old.status # "open" => new.status # "open"
    /\ old.status = "confirmed" => new.status # "rebutted"
    /\ old.status = "rebutted" => new.status # "confirmed"

LedgerHistoryKept ==
    [][\A c \in DOMAIN claims :
          c \in DOMAIN claims' /\ NoSilentReversal(claims[c], claims'[c])]_vars
=============================================================================
