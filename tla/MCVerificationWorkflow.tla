----------------------- MODULE MCVerificationWorkflow -----------------------
(* Values of the constants of VerificationWorkflow that a .cfg cannot write. *)
EXTENDS VerificationWorkflow

CommandLine(agents) ==
    [agents                         |-> agents,
     tool_budget                    |-> None,
     require_claim_coverage         |-> TRUE,
     stop_when_no_open_claims       |-> FALSE,
     max_debate_rounds              |-> 2,
     max_claim_rounds               |-> 1,
     max_claim_rounds_per_claim     |-> 1,
     min_debate_rounds_before_judge |-> 1]

SkepticExperimenterJudge == <<"skeptic", "experimenter", "judge">>

EvidenceOptions == {CommandLine(SkepticExperimenterJudge)}

(* The second can only be given to the method: agentic_run.py wants a Judge for this loop. *)
ProbeOptions ==
    {[CommandLine(SkepticExperimenterJudge) EXCEPT !.tool_budget = 5],
     [CommandLine(<<"skeptic", "experimenter">>) EXCEPT
        !.tool_budget = 5, !.stop_when_no_open_claims = TRUE, !.max_claim_rounds = 2]}

InScopeKind == {<<"in_scope", TRUE>>}
MixedKinds == {<<"in_scope", TRUE>>, <<"unknown", FALSE>>}

(* What the orchestrator calls before the loop. *)
LoadingTools == {"load_artifact", "read"}

EvidenceTools == LoadingTools \cup
    {"record_claim", "append_evidence", "update_claim_status",
     "record_no_new_claims", "request_more_debate", "record_verdict"}
ProbeTools == LoadingTools \cup
    {"record_claim", "run_python_probe", "run_claim_probe", "finalize_probe_evidence",
     "append_evidence", "record_no_new_claims", "request_more_debate", "record_verdict"}
=============================================================================
