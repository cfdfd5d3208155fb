---------------------------- MODULE MCAgenticRun ----------------------------
(* Values of the constants of AgenticRun that a .cfg cannot write. *)
EXTENDS AgenticRun

CommandLine(agents) ==
    [agents                         |-> agents,
     tool_budget                    |-> None,
     require_claim_coverage         |-> TRUE,
     stop_when_no_open_claims       |-> FALSE,
     max_debate_rounds              |-> 2,
     max_claim_rounds               |-> 1,
     max_claim_rounds_per_claim     |-> 1,
     min_debate_rounds_before_judge |-> 1]

FourAgents == <<"describer", "skeptic", "experimenter", "judge">>

(* Two commands for the verification workflow and two for the sequential loop. *)
RunOptions ==
    {[CommandLine(FourAgents) EXCEPT
        !.tool_budget = 2, !.max_claim_rounds_per_claim = 2,
        !.min_debate_rounds_before_judge = 2],
     [CommandLine(FourAgents) EXCEPT
        !.tool_budget = 4, !.max_debate_rounds = 1, !.require_claim_coverage = FALSE],
     [CommandLine(<<"describer", "skeptic", "judge">>) EXCEPT
        !.tool_budget = 2, !.stop_when_no_open_claims = TRUE],
     [CommandLine(<<"skeptic", "experimenter">>) EXCEPT !.stop_when_no_open_claims = TRUE]}

InScopeKind == {<<"in_scope", TRUE>>}

(* What the orchestrator calls before the loop, and what the agents may call. *)
RunTools ==
    {"load_artifact", "read", "record_claim", "request_description",
     "record_description_update", "record_no_new_claims", "append_evidence",
     "update_claim_status", "request_more_debate", "record_verdict"}
=============================================================================
