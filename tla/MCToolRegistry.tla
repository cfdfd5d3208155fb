--------------------------- MODULE MCToolRegistry ---------------------------
(* Values of the constants of ToolRegistry that a .cfg cannot write. *)
EXTENDS ToolRegistry

InScopeKind == {<<"in_scope", TRUE>>}

(* The tools that change something; the Judge may use record_verdict at any time. *)
ChangingTools ==
    ToolNames \ {"read", "retrieve_experiment_history", "load_artifact", "unknown"}
=============================================================================
