---------------------------- MODULE ResultsTable ----------------------------
(***************************************************************************)
(* What a run directory of KernelBench promises, without threads,          *)
(* processes, batches or files: a table with one outcome per sample, each  *)
(* written once, that is kept from command to command and lost as a whole  *)
(* or not at all, and scores that are published when every problem has an  *)
(* outcome, after which the table is final.                                *)
(* BenchmarkRun implements it (TableSpec there).                           *)
(***************************************************************************)
CONSTANTS
    Entries,  \* <<problem, sample>> pairs
    NoScores  \* nothing is published

VARIABLES
    generated, \* the samples that have a kernel
    outcome,   \* "none", "failed" or "correct" of every sample
    lost,      \* the table was being written when its writer died
    scores     \* what is published about the table

tableVars == <<generated, outcome, lost, scores>>

Empty == [s \in Entries |-> "none"]

Init ==
    /\ generated = {}
    /\ outcome = Empty
    /\ lost = FALSE
    /\ scores = NoScores

Generate(s) ==
    /\ s \notin generated
    /\ generated' = generated \cup {s}
    /\ UNCHANGED <<outcome, lost, scores>>

Open == ~lost /\ scores = NoScores

Enter(s, result) ==
    /\ Open
    /\ outcome[s] = "none"
    /\ result = "correct" => s \in generated
    /\ outcome' = [outcome EXCEPT ![s] = result]
    /\ UNCHANGED <<generated, lost, scores>>

Lose ==
    /\ Open
    /\ lost' = TRUE
    /\ outcome' = Empty
    /\ UNCHANGED <<generated, scores>>

Publish ==
    /\ Open
    /\ \A s \in Entries : \E t \in Entries : t[1] = s[1] /\ outcome[t] # "none"
    /\ scores' # NoScores
    /\ UNCHANGED <<generated, outcome, lost>>

Next ==
    \/ \E s \in Entries : Generate(s) \/ Enter(s, "failed") \/ Enter(s, "correct")
    \/ Lose
    \/ Publish

Spec == Init /\ [][Next]_tableVars
=============================================================================
