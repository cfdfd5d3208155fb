--------------------------- MODULE ParallelSearch ---------------------------
(* What a call of the worker manager promises, without queues, processes or timeouts:
   attempts are made in parallel, the first kernel reported is the answer, and only an
   answer cuts attempts short, be it that they give up or that they are terminated; no
   attempt goes on after the call, and a call without an answer had none that passed.
   What a terminated attempt says after all may be taken for an answer, of a later call
   too: from then on the promise is not that the answer has passed.
   WorkerManager implements it (SearchSpec there).  *)
CONSTANTS
    Attempts,   \* one for every seed there may be
    NoAttempt   \* there is no answer

VARIABLES
    searching,  \* a call is being made
    attempt,    \* what has become of each attempt
    answer,     \* the attempt whose kernel is returned
    straggler   \* a terminated attempt has spoken

searchVars == <<searching, attempt, answer, straggler>>

Init ==
    /\ ~searching
    /\ attempt = [a \in Attempts |-> "absent"]
    /\ answer = NoAttempt
    /\ straggler = FALSE

Begin ==
    /\ ~searching
    /\ searching'
    /\ attempt' \in [Attempts -> {"absent", "trying"}]
    /\ \E a \in Attempts : attempt'[a] = "trying"
    /\ answer' = NoAttempt
    /\ UNCHANGED straggler

Become(a, end) ==
    /\ searching
    /\ attempt' = [attempt EXCEPT ![a] = end]
    /\ UNCHANGED <<searching, answer, straggler>>

End(a) ==
    /\ attempt[a] = "trying"
    /\ Become(a, "passed") \/ Become(a, "failed")

GiveUp(a) ==
    /\ attempt[a] = "trying"
    /\ answer # NoAttempt
    /\ Become(a, "gave_up")

(* Not the attempt whose kernel is the answer: it was over before. *)
Terminate(a) ==
    /\ attempt[a] # "absent"
    /\ answer # NoAttempt
    /\ answer # a \/ straggler
    /\ Become(a, "terminated")

Answer(a) ==
    /\ searching
    /\ answer = NoAttempt
    /\ attempt[a] = "passed" \/ straggler
    /\ answer' = a
    /\ UNCHANGED <<searching, attempt, straggler>>

Speak(a) ==
    /\ attempt[a] = "terminated"
    /\ straggler' = TRUE
    /\ UNCHANGED <<searching, attempt, answer>>

Return ==
    /\ searching
    /\ answer = NoAttempt => \A a \in Attempts : attempt[a] # "passed"
    /\ ~searching'
    /\ UNCHANGED <<attempt, answer, straggler>>

Next ==
    \/ Begin
    \/ \E a \in Attempts : End(a) \/ GiveUp(a) \/ Terminate(a) \/ Answer(a) \/ Speak(a)
    \/ Return

Spec == Init /\ [][Next]_searchVars
=============================================================================
