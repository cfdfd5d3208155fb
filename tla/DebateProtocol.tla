--------------------------- MODULE DebateProtocol ---------------------------
(***************************************************************************)
(* What the verification workflow promises, without rounds, turns, tools   *)
(* or budgets: claims are raised and investigated, the Skeptic signs off   *)
(* the ledger it sees, and a verdict is given only on a signed-off ledger, *)
(* after which the ledger is frozen and the run ends.                      *)
(* VerificationWorkflow implements it (ProtocolSpec there).                *)
(***************************************************************************)
EXTENDS Naturals, Sequences

CONSTANTS
    CoverageRequired, \* a verdict of any kind needs every claim settled
    Unsigned          \* the Skeptic has not signed off yet

VARIABLES
    ledger,  \* <<status, pieces of evidence>> of each claim
    signed,  \* the ledger last signed off
    verdict, \* "none" until the Judge decides
    done     \* the run is over

abstractVars == <<ledger, signed, verdict, done>>

Pending == {c \in DOMAIN ledger : ledger[c][1] = "open"}

Init ==
    /\ ledger = <<>>
    /\ signed = Unsigned
    /\ verdict = "none"
    /\ done = FALSE

Undecided == ~done /\ verdict = "none"

Raise ==
    /\ Undecided
    /\ ledger' = Append(ledger, <<"open", 0>>)
    /\ UNCHANGED <<signed, verdict, done>>

(* The statuses one investigation step can take a claim to. *)
Reachable(status) ==
    CASE status = "confirmed" -> {"confirmed", "inconclusive"}
      [] status = "rebutted"  -> {"rebutted", "inconclusive"}
      [] status = "inconclusive" -> {"inconclusive", "confirmed", "rebutted"}
      [] OTHER -> {"open", "confirmed", "rebutted", "inconclusive"}

(* Evidence is added to a claim, or its status changes, or both. *)
Investigate ==
    /\ Undecided
    /\ \E c \in DOMAIN ledger, added \in {0, 1} :
          \E status \in Reachable(ledger[c][1]) :
             ledger' = [ledger EXCEPT ![c] = <<status, @[2] + added>>]
    /\ UNCHANGED <<signed, verdict, done>>

SignOff ==
    /\ Undecided
    /\ signed' = ledger
    /\ UNCHANGED <<ledger, verdict, done>>

(* The Judge may revise its verdict within the response that gives it. *)
Decide ==
    /\ ~done
    /\ signed = ledger
    /\ verdict' \in {"trust", "reject", "needs_more_evidence"}
    /\ CoverageRequired \/ verdict' \in {"trust", "reject"} => Pending = {}
    /\ UNCHANGED <<ledger, signed, done>>

Finish ==
    /\ ~done
    /\ done' = TRUE
    /\ UNCHANGED <<ledger, signed, verdict>>

Next == Raise \/ Investigate \/ SignOff \/ Decide \/ Finish

Spec == Init /\ [][Next]_abstractVars
=============================================================================
