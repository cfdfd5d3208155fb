----------------------------- MODULE ClaimLedger -----------------------------
(***************************************************************************)
(* The claim ledger of a verification run (verifier/agentic/ledger.py).    *)
(*                                                                         *)
(* The Skeptic records claims about possible bugs, the Experimenter        *)
(* attaches evidence to them and settles their status.  A ledger is a      *)
(* value here: the sequence of claims in the order they were recorded, so  *)
(* the claim the code names "c<n>" is the n-th element.  The operators     *)
(* below are the guard and the effect of each ledger method; ToolRegistry  *)
(* builds the actions out of them.                                         *)
(***************************************************************************)
EXTENDS Naturals, Sequences

ClaimStatus == {"open", "confirmed", "rebutted", "inconclusive"}

(* The statuses evidence may support: every one but "open". *)
Settled == ClaimStatus \ {"open"}

ClaimScope == {"in_scope", "out_of_scope", "unknown"}

(* Tool events are named by their position; 0 stands for "no tool event". *)
NoEvent == 0

Evidence == [supports : Settled, event : Nat]

(***************************************************************************)
(* benchmark abstracts the claim's scope_evidence: TRUE when one of its    *)
(* sources names a benchmark artifact (test.py, get_inputs, meta.json...). *)
(***************************************************************************)
Claim == [status    : ClaimStatus,
          scope     : ClaimScope,
          benchmark : BOOLEAN,
          evidence  : Seq(Evidence)]

Ledger == Seq(Claim)

OpenClaims(ledger) == {c \in DOMAIN ledger : ledger[c].status = "open"}

RecordClaim(ledger, scope, benchmark) ==
    Append(ledger, [status    |-> "open",
                    scope     |-> scope,
                    benchmark |-> benchmark,
                    evidence  |-> <<>>])

(* The event a piece of evidence cites is the caller's word: nothing checks it. *)
AppendEvidence(ledger, c, supports, event) ==
    [ledger EXCEPT ![c].evidence =
        Append(@, [supports |-> supports, event |-> event])]

(* Mutant: every change of status is taken for a valid one. *)
AnyTransition(current, next) == current # next

ValidTransition(current, next) ==
    \/ current = "open"
    \/ next = "inconclusive"
    \/ current = "inconclusive" /\ next \in {"confirmed", "rebutted"}

Supported(claim, status) ==
    \E i \in DOMAIN claim.evidence : claim.evidence[i].supports = status

(* Mutant: a status needs no evidence that supports it. *)
MayUpdateUnsupported(ledger, c, status) ==
    \/ ledger[c].status = status
    \/ ValidTransition(ledger[c].status, status)

(* update_claim_status returns without an error. *)
MayUpdateStatus(ledger, c, status) ==
    \/ ledger[c].status = status
    \/ /\ ValidTransition(ledger[c].status, status)
       /\ status = "open" \/ Supported(ledger[c], status)

UpdateClaimStatus(ledger, c, status) ==
    [ledger EXCEPT ![c].status = status]

(* The tool events some piece of evidence cites. *)
CitedBy(ledger) ==
    {e \in UNION {{ledger[c].evidence[i].event : i \in DOMAIN ledger[c].evidence} :
                     c \in DOMAIN ledger} : e # NoEvent}
=============================================================================
