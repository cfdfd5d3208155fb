------------------------- MODULE ToolRegistryProofs -------------------------
(***************************************************************************)
(* What holds of the run state for any agents, any number of claims,       *)
(* events and turns, and any limits: ToolRegistry's invariants, proved.    *)
(***************************************************************************)
EXTENDS ToolRegistry, FiniteSetTheorems, SequenceTheorems, TLAPS

(* The ledger's methods turn ledgers into ledgers. *)
LEMMA RecordClaimLedger ==
    ASSUME NEW ledger \in Ledger, NEW scope \in ClaimScope, NEW benchmark \in BOOLEAN
    PROVE  RecordClaim(ledger, scope, benchmark) \in Ledger
  BY DEF Ledger, RecordClaim, Claim, ClaimStatus

(* Evidence appended to a claim of a ledger gives a ledger. *)
LEMMA AppendEvidenceLedger ==
    ASSUME NEW ledger \in Ledger, NEW c \in DOMAIN ledger,
           NEW supports \in Settled, NEW event \in Nat
    PROVE  AppendEvidence(ledger, c, supports, event) \in Ledger
<1>1. ledger[c] \in Claim
  BY ElementOfSeq DEF Ledger
<1>2. Append(ledger[c].evidence, [supports |-> supports, event |-> event]) \in Seq(Evidence)
  BY <1>1, AppendProperties DEF Claim, Evidence
<1>3. [ledger[c] EXCEPT !.evidence =
          Append(@, [supports |-> supports, event |-> event])] \in Claim
  BY <1>1, <1>2 DEF Claim
<1> QED BY <1>3, ExceptSeq DEF Ledger, AppendEvidence

(* A status of ClaimStatus stored in a claim of a ledger gives a ledger. *)
LEMMA UpdateClaimStatusLedger ==
    ASSUME NEW ledger \in Ledger, NEW c \in DOMAIN ledger, NEW status \in ClaimStatus
    PROVE  UpdateClaimStatus(ledger, c, status) \in Ledger
<1>1. ledger[c] \in Claim
  BY ElementOfSeq DEF Ledger
<1>2. [ledger[c] EXCEPT !.status = status] \in Claim
  BY <1>1 DEF Claim
<1> QED BY <1>2, ExceptSeq DEF Ledger, UpdateClaimStatus
-----------------------------------------------------------------------------
(***************************************************************************)
(* Type correctness.  A finalized probe changes the claim its event names, *)
(* so the types are preserved only because events name claims that exist.  *)
(***************************************************************************)
ProbesNameClaims ==
    \A i \in DOMAIN toolEvents : toolEvents[i].claim \in 0..Len(claims)

TypeInv == TypeOK /\ ProbesNameClaims

USE DEF NoEvent

(* The fresh run is well typed and has no probe event. *)
LEMMA InitType == Init => TypeInv
  BY InputsAssumption, EmptySeq
  DEF TypeInv, ProbesNameClaims, Init, TypeOK, Ledger, Review, Verdict, Convergence, Roles

(* Every attempted call leaves the log, the counters and the role well typed. *)
LEMMA AttemptType ==
    ASSUME TypeOK, NEW tool \in ToolNames, NEW ok \in BOOLEAN, NEW claim \in Nat,
           Attempt(tool, ok, claim)
    PROVE  /\ toolEvents' \in Seq(ToolEvent)
           /\ turnRole' \in Roles
           /\ turnCalls' \in [LimitedTools -> Nat]
<1>1. [tool |-> tool, ok |-> ok, claim |-> claim] \in ToolEvent
  BY DEF ToolEvent
<1>2. toolEvents' \in Seq(ToolEvent)
  BY <1>1, AppendProperties DEF TypeOK, Attempt
<1>3. turnCalls' \in [LimitedTools -> Nat]
  BY DEF TypeOK, Attempt
<1> QED BY <1>2, <1>3 DEF TypeOK, Attempt

(* No tool call, successful or not, breaks the type of any part of the run state. *)
LEMMA ToolCallType == TypeInv /\ ToolCall => TypeOK'
<1> SUFFICES ASSUME TypeOK, ProbesNameClaims, ToolCall
             PROVE  TypeOK'
  BY DEF TypeInv
<1>tools. {"load_artifact", "read", "retrieve_experiment_history", "run_python_probe",
           "record_claim", "append_evidence", "update_claim_status",
           "record_no_new_claims", "run_claim_probe", "finalize_probe_evidence",
           "request_description", "record_description_update",
           "request_more_debate", "record_verdict"} \subseteq ToolNames
  BY DEF ToolNames, AllowedRoles
<1>nat. /\ 0 \in Nat
        /\ \A c \in DOMAIN claims : c \in Nat
        /\ \A e \in DOMAIN toolEvents : toolEvents[e] \in ToolEvent
  BY LenProperties, ElementOfSeq DEF TypeOK, Ledger
<1>1. ASSUME NEW t \in ToolNames, RejectedCall(t)
      PROVE  TypeOK'
  BY <1>1, <1>nat, AttemptType DEF RejectedCall, TypeOK
<1>2. ASSUME NEW t \in ToolNames, ObservingCall(t)
      PROVE  TypeOK'
  BY <1>2, <1>nat, AttemptType DEF ObservingCall, Succeed, TypeOK
<1>3. ASSUME NEW k \in ClaimKinds, RecordClaimCall(k[1], k[2])
      PROVE  TypeOK'
  <2>1. k[1] \in ClaimScope /\ k[2] \in BOOLEAN
    BY InputsAssumption
  <2>2. claims' \in Ledger
    BY <1>3, <2>1, RecordClaimLedger DEF RecordClaimCall, TypeOK
  <2> QED BY <1>3, <2>2, <1>nat, <1>tools, AttemptType DEF RecordClaimCall, Succeed, TypeOK
<1>4. ASSUME NEW c \in DOMAIN claims, NEW s \in Settled, NEW e \in CitedEvents,
             AppendEvidenceCall(c, s, e)
      PROVE  TypeOK'
  <2>1. claims' \in Ledger
    BY <1>4, InputsAssumption, AppendEvidenceLedger DEF AppendEvidenceCall, TypeOK
  <2> QED BY <1>4, <2>1, <1>nat, <1>tools, AttemptType DEF AppendEvidenceCall, Succeed, TypeOK
<1>5. ASSUME NEW c \in DOMAIN claims, NEW s \in ClaimStatus, UpdateClaimStatusCall(c, s)
      PROVE  TypeOK'
  <2>1. claims' \in Ledger
    BY <1>5, UpdateClaimStatusLedger DEF UpdateClaimStatusCall, TypeOK
  <2> QED BY <1>5, <2>1, <1>nat, <1>tools, AttemptType DEF UpdateClaimStatusCall, Succeed, TypeOK
<1>6. ASSUME RecordNoNewClaims
      PROVE  TypeOK'
  <2>1. skepticReview' \in Review
    BY <1>6, LenProperties
    DEF RecordNoNewClaims, TypeOK, Review, Description, DescriptionSignature
  <2> QED BY <1>6, <2>1, <1>nat, <1>tools, AttemptType DEF RecordNoNewClaims, Succeed, TypeOK
<1>7. ASSUME NEW c \in DOMAIN claims, RunClaimProbe(c)
      PROVE  TypeOK'
  BY <1>7, <1>nat, <1>tools, AttemptType DEF RunClaimProbe, TypeOK
<1>8. ASSUME NEW e \in DOMAIN toolEvents, NEW s \in Settled, NEW st \in ClaimStatus,
             FinalizeProbeEvidence(e, s, st)
      PROVE  TypeOK'
  <2> DEFINE c == toolEvents[e].claim
             withEvidence == AppendEvidence(claims, c, s, e)
             settles == MayUpdateStatus(withEvidence, c, st)
  <2>1. c \in DOMAIN claims /\ e \in Nat
    BY <1>8, LenProperties
    DEF FinalizeProbeEvidence, UnconsumedProbes, ProbesNameClaims, TypeOK, Ledger
  <2>2. withEvidence \in Ledger /\ c \in DOMAIN withEvidence
    BY <2>1, AppendEvidenceLedger DEF TypeOK, AppendEvidence
  <2>3. UpdateClaimStatus(withEvidence, c, st) \in Ledger
    BY <2>2, UpdateClaimStatusLedger
  <2>4. claims' \in Ledger
    BY <1>8, <2>2, <2>3 DEF FinalizeProbeEvidence
  <2>5. settles \in BOOLEAN /\ Attempt("finalize_probe_evidence", settles, 0)
    BY <1>8 DEF FinalizeProbeEvidence, MayUpdateStatus
  <2> QED BY <1>8, <2>4, <2>5, <1>nat, <1>tools, AttemptType DEF FinalizeProbeEvidence, TypeOK
<1>9. ASSUME RequestDescription
      PROVE  TypeOK'
  <2>1. descriptionTasks' \in Seq({"open", "resolved"})
    BY <1>9, AppendProperties DEF RequestDescription, TypeOK
  <2> QED BY <1>9, <2>1, <1>nat, <1>tools, AttemptType DEF RequestDescription, Succeed, TypeOK
<1>10. ASSUME NEW ds \in SUBSET DOMAIN descriptionTasks, NEW known \in BOOLEAN,
              RecordDescriptionUpdate(ds, known)
       PROVE  TypeOK'
  <2>1. descriptionTasks' \in Seq({"open", "resolved"})
    BY <1>10, LenProperties, IsASeq, SMTT(30) DEF RecordDescriptionUpdate, TypeOK
  <2> QED BY <1>10, <2>1, <1>nat, <1>tools, AttemptType DEF RecordDescriptionUpdate, TypeOK
<1>11. ASSUME RequestMoreDebate
       PROVE  TypeOK'
  BY <1>11, <1>nat, <1>tools, AttemptType DEF RequestMoreDebate, Succeed, TypeOK, Convergence
<1>12. ASSUME NEW v \in Verdicts, NEW cs \in SUBSET DOMAIN claims, RecordVerdict(v, cs)
       PROVE  TypeOK'
  <2>1. verdict' \in Verdict
    BY <1>12, <1>nat DEF RecordVerdict, Verdict
  <2> QED BY <1>12, <2>1, <1>nat, <1>tools, AttemptType
          DEF RecordVerdict, Succeed, TypeOK, Convergence
<1> QED
  BY <1>1, <1>2, <1>3, <1>4, <1>5, <1>6, <1>7, <1>8, <1>9, <1>10, <1>11, <1>12 DEF ToolCall

-----------------------------------------------------------------------------
(***************************************************************************)
(* The ways one tool call changes the ledger.  Every property of claims is *)
(* proved over these four cases and no longer over the calls.              *)
(***************************************************************************)
ClaimAdded(old, new) ==
    \E scope \in ClaimScope, benchmark \in BOOLEAN :
        new = RecordClaim(old, scope, benchmark)

EvidenceAdded(old, new) ==
    \E c \in DOMAIN old, supports \in Settled, event \in Nat :
        new = AppendEvidence(old, c, supports, event)

StatusUpdated(old, new) ==
    \E c \in DOMAIN old, status \in ClaimStatus :
        MayUpdateStatus(old, c, status) /\ new = UpdateClaimStatus(old, c, status)

EvidenceThenStatus(old, new) ==
    \E mid \in Ledger : EvidenceAdded(old, mid) /\ StatusUpdated(mid, new)

LedgerStep(old, new) ==
    \/ new = old
    \/ ClaimAdded(old, new)
    \/ EvidenceAdded(old, new)
    \/ StatusUpdated(old, new)
    \/ EvidenceThenStatus(old, new)

(* Every tool call changes the ledger by one of the ledger's methods, by two
   of them in finalize_probe_evidence, or not at all. *)
LEMMA ToolCallLedgerStep == TypeInv /\ ToolCall => LedgerStep(claims, claims')
<1> SUFFICES ASSUME TypeOK, ProbesNameClaims, ToolCall
             PROVE  LedgerStep(claims, claims')
  BY DEF TypeInv
<1>1. ASSUME NEW t \in ToolNames, RejectedCall(t) \/ ObservingCall(t)
      PROVE  claims' = claims
  BY <1>1 DEF RejectedCall, ObservingCall
<1>2. ASSUME NEW k \in ClaimKinds, RecordClaimCall(k[1], k[2])
      PROVE  ClaimAdded(claims, claims')
  BY <1>2, InputsAssumption DEF RecordClaimCall, ClaimAdded
<1>3. ASSUME NEW c \in DOMAIN claims, NEW s \in Settled, NEW e \in CitedEvents,
             AppendEvidenceCall(c, s, e)
      PROVE  EvidenceAdded(claims, claims')
  BY <1>3, InputsAssumption DEF AppendEvidenceCall, EvidenceAdded
<1>4. ASSUME NEW c \in DOMAIN claims, NEW s \in ClaimStatus, UpdateClaimStatusCall(c, s)
      PROVE  StatusUpdated(claims, claims')
  BY <1>4 DEF UpdateClaimStatusCall, StatusUpdated
<1>5. ASSUME RecordNoNewClaims
      PROVE  claims' = claims
  BY <1>5 DEF RecordNoNewClaims
<1>6. ASSUME NEW c \in DOMAIN claims, RunClaimProbe(c)
      PROVE  claims' = claims
  BY <1>6 DEF RunClaimProbe
<1>7. ASSUME NEW e \in DOMAIN toolEvents, NEW s \in Settled, NEW st \in ClaimStatus,
             FinalizeProbeEvidence(e, s, st)
      PROVE  LedgerStep(claims, claims')
  <2> DEFINE c == toolEvents[e].claim
             withEvidence == AppendEvidence(claims, c, s, e)
  <2>1. c \in DOMAIN claims /\ e \in Nat
    BY <1>7, LenProperties
    DEF FinalizeProbeEvidence, UnconsumedProbes, ProbesNameClaims, TypeOK, Ledger
  <2>2. withEvidence \in Ledger /\ c \in DOMAIN withEvidence
    BY <2>1, AppendEvidenceLedger DEF TypeOK, AppendEvidence
  <2>3. EvidenceAdded(claims, withEvidence)
    BY <2>1 DEF EvidenceAdded
  <2>4. CASE MayUpdateStatus(withEvidence, c, st)
    <3>1. StatusUpdated(withEvidence, UpdateClaimStatus(withEvidence, c, st))
      BY <2>2, <2>4 DEF StatusUpdated
    <3>2. claims' = UpdateClaimStatus(withEvidence, c, st)
      BY <1>7, <2>4 DEF FinalizeProbeEvidence
    <3> QED BY <2>2, <2>3, <3>1, <3>2 DEF LedgerStep, EvidenceThenStatus
  <2>5. CASE ~MayUpdateStatus(withEvidence, c, st)
    BY <1>7, <2>3, <2>5 DEF FinalizeProbeEvidence, LedgerStep
  <2> QED BY <2>4, <2>5
<1>8. ASSUME \/ RequestDescription
             \/ \E ds \in SUBSET DOMAIN descriptionTasks, known \in BOOLEAN :
                   RecordDescriptionUpdate(ds, known)
             \/ RequestMoreDebate
             \/ \E v \in Verdicts, cs \in SUBSET DOMAIN claims : RecordVerdict(v, cs)
      PROVE  claims' = claims
  BY <1>8 DEF RequestDescription, RecordDescriptionUpdate, RequestMoreDebate, RecordVerdict
<1> QED
  BY <1>1, <1>2, <1>3, <1>4, <1>5, <1>6, <1>7, <1>8 DEF ToolCall, LedgerStep

(***************************************************************************)
(* What an update of one claim leaves of the others and of itself.         *)
(***************************************************************************)
LEMMA RecordClaimEffect ==
    ASSUME NEW ledger \in Ledger, NEW scope \in ClaimScope, NEW benchmark \in BOOLEAN
    PROVE  LET new == RecordClaim(ledger, scope, benchmark)
           IN  /\ Len(new) = Len(ledger) + 1
               /\ DOMAIN new = 1..Len(new)
               /\ \A c \in DOMAIN ledger : c \in DOMAIN new /\ new[c] = ledger[c]
               /\ new[Len(new)].status = "open"
<1> DEFINE claim == [status |-> "open", scope |-> scope, benchmark |-> benchmark,
                     evidence |-> <<>>]
<1>1. claim \in Claim
  BY EmptySeq DEF Claim, ClaimStatus
<1> QED BY <1>1, AppendProperties, LenProperties DEF Ledger, RecordClaim

(* append_evidence lengthens the evidence of one claim and touches no other. *)
LEMMA AppendEvidenceEffect ==
    ASSUME NEW ledger \in Ledger, NEW c \in DOMAIN ledger,
           NEW supports \in Settled, NEW event \in Nat
    PROVE  LET new == AppendEvidence(ledger, c, supports, event)
           IN  /\ Len(new) = Len(ledger)
               /\ DOMAIN new = DOMAIN ledger
               /\ \A d \in DOMAIN ledger \ {c} : new[d] = ledger[d]
               /\ new[c].status = ledger[c].status
               /\ new[c].evidence = Append(ledger[c].evidence,
                                           [supports |-> supports, event |-> event])
<1>1. ledger[c] \in Claim
  BY ElementOfSeq DEF Ledger
<1>2. AppendEvidence(ledger, c, supports, event) \in Ledger
  BY AppendEvidenceLedger
<1>3. DOMAIN AppendEvidence(ledger, c, supports, event) = DOMAIN ledger
  BY DEF AppendEvidence
<1>4. Len(AppendEvidence(ledger, c, supports, event)) = Len(ledger)
  BY <1>2, <1>3, LenProperties DEF Ledger
<1> QED BY <1>1, <1>3, <1>4 DEF AppendEvidence, Claim

(* update_claim_status changes the status of one claim and touches no other. *)
LEMMA UpdateClaimStatusEffect ==
    ASSUME NEW ledger \in Ledger, NEW c \in DOMAIN ledger, NEW status \in ClaimStatus
    PROVE  LET new == UpdateClaimStatus(ledger, c, status)
           IN  /\ Len(new) = Len(ledger)
               /\ DOMAIN new = DOMAIN ledger
               /\ \A d \in DOMAIN ledger \ {c} : new[d] = ledger[d]
               /\ new[c].status = status
               /\ new[c].evidence = ledger[c].evidence
<1>1. ledger[c] \in Claim
  BY ElementOfSeq DEF Ledger
<1>2. UpdateClaimStatus(ledger, c, status) \in Ledger
  BY UpdateClaimStatusLedger
<1>3. DOMAIN UpdateClaimStatus(ledger, c, status) = DOMAIN ledger
  BY DEF UpdateClaimStatus
<1>4. Len(UpdateClaimStatus(ledger, c, status)) = Len(ledger)
  BY <1>2, <1>3, LenProperties DEF Ledger
<1> QED BY <1>1, <1>3, <1>4 DEF UpdateClaimStatus, Claim

(* No call shortens the ledger. *)
LEMMA LedgerStepGrows ==
    ASSUME NEW old \in Ledger, NEW new, LedgerStep(old, new)
    PROVE  Len(old) \in Nat /\ Len(new) \in Nat /\ Len(new) >= Len(old)
<1>1. Len(old) \in Nat
  BY LenProperties DEF Ledger
<1>2. ASSUME NEW mid, EvidenceAdded(old, mid)
      PROVE  Len(mid) = Len(old)
  <2>1. PICK c \in DOMAIN old, supports \in Settled, event \in Nat :
               mid = AppendEvidence(old, c, supports, event)
    BY <1>2 DEF EvidenceAdded
  <2> QED BY <2>1, AppendEvidenceEffect
<1>3. ASSUME NEW mid \in Ledger, StatusUpdated(mid, new)
      PROVE  Len(new) = Len(mid)
  <2>1. PICK c \in DOMAIN mid, status \in ClaimStatus :
               new = UpdateClaimStatus(mid, c, status)
    BY <1>3 DEF StatusUpdated
  <2> QED BY <2>1, UpdateClaimStatusEffect
<1>4. ASSUME ClaimAdded(old, new)
      PROVE  Len(new) = Len(old) + 1
  BY <1>4, RecordClaimEffect DEF ClaimAdded
<1> QED BY <1>1, <1>2, <1>3, <1>4 DEF LedgerStep, EvidenceThenStatus

(* Every call logs one event, and the claim it names exists when it is logged. *)
LEMMA ToolCallAppends ==
    ASSUME TypeInv, ToolCall
    PROVE  \E tool \in ToolNames, ok \in BOOLEAN, claim \in {0} \cup DOMAIN claims :
              Attempt(tool, ok, claim)
<1>1. ASSUME NEW t \in ToolNames, RejectedCall(t) \/ ObservingCall(t)
      PROVE  \E ok \in BOOLEAN : Attempt(t, ok, 0)
  BY <1>1 DEF RejectedCall, ObservingCall, Succeed
<1>2. ASSUME NEW k \in ClaimKinds, RecordClaimCall(k[1], k[2])
      PROVE  Attempt("record_claim", TRUE, 0)
  BY <1>2 DEF RecordClaimCall, Succeed
<1>3. ASSUME NEW c \in DOMAIN claims, NEW s \in Settled, NEW e \in CitedEvents,
             AppendEvidenceCall(c, s, e)
      PROVE  Attempt("append_evidence", TRUE, 0)
  BY <1>3 DEF AppendEvidenceCall, Succeed
<1>4. ASSUME NEW c \in DOMAIN claims, NEW s \in ClaimStatus, UpdateClaimStatusCall(c, s)
      PROVE  Attempt("update_claim_status", TRUE, 0)
  BY <1>4 DEF UpdateClaimStatusCall, Succeed
<1>5. ASSUME RecordNoNewClaims
      PROVE  Attempt("record_no_new_claims", TRUE, 0)
  BY <1>5 DEF RecordNoNewClaims, Succeed
<1>6. ASSUME NEW c \in DOMAIN claims, RunClaimProbe(c)
      PROVE  Attempt("run_claim_probe", TRUE, c)
  BY <1>6 DEF RunClaimProbe
<1>7. ASSUME NEW e \in DOMAIN toolEvents, NEW s \in Settled, NEW st \in ClaimStatus,
             FinalizeProbeEvidence(e, s, st)
      PROVE  \E ok \in BOOLEAN : Attempt("finalize_probe_evidence", ok, 0)
  <2>1. MayUpdateStatus(AppendEvidence(claims, toolEvents[e].claim, s, e),
                        toolEvents[e].claim, st) \in BOOLEAN
    BY DEF MayUpdateStatus
  <2> QED BY <1>7, <2>1 DEF FinalizeProbeEvidence
<1>8. ASSUME RequestDescription
      PROVE  Attempt("request_description", TRUE, 0)
  BY <1>8 DEF RequestDescription, Succeed
<1>9. ASSUME NEW ds \in SUBSET DOMAIN descriptionTasks, NEW known \in BOOLEAN,
             RecordDescriptionUpdate(ds, known)
      PROVE  Attempt("record_description_update", known, 0)
  BY <1>9 DEF RecordDescriptionUpdate
<1>10. ASSUME RequestMoreDebate
       PROVE  Attempt("request_more_debate", TRUE, 0)
  BY <1>10 DEF RequestMoreDebate, Succeed
<1>11. ASSUME NEW v \in Verdicts, NEW cs \in SUBSET DOMAIN claims, RecordVerdict(v, cs)
       PROVE  Attempt("record_verdict", TRUE, 0)
  BY <1>11 DEF RecordVerdict, Succeed
<1>tools. {"record_claim", "append_evidence", "update_claim_status",
           "record_no_new_claims", "run_claim_probe", "finalize_probe_evidence",
           "request_description", "record_description_update",
           "request_more_debate", "record_verdict"} \subseteq ToolNames
  BY DEF ToolNames, AllowedRoles
<1>a. CASE \E t \in ToolNames : RejectedCall(t) \/ ObservingCall(t)
  BY <1>1, <1>a
<1>b. CASE \E k \in ClaimKinds : RecordClaimCall(k[1], k[2])
  BY <1>2, <1>b, <1>tools
<1>c. CASE \E c \in DOMAIN claims, s \in Settled, e \in CitedEvents : AppendEvidenceCall(c, s, e)
  BY <1>3, <1>c, <1>tools
<1>d. CASE \E c \in DOMAIN claims, s \in ClaimStatus : UpdateClaimStatusCall(c, s)
  BY <1>4, <1>d, <1>tools
<1>e. CASE RecordNoNewClaims
  BY <1>5, <1>e, <1>tools
<1>f. CASE \E c \in DOMAIN claims : RunClaimProbe(c)
  BY <1>6, <1>f, <1>tools
<1>g. CASE \E e \in DOMAIN toolEvents, s \in Settled, st \in ClaimStatus :
              FinalizeProbeEvidence(e, s, st)
  BY <1>7, <1>g, <1>tools
<1>h. CASE RequestDescription
  BY <1>8, <1>h, <1>tools
<1>i. CASE \E ds \in SUBSET DOMAIN descriptionTasks, known \in BOOLEAN :
              RecordDescriptionUpdate(ds, known)
  BY <1>9, <1>i, <1>tools
<1>j. CASE RequestMoreDebate
  BY <1>10, <1>j, <1>tools
<1>k. CASE \E v \in Verdicts, cs \in SUBSET DOMAIN claims : RecordVerdict(v, cs)
  BY <1>11, <1>k, <1>tools
<1> QED
  BY <1>a, <1>b, <1>c, <1>d, <1>e, <1>f, <1>g, <1>h, <1>i, <1>j, <1>k DEF ToolCall

(* Types survive every step, and a probe event goes on naming a claim that exists. *)
LEMMA TypeStep == TypeInv /\ [Next]_vars => TypeInv'
<1> SUFFICES ASSUME TypeInv, [Next]_vars
             PROVE  TypeInv'
  OBVIOUS
<1>1. CASE ToolCall
  <2>1. TypeOK'
    BY <1>1, ToolCallType
  <2>2. Len(claims) \in Nat /\ Len(claims') \in Nat /\ Len(claims') >= Len(claims)
    BY <1>1, ToolCallLedgerStep, LedgerStepGrows DEF TypeInv, TypeOK
  <2>3. PICK tool \in ToolNames, ok \in BOOLEAN, claim \in {0} \cup DOMAIN claims :
               Attempt(tool, ok, claim)
    BY <1>1, ToolCallAppends
  <2> DEFINE event == [tool |-> tool, ok |-> ok, claim |-> claim]
  <2>4. claim \in 0..Len(claims)
    BY <2>2, LenProperties DEF TypeInv, TypeOK, Ledger
  <2>5. event \in ToolEvent
    BY <2>2, <2>4 DEF ToolEvent
  <2>6. /\ DOMAIN toolEvents' = 1..(Len(toolEvents) + 1)
        /\ \A i \in 1..Len(toolEvents) : toolEvents'[i] = toolEvents[i]
        /\ toolEvents'[Len(toolEvents) + 1] = event
    BY <2>3, <2>5, AppendProperties, LenProperties DEF Attempt, TypeInv, TypeOK
  <2>7. DOMAIN toolEvents = 1..Len(toolEvents) /\ Len(toolEvents) \in Nat
    BY LenProperties DEF TypeInv, TypeOK
  <2>8. ProbesNameClaims'
    BY <2>2, <2>4, <2>6, <2>7 DEF TypeInv, ProbesNameClaims
  <2> QED BY <2>1, <2>8 DEF TypeInv
<1>2. CASE BetweenCalls
  <2>1. turnRole' \in Roles /\ turnCalls' \in [LimitedTools -> Nat]
    BY <1>2 DEF TypeInv, TypeOK, BetweenCalls, TakeTurn, turn, Roles
  <2>2. convergence' \in Convergence
    BY <1>2 DEF TypeInv, TypeOK, BetweenCalls, Convergence
  <2> QED BY <1>2, <2>1, <2>2 DEF TypeInv, TypeOK, ProbesNameClaims, BetweenCalls
<1>3. CASE UNCHANGED vars
  BY <1>3 DEF TypeInv, TypeOK, ProbesNameClaims, vars, runState, turn
<1> QED BY <1>1, <1>2, <1>3 DEF Next

(***************************************************************************)
(* Whatever calls the agents make, refused, failed half-way or complete,   *)
(* in whatever order, every part of the run state keeps its type, and each *)
(* probe result names a claim of the ledger.                               *)
(***************************************************************************)
THEOREM TypeCorrect == Spec => [](TypeOK /\ ProbesNameClaims)
<1>1. Init => TypeInv
  BY InitType
<1>2. TypeInv /\ [Next]_vars => TypeInv'
  BY TypeStep
<1>3. TypeInv => TypeOK /\ ProbesNameClaims
  BY DEF TypeInv
<1> QED BY <1>1, <1>2, <1>3, PTL DEF Spec

-----------------------------------------------------------------------------
(* Settled claims are supported. *)

LedgerSupported(ledger) ==
    \A c \in DOMAIN ledger :
        ledger[c].status # "open" => Supported(ledger[c], ledger[c].status)

(* A new claim is open, so the evidence rule asks nothing of it. *)
LEMMA RecordClaimSupported ==
    ASSUME NEW old \in Ledger, NEW new, ClaimAdded(old, new), LedgerSupported(old)
    PROVE  LedgerSupported(new)
<1>1. PICK scope \in ClaimScope, benchmark \in BOOLEAN :
             new = RecordClaim(old, scope, benchmark)
  BY DEF ClaimAdded
<1>2. DOMAIN old = 1..Len(old) /\ Len(old) \in Nat
  BY LenProperties DEF Ledger
<1>3. /\ DOMAIN new = 1..(Len(old) + 1)
      /\ \A c \in DOMAIN old : new[c] = old[c]
      /\ new[Len(old) + 1].status = "open"
  BY <1>1, RecordClaimEffect
<1>4. ASSUME NEW c \in DOMAIN new, new[c].status # "open"
      PROVE  c \in DOMAIN old /\ new[c] = old[c]
  BY <1>2, <1>3, <1>4
<1> QED BY <1>4 DEF LedgerSupported

(* More evidence takes no support away from a status. *)
LEMMA AppendEvidenceSupported ==
    ASSUME NEW old \in Ledger, NEW new, EvidenceAdded(old, new), LedgerSupported(old)
    PROVE  LedgerSupported(new)
<1>1. PICK c \in DOMAIN old, supports \in Settled, event \in Nat :
             new = AppendEvidence(old, c, supports, event)
  BY DEF EvidenceAdded
<1> DEFINE added == [supports |-> supports, event |-> event]
<1>2. /\ DOMAIN new = DOMAIN old
      /\ \A d \in DOMAIN old \ {c} : new[d] = old[d]
      /\ new[c].status = old[c].status
      /\ new[c].evidence = Append(old[c].evidence, added)
  BY <1>1, AppendEvidenceEffect
<1>3. old[c].evidence \in Seq(Evidence) /\ added \in Evidence
  <2>1. old[c] \in Claim
    BY ElementOfSeq DEF Ledger
  <2> QED BY <2>1 DEF Claim, Evidence
<1>4. ASSUME NEW i \in DOMAIN old[c].evidence
      PROVE  /\ i \in DOMAIN new[c].evidence
             /\ new[c].evidence[i] = old[c].evidence[i]
  BY <1>2, <1>3, AppendProperties, LenProperties
<1>5. ASSUME NEW d \in DOMAIN new, new[d].status # "open"
      PROVE  Supported(new[d], new[d].status)
  <2>1. CASE d = c
    BY <2>1, <1>2, <1>4, <1>5 DEF LedgerSupported, Supported
  <2>2. CASE d # c
    BY <2>2, <1>2, <1>5 DEF LedgerSupported
  <2> QED BY <2>1, <2>2
<1> QED BY <1>5 DEF LedgerSupported

(* update_claim_status moves a claim only where its evidence supports it. *)
LEMMA UpdateClaimStatusSupported ==
    ASSUME NEW old \in Ledger, NEW new, StatusUpdated(old, new), LedgerSupported(old)
    PROVE  LedgerSupported(new)
<1>1. PICK c \in DOMAIN old, status \in ClaimStatus :
             MayUpdateStatus(old, c, status) /\ new = UpdateClaimStatus(old, c, status)
  BY DEF StatusUpdated
<1>2. /\ DOMAIN new = DOMAIN old
      /\ \A d \in DOMAIN old \ {c} : new[d] = old[d]
      /\ new[c].status = status
      /\ new[c].evidence = old[c].evidence
  BY <1>1, UpdateClaimStatusEffect
<1>3. ASSUME NEW d \in DOMAIN new, new[d].status # "open"
      PROVE  Supported(new[d], new[d].status)
  <2>1. CASE d = c
    <3>1. status # "open"
      BY <2>1, <1>2, <1>3
    <3>2. Supported(old[c], status)
      BY <3>1, <1>1 DEF MayUpdateStatus, LedgerSupported
    <3> QED BY <3>2, <2>1, <1>2 DEF Supported
  <2>2. CASE d # c
    BY <2>2, <1>2, <1>3 DEF LedgerSupported
  <2> QED BY <2>1, <2>2
<1> QED BY <1>3 DEF LedgerSupported

(* Every kind of ledger change keeps the evidence rule. *)
LEMMA LedgerStepSupported ==
    ASSUME NEW old \in Ledger, NEW new, LedgerStep(old, new), LedgerSupported(old)
    PROVE  LedgerSupported(new)
<1>1. CASE EvidenceThenStatus(old, new)
  <2>1. PICK mid \in Ledger : EvidenceAdded(old, mid) /\ StatusUpdated(mid, new)
    BY <1>1 DEF EvidenceThenStatus
  <2> QED BY <2>1, AppendEvidenceSupported, UpdateClaimStatusSupported
<1> QED
  BY <1>1, RecordClaimSupported, AppendEvidenceSupported, UpdateClaimStatusSupported
  DEF LedgerStep

(* The evidence rule survives every step. *)
LEMMA SupportedStep ==
    TypeInv /\ SettledClaimsAreSupported /\ [Next]_vars => SettledClaimsAreSupported'
<1> SUFFICES ASSUME TypeInv, SettledClaimsAreSupported, [Next]_vars
             PROVE  SettledClaimsAreSupported'
  OBVIOUS
<1>1. CASE ToolCall
  <2>1. LedgerSupported(claims)
    BY DEF SettledClaimsAreSupported, LedgerSupported
  <2>2. LedgerSupported(claims')
    BY <1>1, <2>1, ToolCallLedgerStep, LedgerStepSupported DEF TypeInv, TypeOK
  <2> QED BY <2>2 DEF SettledClaimsAreSupported, LedgerSupported
<1>2. CASE UNCHANGED claims
  BY <1>2 DEF SettledClaimsAreSupported
<1> QED BY <1>1, <1>2 DEF Next, BetweenCalls, vars, runState

(***************************************************************************)
(* No sequence of calls settles a claim on evidence it does not have, the  *)
(* calls that fail after appending evidence included.                      *)
(***************************************************************************)
THEOREM SettledClaimsSupported == Spec => []SettledClaimsAreSupported
<1>1. Init => TypeInv /\ SettledClaimsAreSupported
  BY InitType, EmptySeq DEF Init, SettledClaimsAreSupported
<1>2. TypeInv /\ SettledClaimsAreSupported /\ [Next]_vars
         => TypeInv' /\ SettledClaimsAreSupported'
  BY TypeStep, SupportedStep
<1> QED BY <1>1, <1>2, PTL DEF Spec
-----------------------------------------------------------------------------
(* The ledger's history is kept. *)

LedgerKept(old, new) ==
    \A c \in DOMAIN old : c \in DOMAIN new /\ NoSilentReversal(old[c], new[c])

(* A claim left alone has lost and reversed nothing. *)
LEMMA SameClaimKept ==
    ASSUME NEW claim \in Claim
    PROVE  NoSilentReversal(claim, claim)
  BY LenProperties DEF NoSilentReversal, Claim

(* Appending evidence loses and reverses nothing. *)
LEMMA EvidenceKept ==
    ASSUME NEW old \in Ledger, NEW new, EvidenceAdded(old, new)
    PROVE  /\ LedgerKept(old, new)
           /\ DOMAIN new = DOMAIN old
           /\ \A d \in DOMAIN old : new[d].status = old[d].status
<1>1. PICK c \in DOMAIN old, supports \in Settled, event \in Nat :
             new = AppendEvidence(old, c, supports, event)
  BY DEF EvidenceAdded
<1> DEFINE added == [supports |-> supports, event |-> event]
<1>2. /\ DOMAIN new = DOMAIN old
      /\ \A d \in DOMAIN old \ {c} : new[d] = old[d]
      /\ new[c].status = old[c].status
      /\ new[c].evidence = Append(old[c].evidence, added)
  BY <1>1, AppendEvidenceEffect
<1>3. \A d \in DOMAIN old : old[d] \in Claim
  BY ElementOfSeq, LenProperties DEF Ledger
<1>4. old[c].evidence \in Seq(Evidence) /\ added \in Evidence
  BY <1>3 DEF Claim, Evidence
<1>5. NoSilentReversal(old[c], new[c])
  BY <1>2, <1>4, AppendProperties, LenProperties DEF NoSilentReversal
<1> QED BY <1>2, <1>3, <1>5, SameClaimKept DEF LedgerKept

(* A valid transition loses no evidence and is no silent reversal. *)
LEMMA StatusKept ==
    ASSUME NEW old \in Ledger, NEW new, StatusUpdated(old, new)
    PROVE  /\ LedgerKept(old, new)
           /\ DOMAIN new = DOMAIN old
           /\ \A d \in DOMAIN old : new[d].evidence = old[d].evidence
<1>1. PICK c \in DOMAIN old, status \in ClaimStatus :
             MayUpdateStatus(old, c, status) /\ new = UpdateClaimStatus(old, c, status)
  BY DEF StatusUpdated
<1>2. /\ DOMAIN new = DOMAIN old
      /\ \A d \in DOMAIN old \ {c} : new[d] = old[d]
      /\ new[c].status = status
      /\ new[c].evidence = old[c].evidence
  BY <1>1, UpdateClaimStatusEffect
<1>3. \A d \in DOMAIN old : old[d] \in Claim
  BY ElementOfSeq, LenProperties DEF Ledger
<1>4. old[c].evidence \in Seq(Evidence)
  BY <1>3 DEF Claim
<1>5. \/ old[c].status = status
      \/ ValidTransition(old[c].status, status)
  BY <1>1 DEF MayUpdateStatus
<1>6. NoSilentReversal(old[c], new[c])
  BY <1>2, <1>4, <1>5, LenProperties DEF NoSilentReversal, ValidTransition
<1> QED BY <1>2, <1>3, <1>6, SameClaimKept DEF LedgerKept

(* No kind of ledger change loses evidence or reverses a claim silently. *)
LEMMA LedgerStepKept ==
    ASSUME NEW old \in Ledger, NEW new, LedgerStep(old, new)
    PROVE  LedgerKept(old, new)
<1>1. \A d \in DOMAIN old : old[d] \in Claim
  BY ElementOfSeq, LenProperties DEF Ledger
<1>2. CASE new = old
  BY <1>1, <1>2, SameClaimKept DEF LedgerKept
<1>3. CASE ClaimAdded(old, new)
  BY <1>1, <1>3, RecordClaimEffect, SameClaimKept DEF LedgerKept, ClaimAdded
<1>4. CASE EvidenceThenStatus(old, new)
  <2>1. PICK mid \in Ledger : EvidenceAdded(old, mid) /\ StatusUpdated(mid, new)
    BY <1>4 DEF EvidenceThenStatus
  <2>2. ASSUME NEW d \in DOMAIN old
        PROVE  /\ d \in DOMAIN new
               /\ NoSilentReversal(old[d], mid[d])
               /\ NoSilentReversal(mid[d], new[d])
               /\ mid[d].status = old[d].status
               /\ new[d].evidence = mid[d].evidence
    BY <2>1, EvidenceKept, StatusKept DEF LedgerKept
  <2> QED BY <2>2 DEF LedgerKept, NoSilentReversal
<1> QED BY <1>2, <1>3, <1>4, EvidenceKept, StatusKept DEF LedgerStep

(* No step loses evidence or reverses a claim silently. *)
LEMMA HistoryStep ==
    TypeInv /\ [Next]_vars => [LedgerKept(claims, claims')]_vars
<1> SUFFICES ASSUME TypeInv, Next
             PROVE  LedgerKept(claims, claims')
  OBVIOUS
<1>1. CASE ToolCall
  BY <1>1, ToolCallLedgerStep, LedgerStepKept DEF TypeInv, TypeOK
<1>2. CASE BetweenCalls
  BY <1>2, LedgerStepKept DEF BetweenCalls, LedgerStep, TypeInv, TypeOK
<1> QED BY <1>1, <1>2 DEF Next

(***************************************************************************)
(* No single call drops evidence, reopens a claim, or turns confirmed into *)
(* rebutted: a reversal is always visible in the ledger.                   *)
(***************************************************************************)
THEOREM LedgerHistoryIsKept == Spec => LedgerHistoryKept
<1>1. Init => TypeInv
  BY InitType
<1>2. TypeInv /\ [Next]_vars => TypeInv'
  BY TypeStep
<1>3. TypeInv /\ [Next]_vars => [LedgerKept(claims, claims')]_vars
  BY HistoryStep
<1> QED BY <1>1, <1>2, <1>3, PTL DEF Spec, LedgerHistoryKept, LedgerKept

-----------------------------------------------------------------------------
(***************************************************************************)
(* A current review has seen everything.  A call that changes the ledger   *)
(* or the description is logged under a name in StaleTools even if it      *)
(* fails, and behind the point up to which the Skeptic has read the log.   *)
(***************************************************************************)
ReviewBehindLog == skepticReview.count <= Len(toolEvents)

SeenUnchanged == UNCHANGED <<claims, descriptionTasks, descriptionUpdates>>

LoggedAsStale ==
    \E tool \in StaleTools, ok \in BOOLEAN, claim \in Nat : Attempt(tool, ok, claim)

(* A call that changes ledger or description is logged under a name that
   makes the Skeptic's review stale. *)
LEMMA ToolCallIsSeen ==
    ASSUME TypeInv, ToolCall
    PROVE  \/ RecordNoNewClaims
           \/ SeenUnchanged /\ UNCHANGED skepticReview
           \/ LoggedAsStale /\ UNCHANGED skepticReview
<1> DEFINE Goal == \/ SeenUnchanged /\ UNCHANGED skepticReview
                   \/ LoggedAsStale /\ UNCHANGED skepticReview
<1>1. ASSUME NEW t \in ToolNames, RejectedCall(t) \/ ObservingCall(t)
      PROVE  Goal
  BY <1>1 DEF RejectedCall, ObservingCall, SeenUnchanged
<1>2. ASSUME NEW k \in ClaimKinds, RecordClaimCall(k[1], k[2])
      PROVE  Goal
  BY <1>2 DEF RecordClaimCall, Succeed, LoggedAsStale, StaleTools
<1>3. ASSUME NEW c \in DOMAIN claims, NEW s \in Settled, NEW e \in CitedEvents,
             AppendEvidenceCall(c, s, e)
      PROVE  Goal
  BY <1>3 DEF AppendEvidenceCall, Succeed, LoggedAsStale, StaleTools
<1>4. ASSUME NEW c \in DOMAIN claims, NEW s \in ClaimStatus, UpdateClaimStatusCall(c, s)
      PROVE  Goal
  BY <1>4 DEF UpdateClaimStatusCall, Succeed, LoggedAsStale, StaleTools
<1>5. ASSUME NEW c \in DOMAIN claims, RunClaimProbe(c)
      PROVE  Goal
  BY <1>5 DEF RunClaimProbe, SeenUnchanged
<1>6. ASSUME NEW e \in DOMAIN toolEvents, NEW s \in Settled, NEW st \in ClaimStatus,
             FinalizeProbeEvidence(e, s, st)
      PROVE  Goal
  <2>1. MayUpdateStatus(AppendEvidence(claims, toolEvents[e].claim, s, e),
                        toolEvents[e].claim, st) \in BOOLEAN
    BY DEF MayUpdateStatus
  <2> QED BY <1>6, <2>1 DEF FinalizeProbeEvidence, LoggedAsStale, StaleTools
<1>7. ASSUME RequestDescription
      PROVE  Goal
  BY <1>7 DEF RequestDescription, Succeed, LoggedAsStale, StaleTools
<1>8. ASSUME NEW ds \in SUBSET DOMAIN descriptionTasks, NEW known \in BOOLEAN,
             RecordDescriptionUpdate(ds, known)
      PROVE  Goal
  BY <1>8 DEF RecordDescriptionUpdate, LoggedAsStale, StaleTools
<1>9. ASSUME RequestMoreDebate
      PROVE  Goal
  BY <1>9 DEF RequestMoreDebate, SeenUnchanged
<1>10. ASSUME NEW v \in Verdicts, NEW cs \in SUBSET DOMAIN claims, RecordVerdict(v, cs)
       PROVE  Goal
  BY <1>10 DEF RecordVerdict, SeenUnchanged
<1> HIDE DEF Goal
<1>11. RecordNoNewClaims \/ Goal
  BY <1>1, <1>2, <1>3, <1>4, <1>5, <1>6, <1>7, <1>8, <1>9, <1>10 DEF ToolCall
<1> QED BY <1>11 DEF Goal

ReviewInv == TypeInv /\ ReviewBehindLog /\ CurrentReviewSeesAll

(* There is no review in a fresh run. *)
LEMMA ReviewInit == Init => ReviewInv
  BY InitType, EmptySeq
  DEF Init, ReviewInv, ReviewBehindLog, CurrentReviewSeesAll, ReviewCurrent, NoReview

(* A step that changes what a review was about also makes it stale. *)
LEMMA ReviewStep == ReviewInv /\ [Next]_vars => ReviewInv'
<1> SUFFICES ASSUME ReviewInv, [Next]_vars
             PROVE  ReviewBehindLog' /\ CurrentReviewSeesAll'
  BY TypeStep DEF ReviewInv
<1> USE DEF ReviewInv
<1>types. /\ Len(toolEvents) \in Nat
          /\ DOMAIN toolEvents = 1..Len(toolEvents)
          /\ skepticReview.count \in Int
  BY LenProperties DEF TypeInv, TypeOK, Review, NoReview
<1>1. CASE ToolCall
  <2>1. PICK tool \in ToolNames, ok \in BOOLEAN, claim \in {0} \cup DOMAIN claims :
               Attempt(tool, ok, claim)
    BY <1>1, ToolCallAppends
  <2>2. [tool |-> tool, ok |-> ok, claim |-> claim] \in ToolEvent
    BY LenProperties DEF ToolEvent, TypeInv, TypeOK, Ledger
  <2>3. /\ Len(toolEvents') = Len(toolEvents) + 1
        /\ DOMAIN toolEvents' = 1..(Len(toolEvents) + 1)
        /\ \A i \in 1..Len(toolEvents) : toolEvents'[i] = toolEvents[i]
    BY <2>1, <2>2, AppendProperties, LenProperties DEF Attempt, TypeInv, TypeOK
  <2>4. CASE RecordNoNewClaims
    BY <2>3, <2>4, <1>types
    DEF RecordNoNewClaims, ReviewBehindLog, CurrentReviewSeesAll, DescriptionSignature
  <2>5. CASE SeenUnchanged /\ UNCHANGED skepticReview
    <3>1. ReviewCurrent' => ReviewCurrent
      BY <2>3, <2>5, <1>types DEF ReviewCurrent
    <3> QED BY <2>3, <2>5, <3>1, <1>types
            DEF SeenUnchanged, ReviewBehindLog, CurrentReviewSeesAll, DescriptionSignature
  <2>6. CASE LoggedAsStale /\ UNCHANGED skepticReview
    <3>1. PICK stale \in StaleTools, k \in BOOLEAN, n \in Nat : Attempt(stale, k, n)
      BY <2>6 DEF LoggedAsStale
    <3>2. [tool |-> stale, ok |-> k, claim |-> n] \in ToolEvent
      BY DEF ToolEvent, StaleTools, ToolNames, AllowedRoles
    <3>3. toolEvents'[Len(toolEvents) + 1].tool = stale
      BY <3>1, <3>2, AppendProperties DEF Attempt, TypeInv, TypeOK
    <3>4. ~ReviewCurrent'
      BY <2>3, <2>6, <3>3, <1>types DEF ReviewCurrent, ReviewBehindLog
    <3> QED BY <2>3, <2>6, <3>4, <1>types DEF ReviewBehindLog, CurrentReviewSeesAll
  <2> QED BY <1>1, <2>4, <2>5, <2>6, ToolCallIsSeen
<1>2. CASE UNCHANGED <<claims, toolEvents, skepticReview, descriptionTasks, descriptionUpdates>>
  BY <1>2 DEF ReviewBehindLog, CurrentReviewSeesAll, ReviewCurrent, DescriptionSignature
<1> QED BY <1>1, <1>2 DEF Next, BetweenCalls, vars, runState

(***************************************************************************)
(* As long as the review gate lets the Judge pass, nothing the Skeptic     *)
(* signed off has changed since.                                           *)
(***************************************************************************)
THEOREM CurrentReviewIsComplete == Spec => []CurrentReviewSeesAll
<1>1. Init => ReviewInv
  BY ReviewInit
<1>2. ReviewInv /\ [Next]_vars => ReviewInv'
  BY ReviewStep
<1>3. ReviewInv => CurrentReviewSeesAll
  BY DEF ReviewInv
<1> QED BY <1>1, <1>2, <1>3, PTL DEF Spec
-----------------------------------------------------------------------------
(***************************************************************************)
(* A verdict's reasons last until the log shows a later change of a status *)
(* or a new claim.                                                         *)
(***************************************************************************)
MovingTools == {"record_claim", "update_claim_status", "finalize_probe_evidence"}

MovesLedger == \E tool \in MovingTools : Attempt(tool, TRUE, 0)

LogsOtherCall ==
    \E tool \in ToolNames, ok \in BOOLEAN, claim \in {0} \cup DOMAIN claims :
        Attempt(tool, ok, claim) /\ ~(tool = "record_verdict" /\ ok)

KeepsReasons == LogsOtherCall /\ (claims' = claims \/ EvidenceAdded(claims, claims'))

(* Every call decides, is logged as moving the ledger, or leaves every status alone. *)
LEMMA ToolCallAndReasons ==
    ASSUME TypeInv, ToolCall
    PROVE  \/ \E v \in Verdicts, cs \in SUBSET DOMAIN claims : RecordVerdict(v, cs)
           \/ MovesLedger /\ UNCHANGED verdict
           \/ KeepsReasons /\ UNCHANGED verdict
<1> DEFINE Goal == \/ MovesLedger /\ UNCHANGED verdict
                   \/ KeepsReasons /\ UNCHANGED verdict
<1>tools. {"load_artifact", "read", "retrieve_experiment_history", "run_python_probe",
           "record_claim", "append_evidence", "update_claim_status",
           "record_no_new_claims", "run_claim_probe", "finalize_probe_evidence",
           "request_description", "record_description_update",
           "request_more_debate", "record_verdict"} \subseteq ToolNames
  BY DEF ToolNames, AllowedRoles
<1>1. ASSUME NEW t \in ToolNames, RejectedCall(t)
      PROVE  Goal
  BY <1>1 DEF RejectedCall, KeepsReasons, LogsOtherCall
<1>2. ASSUME NEW t \in ToolNames, ObservingCall(t)
      PROVE  Goal
  BY <1>2 DEF ObservingCall, Succeed, KeepsReasons, LogsOtherCall
<1>3. ASSUME NEW k \in ClaimKinds, RecordClaimCall(k[1], k[2])
      PROVE  Goal
  BY <1>3 DEF RecordClaimCall, Succeed, MovesLedger, MovingTools
<1>4. ASSUME NEW c \in DOMAIN claims, NEW s \in Settled, NEW e \in CitedEvents,
             AppendEvidenceCall(c, s, e)
      PROVE  Goal
  <2>1. EvidenceAdded(claims, claims')
    BY <1>4, InputsAssumption DEF AppendEvidenceCall, EvidenceAdded
  <2> QED BY <1>4, <2>1, <1>tools DEF AppendEvidenceCall, Succeed, KeepsReasons, LogsOtherCall
<1>5. ASSUME NEW c \in DOMAIN claims, NEW s \in ClaimStatus, UpdateClaimStatusCall(c, s)
      PROVE  Goal
  BY <1>5 DEF UpdateClaimStatusCall, Succeed, MovesLedger, MovingTools
<1>6. ASSUME RecordNoNewClaims
      PROVE  Goal
  BY <1>6, <1>tools DEF RecordNoNewClaims, Succeed, KeepsReasons, LogsOtherCall
<1>7. ASSUME NEW c \in DOMAIN claims, RunClaimProbe(c)
      PROVE  Goal
  BY <1>7, <1>tools DEF RunClaimProbe, KeepsReasons, LogsOtherCall
<1>8. ASSUME NEW e \in DOMAIN toolEvents, NEW s \in Settled, NEW st \in ClaimStatus,
             FinalizeProbeEvidence(e, s, st)
      PROVE  Goal
  <2> DEFINE c == toolEvents[e].claim
             withEvidence == AppendEvidence(claims, c, s, e)
  <2>1. c \in DOMAIN claims /\ e \in Nat
    BY <1>8, LenProperties
    DEF FinalizeProbeEvidence, UnconsumedProbes, TypeInv, ProbesNameClaims, TypeOK, Ledger
  <2>2. CASE MayUpdateStatus(withEvidence, c, st)
    <3>1. Attempt("finalize_probe_evidence", TRUE, 0) /\ UNCHANGED verdict
      BY <1>8, <2>2 DEF FinalizeProbeEvidence
    <3> QED BY <3>1 DEF MovesLedger, MovingTools
  <2>3. CASE ~MayUpdateStatus(withEvidence, c, st)
    <3>1. Attempt("finalize_probe_evidence", FALSE, 0) /\ UNCHANGED verdict
      <4>1. MayUpdateStatus(withEvidence, c, st) = FALSE
        BY <2>3 DEF MayUpdateStatus
      <4> QED BY <1>8, <4>1 DEF FinalizeProbeEvidence
    <3>2. EvidenceAdded(claims, claims')
      BY <1>8, <2>1, <2>3 DEF FinalizeProbeEvidence, EvidenceAdded
    <3> QED BY <3>1, <3>2, <1>tools DEF KeepsReasons, LogsOtherCall
  <2> QED BY <2>2, <2>3
<1>9. ASSUME RequestDescription
      PROVE  Goal
  BY <1>9, <1>tools DEF RequestDescription, Succeed, KeepsReasons, LogsOtherCall
<1>10. ASSUME NEW ds \in SUBSET DOMAIN descriptionTasks, NEW known \in BOOLEAN,
              RecordDescriptionUpdate(ds, known)
       PROVE  Goal
  BY <1>10, <1>tools DEF RecordDescriptionUpdate, KeepsReasons, LogsOtherCall
<1>11. ASSUME RequestMoreDebate
       PROVE  Goal
  BY <1>11, <1>tools DEF RequestMoreDebate, Succeed, KeepsReasons, LogsOtherCall
<1> HIDE DEF Goal
<1>12. \/ \E v \in Verdicts, cs \in SUBSET DOMAIN claims : RecordVerdict(v, cs)
       \/ Goal
  BY <1>1, <1>2, <1>3, <1>4, <1>5, <1>6, <1>7, <1>8, <1>9, <1>10, <1>11 DEF ToolCall
<1> QED BY <1>12 DEF Goal

(* More evidence takes no verdict's reasons away. *)
LEMMA EvidenceKeepsReasons ==
    ASSUME NEW old \in Ledger, NEW new, EvidenceAdded(old, new), NEW v, Justified(v, old)
    PROVE  Justified(v, new)
<1>1. PICK c \in DOMAIN old, supports \in Settled, event \in Nat :
             new = AppendEvidence(old, c, supports, event)
  BY DEF EvidenceAdded
<1>2. /\ DOMAIN new = DOMAIN old
      /\ \A d \in DOMAIN old \ {c} : new[d] = old[d]
      /\ new[c].status = old[c].status
      /\ new[c].evidence =
            Append(old[c].evidence, [supports |-> supports, event |-> event])
  BY <1>1, AppendEvidenceEffect
<1>3. new[c].scope = old[c].scope /\ new[c].benchmark = old[c].benchmark
  <2>1. old[c] \in Claim
    BY ElementOfSeq DEF Ledger
  <2> QED BY <1>1, <2>1 DEF AppendEvidence, Claim
<1>4. \A d \in DOMAIN old : /\ new[d].status = old[d].status
                            /\ new[d].scope = old[d].scope
                            /\ new[d].benchmark = old[d].benchmark
  BY <1>2, <1>3
<1>5. OpenClaims(new) = OpenClaims(old)
  BY <1>2, <1>4 DEF OpenClaims
<1>6. ASSUME RejectAllowed(old, v.decisive)
      PROVE  RejectAllowed(new, v.decisive)
  BY <1>2, <1>4, <1>6 DEF RejectAllowed, Decisive
<1> QED BY <1>5, <1>6 DEF Justified

VerdictInv == TypeInv /\ VerdictHoldsUntilLedgerMoves

(* A step that takes a verdict's reasons away is logged behind the verdict. *)
LEMMA VerdictStep == VerdictInv /\ [Next]_vars => VerdictInv'
<1> SUFFICES ASSUME VerdictInv, [Next]_vars
             PROVE  VerdictHoldsUntilLedgerMoves'
  BY TypeStep DEF VerdictInv
<1> USE DEF VerdictInv
<1>1. CASE ToolCall
  <2>1. PICK tool \in ToolNames, ok \in BOOLEAN, claim \in {0} \cup DOMAIN claims :
               Attempt(tool, ok, claim)
    BY <1>1, ToolCallAppends
  <2> DEFINE n == Len(toolEvents)
  <2>2. [tool |-> tool, ok |-> ok, claim |-> claim] \in ToolEvent
    BY LenProperties DEF ToolEvent, TypeInv, TypeOK, Ledger
  <2>3. /\ n \in Nat
        /\ DOMAIN toolEvents = 1..n
        /\ DOMAIN toolEvents' = 1..(n + 1)
        /\ \A i \in 1..n : toolEvents'[i] = toolEvents[i]
    BY <2>1, <2>2, AppendProperties, LenProperties DEF Attempt, TypeInv, TypeOK
  <2>4. ASSUME NEW t \in ToolNames, NEW k \in BOOLEAN, NEW m \in {0} \cup DOMAIN claims,
               Attempt(t, k, m)
        PROVE  toolEvents'[n + 1].tool = t /\ toolEvents'[n + 1].ok = k
    <3>1. [tool |-> t, ok |-> k, claim |-> m] \in ToolEvent
      BY LenProperties DEF ToolEvent, TypeInv, TypeOK, Ledger
    <3> QED BY <2>4, <3>1, AppendProperties DEF Attempt, TypeInv, TypeOK
  <2> HIDE DEF n
  <2>5. CASE \E v \in Verdicts, cs \in SUBSET DOMAIN claims : RecordVerdict(v, cs)
    <3>1. Justified(verdict', claims')
      BY <2>5 DEF RecordVerdict, Justified
    <3> QED BY <3>1 DEF VerdictHoldsUntilLedgerMoves
  <2>6. CASE MovesLedger
    <3>1. PICK t \in MovingTools : Attempt(t, TRUE, 0)
      BY <2>6 DEF MovesLedger
    <3>2. t \in ToolNames
      BY DEF MovingTools, ToolNames, AllowedRoles
    <3>3. toolEvents'[n + 1].tool = t /\ toolEvents'[n + 1].ok = TRUE
      BY <2>4, <3>1, <3>2
    <3>4. \A j \in VerdictEvents' : j < n + 1
      BY <2>3, <3>3 DEF VerdictEvents, MovingTools
    <3>5. LedgerMoved'
      BY <2>3, <3>3, <3>4 DEF LedgerMoved, MovingTools
    <3> QED BY <3>5 DEF VerdictHoldsUntilLedgerMoves
  <2>7. CASE KeepsReasons /\ UNCHANGED verdict
    <3>1. PICK t \in ToolNames, k \in BOOLEAN, m \in {0} \cup DOMAIN claims :
                 Attempt(t, k, m) /\ ~(t = "record_verdict" /\ k)
      BY <2>7 DEF KeepsReasons, LogsOtherCall
    <3>2. VerdictEvents' \subseteq VerdictEvents
      BY <2>3, <2>4, <3>1 DEF VerdictEvents
    <3>3. LedgerMoved => LedgerMoved'
      BY <2>3, <3>2 DEF LedgerMoved
    <3>4. ASSUME Justified(verdict, claims)
          PROVE  Justified(verdict', claims')
      BY <2>7, <3>4, EvidenceKeepsReasons DEF KeepsReasons, TypeInv, TypeOK
    <3> QED BY <2>7, <3>3, <3>4 DEF VerdictHoldsUntilLedgerMoves
  <2> QED BY <1>1, <2>5, <2>6, <2>7, ToolCallAndReasons
<1>2. CASE UNCHANGED <<claims, toolEvents, verdict>>
  BY <1>2 DEF VerdictHoldsUntilLedgerMoves, LedgerMoved, VerdictEvents
<1> QED BY <1>1, <1>2 DEF Next, BetweenCalls, vars, runState

(***************************************************************************)
(* Whatever calls are made in whatever order, a verdict whose reasons no   *)
(* longer hold is followed in the log by the call that took them away.     *)
(***************************************************************************)
THEOREM VerdictHolds == Spec => []VerdictHoldsUntilLedgerMoves
<1>1. Init => VerdictInv
  BY InitType DEF Init, VerdictInv, VerdictHoldsUntilLedgerMoves
<1>2. VerdictInv /\ [Next]_vars => VerdictInv'
  BY VerdictStep
<1>3. VerdictInv => VerdictHoldsUntilLedgerMoves
  BY DEF VerdictInv
<1> QED BY <1>1, <1>2, <1>3, PTL DEF Spec
-----------------------------------------------------------------------------
(***************************************************************************)
(* Where agents cite no event of their own choosing, evidence that cites   *)
(* one was made by finalize_probe_evidence, from a probe of its claim that *)
(* no evidence cited before.                                               *)
(***************************************************************************)
CitationAt(ledger, c, i) ==
    /\ c \in DOMAIN ledger
    /\ i \in DOMAIN ledger[c].evidence
    /\ ledger[c].evidence[i].event # NoEvent

KeptCitation(old, new, c, i) ==
    CitationAt(old, c, i) /\ new[c].evidence[i].event = old[c].evidence[i].event

AddsNoCitation(old, new) ==
    \A c, i \in Nat : CitationAt(new, c, i) => KeptCitation(old, new, c, i)

(* The only new citation is of event e, at the end of the evidence of claim d. *)
AddsCitation(old, new, d, e) ==
    \A c, i \in Nat :
        CitationAt(new, c, i) =>
            \/ KeptCitation(old, new, c, i)
            \/ c = d /\ i = Len(old[d].evidence) + 1 /\ new[c].evidence[i].event = e

EachCitesItsOwn ==
    \A c, i \in Nat :
        CitationAt(claims, c, i) =>
            /\ claims[c].evidence[i].event \in DOMAIN toolEvents
            /\ toolEvents[claims[c].evidence[i].event].claim = c
            /\ \A d, j \in Nat :
                  CitationAt(claims, d, j)
                  /\ claims[d].evidence[j].event = claims[c].evidence[i].event
                  => d = c /\ j = i

(* The pairs the property speaks of are the places of citations. *)
LEMMA OwnCitations ==
    TypeOK /\ EachCitesItsOwn => ProbeEvidenceIsOwn
<1> SUFFICES ASSUME TypeOK, EachCitesItsOwn, NEW p \in Citations
             PROVE  /\ CitedEvent(p) \in DOMAIN toolEvents
                    /\ toolEvents[CitedEvent(p)].claim = p[1]
                    /\ \A q \in Citations : CitedEvent(q) = CitedEvent(p) => q = p
  BY DEF ProbeEvidenceIsOwn
<1>1. ASSUME NEW q \in Citations
      PROVE  /\ q = <<q[1], q[2]>>
             /\ q[1] \in Nat /\ q[2] \in Nat
             /\ CitationAt(claims, q[1], q[2])
             /\ CitedEvent(q) = claims[q[1]].evidence[q[2]].event
  <2>1. PICK c \in DOMAIN claims : q \in {c} \X DOMAIN claims[c].evidence
    BY DEF Citations
  <2>2. claims[c] \in Claim /\ c \in Nat
    BY ElementOfSeq, LenProperties DEF TypeOK, Ledger
  <2>3. q[2] \in Nat
    BY <2>1, <2>2, LenProperties DEF Claim
  <2> QED BY <2>1, <2>2, <2>3 DEF Citations, CitedEvent, CitationAt
<1> QED BY <1>1 DEF EachCitesItsOwn

(* A new claim, a status and evidence that cites nothing add no citation. *)
LEMMA PlainStepAddsNoCitation ==
    ASSUME NEW old \in Ledger, NEW new,
           \/ ClaimAdded(old, new)
           \/ StatusUpdated(old, new)
           \/ \E c \in DOMAIN old, s \in Settled : new = AppendEvidence(old, c, s, NoEvent)
    PROVE  AddsNoCitation(old, new)
<1>dom. DOMAIN old = 1..Len(old) /\ Len(old) \in Nat
  BY LenProperties DEF Ledger
<1>1. CASE ClaimAdded(old, new)
  <2>1. PICK scope \in ClaimScope, benchmark \in BOOLEAN :
               new = RecordClaim(old, scope, benchmark)
    BY <1>1 DEF ClaimAdded
  <2>2. DOMAIN new = 1..(Len(old) + 1) /\ \A c \in DOMAIN old : new[c] = old[c]
    BY <2>1, RecordClaimEffect
  <2>3. new[Len(old) + 1].evidence = <<>>
    <3> DEFINE claim == [status |-> "open", scope |-> scope, benchmark |-> benchmark,
                         evidence |-> <<>>]
    <3>1. claim \in Claim
      BY EmptySeq DEF Claim, ClaimStatus
    <3>2. new[Len(old) + 1] = claim
      BY <2>1, <3>1, AppendProperties DEF Ledger, RecordClaim
    <3> QED BY <3>2
  <2>4. \A i \in Nat : ~CitationAt(new, Len(old) + 1, i)
    BY <2>3 DEF CitationAt
  <2> QED BY <1>dom, <2>2, <2>4 DEF AddsNoCitation, KeptCitation, CitationAt
<1>2. CASE StatusUpdated(old, new)
  <2>1. PICK c \in DOMAIN old, status \in ClaimStatus :
               new = UpdateClaimStatus(old, c, status)
    BY <1>2 DEF StatusUpdated
  <2>2. DOMAIN new = DOMAIN old /\ \A d \in DOMAIN old : new[d].evidence = old[d].evidence
    BY <2>1, UpdateClaimStatusEffect
  <2> QED BY <2>2 DEF AddsNoCitation, KeptCitation, CitationAt
<1>3. ASSUME NEW c \in DOMAIN old, NEW s \in Settled, new = AppendEvidence(old, c, s, NoEvent)
      PROVE  AddsNoCitation(old, new)
  <2>1. /\ DOMAIN new = DOMAIN old
        /\ \A d \in DOMAIN old \ {c} : new[d] = old[d]
        /\ new[c].evidence = Append(old[c].evidence, [supports |-> s, event |-> NoEvent])
    BY <1>3, AppendEvidenceEffect
  <2>2. old[c].evidence \in Seq(Evidence)
    <3>1. old[c] \in Claim
      BY ElementOfSeq DEF Ledger
    <3> QED BY <3>1 DEF Claim
  <2>3. /\ DOMAIN old[c].evidence = 1..Len(old[c].evidence)
        /\ DOMAIN new[c].evidence = 1..(Len(old[c].evidence) + 1)
        /\ Len(old[c].evidence) \in Nat
        /\ \A i \in 1..Len(old[c].evidence) : new[c].evidence[i] = old[c].evidence[i]
        /\ new[c].evidence[Len(old[c].evidence) + 1].event = NoEvent
    BY <2>1, <2>2, AppendProperties, LenProperties DEF Evidence
  <2> QED BY <2>1, <2>3 DEF AddsNoCitation, KeptCitation, CitationAt
<1> QED BY <1>1, <1>2, <1>3

(* A finalized probe adds one piece of evidence, to its claim and at the end. *)
LEMMA FinalizeAddsEvidence ==
    ASSUME TypeInv, NEW e \in DOMAIN toolEvents, NEW s \in Settled, NEW st \in ClaimStatus,
           FinalizeProbeEvidence(e, s, st)
    PROVE  LET c == toolEvents[e].claim
               n == Len(claims[c].evidence)
           IN  /\ c \in DOMAIN claims /\ e \in Nat /\ n \in Nat
               /\ DOMAIN claims' = DOMAIN claims
               /\ \A d \in DOMAIN claims \ {c} : claims'[d].evidence = claims[d].evidence
               /\ DOMAIN claims[c].evidence = 1..n
               /\ DOMAIN claims'[c].evidence = 1..(n + 1)
               /\ \A i \in 1..n : claims'[c].evidence[i] = claims[c].evidence[i]
               /\ claims'[c].evidence[n + 1].event = e
<1> DEFINE c == toolEvents[e].claim
           mid == AppendEvidence(claims, c, s, e)
<1>1. c \in DOMAIN claims /\ e \in Nat
  BY LenProperties
  DEF FinalizeProbeEvidence, UnconsumedProbes, TypeInv, ProbesNameClaims, TypeOK, Ledger
<1>2. /\ mid \in Ledger
      /\ DOMAIN mid = DOMAIN claims
      /\ \A d \in DOMAIN claims \ {c} : mid[d] = claims[d]
      /\ mid[c].evidence = Append(claims[c].evidence, [supports |-> s, event |-> e])
  BY <1>1, AppendEvidenceEffect, AppendEvidenceLedger DEF TypeInv, TypeOK
<1>3. claims[c].evidence \in Seq(Evidence)
  <2>1. claims[c] \in Claim
    BY <1>1, ElementOfSeq DEF TypeInv, TypeOK, Ledger
  <2> QED BY <2>1 DEF Claim
<1>4. /\ DOMAIN claims[c].evidence = 1..Len(claims[c].evidence)
      /\ DOMAIN mid[c].evidence = 1..(Len(claims[c].evidence) + 1)
      /\ Len(claims[c].evidence) \in Nat
      /\ \A i \in 1..Len(claims[c].evidence) : mid[c].evidence[i] = claims[c].evidence[i]
      /\ mid[c].evidence[Len(claims[c].evidence) + 1].event = e
  BY <1>1, <1>2, <1>3, AppendProperties, LenProperties DEF Evidence
<1>5. claims' = mid \/ claims' = UpdateClaimStatus(mid, c, st)
  BY DEF FinalizeProbeEvidence
<1>6. DOMAIN claims' = DOMAIN claims /\ \A d \in DOMAIN claims : claims'[d].evidence = mid[d].evidence
  BY <1>1, <1>2, <1>5, UpdateClaimStatusEffect
<1> HIDE DEF mid
<1> QED BY <1>1, <1>2, <1>4, <1>6

(* So it adds one citation, of its event and in its claim. *)
LEMMA FinalizeAddsCitation ==
    ASSUME TypeInv, NEW e \in DOMAIN toolEvents, NEW s \in Settled, NEW st \in ClaimStatus,
           FinalizeProbeEvidence(e, s, st)
    PROVE  AddsCitation(claims, claims', toolEvents[e].claim, e)
<1> DEFINE c == toolEvents[e].claim
           n == Len(claims[c].evidence)
<1>1. /\ c \in DOMAIN claims /\ e \in Nat /\ n \in Nat
      /\ DOMAIN claims' = DOMAIN claims
      /\ \A d \in DOMAIN claims \ {c} : claims'[d].evidence = claims[d].evidence
      /\ DOMAIN claims[c].evidence = 1..n
      /\ DOMAIN claims'[c].evidence = 1..(n + 1)
      /\ \A i \in 1..n : claims'[c].evidence[i] = claims[c].evidence[i]
      /\ claims'[c].evidence[n + 1].event = e
  BY FinalizeAddsEvidence
<1>2. AddsCitation(claims, claims', c, e)
  <2> SUFFICES ASSUME NEW d \in Nat, NEW i \in Nat, CitationAt(claims', d, i),
                      ~ (d = c /\ i = n + 1)
               PROVE  KeptCitation(claims, claims', d, i)
    BY <1>1 DEF AddsCitation
  <2> HIDE DEF c, n
  <2>1. CASE d # c
    BY <1>1, <2>1 DEF KeptCitation, CitationAt
  <2>2. CASE d = c
    BY <1>1, <2>2 DEF KeptCitation, CitationAt
  <2> QED BY <2>1, <2>2
<1> QED BY <1>2 DEF c

(* What each call adds to the citations. *)
LEMMA CallsAndCitations ==
    ASSUME TypeInv, CitedEvents = {NoEvent}, ToolCall
    PROVE  \/ AddsNoCitation(claims, claims')
           \/ \E e \in UnconsumedProbes : AddsCitation(claims, claims', toolEvents[e].claim, e)
<1>0. claims' = claims => AddsNoCitation(claims, claims')
  BY DEF AddsNoCitation, KeptCitation
<1>1. ASSUME NEW t \in ToolNames, RejectedCall(t) \/ ObservingCall(t)
      PROVE  claims' = claims
  BY <1>1 DEF RejectedCall, ObservingCall
<1>2. ASSUME NEW k \in ClaimKinds, RecordClaimCall(k[1], k[2])
      PROVE  ClaimAdded(claims, claims')
  BY <1>2, InputsAssumption DEF RecordClaimCall, ClaimAdded
<1>3. ASSUME NEW c \in DOMAIN claims, NEW s \in Settled, NEW e \in CitedEvents,
             AppendEvidenceCall(c, s, e)
      PROVE  claims' = AppendEvidence(claims, c, s, NoEvent)
  BY <1>3 DEF AppendEvidenceCall
<1>4. ASSUME NEW c \in DOMAIN claims, NEW s \in ClaimStatus, UpdateClaimStatusCall(c, s)
      PROVE  StatusUpdated(claims, claims')
  BY <1>4 DEF UpdateClaimStatusCall, StatusUpdated
<1>5. ASSUME \/ RecordNoNewClaims
             \/ \E c \in DOMAIN claims : RunClaimProbe(c)
             \/ RequestDescription
             \/ \E ds \in SUBSET DOMAIN descriptionTasks, known \in BOOLEAN :
                   RecordDescriptionUpdate(ds, known)
             \/ RequestMoreDebate
             \/ \E v \in Verdicts, cs \in SUBSET DOMAIN claims : RecordVerdict(v, cs)
      PROVE  claims' = claims
  BY <1>5 DEF RecordNoNewClaims, RunClaimProbe, RequestDescription, RecordDescriptionUpdate,
              RequestMoreDebate, RecordVerdict
<1>6. ASSUME NEW e \in DOMAIN toolEvents, NEW s \in Settled, NEW st \in ClaimStatus,
             FinalizeProbeEvidence(e, s, st)
      PROVE  e \in UnconsumedProbes /\ AddsCitation(claims, claims', toolEvents[e].claim, e)
  BY <1>6, FinalizeAddsCitation DEF FinalizeProbeEvidence
<1>7. ASSUME \/ ClaimAdded(claims, claims')
             \/ StatusUpdated(claims, claims')
             \/ \E c \in DOMAIN claims, s \in Settled :
                   claims' = AppendEvidence(claims, c, s, NoEvent)
      PROVE  AddsNoCitation(claims, claims')
  BY <1>7, PlainStepAddsNoCitation DEF TypeInv, TypeOK
<1>8. \/ claims' = claims
      \/ ClaimAdded(claims, claims')
      \/ StatusUpdated(claims, claims')
      \/ \E c \in DOMAIN claims, s \in Settled : claims' = AppendEvidence(claims, c, s, NoEvent)
      \/ \E e \in UnconsumedProbes : AddsCitation(claims, claims', toolEvents[e].claim, e)
  BY <1>1, <1>2, <1>3, <1>4, <1>5, <1>6 DEF ToolCall
<1> QED BY <1>0, <1>7, <1>8

CitationInv == TypeInv /\ (CitedEvents = {NoEvent} => EachCitesItsOwn)

(* A step that adds no citation leaves each one its own. *)
LEMMA OwnCitationsKept ==
    ASSUME EachCitesItsOwn, AddsNoCitation(claims, claims'),
           \A i \in DOMAIN toolEvents : i \in DOMAIN toolEvents' /\ toolEvents'[i] = toolEvents[i]
    PROVE  EachCitesItsOwn'
  BY DEF EachCitesItsOwn, AddsNoCitation, KeptCitation, CitationAt

(* So does one that cites a probe nobody has cited, in the probe's claim. *)
LEMMA NewCitationIsOwn ==
    ASSUME TypeInv, EachCitesItsOwn, NEW e \in UnconsumedProbes,
           AddsCitation(claims, claims', toolEvents[e].claim, e),
           \A i \in DOMAIN toolEvents : i \in DOMAIN toolEvents' /\ toolEvents'[i] = toolEvents[i]
    PROVE  EachCitesItsOwn'
<1>1. e \in DOMAIN toolEvents /\ e # NoEvent
  BY LenProperties DEF UnconsumedProbes, TypeInv, TypeOK
<1>2. \A c, i \in Nat : CitationAt(claims, c, i) => claims[c].evidence[i].event # e
  BY <1>1 DEF UnconsumedProbes, CitedBy, CitationAt
<1> QED BY <1>1, <1>2 DEF EachCitesItsOwn, AddsCitation, KeptCitation, CitationAt

(* Every step keeps it. *)
LEMMA CitationStep == CitationInv /\ [Next]_vars => CitationInv'
<1> SUFFICES ASSUME CitationInv, [Next]_vars, CitedEvents = {NoEvent}
             PROVE  EachCitesItsOwn'
  BY TypeStep DEF CitationInv
<1> USE DEF CitationInv
<1>1. CASE ToolCall
  <2>1. PICK tool \in ToolNames, ok \in BOOLEAN, claim \in {0} \cup DOMAIN claims :
               Attempt(tool, ok, claim)
    BY <1>1, ToolCallAppends
  <2>2. [tool |-> tool, ok |-> ok, claim |-> claim] \in ToolEvent
    BY LenProperties DEF ToolEvent, TypeInv, TypeOK, Ledger
  <2>3. \A i \in DOMAIN toolEvents : i \in DOMAIN toolEvents' /\ toolEvents'[i] = toolEvents[i]
    BY <2>1, <2>2, AppendProperties, LenProperties DEF Attempt, TypeInv, TypeOK
  <2> QED BY <1>1, <2>3, CallsAndCitations, OwnCitationsKept, NewCitationIsOwn
<1>2. CASE UNCHANGED <<claims, toolEvents>>
  BY <1>2 DEF EachCitesItsOwn, CitationAt
<1> QED BY <1>1, <1>2 DEF Next, BetweenCalls, vars, runState

(***************************************************************************)
(* Whoever calls the tools, where agents leave citing probe events to      *)
(* finalize_probe_evidence each probe result becomes evidence once, and    *)
(* for the claim it was run for.                                           *)
(***************************************************************************)
THEOREM ProbeEvidenceStaysOwn == Spec => []ProbeEvidenceIsOwn
<1>1. Init => CitationInv
  BY InitType DEF Init, CitationInv, EachCitesItsOwn, CitationAt
<1>2. CitationInv /\ [Next]_vars => CitationInv'
  BY CitationStep
<1>3. CitationInv => ProbeEvidenceIsOwn
  BY OwnCitations DEF CitationInv, TypeInv, ProbeEvidenceIsOwn
<1> QED BY <1>1, <1>2, <1>3, PTL DEF Spec
-----------------------------------------------------------------------------
(***************************************************************************)
(* Every finalization has a probe of its own, whatever events agents cite. *)
(***************************************************************************)

(* A call other than a finalization that succeeds is logged as something else. *)
LEMMA OtherCallsFinalizeNothing ==
    ASSUME TypeInv, ToolCall
    PROVE  \/ \E e \in DOMAIN toolEvents, s \in Settled, st \in ClaimStatus :
                 FinalizeProbeEvidence(e, s, st)
           \/ \E tool \in ToolNames, ok \in BOOLEAN, claim \in {0} \cup DOMAIN claims :
                 Attempt(tool, ok, claim) /\ ~(tool = "finalize_probe_evidence" /\ ok)
<1> DEFINE Other == \E tool \in ToolNames, ok \in BOOLEAN, claim \in {0} \cup DOMAIN claims :
                       Attempt(tool, ok, claim) /\ ~(tool = "finalize_probe_evidence" /\ ok)
<1>tools. {"load_artifact", "read", "retrieve_experiment_history", "run_python_probe",
           "record_claim", "append_evidence", "update_claim_status",
           "record_no_new_claims", "run_claim_probe",
           "request_description", "record_description_update",
           "request_more_debate", "record_verdict"} \subseteq ToolNames
  BY DEF ToolNames, AllowedRoles
<1>1. ASSUME NEW tool \in ToolNames, NEW ok \in BOOLEAN, NEW claim \in {0} \cup DOMAIN claims,
             Attempt(tool, ok, claim), tool # "finalize_probe_evidence" \/ ~ ok
      PROVE  Other
  BY <1>1
<1> HIDE DEF Other
<1>2. ASSUME NEW t \in ToolNames, RejectedCall(t)
      PROVE  Other
  BY <1>1, <1>2 DEF RejectedCall
<1>3. ASSUME NEW t \in ToolNames, ObservingCall(t)
      PROVE  Other
  BY <1>1, <1>3 DEF ObservingCall, Succeed
<1>4. ASSUME \/ \E k \in ClaimKinds : RecordClaimCall(k[1], k[2])
             \/ \E c \in DOMAIN claims, s \in Settled, e \in CitedEvents :
                   AppendEvidenceCall(c, s, e)
             \/ \E c \in DOMAIN claims, s \in ClaimStatus : UpdateClaimStatusCall(c, s)
             \/ RecordNoNewClaims
      PROVE  Other
  BY <1>1, <1>4, <1>tools
  DEF RecordClaimCall, AppendEvidenceCall, UpdateClaimStatusCall, RecordNoNewClaims, Succeed
<1>5. ASSUME NEW c \in DOMAIN claims, RunClaimProbe(c)
      PROVE  Other
  BY <1>1, <1>5, <1>tools DEF RunClaimProbe
<1>6. ASSUME NEW ds \in SUBSET DOMAIN descriptionTasks, NEW known \in BOOLEAN,
             RecordDescriptionUpdate(ds, known)
      PROVE  Other
  BY <1>1, <1>6, <1>tools DEF RecordDescriptionUpdate
<1>7. ASSUME \/ RequestDescription
             \/ RequestMoreDebate
             \/ \E v \in Verdicts, cs \in SUBSET DOMAIN claims : RecordVerdict(v, cs)
      PROVE  Other
  BY <1>1, <1>7, <1>tools DEF RequestDescription, RequestMoreDebate, RecordVerdict, Succeed
<1>8. Other \/ \E e \in DOMAIN toolEvents, s \in Settled, st \in ClaimStatus :
                  FinalizeProbeEvidence(e, s, st)
  BY <1>2, <1>3, <1>4, <1>5, <1>6, <1>7 DEF ToolCall
<1> QED BY <1>8 DEF Other

(* A finalization takes a probe that was no evidence yet and makes it one; no call takes
   evidence away. *)
LEMMA FinalizationsStep ==
    ASSUME TypeInv, FinalizationsHaveProbes, ToolCall
    PROVE  FinalizationsHaveProbes'
<1> DEFINE n == Len(toolEvents)
           Own(e) == \E i \in DOMAIN claims[toolEvents[e].claim].evidence :
                        claims[toolEvents[e].claim].evidence[i].event = e
<1>1. PICK tool \in ToolNames, ok \in BOOLEAN, claim \in {0} \cup DOMAIN claims :
             /\ Attempt(tool, ok, claim)
             /\ \/ ~(tool = "finalize_probe_evidence" /\ ok)
                \/ \E e \in DOMAIN toolEvents, s \in Settled, st \in ClaimStatus :
                      FinalizeProbeEvidence(e, s, st)
  BY ToolCallAppends, OtherCallsFinalizeNothing
<1>2. [tool |-> tool, ok |-> ok, claim |-> claim] \in ToolEvent
  BY LenProperties DEF ToolEvent, TypeInv, TypeOK, Ledger
<1>3. /\ n \in Nat /\ DOMAIN toolEvents = 1..n /\ DOMAIN toolEvents' = 1..(n + 1)
      /\ \A i \in 1..n : toolEvents'[i] = toolEvents[i]
      /\ toolEvents'[n + 1].tool = tool /\ toolEvents'[n + 1].ok = ok
  BY <1>1, <1>2, AppendProperties, LenProperties DEF Attempt, TypeInv, TypeOK
<1> HIDE DEF n
<1>4. /\ IsFiniteSet(Finalizations) /\ IsFiniteSet(Finalizations')
      /\ IsFiniteSet(ProbesOfOwnEvidence) /\ IsFiniteSet(ProbesOfOwnEvidence')
  <2>1. IsFiniteSet(1..n) /\ IsFiniteSet(1..(n + 1))
    BY <1>3, FS_Interval
  <2>2. /\ Finalizations \in SUBSET (1..n) /\ Finalizations' \in SUBSET (1..(n + 1))
        /\ ProbesOfOwnEvidence \in SUBSET (1..n)
        /\ ProbesOfOwnEvidence' \in SUBSET (1..(n + 1))
    BY <1>3 DEF Finalizations, ProbesOfOwnEvidence
  <2> QED BY <2>1, <2>2, FS_Subset
<1>5. ProbesOfOwnEvidence \subseteq ProbesOfOwnEvidence'
  <2> SUFFICES ASSUME NEW e \in ProbesOfOwnEvidence PROVE e \in ProbesOfOwnEvidence'
    OBVIOUS
  <2> DEFINE c == toolEvents[e].claim
  <2>1. /\ e \in 1..n /\ e \in 1..(n + 1) /\ c # 0 /\ toolEvents'[e].claim = c
    BY <1>3 DEF ProbesOfOwnEvidence
  <2>2. PICK i \in DOMAIN claims[c].evidence : claims[c].evidence[i].event = e
    BY DEF ProbesOfOwnEvidence
  <2>3. c \in DOMAIN claims
    <3>1. c \in 0..Len(claims)
      BY <1>3, <2>1 DEF TypeInv, ProbesNameClaims
    <3> QED BY <2>1, <3>1, LenProperties DEF TypeInv, TypeOK, Ledger
  <2>4. c \in DOMAIN claims' /\ NoSilentReversal(claims[c], claims'[c])
    BY <2>3, ToolCallLedgerStep, LedgerStepKept DEF TypeInv, TypeOK, LedgerKept
  <2>5. claims[c].evidence \in Seq(Evidence) /\ claims'[c].evidence \in Seq(Evidence)
    <3>1. claims[c] \in Claim /\ claims'[c] \in Claim
      BY <2>3, <2>4, ToolCallType, ElementOfSeq DEF TypeInv, TypeOK, Ledger
    <3> QED BY <3>1 DEF Claim
  <2>6. i \in DOMAIN claims'[c].evidence /\ claims'[c].evidence[i].event = e
    BY <2>2, <2>4, <2>5, LenProperties DEF NoSilentReversal
  <2> QED BY <1>3, <2>1, <2>6 DEF ProbesOfOwnEvidence
<1>6. /\ Cardinality(Finalizations) \in Nat /\ Cardinality(Finalizations') \in Nat
      /\ Cardinality(ProbesOfOwnEvidence) \in Nat /\ Cardinality(ProbesOfOwnEvidence') \in Nat
  BY <1>4, FS_CardinalityType
<1>7. CASE ~(tool = "finalize_probe_evidence" /\ ok)
  <2>1. Finalizations' = Finalizations
    BY <1>3, <1>7 DEF Finalizations
  <2>2. Cardinality(ProbesOfOwnEvidence) <= Cardinality(ProbesOfOwnEvidence')
    BY <1>4, <1>5, FS_Subset
  <2> QED BY <1>6, <2>1, <2>2 DEF FinalizationsHaveProbes
<1>8. ASSUME NEW e \in DOMAIN toolEvents, NEW s \in Settled, NEW st \in ClaimStatus,
             FinalizeProbeEvidence(e, s, st)
      PROVE  FinalizationsHaveProbes'
  <2>1. e \notin ProbesOfOwnEvidence
    <3>1. toolEvents[e].claim \in DOMAIN claims /\ e # NoEvent
      BY <1>8, <1>3, FinalizeAddsEvidence
    <3>2. e \notin CitedBy(claims)
      BY <1>8 DEF FinalizeProbeEvidence, UnconsumedProbes
    <3> QED BY <3>1, <3>2 DEF ProbesOfOwnEvidence, CitedBy
  <2>2. e \in ProbesOfOwnEvidence'
    <3> DEFINE c == toolEvents[e].claim
               k == Len(claims[c].evidence)
    <3>1. /\ k \in Nat /\ DOMAIN claims'[c].evidence = 1..(k + 1)
          /\ claims'[c].evidence[k + 1].event = e
      BY <1>8, FinalizeAddsEvidence
    <3>2. c # 0
      BY <1>8 DEF FinalizeProbeEvidence, UnconsumedProbes
    <3> HIDE DEF k
    <3>3. e \in DOMAIN toolEvents' /\ toolEvents'[e].claim = c
      BY <1>3
    <3>4. k + 1 \in DOMAIN claims'[c].evidence
      BY <3>1
    <3> QED BY <3>1, <3>2, <3>3, <3>4 DEF ProbesOfOwnEvidence
  <2>3. Cardinality(ProbesOfOwnEvidence \cup {e}) = Cardinality(ProbesOfOwnEvidence) + 1
    BY <1>4, <2>1, FS_AddElement
  <2>4. Cardinality(ProbesOfOwnEvidence \cup {e}) <= Cardinality(ProbesOfOwnEvidence')
    <3>1. ProbesOfOwnEvidence \cup {e} \in SUBSET ProbesOfOwnEvidence'
      BY <1>5, <2>2
    <3> QED BY <3>1, <1>4, FS_Subset
  <2>5. Cardinality(Finalizations \cup {n + 1}) = Cardinality(Finalizations) + 1
    <3>1. n + 1 \notin Finalizations
      BY <1>3 DEF Finalizations
    <3> QED BY <3>1, <1>4, FS_AddElement
  <2>6. Cardinality(Finalizations') <= Cardinality(Finalizations \cup {n + 1})
    <3>1. Finalizations' \in SUBSET (Finalizations \cup {n + 1})
      BY <1>3 DEF Finalizations
    <3>2. IsFiniteSet(Finalizations \cup {n + 1})
      BY <1>4, FS_AddElement
    <3> QED BY <3>1, <3>2, FS_Subset
  <2> QED BY <1>6, <2>3, <2>4, <2>5, <2>6 DEF FinalizationsHaveProbes
<1> QED BY <1>1, <1>7, <1>8

(***************************************************************************)
(* Whoever calls the tools and whatever events append_evidence is told to  *)
(* cite, finalizations that succeeded are never more than the probe        *)
(* results among their own claims' evidence.                               *)
(***************************************************************************)
THEOREM FinalizationsStayPaired == Spec => []FinalizationsHaveProbes
<1>1. Init => TypeInv /\ FinalizationsHaveProbes
  <2>1. Init => Finalizations = {} /\ ProbesOfOwnEvidence = {}
    BY DEF Init, Finalizations, ProbesOfOwnEvidence
  <2> QED BY <2>1, InitType, FS_EmptySet DEF FinalizationsHaveProbes
<1>2. TypeInv /\ FinalizationsHaveProbes /\ [Next]_vars => TypeInv' /\ FinalizationsHaveProbes'
  <2> SUFFICES ASSUME TypeInv, FinalizationsHaveProbes, [Next]_vars
               PROVE  FinalizationsHaveProbes'
    BY TypeStep
  <2>1. CASE UNCHANGED <<claims, toolEvents>>
    BY <2>1 DEF FinalizationsHaveProbes, Finalizations, ProbesOfOwnEvidence
  <2> QED BY <2>1, FinalizationsStep DEF Next, BetweenCalls, vars, runState
<1> QED BY <1>1, <1>2, PTL DEF Spec
=============================================================================
