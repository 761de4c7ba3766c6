----------------------------- MODULE CaserVerdict -----------------------------
(***************************************************************************)
(* adapters/caser.py: from a native verification document to outcome,        *)
(* effect, post-state and verdict.  A check that is missing, or whose status *)
(* is not PASS, is "ABSENT"; otherwise it is what the check observed.        *)
(***************************************************************************)

Strengths == {"V2", "V3", "OTHER"}
Scopes    == {"INTEGRITY", "OUTCOME", "OUTCOME_AND_POST_STATE", "OTHER"}
Classes   == {"PROVIDER_OBSERVATION", "CODE_PATH"}

Verification ==
    [strength         : Strengths,
     scope            : Scopes,
     class            : Classes,
     independent      : BOOLEAN,   \* runnerIndependent
     status           : {"PASS", "FAIL"},
     integrityClaim   : BOOLEAN,
     outcomeClaim     : BOOLEAN,   \* executionOutcomeIndependentlyVerified
     postClaim        : BOOLEAN,   \* providerPostStateVerified
     executionOutcome : {"SUCCEEDED", "FAILED", "OTHER"},
     outcomeCheck     : {"SUCCEEDED", "FAILED", "ABSENT"},
     readOnlyCheck    : {"READ_ONLY", "OTHER", "ABSENT"},
     effectCheck      : {"READ_ONLY", "MUTATING", "UNKNOWN", "OTHER", "ABSENT"},
     postCheck        : {"VERIFIED", "OTHER", "ABSENT"}]

OutcomeScopes == {"OUTCOME", "OUTCOME_AND_POST_STATE"}

StrengthUnchecked(v) == FALSE

StrengthBroken(v) ==
    \/ v.strength \notin {"V2", "V3"}
    \/ v.strength = "V2" /\ (v.scope # "INTEGRITY" \/ v.outcomeClaim \/ v.postClaim)

OutcomeBroken(v) ==
    /\ v.outcomeClaim
    /\ \/ ~ v.independent
       \/ v.scope \notin OutcomeScopes
       \/ v.executionOutcome \notin {"SUCCEEDED", "FAILED"}
       \/ v.outcomeCheck # v.executionOutcome

PostStateWithoutClass(v) ==
    /\ v.postClaim
    /\ \/ ~ v.independent
       \/ v.scope # "OUTCOME_AND_POST_STATE"
       \/ v.postCheck # "VERIFIED"

PostStateBroken(v) ==
    /\ v.postClaim
    /\ \/ ~ v.independent
       \/ v.scope # "OUTCOME_AND_POST_STATE"
       \/ v.class # "PROVIDER_OBSERVATION"
       \/ v.postCheck # "VERIFIED"

EffectBroken(v) ==
    \/ v.readOnlyCheck = "OTHER"
    \/ v.effectCheck = "OTHER"
    \/ v.readOnlyCheck = "READ_ONLY" /\ v.effectCheck \notin {"ABSENT", "READ_ONLY"}

\* Else CaserExecutionError.
Normalizable(v) ==
    /\ ~ StrengthBroken(v)
    /\ ~ OutcomeBroken(v)
    /\ ~ PostStateBroken(v)
    /\ ~ EffectBroken(v)

VerifiedOutcome(v) == IF v.outcomeClaim THEN v.executionOutcome ELSE "UNKNOWN"

VerifiedPostState(v) == v.postClaim

VerifiedEffect(v) ==
    IF v.readOnlyCheck = "READ_ONLY" THEN "READ_ONLY"
    ELSE IF v.effectCheck # "ABSENT" THEN v.effectCheck
    ELSE "UNKNOWN"

EffectSettled(v) ==
    \/ VerifiedEffect(v) = "READ_ONLY"
    \/ VerifiedEffect(v) = "MUTATING" /\ VerifiedPostState(v)

Verdict(v) ==
    IF v.status = "FAIL" THEN "FAIL"
    ELSE IF ~ v.integrityClaim \/ ~ v.outcomeClaim THEN "UNKNOWN"
    ELSE IF VerifiedOutcome(v) = "FAILED" THEN "FAIL"
    ELSE IF VerifiedOutcome(v) = "SUCCEEDED" /\ EffectSettled(v) THEN "PASS"
    ELSE "UNKNOWN"

-----------------------------------------------------------------------------
(* What a genuine verification document guarantees about an execution, after *)
(* docs/EXECUTION_RECEIPTS.md: below V3, outside its scope or without        *)
(* independence a claim or check may say anything.                           *)
Genuine(v, fact) ==
    v.strength = "V3" /\ v.independent =>
        /\ v.scope \in OutcomeScopes => v.outcomeCheck \in {"ABSENT", fact.outcome}
        /\ v.scope = "OUTCOME_AND_POST_STATE" /\ v.class = "PROVIDER_OBSERVATION" =>
              (v.postCheck = "VERIFIED" => fact.settled)
        /\ v.scope \in OutcomeScopes =>
              /\ v.readOnlyCheck = "READ_ONLY" => fact.effect = "READ_ONLY"
              /\ v.effectCheck = "READ_ONLY" => fact.effect = "READ_ONLY"

Completed(fact) ==
    fact.outcome = "SUCCEEDED" /\ (fact.effect = "READ_ONLY" \/ fact.settled)

(* A document that is normalised to PASS leaves no execution but a completed  *)
(* one: every premise under which CASER vouches for its claims was checked.   *)
PassIsCompletion(v, fact) ==
    Genuine(v, fact) /\ Normalizable(v) /\ Verdict(v) = "PASS" => Completed(fact)

(* And one normalised to FAIL either reports a failed verification or a       *)
(* failed execution, never a success it was not sure of.                      *)
FailIsFailure(v, fact) ==
    Genuine(v, fact) /\ Normalizable(v) /\ Verdict(v) = "FAIL" =>
        v.status = "FAIL" \/ fact.outcome = "FAILED"
=============================================================================
