-------------------------- MODULE ProofVerifierProofs --------------------------
(***************************************************************************)
(* Proofs about ProofVerifier.  Most of the argument does not involve the  *)
(* state machine: it shows, for every document and every instant, what an  *)
(* empty set of reason codes means (the lemmas ending in "Clean"), and     *)
(* from there that acceptance is sound and that time can only end it.  The *)
(* answers of the registered verifiers are a parameter of these theorems:  *)
(* nothing is assumed about how they change.                               *)
(***************************************************************************)
EXTENDS ProofVerifier, TLAPS

(* The conditions on one envelope that leave it without a reason code.      *)
ItemFine(o, evidence, i, allowed, subject, t) ==
    LET item == evidence[i] IN
    /\ item.wellformed
    /\ ~Expired(item, t)
    /\ ~(item.expires_at # NoExpiry /\ item.expires_at <= item.issued_at)
    /\ ~Duplicate(evidence, i)
    /\ item.layer \in allowed
    /\ item.operation_id = o
    /\ subject # NoSubject => item.subject_digest = subject
    /\ item.verdict = "PASS"

(* An envelope has no reason code exactly when it meets the conditions.     *)
LEMMA ItemClean ==
    ASSUME NEW o, NEW evidence, NEW i, NEW allowed, NEW subject, NEW t
    PROVE  ItemReasons(o, evidence, i, allowed, subject, t) = {}
           <=> ItemFine(o, evidence, i, allowed, subject, t)
<1> DEFINE item == evidence[i]
           c1 == item.expires_at # NoExpiry /\ item.expires_at <= item.issued_at
           c2 == subject # NoSubject /\ item.subject_digest # subject
<1>1. \A c, x : Reason(c, x) = {} <=> ~c
  BY Zenon DEF Reason
<1>2. EnvelopeReasons(item, t) = {} <=> item.wellformed /\ ~Expired(item, t) /\ ~c1
  BY DEF EnvelopeReasons, Reason
<1>3. QED
  BY <1>2 DEF ItemReasons, ItemFine, Reason

(* A list of envelopes has no reason code exactly when each one meets the   *)
(* conditions and no layer is missing.                                      *)
LEMMA EvidenceClean ==
    ASSUME NEW o, NEW evidence, NEW layers, NEW subject, NEW t
    PROVE  EvidenceReasons(o, evidence, layers, subject, t) = {}
           <=> /\ \A i \in 1..Len(evidence) : ItemFine(o, evidence, i, layers, subject, t)
               /\ \A l \in layers : \E i \in 1..Len(evidence) : evidence[i].layer = l
<1> DEFINE all == UNION {ItemReasons(o, evidence, i, layers, subject, t) : i \in 1..Len(evidence)}
           missing == {<<"MISSING_LAYER", l>> :
                         l \in {x \in layers : \A i \in 1..Len(evidence) : evidence[i].layer # x}}
<1>1. all = {} <=> \A i \in 1..Len(evidence) : ItemReasons(o, evidence, i, layers, subject, t) = {}
  OBVIOUS
<1>2. missing = {} <=> \A l \in layers : \E i \in 1..Len(evidence) : evidence[i].layer = l
  OBVIOUS
<1>3. EvidenceReasons(o, evidence, layers, subject, t) = all \cup missing
  BY DEF EvidenceReasons
<1>4. (all \cup missing = {}) <=> (all = {} /\ missing = {})
  OBVIOUS
<1>5. QED
  BY <1>1, <1>2, <1>3, <1>4, ItemClean

(* The subject the evidence of a document is compared with.                 *)
Expected(d) == IF d.v2 THEN d.subject_digest ELSE NoSubject

(* Clean evidence that is vouched for is complete evidence.                 *)
LEMMA CleanIsComplete ==
    ASSUME NEW d \in Document, NEW layers, NEW t \in Nat, NEW stage, NEW v,
           d.v2 => d.subject_digest # NoSubject,
           EvidenceReasons(d.operation_id, d.evidence, layers, Expected(d), t) = {},
           EvidenceAuthentic(d, stage, v)
    PROVE  Complete(d, layers, t, stage, v)
<1> DEFINE e == d.evidence
<1>1. /\ \A i \in 1..Len(e) : ItemFine(d.operation_id, e, i, layers, Expected(d), t)
      /\ \A l \in layers : \E i \in 1..Len(e) : e[i].layer = l
  BY EvidenceClean
<1>2. e \in Seq(Envelope) /\ Len(e) \in Nat
  BY DEF Document, DocumentOver
<1>3. ASSUME NEW i \in 1..Len(e), NEW j \in 1..Len(e), e[i].layer = e[j].layer
      PROVE  i = j
  <2>1. ~(j < i) /\ ~(i < j)
    BY <1>1, <1>3 DEF ItemFine, Duplicate
  <2>2. QED
    BY <2>1
<1>4. ASSUME NEW i \in 1..Len(e)
      PROVE  /\ e[i].layer \in layers
             /\ e[i].operation_id = d.operation_id
             /\ e[i].verdict = "PASS"
             /\ <<e[i].native, stage>> \in v
             /\ d.v2 => e[i].subject_digest = d.subject_digest
  BY <1>1 DEF ItemFine, Expected, EvidenceAuthentic
<1>5. ASSUME NEW i \in 1..Len(e), e[i].expires_at # NoExpiry
      PROVE  t < e[i].expires_at
  <2>1. e[i] \in Envelope
    BY <1>2
  <2>2. e[i].expires_at \in Nat
    BY <2>1, <1>5 DEF Envelope
  <2>3. ~(e[i].expires_at <= t)
    BY <1>1, <1>5 DEF ItemFine, Expired
  <2>4. QED
    BY <2>2, <2>3
<1>6. QED
  BY <1>1, <1>3, <1>4, <1>5 DEF Complete

(* Evidence that is clean at an instant was clean at every earlier one.     *)
LEMMA CleanEarlier ==
    ASSUME NEW d \in Document, NEW layers, NEW t \in Nat, NEW u \in Nat, t <= u,
           EvidenceReasons(d.operation_id, d.evidence, layers, Expected(d), u) = {}
    PROVE  EvidenceReasons(d.operation_id, d.evidence, layers, Expected(d), t) = {}
<1> DEFINE e == d.evidence
<1>1. /\ \A i \in 1..Len(e) : ItemFine(d.operation_id, e, i, layers, Expected(d), u)
      /\ \A l \in layers : \E i \in 1..Len(e) : e[i].layer = l
  BY EvidenceClean
<1>2. ASSUME NEW i \in 1..Len(e)
      PROVE  ItemFine(d.operation_id, e, i, layers, Expected(d), t)
  <2>1. e[i] \in Envelope
    BY DEF Document, DocumentOver
  <2>2. Expired(e[i], t) => Expired(e[i], u)
    BY <2>1 DEF Envelope, Expired
  <2>3. QED
    BY <1>1, <2>2 DEF ItemFine
<1>3. QED
  BY <1>1, <1>2, EvidenceClean

(* A VERIFIED document has a clean record only without semantic reasons.    *)
LEMMA RecordClean ==
    ASSUME NEW d, NEW reasons, d.decision = "VERIFIED"
    PROVE  RecordReasons(d, reasons) = {} <=> reasons = {} /\ d.reason_codes = {}
BY DEF RecordReasons, Reason, Decision

(* What an empty result of verify_proof says of a VERIFIED document.        *)
LEMMA IntegrityClean ==
    ASSUME NEW d, NEW t, NEW pre_valid, d.decision = "VERIFIED"
    PROVE  IntegrityReasons(d, t, pre_valid) = {}
           <=> /\ d.wellformed /\ d.intact
               /\ SubjectReasons(d) = {}
               /\ ~(d.phase = "PRE" /\ d.pre_proof # NoProof)
               /\ d.phase = "FINAL" /\ d.pre_proof # NoProof => EmbeddingReasons(d, pre_valid) = {}
               /\ SemanticReasons(d, t, pre_valid) = {}
               /\ d.reason_codes = {}
<1>1. RecordReasons(d, SemanticReasons(d, t, pre_valid)) = {}
      <=> SemanticReasons(d, t, pre_valid) = {} /\ d.reason_codes = {}
  BY RecordClean
<1>2. QED
  BY <1>1 DEF IntegrityReasons, Reason

(* The subject binding of a document without subject reasons.               *)
LEMMA SubjectClean ==
    ASSUME NEW d \in Document, HasSubject(d), SubjectReasons(d) = {}
    PROVE  SubjectBound(d) /\ (d.v2 => d.subject_digest # NoSubject)
BY DEF SubjectReasons, Reason, SubjectBound, HasSubject, Document, DocumentOver

(* Flat documents are documents.                                            *)
LEMMA FlatIsDocument == Flat \subseteq Document
BY DEF Flat, Document, DocumentOver

(* A trusted embedded proof is a complete PRE proof.                        *)
LEMMA TrustedEmbeddedSound ==
    ASSUME NEW d \in Document, HasSubject(d), NEW t \in Nat, NEW v, TrustedEmbedded(d, t, v)
    PROVE  /\ d.phase = "PRE" /\ d.intact /\ SubjectBound(d)
           /\ Complete(d, PreLayers, t, "EMBEDDED", v)
<1>1. d.phase = "PRE" /\ d.decision = "VERIFIED" /\ EvidenceAuthentic(d, "EMBEDDED", v)
  BY DEF TrustedEmbedded, Document, DocumentOver
<1>2. d.intact /\ SubjectReasons(d) = {} /\ SemanticReasons(d, t, FALSE) = {}
  BY <1>1, IntegrityClean DEF TrustedEmbedded, ValidAlone
<1>3. SubjectBound(d) /\ (d.v2 => d.subject_digest # NoSubject)
  BY <1>2, SubjectClean
<1>4. EvidenceReasons(d.operation_id, d.evidence, PreLayers, Expected(d), t) = {}
  BY <1>1, <1>2 DEF SemanticReasons, PreReasons, Expected
<1>5. Complete(d, PreLayers, t, "EMBEDDED", v)
  BY <1>1, <1>3, <1>4, CleanIsComplete
<1>6. QED
  BY <1>1, <1>2, <1>3, <1>5

(* Acceptance is sound: every document assess_proof accepts, at every       *)
(* instant and with whatever answers of the verifiers, carries exactly one  *)
(* passing, fresh and authentic envelope of this operation and subject for  *)
(* every layer, and a FINAL one embeds the PRE proof of which the same is   *)
(* true at that instant.                                                    *)
THEOREM Soundness ==
    ASSUME NEW d \in Document, HasSubject(d),
           d.pre_proof # NoProof => HasSubject(d.pre_proof),
           NEW t \in Nat, NEW v, Accepted(d, t, v)
    PROVE  Governed(d, t, v)
<1>1. /\ d.decision = "VERIFIED" /\ EvidenceAuthentic(d, "DIRECT", v)
      /\ IntegrityReasons(d, t, EmbeddedValid(d, t)) = {}
      /\ d.phase = "FINAL" => d.pre_proof # NoProof /\ TrustedEmbedded(d.pre_proof, t, v)
  BY DEF Accepted, Trusted, Valid
<1>2. /\ d.intact /\ SubjectReasons(d) = {}
      /\ SemanticReasons(d, t, EmbeddedValid(d, t)) = {}
      /\ d.phase = "FINAL" => EmbeddingReasons(d, EmbeddedValid(d, t)) = {}
  BY <1>1, IntegrityClean
<1>3. SubjectBound(d) /\ (d.v2 => d.subject_digest # NoSubject)
  BY <1>2, SubjectClean
<1>4. CASE d.phase = "PRE"
  <2>1. EvidenceReasons(d.operation_id, d.evidence, PreLayers, Expected(d), t) = {}
    BY <1>2, <1>4 DEF SemanticReasons, PreReasons, Expected
  <2>2. Complete(d, PreLayers, t, "DIRECT", v)
    BY <1>1, <1>3, <2>1, CleanIsComplete
  <2>3. QED
    BY <1>2, <1>3, <1>4, <2>2 DEF Governed
<1>5. CASE d.phase # "PRE"
  <2> DEFINE pre == d.pre_proof
  <2>1. d.phase = "FINAL" /\ pre \in Document /\ pre # NoProof
    <3>1. d.phase = "FINAL" /\ pre \in Flat \cup {NoProof}
      BY <1>5 DEF Document, DocumentOver
    <3>2. QED
      BY <1>1, <3>1, FlatIsDocument
  <2>2. FinalReasons(d, t, EmbeddedValid(d, t)) = {}
    BY <1>2, <1>5 DEF SemanticReasons
  <2>3. d.pre_bound /\ pre.operation_id = d.operation_id
    BY <2>1, <2>2 DEF FinalReasons, Reason
  <2>4. EvidenceReasons(d.operation_id, d.evidence, {EXECUTION}, Expected(d), t) = {}
    BY <2>2 DEF FinalReasons, Expected
  <2>5. Complete(d, {EXECUTION}, t, "DIRECT", v)
    BY <1>1, <1>3, <2>4, CleanIsComplete
  <2>6. pre.v2 = d.v2 /\ (d.v2 => pre.subject = d.subject)
    BY <1>2, <2>1 DEF EmbeddingReasons, Reason
  <2>7. /\ pre.phase = "PRE" /\ pre.intact /\ SubjectBound(pre)
        /\ Complete(pre, PreLayers, t, "EMBEDDED", v)
    BY <1>1, <2>1, TrustedEmbeddedSound
  <2>8. QED
    BY <1>2, <1>3, <1>5, <2>1, <2>3, <2>5, <2>6, <2>7 DEF Governed
<1>6. QED
  BY <1>4, <1>5

(* An embedded proof that decided VERIFIED and verified at some instant     *)
(* verified at every earlier one.                                           *)
LEMMA ValidAloneEarlier ==
    ASSUME NEW d \in Document, NEW t \in Nat, NEW u \in Nat, t <= u,
           d.decision = "VERIFIED", d.phase = "PRE", ValidAlone(d, u)
    PROVE  ValidAlone(d, t)
<1>1. IntegrityReasons(d, u, FALSE) = {}
  BY DEF ValidAlone
<1>2. SemanticReasons(d, u, FALSE) = {}
  BY <1>1, IntegrityClean
<1>3. EvidenceReasons(d.operation_id, d.evidence, PreLayers, Expected(d), u) = {}
  BY <1>2 DEF SemanticReasons, PreReasons, Expected
<1>4. EvidenceReasons(d.operation_id, d.evidence, PreLayers, Expected(d), t) = {}
  BY <1>3, CleanEarlier
<1>5. SemanticReasons(d, t, FALSE) = {}
  BY <1>4 DEF SemanticReasons, PreReasons, Expected
<1>6. IntegrityReasons(d, t, FALSE) = {}
  BY <1>1, <1>5, IntegrityClean
<1>7. QED
  BY <1>6 DEF ValidAlone

(* What verify_proof says of the PRE proof inside a VERIFIED FINAL one.     *)
LEMMA EmbeddedClean ==
    ASSUME NEW d \in Document, NEW t, d.decision = "VERIFIED", d.phase = "FINAL", Valid(d, t)
    PROVE  /\ d.pre_proof # NoProof /\ d.pre_proof \in Document
           /\ d.pre_proof.phase = "PRE" /\ d.pre_proof.decision = "VERIFIED"
           /\ ValidAlone(d.pre_proof, t)
<1>1. FinalReasons(d, t, EmbeddedValid(d, t)) = {}
  BY IntegrityClean DEF Valid, SemanticReasons
<1>2. d.pre_proof # NoProof /\ EmbeddedValid(d, t)
  BY <1>1 DEF FinalReasons, Reason
<1>3. d.pre_proof.phase = "PRE" /\ d.pre_proof.decision = "VERIFIED"
  BY <1>1, <1>2 DEF FinalReasons, Reason
<1>4. d.pre_proof \in Document
  BY <1>2, FlatIsDocument DEF Document, DocumentOver
<1>5. QED
  BY <1>2, <1>3, <1>4 DEF EmbeddedValid

(* Of a VERIFIED document verify_proof has reasons to refuse from some      *)
(* instant on, or never: what verifies at u verified at every earlier       *)
(* instant, so an expired document does not come back to life.  No verifier *)
(* is asked for it.                                                         *)
THEOREM VerifiedEarlier ==
    ASSUME NEW d \in Document, NEW t \in Nat, NEW u \in Nat, t <= u,
           d.decision = "VERIFIED", Valid(d, u)
    PROVE  Valid(d, t)
<1>1. IntegrityReasons(d, u, EmbeddedValid(d, u)) = {}
  BY DEF Valid
<1>2. SemanticReasons(d, u, EmbeddedValid(d, u)) = {}
  BY <1>1, IntegrityClean
<1>3. CASE d.phase = "PRE"
  <2>1. EvidenceReasons(d.operation_id, d.evidence, PreLayers, Expected(d), u) = {}
    BY <1>2, <1>3 DEF SemanticReasons, PreReasons, Expected
  <2>2. EvidenceReasons(d.operation_id, d.evidence, PreLayers, Expected(d), t) = {}
    BY <2>1, CleanEarlier
  <2>3. SemanticReasons(d, t, EmbeddedValid(d, t)) = {}
    BY <1>3, <2>2 DEF SemanticReasons, PreReasons, Expected
  <2>4. IntegrityReasons(d, t, EmbeddedValid(d, t)) = {}
    BY <1>1, <1>3, <2>3, IntegrityClean
  <2>5. QED
    BY <2>4 DEF Valid
<1>4. CASE d.phase = "FINAL"
  <2>1. /\ d.pre_proof # NoProof /\ d.pre_proof \in Document
        /\ d.pre_proof.phase = "PRE" /\ d.pre_proof.decision = "VERIFIED"
        /\ ValidAlone(d.pre_proof, u)
    BY <1>4, EmbeddedClean
  <2>2. ValidAlone(d.pre_proof, t)
    BY <2>1, ValidAloneEarlier
  <2>3. EmbeddedValid(d, u) = TRUE /\ EmbeddedValid(d, t) = TRUE
    BY <2>1, <2>2 DEF EmbeddedValid
  <2>4. FinalReasons(d, u, TRUE) = {}
    BY <1>2, <1>4, <2>3 DEF SemanticReasons
  <2>5. EvidenceReasons(d.operation_id, d.evidence, {EXECUTION}, Expected(d), u) = {}
    BY <2>4 DEF FinalReasons, Expected
  <2>6. EvidenceReasons(d.operation_id, d.evidence, {EXECUTION}, Expected(d), t) = {}
    BY <2>5, CleanEarlier
  <2>7. FinalReasons(d, t, TRUE) = {}
    BY <2>4, <2>6 DEF FinalReasons, Expected
  <2>8. SemanticReasons(d, t, EmbeddedValid(d, t)) = {}
    BY <1>4, <2>3, <2>7 DEF SemanticReasons
  <2>9. IntegrityReasons(d, t, EmbeddedValid(d, t)) = {}
    BY <1>1, <1>4, <2>3, <2>8, IntegrityClean
  <2>10. QED
    BY <2>9 DEF Valid
<1>5. QED
  BY <1>3, <1>4 DEF Document, DocumentOver

(* Everything the walk over a proof asks the verifiers is answered True.    *)
AllVouched(d, v) ==
    /\ EvidenceAuthentic(d, "DIRECT", v)
    /\ d.phase = "FINAL" => EvidenceAuthentic(d.pre_proof, "EMBEDDED", v)

(* The verifiers decide and nothing else: a document accepted at u is       *)
(* accepted at an earlier instant exactly if the verifiers vouch then for   *)
(* all of its evidence, each piece at its stage, whatever they answered at  *)
(* u.                                                                       *)
THEOREM AcceptedEarlier ==
    ASSUME NEW d \in Document, NEW t \in Nat, NEW u \in Nat, t <= u,
           NEW v, Accepted(d, u, v), NEW w
    PROVE  Accepted(d, t, w) <=> AllVouched(d, w)
<1>1. ShapeAllowed(d) /\ Valid(d, u) /\ d.decision = "VERIFIED"
  BY DEF Accepted
<1>2. Valid(d, t)
  BY <1>1, VerifiedEarlier
<1>3. d.phase = "FINAL" =>
        /\ d.pre_proof # NoProof /\ d.pre_proof.phase # "FINAL"
        /\ d.pre_proof.decision = "VERIFIED" /\ ValidAlone(d.pre_proof, t)
  BY <1>1, <1>2, EmbeddedClean
<1>4. QED
  BY <1>1, <1>2, <1>3 DEF Accepted, Trusted, TrustedEmbedded, AllVouched

-------------------------------------------------------------------------------
(* The reasons of a list of envelopes are reason codes.                     *)
LEMMA EvidenceReasonsTyped ==
    ASSUME NEW o, NEW evidence \in Seq(Envelope), NEW layers \in SUBSET Layers,
           NEW subject, NEW t
    PROVE  EvidenceReasons(o, evidence, layers, subject, t) \in SUBSET Reasons
<1>1. ASSUME NEW i \in 1..Len(evidence)
      PROVE  ItemReasons(o, evidence, i, layers, subject, t) \in SUBSET Reasons
  <2> DEFINE item == evidence[i]
  <2>1. item \in Envelope
    OBVIOUS
  <2>2. item.layer \in Layers \cup {Whole}
    BY <2>1 DEF Envelope
  <2>3. ASSUME NEW c, NEW code \in Codes
        PROVE  Reason(c, <<code, item.layer>>) \in SUBSET Reasons
    BY <2>2 DEF Reason, Reasons
  <2> HIDE DEF item
  <2>4. /\ "INVALID" \in Codes /\ "EXPIRED_EVIDENCE" \in Codes /\ "INVALID_EXPIRY_ORDER" \in Codes
        /\ "DUPLICATE_LAYER" \in Codes /\ "UNEXPECTED_LAYER" \in Codes
        /\ "OPERATION_ID_MISMATCH" \in Codes /\ "SUBJECT_DIGEST_MISMATCH" \in Codes
        /\ (IF item.verdict = "FAIL" THEN "LAYER_FAIL" ELSE "LAYER_UNKNOWN") \in Codes
    BY DEF Codes
  <2>5. EnvelopeReasons(item, t) \in SUBSET Reasons
    BY <2>3, <2>4 DEF EnvelopeReasons
  <2>6. /\ Reason(Duplicate(evidence, i), <<"DUPLICATE_LAYER", item.layer>>) \in SUBSET Reasons
        /\ Reason(item.layer \notin layers, <<"UNEXPECTED_LAYER", item.layer>>) \in SUBSET Reasons
        /\ Reason(item.operation_id # o, <<"OPERATION_ID_MISMATCH", item.layer>>) \in SUBSET Reasons
        /\ Reason(subject # NoSubject /\ item.subject_digest # subject,
                  <<"SUBJECT_DIGEST_MISMATCH", item.layer>>) \in SUBSET Reasons
        /\ Reason(item.verdict # "PASS",
                  <<IF item.verdict = "FAIL" THEN "LAYER_FAIL" ELSE "LAYER_UNKNOWN", item.layer>>)
             \in SUBSET Reasons
    BY <2>3, <2>4
  <2>7. QED
    BY <2>5, <2>6 DEF ItemReasons, item
<1>2. ASSUME NEW l \in layers PROVE <<"MISSING_LAYER", l>> \in Reasons
  <2>1. "MISSING_LAYER" \in Codes
    BY DEF Codes
  <2>2. QED
    BY <2>1 DEF Reasons
<1>3. QED
  BY <1>1, <1>2 DEF EvidenceReasons

(* The semantic reasons of a document are reason codes.                     *)
LEMMA SemanticReasonsTyped ==
    ASSUME NEW d \in Document, NEW t, NEW pre_valid
    PROVE  /\ PreReasons(d, t) \in SUBSET Reasons
           /\ FinalReasons(d, t, pre_valid) \in SUBSET Reasons
<1>1. d.evidence \in Seq(Envelope)
  BY DEF Document, DocumentOver
<1>2. PreLayers \in SUBSET Layers /\ {EXECUTION} \in SUBSET Layers
  BY DEF Layers
<1>3. PreReasons(d, t) \in SUBSET Reasons
  BY <1>1, <1>2, EvidenceReasonsTyped DEF PreReasons
<1>4. EvidenceReasons(d.operation_id, d.evidence, {EXECUTION},
                      IF d.v2 THEN d.subject_digest ELSE NoSubject, t) \in SUBSET Reasons
  BY <1>1, <1>2, EvidenceReasonsTyped
<1>5. ASSUME NEW c, NEW code \in Codes PROVE Reason(c, <<code, Whole>>) \in SUBSET Reasons
  BY DEF Reason, Reasons
<1>6. /\ "PRE_PROOF_MISSING" \in Codes /\ "PRE_PROOF_INVALID" \in Codes
      /\ "PRE_PROOF_PHASE_INVALID" \in Codes /\ "PRE_PROOF_NOT_VERIFIED" \in Codes
      /\ "PRE_PROOF_OPERATION_ID_MISMATCH" \in Codes /\ "PRE_PROOF_DIGEST_MISMATCH" \in Codes
      /\ "PRE_PROOF_SUBJECT_BINDING_MISSING" \in Codes
      /\ "PRE_PROOF_SUBJECT_DIGEST_MISMATCH" \in Codes
  BY DEF Codes
<1>7. FinalReasons(d, t, pre_valid) \in SUBSET Reasons
  BY <1>4, <1>5, <1>6 DEF FinalReasons
<1>8. QED
  BY <1>3, <1>7

(* Finalising a document gives a document.                                  *)
LEMMA FinalizeTyped ==
    ASSUME NEW pre_proofs, NEW d \in DocumentOver(pre_proofs), NEW reasons \in SUBSET Reasons
    PROVE  /\ Finalize(d, reasons) \in DocumentOver(pre_proofs)
           /\ HasSubject(d) => HasSubject(Finalize(d, reasons))
           /\ Finalize(d, reasons).pre_proof = d.pre_proof
BY DEF DocumentOver, Finalize, Decision, HasSubject

(* Editing a document gives a document, with a subject exactly in v2, and   *)
(* does not touch what is embedded except to remove it.                     *)
LEMMA EditsTyped ==
    ASSUME NEW pre_proofs, NoProof \in pre_proofs, NEW d \in DocumentOver(pre_proofs),
           HasSubject(d), NEW e \in Edits(d), NEW recomputed \in BOOLEAN
    PROVE  /\ [e EXCEPT !.intact = recomputed] \in DocumentOver(pre_proofs)
           /\ HasSubject([e EXCEPT !.intact = recomputed])
           /\ [e EXCEPT !.intact = recomputed].pre_proof \in {d.pre_proof, NoProof}
<1>1. \A x \in Collections \cup {<<y>> : y \in Executions} : x \in Seq(Envelope)
  <2>1. \A c \in Collections : c \in Seq(Envelope)
    BY VerifierAssumption
  <2>2. ASSUME NEW y \in Executions PROVE <<y>> \in Seq(Envelope)
    <3>1. y \in Envelope
      BY VerifierAssumption
    <3>2. QED
      BY <3>1
  <2>3. QED
    BY <2>1, <2>2
<1>2. NoSubject \notin Subjects
  BY VerifierAssumption
<1>3. /\ e \in DocumentOver(pre_proofs) /\ HasSubject(e)
      /\ e.pre_proof \in {d.pre_proof, NoProof}
  <2>1. CASE e \in {[d EXCEPT !.decision = x] : x \in {"VERIFIED", "REJECTED"}}
    BY <2>1 DEF DocumentOver, HasSubject
  <2>2. CASE e = [d EXCEPT !.reason_codes = {}]
    BY <2>2 DEF DocumentOver, HasSubject
  <2>3. CASE e = [d EXCEPT !.decision = "VERIFIED", !.reason_codes = {}]
    BY <2>3 DEF DocumentOver, HasSubject
  <2>4. CASE e \in {[d EXCEPT !.phase = x] : x \in {"PRE", "FINAL"}}
    BY <2>4 DEF DocumentOver, HasSubject
  <2>5. CASE e \in {[d EXCEPT !.operation_id = x] : x \in Operations}
    BY <2>5 DEF DocumentOver, HasSubject
  <2>6. CASE e \in {[d EXCEPT !.evidence = x] : x \in Collections \cup {<<y>> : y \in Executions}}
    <3>1. PICK x \in Seq(Envelope) : e = [d EXCEPT !.evidence = x]
      BY <1>1, <2>6
    <3>2. QED
      BY <3>1 DEF DocumentOver, HasSubject
  <2>7. CASE e \in {[d EXCEPT !.v2 = x # NoSubject, !.subject = x, !.subject_digest = x] :
                      x \in Subjects \cup {NoSubject}}
    <3>1. PICK x \in Subjects \cup {NoSubject} :
            e = [d EXCEPT !.v2 = x # NoSubject, !.subject = x, !.subject_digest = x]
      BY <2>7
    <3>2. QED
      BY <3>1 DEF DocumentOver, HasSubject
  <2>8. CASE e \in {[d EXCEPT !.subject_digest = x] : x \in IF d.v2 THEN Subjects ELSE {}}
    <3>1. PICK x \in Subjects : e = [d EXCEPT !.subject_digest = x]
      BY <2>8
    <3>2. QED
      BY <3>1 DEF DocumentOver, HasSubject
  <2>9. CASE e = [d EXCEPT !.pre_proof = NoProof, !.pre_bound = FALSE]
    BY <2>9 DEF DocumentOver, HasSubject
  <2>10. CASE e = [d EXCEPT !.wellformed = FALSE]
    BY <2>10 DEF DocumentOver, HasSubject
  <2>11. QED
    BY <2>1, <2>2, <2>3, <2>4, <2>5, <2>6, <2>7, <2>8, <2>9, <2>10 DEF Edits
<1>4. QED
  BY <1>3 DEF DocumentOver, HasSubject

(* Type correctness: builders and carriers produce documents, nested at     *)
(* most once, with a subject exactly when they are v2.                      *)
THEOREM TypeCorrect == Spec => []TypeOK
<1>1. Init => TypeOK
  BY VerifierAssumption DEF Init, TypeOK, Times
<1>2. ASSUME TypeOK, [Next]_vars PROVE TypeOK'
  <2> USE <1>2
  <2>1. ASSUME NEW o \in Operations, NEW s \in Subjects \cup {NoSubject},
               NEW c \in Collections, BuildPre(o, s, c)
        PROVE  TypeOK'
    <3> DEFINE draft == [phase |-> "PRE", v2 |-> s # NoSubject, operation_id |-> o,
                         subject |-> s, subject_digest |-> s, evidence |-> c,
                         pre_proof |-> NoProof, pre_bound |-> FALSE,
                         decision |-> "REJECTED", reason_codes |-> {},
                         intact |-> TRUE, wellformed |-> TRUE]
    <3>1. draft \in Flat /\ HasSubject(draft) /\ draft.pre_proof = NoProof
      BY VerifierAssumption DEF Flat, DocumentOver, HasSubject
    <3>2. PreReasons(draft, now) \in SUBSET Reasons
      BY <3>1, FlatIsDocument, SemanticReasonsTyped
    <3>3. proof' = Finalize(draft, PreReasons(draft, now))
      BY <2>1 DEF BuildPre
    <3> HIDE DEF draft
    <3>4. proof' \in Flat /\ HasSubject(proof') /\ proof'.pre_proof = NoProof
      BY <3>1, <3>2, <3>3, FinalizeTyped DEF Flat
    <3>5. QED
      BY <2>1, <3>4, FlatIsDocument DEF TypeOK, BuildPre, HasSubject
  <2>2. ASSUME NEW x \in Executions, BuildFinal(x) PROVE TypeOK'
    <3> DEFINE draft == [proof EXCEPT !.phase = "FINAL", !.evidence = <<x>>,
                                      !.pre_proof = proof, !.pre_bound = TRUE,
                                      !.intact = TRUE, !.wellformed = TRUE]
    <3>1. proof \in Document /\ proof.pre_proof = NoProof /\ HasSubject(proof)
      BY <2>2 DEF BuildFinal, TypeOK
    <3>2. proof \in Flat
      BY <3>1 DEF Document, Flat, DocumentOver
    <3>3. draft \in Document /\ HasSubject(draft) /\ draft.pre_proof = proof
      <4>1. <<x>> \in Seq(Envelope)
        BY VerifierAssumption
      <4>2. QED
        BY <3>1, <3>2, <4>1 DEF Document, DocumentOver, HasSubject
    <3>4. FinalReasons(draft, now, ValidAlone(proof, now)) \in SUBSET Reasons
      BY <3>3, SemanticReasonsTyped
    <3>5. proof' = Finalize(draft, FinalReasons(draft, now, ValidAlone(proof, now)))
      BY <2>2 DEF BuildFinal
    <3> HIDE DEF draft
    <3>6. proof' \in Document /\ HasSubject(proof') /\ proof'.pre_proof = proof
      BY <3>3, <3>4, <3>5, FinalizeTyped DEF Document
    <3>7. QED
      BY <2>2, <3>1, <3>6 DEF TypeOK, BuildFinal, HasSubject
  <2>3. ASSUME Alter PROVE TypeOK'
    <3>1. /\ proof \in Document /\ HasSubject(proof) /\ altered' \in 0..MaxAlterations
          /\ now' = now /\ vouched' = vouched
      <4>1. altered \in 0..MaxAlterations /\ altered < MaxAlterations
        BY <2>3, Zenon DEF Alter, TypeOK
      <4>2. /\ altered' = altered + 1 /\ now' = now /\ vouched' = vouched
            /\ proof # NoProof
        BY <2>3 DEF Alter
      <4>3. MaxAlterations \in Nat
        BY VerifierAssumption
      <4>4. altered' \in 0..MaxAlterations
        BY <4>1, <4>2, <4>3
      <4>5. QED
        BY <4>2, <4>4 DEF TypeOK
    <3>2. ASSUME NEW recomputed \in BOOLEAN, NEW d \in Edits(proof),
                 proof' = [d EXCEPT !.intact = recomputed]
          PROVE  TypeOK'
      <4>1. proof' \in Document /\ HasSubject(proof') /\ proof'.pre_proof \in {proof.pre_proof, NoProof}
        BY <3>1, <3>2, EditsTyped DEF Document
      <4>2. QED
        BY <3>1, <4>1, <2>3 DEF TypeOK, HasSubject, Alter
    <3>3. ASSUME NEW recomputed \in BOOLEAN, NEW pre \in Edits(proof.pre_proof), NEW bound \in BOOLEAN,
                 proof.pre_proof # NoProof,
                 proof' = [proof EXCEPT !.pre_proof = [pre EXCEPT !.intact = recomputed],
                                        !.pre_bound = bound, !.intact = recomputed]
          PROVE  TypeOK'
      <4> DEFINE edited == [pre EXCEPT !.intact = recomputed]
      <4>1. proof.pre_proof \in Flat /\ HasSubject(proof.pre_proof)
        BY <2>3, <3>1, <3>3 DEF Document, DocumentOver, TypeOK, Alter
      <4>2. edited \in Flat /\ HasSubject(edited)
        BY <4>1, EditsTyped DEF Flat
      <4>3. proof' = [proof EXCEPT !.pre_proof = edited, !.pre_bound = bound, !.intact = recomputed]
        BY <3>3
      <4> HIDE DEF edited
      <4>4. proof' \in Document /\ HasSubject(proof') /\ proof'.pre_proof = edited
        BY <3>1, <4>2, <4>3 DEF Document, DocumentOver, HasSubject
      <4>5. QED
        BY <2>3, <3>1, <4>2, <4>4 DEF TypeOK, HasSubject
    <3>4. QED
      BY <2>3, <3>2, <3>3 DEF Alter
  <2>4. CASE Tick
    BY <2>4, VerifierAssumption DEF Tick, TypeOK, Times, HasSubject
  <2>5. CASE ProvidersChange
    BY <2>5 DEF ProvidersChange, TypeOK, HasSubject
  <2>6. CASE UNCHANGED vars
    BY <2>6 DEF vars, TypeOK, HasSubject
  <2>7. QED
    BY <2>1, <2>2, <2>3, <2>4, <2>5, <2>6 DEF Next
<1>3. QED
  BY <1>1, <1>2, PTL DEF Spec

(* Whatever is built, altered and presented, and whenever: what is accepted *)
(* is governed.                                                             *)
THEOREM AcceptanceSound == Spec => []AcceptedIsGoverned
<1>1. TypeOK => AcceptedIsGoverned
  <2> SUFFICES ASSUME TypeOK, proof # NoProof, Accepted(proof, now, vouched)
               PROVE  Governed(proof, now, vouched)
    BY DEF AcceptedIsGoverned
  <2>1. now \in Nat
    BY VerifierAssumption DEF TypeOK, Times
  <2>2. QED
    BY <2>1, Soundness DEF TypeOK
<1>2. QED
  BY <1>1, TypeCorrect, PTL

(* Time does not bring a refused document back, and no step that leaves the *)
(* document alone does: only other answers of the verifiers do.             *)
THEOREM RefusalIsFinal == Spec => NoResurrection
<1>1. ASSUME TypeOK, TypeOK', [Next]_vars
      PROVE  [proof # NoProof /\ proof' = proof /\ Accepted(proof, now, vouched)'
                => Accepted(proof, now, vouched')]_vars
  <2> SUFFICES ASSUME proof # NoProof, proof' = proof, Accepted(proof, now, vouched)'
               PROVE  Accepted(proof, now, vouched')
    OBVIOUS
  <2>1. now \in Nat /\ now' \in Nat /\ now <= now'
    <3>1. now \in Nat /\ now' \in Nat
      BY <1>1, VerifierAssumption DEF TypeOK, Times
    <3>2. now' = now \/ now' = now + 1
      BY <1>1 DEF Next, vars, BuildPre, BuildFinal, Alter, Tick, ProvidersChange
    <3>3. QED
      BY <3>1, <3>2
  <2>2. proof \in Document
    BY <1>1 DEF TypeOK
  <2>3. Accepted(proof, now', vouched')
    BY DEF Accepted
  <2>4. AllVouched(proof, vouched')
    BY <2>1, <2>2, <2>3, AcceptedEarlier
  <2>5. QED
    BY <2>1, <2>2, <2>3, <2>4, AcceptedEarlier
<1>2. QED
  BY <1>1, TypeCorrect, PTL DEF Spec, NoResurrection

-------------------------------------------------------------------------------
(* Evidence that was clean once and is complete now is clean now: of all    *)
(* the reason codes only EXPIRED_EVIDENCE depends on the instant.           *)
LEMMA CompleteIsClean ==
    ASSUME NEW d \in Document, NEW layers, NEW u \in Nat, NEW t \in Nat,
           NEW stage, NEW v,
           EvidenceReasons(d.operation_id, d.evidence, layers, Expected(d), u) = {},
           Complete(d, layers, t, stage, v)
    PROVE  /\ EvidenceReasons(d.operation_id, d.evidence, layers, Expected(d), t) = {}
           /\ EvidenceAuthentic(d, stage, v)
<1> DEFINE e == d.evidence
<1>1. /\ \A i \in 1..Len(e) : ItemFine(d.operation_id, e, i, layers, Expected(d), u)
      /\ \A l \in layers : \E i \in 1..Len(e) : e[i].layer = l
  BY EvidenceClean
<1>2. ASSUME NEW i \in 1..Len(e)
      PROVE  ItemFine(d.operation_id, e, i, layers, Expected(d), t)
  <2>1. e[i] \in Envelope
    BY DEF Document, DocumentOver
  <2>2. e[i].expires_at # NoExpiry => t < e[i].expires_at
    BY DEF Complete
  <2>3. ~Expired(e[i], t)
    BY <2>1, <2>2 DEF Envelope, Expired
  <2>4. QED
    BY <1>1, <2>3 DEF ItemFine
<1>3. EvidenceAuthentic(d, stage, v)
  BY DEF Complete, EvidenceAuthentic
<1>4. QED
  BY <1>1, <1>2, <1>3, EvidenceClean

(* A VERIFIED PRE proof that verified once and is complete now verifies now, *)
(* and its evidence is vouched for.                                         *)
LEMMA CompleteIsTrusted ==
    ASSUME NEW d \in Document, NEW u \in Nat, NEW t \in Nat, NEW pre_valid, NEW stage, NEW v,
           d.decision = "VERIFIED", d.phase = "PRE",
           IntegrityReasons(d, u, pre_valid) = {}, Complete(d, PreLayers, t, stage, v)
    PROVE  /\ \A p : IntegrityReasons(d, t, p) = {}
           /\ EvidenceAuthentic(d, stage, v)
<1>1. SemanticReasons(d, u, pre_valid) = {}
  BY IntegrityClean
<1>2. EvidenceReasons(d.operation_id, d.evidence, PreLayers, Expected(d), u) = {}
  BY <1>1 DEF SemanticReasons, PreReasons, Expected
<1>3. /\ EvidenceReasons(d.operation_id, d.evidence, PreLayers, Expected(d), t) = {}
      /\ EvidenceAuthentic(d, stage, v)
  BY <1>2, CompleteIsClean
<1>4. ASSUME NEW p PROVE IntegrityReasons(d, t, p) = {}
  <2>1. SemanticReasons(d, t, p) = {}
    BY <1>3 DEF SemanticReasons, PreReasons, Expected
  <2>2. QED
    BY <2>1, IntegrityClean
<1>5. QED
  BY <1>3, <1>4

(* Acceptance is complete: a VERIFIED document that verified at any instant *)
(* is accepted at every instant at which it is governed.                    *)
THEOREM Completeness ==
    ASSUME NEW d \in Document, NEW u \in Nat, NEW t \in Nat, NEW v,
           d.decision = "VERIFIED", Valid(d, u), Governed(d, t, v)
    PROVE  Accepted(d, t, v)
<1>1. IntegrityReasons(d, u, EmbeddedValid(d, u)) = {}
  BY DEF Valid
<1>2. CASE d.phase = "PRE"
  <2>1. Complete(d, PreLayers, t, "DIRECT", v)
    BY <1>2 DEF Governed
  <2>2. /\ \A p : IntegrityReasons(d, t, p) = {}
        /\ EvidenceAuthentic(d, "DIRECT", v)
    BY <1>1, <1>2, <2>1, CompleteIsTrusted
  <2>3. QED
    BY <1>2, <2>2 DEF Accepted, ShapeAllowed, Valid, Trusted
<1>3. CASE d.phase = "FINAL"
  <2> DEFINE pre == d.pre_proof
  <2>1. /\ Complete(d, {EXECUTION}, t, "DIRECT", v) /\ pre # NoProof
        /\ pre.phase = "PRE" /\ Complete(pre, PreLayers, t, "EMBEDDED", v)
    BY <1>3 DEF Governed
  <2>2. pre \in Document
    BY <2>1, FlatIsDocument DEF Document, DocumentOver
  <2>3. FinalReasons(d, u, EmbeddedValid(d, u)) = {}
    BY <1>1, <1>3, IntegrityClean DEF SemanticReasons
  <2>4. EmbeddedValid(d, u) /\ pre.decision = "VERIFIED"
    BY <2>1, <2>3 DEF FinalReasons, Reason
  <2>5. IntegrityReasons(pre, u, FALSE) = {}
    BY <2>4 DEF EmbeddedValid, ValidAlone
  <2>6. TrustedEmbedded(pre, t, v)
    <3>1. /\ \A p : IntegrityReasons(pre, t, p) = {}
          /\ EvidenceAuthentic(pre, "EMBEDDED", v)
      BY <2>1, <2>2, <2>4, <2>5, CompleteIsTrusted
    <3>2. QED
      BY <2>1, <2>4, <3>1 DEF TrustedEmbedded, ValidAlone
  <2>7. EmbeddedValid(d, u) = TRUE /\ EmbeddedValid(d, t) = TRUE
    BY <2>1, <2>4, <2>6 DEF EmbeddedValid, TrustedEmbedded, ValidAlone
  <2>8. EvidenceReasons(d.operation_id, d.evidence, {EXECUTION}, Expected(d), u) = {}
    BY <2>3 DEF FinalReasons, Expected
  <2>9. /\ EvidenceReasons(d.operation_id, d.evidence, {EXECUTION}, Expected(d), t) = {}
        /\ EvidenceAuthentic(d, "DIRECT", v)
    BY <2>1, <2>8, CompleteIsClean
  <2>10. FinalReasons(d, t, TRUE) = {}
    BY <2>3, <2>7, <2>9 DEF FinalReasons, Expected
  <2>11. SemanticReasons(d, t, EmbeddedValid(d, t)) = {}
    BY <1>3, <2>7, <2>10 DEF SemanticReasons
  <2>12. IntegrityReasons(d, t, EmbeddedValid(d, t)) = {}
    BY <1>1, <1>3, <2>7, <2>11, IntegrityClean
  <2>13. QED
    BY <1>3, <2>1, <2>6, <2>9, <2>12 DEF Accepted, ShapeAllowed, Valid, Trusted
<1>4. QED
  BY <1>2, <1>3 DEF Document, DocumentOver

-------------------------------------------------------------------------------
(* A document records the decision it was finalised with.                   *)
LEMMA FinalizeRecords ==
    ASSUME NEW pre_proofs, NEW d \in DocumentOver(pre_proofs), NEW reasons
    PROVE  RecordReasons(Finalize(d, reasons), reasons) = {}
BY DEF DocumentOver, Finalize, RecordReasons, Reason

(* build_pre_proof gives a document that verifies at the instant it is      *)
(* built, whatever it decided.                                              *)
LEMMA BuiltPreValid ==
    ASSUME NEW o \in Operations, NEW s \in Subjects \cup {NoSubject}, NEW c \in Collections,
           BuildPre(o, s, c)
    PROVE  Valid(proof', now) /\ UNCHANGED <<now, altered, vouched>> /\ proof = NoProof
<1> DEFINE draft == [phase |-> "PRE", v2 |-> s # NoSubject, operation_id |-> o,
                     subject |-> s, subject_digest |-> s, evidence |-> c,
                     pre_proof |-> NoProof, pre_bound |-> FALSE,
                     decision |-> "REJECTED", reason_codes |-> {},
                     intact |-> TRUE, wellformed |-> TRUE]
           reasons == PreReasons(draft, now)
           built == Finalize(draft, reasons)
<1>1. draft \in Flat
  BY VerifierAssumption DEF Flat, DocumentOver
<1>2. RecordReasons(built, reasons) = {}
  <2> HIDE DEF draft
  <2>1. QED
    BY <1>1, FinalizeRecords DEF Flat
<1>3. /\ built.wellformed /\ built.intact /\ built.phase = "PRE" /\ built.pre_proof = NoProof
      /\ built.operation_id = o /\ built.subject = s /\ built.subject_digest = s
      /\ built.v2 = (s # NoSubject) /\ built.evidence = c
  <2> HIDE DEF reasons
  <2>1. QED
    BY DEF Finalize
<1>4. SubjectReasons(built) = {}
  <2>1. s # NoSubject => SubjectOperation[s] = o
    BY DEF BuildPre
  <2> HIDE DEF built
  <2>2. QED
    BY <1>3, <2>1 DEF SubjectReasons, Reason
<1>5. ASSUME NEW p PROVE SemanticReasons(built, now, p) = reasons
  <2>1. PreReasons(built, now) = PreReasons(draft, now)
    <3>1. /\ draft.operation_id = o /\ draft.evidence = c
          /\ draft.v2 = (s # NoSubject) /\ draft.subject_digest = s
      OBVIOUS
    <3> HIDE DEF built, draft
    <3>2. QED
      BY <1>3, <3>1 DEF PreReasons
  <2> HIDE DEF built
  <2>2. QED
    BY <1>3, <2>1 DEF SemanticReasons
<1>6. proof' = built /\ UNCHANGED <<now, altered, vouched>> /\ proof = NoProof
  BY DEF BuildPre
<1>7. Valid(built, now)
  <2> HIDE DEF built, reasons
  <2>1. QED
    BY <1>2, <1>3, <1>4, <1>5 DEF Valid, IntegrityReasons, Reason
<1> HIDE DEF built
<1>8. QED
  BY <1>6, <1>7

(* build_final_proof gives a document that verifies at the instant it is    *)
(* built exactly when the document it was built on does; one it decides     *)
(* VERIFIED always does.                                                    *)
LEMMA BuiltFinalValid ==
    ASSUME TypeOK, NEW x \in Executions, BuildFinal(x)
    PROVE  /\ Valid(proof', now) <=> Valid(proof, now)
           /\ proof'.decision = "VERIFIED" => Valid(proof', now)
           /\ UNCHANGED <<now, altered, vouched>> /\ proof # NoProof
<1> DEFINE draft == [proof EXCEPT !.phase = "FINAL", !.evidence = <<x>>,
                                  !.pre_proof = proof, !.pre_bound = TRUE,
                                  !.intact = TRUE, !.wellformed = TRUE]
           valid == ValidAlone(proof, now)
           reasons == FinalReasons(draft, now, valid)
           built == Finalize(draft, reasons)
<1>1. proof # NoProof /\ proof.pre_proof = NoProof /\ proof \in Document
  BY DEF BuildFinal, TypeOK
<1>2. proof \in Flat
  BY <1>1 DEF Document, Flat, DocumentOver
<1>3. draft \in Document
  <2>1. <<x>> \in Seq(Envelope)
    BY VerifierAssumption
  <2>2. QED
    BY <1>1, <1>2, <2>1 DEF Document, DocumentOver
<1>4. /\ draft.phase = "FINAL" /\ draft.evidence = <<x>> /\ draft.pre_proof = proof
      /\ draft.pre_bound = TRUE /\ draft.intact = TRUE /\ draft.wellformed = TRUE
      /\ draft.v2 = proof.v2 /\ draft.operation_id = proof.operation_id
      /\ draft.subject = proof.subject /\ draft.subject_digest = proof.subject_digest
  BY <1>1 DEF Document, DocumentOver
<1>5. /\ proof' = built /\ UNCHANGED <<now, altered, vouched>>
  BY DEF BuildFinal
<1> HIDE DEF draft
<1>6. RecordReasons(built, reasons) = {}
  BY <1>3, FinalizeRecords DEF Document
<1>7. /\ built.phase = "FINAL" /\ built.evidence = draft.evidence /\ built.pre_proof = proof
      /\ built.pre_bound = TRUE /\ built.intact = TRUE /\ built.wellformed = TRUE
      /\ built.v2 = proof.v2 /\ built.operation_id = proof.operation_id
      /\ built.subject = proof.subject /\ built.subject_digest = proof.subject_digest
      /\ built.decision = Decision(reasons)
  <2> HIDE DEF reasons
  <2>1. QED
    BY <1>3, <1>4 DEF Document, DocumentOver, Finalize
<1> HIDE DEF built
<1>8. FinalReasons(built, now, valid) = reasons
  BY <1>4, <1>7 DEF FinalReasons, reasons
<1>9. EmbeddedValid(built, now) = valid
  BY <1>1, <1>7 DEF EmbeddedValid, ValidAlone
<1>10. SemanticReasons(built, now, valid) = reasons
  BY <1>7, <1>8 DEF SemanticReasons
<1>11. valid <=> Valid(proof, now)
  BY <1>1 DEF Valid, ValidAlone, EmbeddedValid
<1>12. SubjectReasons(built) = SubjectReasons(proof)
  BY <1>7 DEF SubjectReasons
<1>13. EmbeddingReasons(built, valid) = {} <=> valid
  BY <1>7 DEF EmbeddingReasons, Reason
<1>14. valid => SubjectReasons(proof) = {}
  BY DEF ValidAlone, IntegrityReasons
<1> HIDE DEF valid, reasons
<1>15. IntegrityReasons(built, now, valid) = SubjectReasons(built) \cup EmbeddingReasons(built, valid)
  BY <1>1, <1>6, <1>7, <1>10 DEF IntegrityReasons, Reason
<1>16. Valid(built, now) <=> valid
  BY <1>9, <1>12, <1>13, <1>14, <1>15 DEF Valid
<1>17. built.decision = "VERIFIED" => valid
  BY <1>1, <1>7, <1>8 DEF Decision, FinalReasons, Reason
<1>18. QED
  BY <1>1, <1>5, <1>11, <1>16, <1>17

(* An alteration is counted.                                                *)
LEMMA AlterationCounted ==
    ASSUME TypeOK, Alter
    PROVE  proof # NoProof /\ altered' # altered /\ altered' # 0
<1>1. altered \in 0..MaxAlterations
  BY Zenon DEF TypeOK
<1>2. altered' = altered + 1 /\ proof # NoProof
  BY DEF Alter
<1>3. MaxAlterations \in Nat
  BY VerifierAssumption
<1>4. QED
  BY <1>1, <1>2, <1>3

(* A document nobody touched verified at some instant, unless it records a  *)
(* rejection.                                                               *)
UntouchedWasValid ==
    proof # NoProof /\ altered = 0 /\ proof.decision = "VERIFIED"
        => \E u \in 0..now : Valid(proof, u)

(* The builders establish it, the clock keeps it and an alteration ends it. *)
LEMMA UntouchedInvariance == Spec => []UntouchedWasValid
<1>1. Init => UntouchedWasValid
  BY DEF Init, UntouchedWasValid
<1>2. ASSUME TypeOK, UntouchedWasValid, [Next]_vars PROVE UntouchedWasValid'
  <2>1. now \in Nat
    BY <1>2, VerifierAssumption DEF TypeOK, Times
  <2>2. ASSUME NEW o \in Operations, NEW s \in Subjects \cup {NoSubject},
               NEW c \in Collections, BuildPre(o, s, c)
        PROVE  UntouchedWasValid'
    <3>1. Valid(proof', now) /\ now' = now
      BY <2>2, BuiltPreValid
    <3>2. \E u \in 0..now' : Valid(proof', u)
      BY <2>1, <3>1
    <3>3. QED
      BY <3>2 DEF UntouchedWasValid, Valid
  <2>3. ASSUME NEW x \in Executions, BuildFinal(x) PROVE UntouchedWasValid'
    <3>1. (proof'.decision = "VERIFIED" => Valid(proof', now)) /\ now' = now
      BY <1>2, <2>3, BuiltFinalValid
    <3>2. proof'.decision = "VERIFIED" => \E u \in 0..now' : Valid(proof', u)
      BY <2>1, <3>1
    <3>3. QED
      BY <3>2 DEF UntouchedWasValid, Valid
  <2>4. CASE Alter
    <3>1. altered' # 0
      BY <1>2, <2>4, AlterationCounted
    <3>2. QED
      BY <3>1 DEF UntouchedWasValid
  <2>5. ASSUME proof' = proof, altered' = altered, now' = now \/ now' = now + 1
        PROVE  UntouchedWasValid'
    <3>1. 0..now \subseteq 0..now'
      BY <2>1, <2>5
    <3>2. \A u : Valid(proof', u) <=> Valid(proof, u)
      BY <2>5
    <3>3. proof' # NoProof /\ altered' = 0 /\ proof'.decision = "VERIFIED"
              => \E u \in 0..now' : Valid(proof', u)
      BY <1>2, <2>5, <3>1, <3>2 DEF UntouchedWasValid
    <3>4. QED
      BY <3>3 DEF UntouchedWasValid, Valid
  <2>6. CASE Tick
    BY <2>5, <2>6 DEF Tick
  <2>7. CASE ProvidersChange \/ UNCHANGED vars
    BY <2>5, <2>7 DEF ProvidersChange, vars
  <2>8. QED
    BY <1>2, <2>2, <2>3, <2>4, <2>6, <2>7 DEF Next
<1>3. QED
  BY <1>1, <1>2, TypeCorrect, PTL DEF Spec

(* Governed evidence is not refused: assess_proof accepts a document nobody *)
(* touched and that was decided VERIFIED at every instant at which its      *)
(* evidence is governed.                                                    *)
THEOREM AcceptanceComplete == Spec => []GovernedIsAccepted
<1>1. TypeOK /\ UntouchedWasValid => GovernedIsAccepted
  <2> SUFFICES ASSUME TypeOK, UntouchedWasValid, proof # NoProof, altered = 0,
                      proof.decision = "VERIFIED", Governed(proof, now, vouched)
               PROVE  Accepted(proof, now, vouched)
    BY DEF GovernedIsAccepted
  <2>1. now \in Nat /\ proof \in Document
    BY VerifierAssumption DEF TypeOK, Times
  <2>2. PICK u \in 0..now : Valid(proof, u)
    BY DEF UntouchedWasValid
  <2>3. u \in Nat
    BY <2>1
  <2>4. QED
    BY <2>1, <2>2, <2>3, Completeness
<1>2. QED
  BY <1>1, TypeCorrect, UntouchedInvariance, PTL

(* The builder and the verifier agree at the instant of building: on every  *)
(* PRE proof, and on a FINAL proof exactly when they agree on the document  *)
(* it was built on.                                                         *)
THEOREM BuildersAgree == Spec => BuilderAgrees
<1>1. ASSUME TypeOK, [Next]_vars
      PROVE  [/\ proof = NoProof /\ proof' # NoProof => Valid(proof', now)
              /\ proof # NoProof /\ altered' = altered /\ proof' # proof =>
                   (Valid(proof', now) <=> Valid(proof, now))]_vars
  <2>1. ASSUME NEW o \in Operations, NEW s \in Subjects \cup {NoSubject},
               NEW c \in Collections, BuildPre(o, s, c)
        PROVE  proof = NoProof /\ Valid(proof', now)
    BY <2>1, BuiltPreValid
  <2>2. ASSUME NEW x \in Executions, BuildFinal(x)
        PROVE  proof # NoProof /\ (Valid(proof', now) <=> Valid(proof, now))
    BY <1>1, <2>2, BuiltFinalValid
  <2>3. Alter => proof # NoProof /\ altered' # altered
    BY <1>1, AlterationCounted
  <2>4. Tick \/ ProvidersChange \/ UNCHANGED vars => proof' = proof
    BY DEF Tick, ProvidersChange, vars
  <2>5. QED
    BY <1>1, <2>1, <2>2, <2>3, <2>4 DEF Next
<1>2. QED
  BY <1>1, TypeCorrect, PTL DEF Spec, BuilderAgrees
===============================================================================
