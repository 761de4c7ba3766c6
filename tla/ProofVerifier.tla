---------------------------- MODULE ProofVerifier ----------------------------
(***************************************************************************)
(* Building, verifying and assessing OperationProof documents (builder.py, *)
(* verifier.py, trust.py, sdk.py).  verify_proof does not trust what a     *)
(* document says of itself: it evaluates the evidence again, at the time   *)
(* of the verification, and compares decision and reason codes with the    *)
(* recorded ones.  The module follows one document from the moment it is   *)
(* built, through alterations by whoever carries it, while time passes.    *)
(*                                                                         *)
(* Data is abstracted to what is compared.  Reason codes are sets (the     *)
(* code sorts and deduplicates), each a code and the layer it is about, or *)
(* Whole.                                                                  *)
(* "intact" says whether proof_digest is the digest of the payload,        *)
(* "pre_bound" whether pre_proof_digest is the digest of the embedded PRE, *)
(* "wellformed" whether fields, types and formats are as required.  A      *)
(* subject and its digest are the same value.                              *)
(*                                                                         *)
(* Whether evidence is authentic is not a field of it: trust.py asks the   *)
(* verifier registered for (layer, provider) at every assessment, and what *)
(* that answers may change in both directions (a witness that exists only  *)
(* after consumption, a binding not yet valid, a revocation, a verifier    *)
(* that raises).  "vouched" is the set of questions the verifiers answer   *)
(* with True at the moment; an unregistered provider is never in it.       *)
(***************************************************************************)
EXTENDS Naturals, Sequences

CONSTANTS
    PreLayers, EXECUTION,           \* PRE_LAYERS and the execution layer
    Operations, Subjects,
    SubjectOperation,               \* the operation_id inside a subject
    MaxTime, MaxAlterations,        \* bounds of the clock and of tampering
    Collections,                    \* evidence lists given to build_pre_proof
    Executions,                     \* execution envelopes given to build_final_proof
    Natives,                        \* what verifiers are asked about
    Answers,                        \* the sets of questions they may answer with True
    Whole, NoProof, NoExpiry, NoSubject

Layers == PreLayers \cup {EXECUTION}
Times == 0..MaxTime

(* A verifier is told whether the proof is assessed itself or is the PRE    *)
(* proof of a FINAL one.                                                    *)
Stages == {"DIRECT", "EMBEDDED"}
Questions == Natives \X Stages

Envelope ==
    [layer : Layers, operation_id : Operations, verdict : {"PASS", "FAIL", "UNKNOWN"},
     subject_digest : Subjects, issued_at : Nat, expires_at : Nat \cup {NoExpiry},
     wellformed : BOOLEAN, native : Natives]

Codes ==
    {"INVALID", "EXPIRED_EVIDENCE", "INVALID_EXPIRY_ORDER", "DUPLICATE_LAYER",
     "UNEXPECTED_LAYER", "OPERATION_ID_MISMATCH", "SUBJECT_DIGEST_MISMATCH", "LAYER_FAIL",
     "LAYER_UNKNOWN", "MISSING_LAYER", "PRE_PROOF_MISSING", "PRE_PROOF_INVALID",
     "PRE_PROOF_PHASE_INVALID", "PRE_PROOF_NOT_VERIFIED", "PRE_PROOF_OPERATION_ID_MISMATCH",
     "PRE_PROOF_DIGEST_MISMATCH", "PRE_PROOF_SUBJECT_BINDING_MISSING",
     "PRE_PROOF_SUBJECT_DIGEST_MISMATCH"}
Reasons == Codes \X (Layers \cup {Whole})

(* A proof document that embeds the PRE proofs of a set.                    *)
DocumentOver(pre_proofs) ==
    [phase : {"PRE", "FINAL"}, v2 : BOOLEAN, operation_id : Operations,
     subject : Subjects \cup {NoSubject}, subject_digest : Subjects \cup {NoSubject},
     evidence : Seq(Envelope), pre_proof : pre_proofs, pre_bound : BOOLEAN,
     decision : {"VERIFIED", "REJECTED"}, reason_codes : SUBSET Reasons,
     intact : BOOLEAN, wellformed : BOOLEAN]

(* Nesting is cut after one level: a FINAL proof that embeds a FINAL proof  *)
(* is refused by its shape, whatever that one embeds.                       *)
Flat == DocumentOver({NoProof})
Document == DocumentOver(Flat \cup {NoProof})

ASSUME VerifierAssumption ==
    /\ EXECUTION \notin PreLayers
    /\ SubjectOperation \in [Subjects -> Operations]
    /\ NoExpiry \notin Nat /\ NoSubject \notin Subjects /\ NoProof \notin Document
    /\ MaxTime \in Nat /\ MaxAlterations \in Nat
    /\ \A c \in Collections : c \in Seq(Envelope)
    /\ Executions \subseteq Envelope
    /\ Answers \subseteq SUBSET Questions

VARIABLES
    now,            \* the clock of whoever builds, verifies or assesses
    proof,          \* the document in circulation
    altered,        \* how often it was tampered with
    vouched         \* the questions the registered verifiers answer with True

vars == <<now, proof, altered, vouched>>

(* A document has a subject exactly in v2.                                  *)
HasSubject(d) == d.v2 <=> d.subject # NoSubject

TypeOK ==
    /\ now \in Times
    /\ altered \in 0..MaxAlterations
    /\ vouched \in Answers
    /\ proof \in Document \cup {NoProof}
    /\ proof # NoProof =>
         /\ HasSubject(proof)
         /\ proof.pre_proof # NoProof => HasSubject(proof.pre_proof)

-------------------------------------------------------------------------------
(* evaluate_evidence_set                                                    *)

Reason(condition, code) == IF condition THEN {code} ELSE {}

(* Faulty variant: the clock is rounded up.                                 *)
ExpiredEarly(item, t) == item.expires_at # NoExpiry /\ item.expires_at <= t + 1

(* Faulty variant: a wrong comparison, expired at one instant only.         *)
ExpiredOnce(item, t) == item.expires_at # NoExpiry /\ item.expires_at = t

Expired(item, t) == item.expires_at # NoExpiry /\ item.expires_at <= t

(* _validate_evidence_envelope                                              *)
EnvelopeReasons(item, t) ==
    Reason(~item.wellformed, <<"INVALID", item.layer>>)
    \cup Reason(Expired(item, t), <<"EXPIRED_EVIDENCE", item.layer>>)
    \cup Reason(item.expires_at # NoExpiry /\ item.expires_at <= item.issued_at,
                <<"INVALID_EXPIRY_ORDER", item.layer>>)

(* Faulty variant: a second envelope of a layer is not looked at.           *)
DuplicateIgnored(evidence, i) == FALSE

Duplicate(evidence, i) ==
    \E j \in 1..Len(evidence) : j < i /\ evidence[j].layer = evidence[i].layer

(* The reasons one envelope contributes.                                    *)
ItemReasons(o, evidence, i, allowed, subject, t) ==
    LET item == evidence[i] IN
    EnvelopeReasons(item, t)
    \cup Reason(Duplicate(evidence, i), <<"DUPLICATE_LAYER", item.layer>>)
    \cup Reason(item.layer \notin allowed, <<"UNEXPECTED_LAYER", item.layer>>)
    \cup Reason(item.operation_id # o, <<"OPERATION_ID_MISMATCH", item.layer>>)
    \cup Reason(subject # NoSubject /\ item.subject_digest # subject,
                <<"SUBJECT_DIGEST_MISMATCH", item.layer>>)
    \cup Reason(item.verdict # "PASS",
                <<IF item.verdict = "FAIL" THEN "LAYER_FAIL" ELSE "LAYER_UNKNOWN", item.layer>>)

(* In both phases the required layers are also the allowed ones, and the    *)
(* layer that PRE forbids is not among them.                                *)
EvidenceReasons(o, evidence, layers, subject, t) ==
    (UNION {ItemReasons(o, evidence, i, layers, subject, t) : i \in 1..Len(evidence)})
    \cup {<<"MISSING_LAYER", l>> :
            l \in {x \in layers : \A i \in 1..Len(evidence) : evidence[i].layer # x}}

Decision(reasons) == IF reasons = {} THEN "VERIFIED" ELSE "REJECTED"

(* evaluate_pre_semantics; the subject is compared in v2 proofs only.       *)
PreReasons(d, t) ==
    EvidenceReasons(d.operation_id, d.evidence, PreLayers,
                    IF d.v2 THEN d.subject_digest ELSE NoSubject, t)

(* _evaluate_final_semantics; pre_valid is verify_proof of the embedded PRE. *)
FinalReasons(d, t, pre_valid) ==
    LET pre == d.pre_proof
        missing == pre = NoProof IN
    Reason(missing, <<"PRE_PROOF_MISSING", Whole>>)
    \cup Reason(~missing /\ ~pre_valid, <<"PRE_PROOF_INVALID", Whole>>)
    \cup Reason(~missing /\ pre.phase # "PRE", <<"PRE_PROOF_PHASE_INVALID", Whole>>)
    \cup Reason(~missing /\ pre.decision # "VERIFIED", <<"PRE_PROOF_NOT_VERIFIED", Whole>>)
    \cup Reason(~missing /\ pre.operation_id # d.operation_id,
                <<"PRE_PROOF_OPERATION_ID_MISMATCH", Whole>>)
    \cup Reason(~missing /\ ~d.pre_bound, <<"PRE_PROOF_DIGEST_MISMATCH", Whole>>)
    \cup Reason(~missing /\ d.v2 /\ ~pre.v2, <<"PRE_PROOF_SUBJECT_BINDING_MISSING", Whole>>)
    \cup Reason(~missing /\ d.v2 /\ pre.v2 /\ pre.subject_digest # d.subject_digest,
                <<"PRE_PROOF_SUBJECT_DIGEST_MISMATCH", Whole>>)
    \cup EvidenceReasons(d.operation_id, d.evidence, {EXECUTION},
                         IF d.v2 THEN d.subject_digest ELSE NoSubject, t)

SemanticReasons(d, t, pre_valid) ==
    IF d.phase = "PRE" THEN PreReasons(d, t) ELSE FinalReasons(d, t, pre_valid)

-------------------------------------------------------------------------------
(* verify_proof                                                             *)

(* _verify_subject_binding                                                  *)
SubjectReasons(d) ==
    Reason(d.v2 /\ SubjectOperation[d.subject] # d.operation_id, "SUBJECT_OPERATION_ID_MISMATCH")
    \cup Reason(d.v2 /\ d.subject # d.subject_digest, "OPERATION_SUBJECT_DIGEST_MISMATCH")

(* What a FINAL proof has to share with the PRE it embeds.                  *)
EmbeddingReasons(d, pre_valid) ==
    LET pre == d.pre_proof IN
    Reason(~pre_valid, "PRE_PROOF_INTEGRITY_INVALID")
    \cup Reason(pre.v2 # d.v2, "PRE_PROOF_SCHEMA_MISMATCH")
    \cup Reason(d.v2 /\ pre.subject # d.subject, "PRE_PROOF_SUBJECT_MISMATCH")
    \cup Reason(d.v2 /\ pre.subject_digest # d.subject_digest, "PRE_PROOF_SUBJECT_DIGEST_MISMATCH")

(* _record_matches                                                          *)
RecordReasons(d, reasons) ==
    Reason(d.decision # Decision(reasons), "DECISION_MISMATCH")
    \cup Reason(d.reason_codes # reasons, "REASON_CODES_MISMATCH")

(* verify_proof, given what it returns for the embedded PRE proof.          *)
IntegrityReasons(d, t, pre_valid) ==
    Reason(~d.wellformed, "MALFORMED")
    \cup Reason(~d.intact, "PROOF_DIGEST_MISMATCH")
    \cup SubjectReasons(d)
    \cup Reason(d.phase = "PRE" /\ d.pre_proof # NoProof, "PRE_PROOF_FIELD_FORBIDDEN")
    \cup (IF d.phase = "FINAL" /\ d.pre_proof # NoProof THEN EmbeddingReasons(d, pre_valid) ELSE {})
    \cup RecordReasons(d, SemanticReasons(d, t, pre_valid))

(* A proof that embeds nothing.                                             *)
ValidAlone(d, t) == IntegrityReasons(d, t, FALSE) = {}

EmbeddedValid(d, t) == d.pre_proof # NoProof /\ ValidAlone(d.pre_proof, t)

Valid(d, t) == IntegrityReasons(d, t, EmbeddedValid(d, t)) = {}

-------------------------------------------------------------------------------
(* verify_proof_trust and assess_proof                                      *)

(* _verify_evidence_trust of every envelope, with the answers v             *)
EvidenceAuthentic(d, stage, v) ==
    \A i \in 1..Len(d.evidence) : <<d.evidence[i].native, stage>> \in v

(* Trust of an embedded proof, at the embedded stage: a FINAL one, which    *)
(* embeds nothing here, is refused.                                         *)
TrustedEmbedded(d, t, v) ==
    /\ ValidAlone(d, t)
    /\ d.decision = "VERIFIED"
    /\ d.phase # "FINAL"
    /\ EvidenceAuthentic(d, "EMBEDDED", v)

(* _verify_proof_trust_at_stage of the proof itself                         *)
Trusted(d, t, v) ==
    /\ Valid(d, t)
    /\ d.decision = "VERIFIED"
    /\ d.phase = "FINAL" => d.pre_proof # NoProof /\ TrustedEmbedded(d.pre_proof, t, v)
    /\ EvidenceAuthentic(d, "DIRECT", v)

(* _preflight_proof_shape: no FINAL inside a FINAL.                         *)
ShapeAllowed(d) ==
    ~(d.phase = "FINAL" /\ d.pre_proof # NoProof /\ d.pre_proof.phase = "FINAL")

(* assess_proof with a registry                                             *)
Accepted(d, t, v) ==
    /\ ShapeAllowed(d)
    /\ Valid(d, t)
    /\ d.decision = "VERIFIED"
    /\ Trusted(d, t, v)

-------------------------------------------------------------------------------
(* Builders, carriers, verifiers and the clock                              *)

Init == now = 0 /\ proof = NoProof /\ altered = 0 /\ vouched \in Answers

(* Faulty variant: the reasons of the decision are not recorded.            *)
FinalizeWithoutReasons(draft, reasons) ==
    [draft EXCEPT !.decision = Decision(reasons)]

(* _finalize after the evaluation; the digest is that of the payload.       *)
Finalize(draft, reasons) ==
    [draft EXCEPT !.decision = Decision(reasons), !.reason_codes = reasons]

(* build_pre_proof, with a subject (v2) or without (v1)                     *)
BuildPre(o, s, evidence) ==
    /\ proof = NoProof
    /\ s # NoSubject => SubjectOperation[s] = o
    /\ LET draft == [phase |-> "PRE", v2 |-> s # NoSubject, operation_id |-> o,
                     subject |-> s, subject_digest |-> s, evidence |-> evidence,
                     pre_proof |-> NoProof, pre_bound |-> FALSE,
                     decision |-> "REJECTED", reason_codes |-> {},
                     intact |-> TRUE, wellformed |-> TRUE]
       IN proof' = Finalize(draft, PreReasons(draft, now))
    /\ UNCHANGED <<now, altered, vouched>>

(* build_final_proof, from a document that embeds nothing.                  *)
BuildFinal(execution) ==
    /\ proof # NoProof /\ proof.pre_proof = NoProof
    /\ LET draft == [proof EXCEPT !.phase = "FINAL", !.evidence = <<execution>>,
                                  !.pre_proof = proof, !.pre_bound = TRUE,
                                  !.intact = TRUE, !.wellformed = TRUE]
       IN proof' = Finalize(draft, FinalReasons(draft, now, ValidAlone(proof, now)))
    /\ UNCHANGED <<now, altered, vouched>>

(* One field of a document changed.                                         *)
Edits(d) ==
    {[d EXCEPT !.decision = x] : x \in {"VERIFIED", "REJECTED"}}
    \cup {[d EXCEPT !.reason_codes = {}]}
    \cup {[d EXCEPT !.decision = "VERIFIED", !.reason_codes = {}]}
    \cup {[d EXCEPT !.phase = x] : x \in {"PRE", "FINAL"}}
    \cup {[d EXCEPT !.operation_id = x] : x \in Operations}
    \cup {[d EXCEPT !.evidence = x] : x \in Collections \cup {<<e>> : e \in Executions}}
    \cup {[d EXCEPT !.v2 = x # NoSubject, !.subject = x, !.subject_digest = x] :
            x \in Subjects \cup {NoSubject}}
    \cup {[d EXCEPT !.subject_digest = x] : x \in IF d.v2 THEN Subjects ELSE {}}
    \cup {[d EXCEPT !.pre_proof = NoProof, !.pre_bound = FALSE]}
    \cup {[d EXCEPT !.wellformed = FALSE]}

(* Whoever carries the document edits it, or the PRE proof inside it, and   *)
(* recomputes the digests or does not.                                      *)
Alter ==
    /\ proof # NoProof /\ altered < MaxAlterations
    /\ \E recomputed \in BOOLEAN :
         \/ \E d \in Edits(proof) :
              proof' = [d EXCEPT !.intact = recomputed]
         \/ /\ proof.pre_proof # NoProof
            /\ \E pre \in Edits(proof.pre_proof), bound \in BOOLEAN :
                 proof' = [proof EXCEPT !.pre_proof = [pre EXCEPT !.intact = recomputed],
                                        !.pre_bound = bound, !.intact = recomputed]
    /\ altered' = altered + 1
    /\ UNCHANGED <<now, vouched>>

Tick ==
    /\ now < MaxTime
    /\ now' = now + 1
    /\ UNCHANGED <<proof, altered, vouched>>

(* Whatever stands behind the registered verifiers changes.                 *)
ProvidersChange ==
    /\ vouched' \in Answers
    /\ UNCHANGED <<now, proof, altered>>

Next ==
    \/ \E o \in Operations, s \in Subjects \cup {NoSubject}, c \in Collections : BuildPre(o, s, c)
    \/ \E x \in Executions : BuildFinal(x)
    \/ Alter
    \/ Tick
    \/ ProvidersChange

Spec == Init /\ [][Next]_vars

-------------------------------------------------------------------------------
(* What acceptance has to mean, without reason codes, recorded decisions or *)
(* digests: the constitution's I1 and I3 to I8, at the instant t and with   *)
(* the answers v.                                                           *)

(* Exactly one envelope for every required layer and no other envelope,     *)
(* each for this operation and subject, passing, fresh and vouched for at   *)
(* the stage it is asked at.                                                *)
Complete(d, layers, t, stage, v) ==
    /\ \A l \in layers : \E i \in 1..Len(d.evidence) : d.evidence[i].layer = l
    /\ \A i, j \in 1..Len(d.evidence) : d.evidence[i].layer = d.evidence[j].layer => i = j
    /\ \A i \in 1..Len(d.evidence) :
         LET item == d.evidence[i] IN
         /\ item.layer \in layers
         /\ item.operation_id = d.operation_id
         /\ item.verdict = "PASS"
         /\ item.expires_at # NoExpiry => t < item.expires_at
         /\ <<item.native, stage>> \in v
         /\ d.v2 => item.subject_digest = d.subject_digest

SubjectBound(d) == d.v2 => d.subject_digest = d.subject /\ SubjectOperation[d.subject] = d.operation_id

Governed(d, t, v) ==
    /\ d.intact /\ SubjectBound(d)
    /\ \/ /\ d.phase = "PRE"
          /\ Complete(d, PreLayers, t, "DIRECT", v)
       \/ /\ d.phase # "PRE"
          /\ Complete(d, {EXECUTION}, t, "DIRECT", v)
          /\ d.pre_proof # NoProof /\ d.pre_bound
          /\ LET pre == d.pre_proof IN
             /\ pre.phase = "PRE" /\ pre.intact /\ SubjectBound(pre)
             /\ pre.operation_id = d.operation_id /\ pre.v2 = d.v2
             /\ d.v2 => pre.subject = d.subject
             /\ Complete(pre, PreLayers, t, "EMBEDDED", v)

(* Whatever was built and whoever altered it, however late it is presented  *)
(* and whatever the verifiers answer by then: an accepted document is       *)
(* governed at that instant.                                                *)
AcceptedIsGoverned ==
    proof # NoProof /\ Accepted(proof, now, vouched) => Governed(proof, now, vouched)

(* The builder and the verifier agree: a PRE proof verifies at the instant  *)
(* it was built, VERIFIED or REJECTED, and a FINAL proof exactly when the   *)
(* document it was built on does.                                           *)
BuilderAgrees ==
    [][/\ proof = NoProof /\ proof' # NoProof => Valid(proof', now)
       /\ proof # NoProof /\ altered' = altered /\ proof' # proof =>
            (Valid(proof', now) <=> Valid(proof, now))]_vars

(* Governed evidence is not refused: a document nobody touched is accepted  *)
(* for as long as its evidence is governed.                                 *)
GovernedIsAccepted ==
    proof # NoProof /\ altered = 0 /\ proof.decision = "VERIFIED" /\ Governed(proof, now, vouched)
        => Accepted(proof, now, vouched)

(* Time only takes acceptance away.  A document that is accepted after a    *)
(* step would have been accepted before it, had the verifiers answered as   *)
(* they do now: what verify_proof refuses of it, an expiry above all, stays *)
(* refused whatever they answer, and only another answer of theirs turns a  *)
(* refusal into acceptance.                                                 *)
NoResurrection ==
    [][proof # NoProof /\ proof' = proof /\ Accepted(proof, now, vouched)'
         => Accepted(proof, now, vouched')]_vars

(* docs/CONSTITUTION.md I11: verification is reproducible from the recorded *)
(* document.  A VERIFIED document that nobody touched and that verifies now *)
(* also verifies later.                                                     *)
Reproducible ==
    proof # NoProof /\ altered = 0 /\ proof.decision = "VERIFIED" /\ Valid(proof, now)
        => \A t \in now..MaxTime : Valid(proof, t)
===============================================================================
