------------------------------- MODULE Sidecar -------------------------------
(***************************************************************************)
(* sidecar.py: POST /v1/assess around the body loop, with assess_proof of    *)
(* sdk.py step by step: it runs in a thread of the pool, verifies the        *)
(* document, and with a registry verifies it a second time before it asks    *)
(* the verifiers, each time against the clock of that moment.  The registry  *)
(* and the mode are fixed when the application is created.                   *)
(*                                                                           *)
(* A document is what assess_proof can tell of it: its form, the decision    *)
(* it records, and "valid", the instants at which verify_proof finds         *)
(* nothing to refuse in it (Valid in ProofVerifier).                         *)
(***************************************************************************)
EXTENDS BoundedBody

CONSTANTS
    Documents,  \* what is posted
    MaxClock    \* bound of the clock

Document ==
    [form : {"not_json", "misshaped", "proof"}, decision : {"VERIFIED", "REJECTED"},
     valid : SUBSET Nat]

(* A VERIFIED document only ever stops being valid: VerifiedEarlier in        *)
(* ProofVerifierProofs.  A REJECTED one may also become valid, if the         *)
(* rejection it records was premature.                                        *)
ASSUME DocumentsAssumption ==
    /\ MaxClock \in Nat
    /\ Documents \subseteq Document
    /\ \A d \in Documents : d.decision = "VERIFIED" => \A u \in d.valid : 0 .. u \subseteq d.valid

VARIABLES
    registry,      \* was a ProviderTrustRegistry injected at start-up
    requireTrust,  \* SidecarConfig.require_trust
    plainJson,     \* application/json without content encoding
    document,      \* the content
    clock,
    arrived,       \* the clock when the body was complete
    integrity,     \* of assess_proof: "unknown", "valid" or "invalid"
    verifiedAt,    \* of verify_proof_trust: when the second verification found nothing, or -1
    answer         \* response: status, and the fields of the assessment

vars == <<bodyVars, registry, requireTrust, plainJson, document, clock, arrived,
          integrity, verifiedAt, answer>>

request == <<registry, requireTrust, plainJson, document>>
assessment == <<integrity, verifiedAt>>

Responses ==
    [status : {0, 200, 400, 413, 415, 500, 503}, integrity_valid : BOOLEAN,
     trusted : BOOLEAN, accepted : BOOLEAN]

Answer(s) == [status |-> s, integrity_valid |-> FALSE, trusted |-> FALSE, accepted |-> FALSE]

NoAnswer == Answer(0)

TypeOK ==
    /\ BodyTypeOK
    /\ registry \in BOOLEAN /\ requireTrust \in BOOLEAN /\ plainJson \in BOOLEAN
    /\ document \in Documents
    /\ clock \in 0 .. MaxClock /\ arrived \in 0 .. MaxClock
    /\ integrity \in {"unknown", "valid", "invalid"} /\ verifiedAt \in -1 .. MaxClock
    /\ answer \in Responses

Init ==
    /\ BodyInit
    /\ registry \in BOOLEAN /\ requireTrust \in BOOLEAN /\ plainJson \in BOOLEAN
    /\ document \in Documents
    /\ clock = 0 /\ arrived = 0
    /\ integrity = "unknown" /\ verifiedAt = -1
    /\ answer = NoAnswer

-----------------------------------------------------------------------------
NotReady == requireTrust /\ ~ registry

Refuse ==
    /\ answer = NoAnswer /\ place = "start"
    /\ \/ NotReady /\ answer' = Answer(503)
       \/ ~ NotReady /\ ~ plainJson /\ answer' = Answer(415)
    /\ UNCHANGED <<bodyVars, request, clock, arrived, assessment>>

Read ==
    /\ answer = NoAnswer
    /\ place = "start" => ~ NotReady /\ plainJson
    /\ ReadStep
    /\ arrived' = IF place' = "read" THEN clock ELSE arrived
    /\ UNCHANGED <<request, clock, assessment, answer>>

RefuseBody ==
    /\ answer = NoAnswer
    /\ place \in Reasons
    /\ answer' = Answer(IF place = "TOO_LARGE" THEN 413 ELSE 400)
    /\ UNCHANGED <<bodyVars, request, clock, arrived, assessment>>

RefuseDocument ==
    /\ answer = NoAnswer
    /\ place = "read"
    /\ body = 0 \/ document.form = "not_json"
    /\ answer' = Answer(400)
    /\ UNCHANGED <<bodyVars, request, clock, arrived, assessment>>

-----------------------------------------------------------------------------
(* assess_proof, in the thread                                                *)

Assessing == answer = NoAnswer /\ place = "read" /\ body > 0 /\ document.form # "not_json"

Report(trusted) ==
    LET valid == integrity = "valid" IN
    [status |-> 200, integrity_valid |-> valid, trusted |-> trusted,
     accepted |-> valid /\ document.decision = "VERIFIED" /\ trusted]

\* _snapshot_proof and _preflight_proof_shape: too deep, or a FINAL in a FINAL proof
ReportShape ==
    /\ Assessing /\ integrity = "unknown"
    /\ document.form = "misshaped"
    /\ answer' = Answer(200)
    /\ UNCHANGED <<bodyVars, request, clock, arrived, assessment>>

VerifyIntegrity ==
    /\ Assessing /\ integrity = "unknown"
    /\ document.form = "proof"
    /\ integrity' = IF clock \in document.valid THEN "valid" ELSE "invalid"
    /\ UNCHANGED <<bodyVars, request, clock, arrived, verifiedAt, answer>>

\* TRUST_NOT_EVALUATED
ReportIntegrityOnly ==
    /\ Assessing /\ integrity # "unknown"
    /\ ~ registry
    /\ answer' = Report(FALSE)
    /\ UNCHANGED <<bodyVars, request, clock, arrived, assessment>>

\* Faulty variant: the document has been verified before.
MayBeTrustedOnce == document.decision = "VERIFIED"

\* Faulty variant: trust of what a document rejects.
MayBeTrustedAnyDecision == clock \in document.valid

\* _verify_proof_trust_at_stage before it asks anybody
MayBeTrusted == clock \in document.valid /\ document.decision = "VERIFIED"

VerifyAgain ==
    /\ Assessing /\ integrity # "unknown"
    /\ registry /\ verifiedAt = -1
    /\ IF MayBeTrusted
       THEN verifiedAt' = clock /\ UNCHANGED answer
       ELSE answer' = Report(FALSE) /\ UNCHANGED verifiedAt
    /\ UNCHANGED <<bodyVars, request, clock, arrived, integrity>>

\* The PRE proof of a FINAL one, and every verifier, has its own answer.
AskVerifiers ==
    /\ Assessing /\ integrity # "unknown"
    /\ verifiedAt # -1
    /\ \E trusted \in BOOLEAN : answer' = Report(trusted)
    /\ UNCHANGED <<bodyVars, request, clock, arrived, assessment>>

\* Whatever else escapes: unhandled_exception_handler.
Fail ==
    /\ Assessing
    /\ answer' = Answer(500)
    /\ UNCHANGED <<bodyVars, request, clock, arrived, assessment>>

Assess ==
    \/ ReportShape \/ VerifyIntegrity \/ ReportIntegrityOnly
    \/ VerifyAgain \/ AskVerifiers \/ Fail

Tick ==
    /\ clock < MaxClock
    /\ clock' = clock + 1
    /\ UNCHANGED <<bodyVars, request, arrived, assessment, answer>>

Next ==
    \/ Refuse \/ Read \/ RefuseBody \/ RefuseDocument \/ Assess
    \/ Tick

Spec == Init /\ [][Next]_vars

\* The event loop and the thread pool run what is ready, and the client goes on
\* sending; it need not end in order.
Progress ==
    \/ Read /\ ReadProgress
    \/ Refuse \/ RefuseBody \/ RefuseDocument \/ Assess

-----------------------------------------------------------------------------
(* A report does not contradict itself although its fields come from two      *)
(* verifications at different instants: what it calls trusted it calls valid  *)
(* and accepts.  What it accepts had nothing to refuse at any instant from    *)
(* the arrival of the whole body to the second verification, of which it saw  *)
(* two: no body is delayed, and no thread waits, until a document becomes     *)
(* acceptable, or past its expiry.                                            *)
ReportCoherent ==
    /\ answer.trusted => answer.integrity_valid /\ answer.accepted
    /\ answer.accepted => arrived <= verifiedAt /\ arrived .. verifiedAt \subseteq document.valid
=============================================================================
