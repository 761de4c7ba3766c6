----------------------------- MODULE AdapterProofs -----------------------------
(***************************************************************************)
(* Proofs about CaserVerdict and CaserExecution, and about HowedoWitness.    *)
(* Both arguments have two halves: what the digests and identities of a      *)
(* document that was accepted say about it, whoever wrote it, and that what  *)
(* is emitted was made from the documents of a binding the authority         *)
(* attested, although it answers late.                                       *)
(***************************************************************************)
EXTENDS Adapters, TLAPS

(* Whatever verification document is normalised to PASS, an execution it is  *)
(* genuine about was completed (adapters/caser.py:150-223, 418-437).         *)
THEOREM PassSound ==
    ASSUME NEW v \in Verification, NEW fct
    PROVE  PassIsCompletion(v, fct)
<1> SUFFICES ASSUME Genuine(v, fct), Normalizable(v), Verdict(v) = "PASS"
             PROVE  Completed(fct)
    BY DEF PassIsCompletion
<1>1. v.status # "FAIL" /\ v.integrityClaim /\ v.outcomeClaim
    BY DEF Verdict
<1>2. VerifiedOutcome(v) = "SUCCEEDED" /\ EffectSettled(v)
    BY <1>1 DEF Verdict
<1>3. v.executionOutcome = "SUCCEEDED" /\ v.outcomeCheck = "SUCCEEDED"
    BY <1>1, <1>2 DEF VerifiedOutcome, Normalizable, OutcomeBroken
<1>4. v.independent /\ v.scope \in OutcomeScopes
    BY <1>1 DEF Normalizable, OutcomeBroken
<1>5. v.strength = "V3"
    BY <1>1 DEF Normalizable, StrengthBroken
<1>6. fct.outcome = "SUCCEEDED"
    BY <1>3, <1>4, <1>5 DEF Genuine
<1>7. CASE VerifiedEffect(v) = "READ_ONLY"
    <2>1. v.readOnlyCheck = "READ_ONLY" \/ v.effectCheck = "READ_ONLY"
        BY <1>7 DEF VerifiedEffect
    <2> QED BY <2>1, <1>4, <1>5, <1>6 DEF Genuine, Completed
<1>8. CASE VerifiedEffect(v) = "MUTATING" /\ VerifiedPostState(v)
    <2>1. v.scope = "OUTCOME_AND_POST_STATE" /\ v.class = "PROVIDER_OBSERVATION"
          /\ v.postCheck = "VERIFIED"
        BY <1>8 DEF VerifiedPostState, Normalizable, PostStateBroken
    <2> QED BY <2>1, <1>4, <1>5, <1>6 DEF Genuine, Completed
<1> QED BY <1>2, <1>7, <1>8 DEF EffectSettled

(* A document normalised to FAIL reports a failed verification or a failure. *)
THEOREM FailSound ==
    ASSUME NEW v \in Verification, NEW fct
    PROVE  FailIsFailure(v, fct)
<1> SUFFICES ASSUME Genuine(v, fct), Normalizable(v), Verdict(v) = "FAIL", v.status # "FAIL"
             PROVE  fct.outcome = "FAILED"
    BY DEF FailIsFailure
<1>1. v.integrityClaim /\ v.outcomeClaim /\ VerifiedOutcome(v) = "FAILED"
    BY DEF Verdict
<1>2. v.executionOutcome = "FAILED" /\ v.outcomeCheck = "FAILED"
      /\ v.independent /\ v.scope \in OutcomeScopes
    BY <1>1 DEF VerifiedOutcome, Normalizable, OutcomeBroken
<1>3. v.strength = "V3"
    BY <1>1 DEF Normalizable, StrengthBroken
<1> QED BY <1>2, <1>3 DEF Genuine

-----------------------------------------------------------------------------
(* What holds of a binding the authority attested, of a call that is waiting *)
(* for it, and of evidence.                                                  *)
BindingTrue(b) ==
    /\ fact[b.receipt.instance].pre = b.pre
    /\ Genuine(b.verification.content, fact[b.receipt.instance])

CallBound(c) ==
    /\ c.receipt = c.binding.receipt
    /\ c.content = c.binding.verification.content
    /\ c.binding.pre \notin BadPres
    /\ c.binding.issued < c.binding.expires

EvidenceBound(e) ==
    /\ e.binding \in attested
    /\ e.receipt = e.binding.receipt
    /\ e.content = e.binding.verification.content
    /\ Normalizable(e.content)
    /\ e.verdict = Verdict(e.content)

IInv ==
    /\ TypeOK
    /\ \A b \in attested : BindingTrue(b)
    /\ \A c \in call : CallBound(c)
    /\ \A e \in emitted : EvidenceBound(e)

LEMMA VerdictType ==
    ASSUME NEW v
    PROVE  Verdict(v) \in {"PASS", "FAIL", "UNKNOWN"}
BY DEF Verdict

LEMMA InitIInv == Init => IInv
BY ClockAssumption DEF Init, IInv, TypeOK

LEMMA AttestIInv ==
    ASSUME IInv, NEW b \in Bindings, Attest(b)
    PROVE  IInv'
<1>1. TypeOK'
    BY DEF IInv, TypeOK, Attest
<1>2. \A x \in attested' : BindingTrue(x)'
    BY DEF IInv, Attest, Truthful, BindingTrue
<1>3. \A c \in call' : CallBound(c)'
    BY DEF IInv, Attest, CallBound
<1>4. \A e \in emitted' : EvidenceBound(e)'
    BY DEF IInv, Attest, EvidenceBound
<1> QED BY <1>1, <1>2, <1>3, <1>4 DEF IInv

LEMMA AdaptIInv ==
    ASSUME IInv,
           NEW pre \in Pres, NEW r \in Receipts, NEW d \in Documents,
           NEW b \in attested \cup Forged, Adapt(pre, r, d, b)
    PROVE  IInv'
<1> DEFINE c == [binding |-> b, receipt |-> r, content |-> d.content, live |-> d.content]
<1>1. b \in Bindings /\ d.content \in Verifications
    BY ForgedAssumption DEF IInv, TypeOK, Documents
<1>2. call' = {c} \/ call' = call
    BY DEF Adapt
<1>3. c \in Calls
    BY <1>1 DEF Calls
<1>4. TypeOK'
    BY <1>2, <1>3 DEF IInv, TypeOK, Adapt, world
<1>5. \A x \in attested' : BindingTrue(x)'
    BY DEF IInv, Adapt, world, BindingTrue
<1>6. \A x \in call' : CallBound(x)'
    <2>1. CASE Acceptable(pre, r, d, b)
        <3>1. b.pre = pre /\ pre \notin BadPres /\ b.receipt = r /\ b.verification = d
            BY <2>1 DEF Acceptable, PreAccepted, BindingMatches
        <3>2. b.expires > b.issued
            BY <2>1 DEF Acceptable, BindingInTime
        <3>3. b.issued \in Int /\ b.expires \in Int
            BY <1>1, ClockAssumption DEF Bindings
        <3>4. b.issued < b.expires
            BY <3>2, <3>3
        <3>5. call' = {c}
            BY <2>1 DEF Adapt
        <3>6. CallBound(c)
            BY <3>1, <3>4 DEF CallBound
        <3> QED BY <3>5, <3>6 DEF CallBound
    <2>2. CASE ~ Acceptable(pre, r, d, b)
        BY <2>2 DEF IInv, Adapt, CallBound
    <2> QED BY <2>1, <2>2
<1>7. \A e \in emitted' : EvidenceBound(e)'
    BY DEF IInv, Adapt, world, EvidenceBound
<1> QED BY <1>4, <1>5, <1>6, <1>7 DEF IInv

LEMMA AlterIInv ==
    ASSUME IInv, NEW content \in Verifications, Alter(content)
    PROVE  IInv'
<1> PICK c \in call : call' = {[c EXCEPT !.live = content]}
    BY DEF Alter
<1> DEFINE d == [c EXCEPT !.live = content]
<1>1. c \in Calls /\ CallBound(c)
    BY DEF IInv, TypeOK
<1>2. d \in Calls /\ d.binding = c.binding /\ d.receipt = c.receipt /\ d.content = c.content
    BY <1>1 DEF Calls
<1>3. CallBound(d)
    BY <1>1, <1>2 DEF CallBound
<1>4. TypeOK'
    BY <1>2 DEF IInv, TypeOK, Alter, world
<1>5. \A x \in attested' : BindingTrue(x)'
    BY DEF IInv, Alter, world, BindingTrue
<1>6. \A x \in call' : CallBound(x)'
    BY <1>3 DEF CallBound
<1>7. \A e \in emitted' : EvidenceBound(e)'
    BY DEF IInv, Alter, world, EvidenceBound
<1> QED BY <1>4, <1>5, <1>6, <1>7 DEF IInv

LEMMA NormalizeIInv ==
    ASSUME IInv, NEW c \in call, Normalize(c)
    PROVE  IInv'
<1>1. c \in Calls /\ CallBound(c)
    BY DEF IInv, TypeOK
<1>2. c.content \in Verifications /\ c.receipt \in Receipts /\ c.binding \in Bindings
    BY <1>1 DEF Calls
<1>3. Evidenced(c) \in Evidence
    BY <1>2, VerdictType DEF Evidenced, Snapshot, Evidence, IInv, TypeOK
<1>4. \/ emitted' = emitted
      \/ /\ emitted' = emitted \cup {Evidenced(c)}
         /\ Normalizable(c.content)
    BY DEF Normalize, Snapshot
<1>5. TypeOK'
    BY <1>3, <1>4 DEF IInv, TypeOK, Normalize, world
<1>6. \A x \in attested' : BindingTrue(x)'
    BY DEF IInv, Normalize, world, BindingTrue
<1>7. \A x \in call' : CallBound(x)'
    BY DEF Normalize
<1>8. Normalizable(c.content) => EvidenceBound(Evidenced(c))
    BY <1>1 DEF CallBound, EvidenceBound, Evidenced, Snapshot, Normalize, Vouched
<1>9. \A e \in emitted' : EvidenceBound(e)
    BY <1>4, <1>8 DEF IInv
<1>10. \A e \in emitted' : EvidenceBound(e)'
    BY <1>9 DEF EvidenceBound, Normalize, world
<1> QED BY <1>5, <1>6, <1>7, <1>10 DEF IInv

LEMMA OtherIInv ==
    ASSUME IInv, (\E b \in attested : Withdraw(b)) \/ Tick \/ Distrust \/ UNCHANGED vars
    PROVE  IInv'
<1>1. /\ fact' = fact /\ attested' = attested /\ emitted' = emitted
      /\ call' = call \/ call' = {}
    BY DEF Withdraw, Tick, Distrust, vars, world
<1>2. TypeOK'
    <2>1. CASE \E b \in attested : Withdraw(b)
        BY <2>1 DEF IInv, TypeOK, Withdraw
    <2>2. CASE Tick
        <3>1. clock' \in 0 .. MaxClock
            BY <2>2, ClockAssumption DEF IInv, TypeOK, Tick
        <3> QED BY <2>2, <3>1 DEF IInv, TypeOK, Tick, world
    <2>3. CASE Distrust
        BY <2>3 DEF IInv, TypeOK, Distrust, world
    <2>4. CASE UNCHANGED vars
        BY <2>4 DEF IInv, TypeOK, vars
    <2> QED BY <2>1, <2>2, <2>3, <2>4
<1>3. \A x \in attested' : BindingTrue(x)'
    BY <1>1 DEF IInv, BindingTrue
<1>4. \A x \in call' : CallBound(x)'
    BY <1>1 DEF IInv, CallBound
<1>5. \A e \in emitted' : EvidenceBound(e)'
    BY <1>1 DEF IInv, EvidenceBound
<1> QED BY <1>2, <1>3, <1>4, <1>5 DEF IInv

LEMMA NextIInv == IInv /\ [Next]_vars => IInv'
<1> SUFFICES ASSUME IInv, [Next]_vars PROVE IInv'
    OBVIOUS
<1>1. CASE \E b \in Bindings : Attest(b)
    BY <1>1, AttestIInv
<1>2. CASE \E pre \in Pres, r \in Receipts, d \in Documents, b \in attested \cup Forged :
              Adapt(pre, r, d, b)
    BY <1>2, AdaptIInv
<1>3. CASE \E content \in Verifications : Alter(content)
    BY <1>3, AlterIInv
<1>4. CASE \E c \in call : Normalize(c)
    BY <1>4, NormalizeIInv
<1>5. CASE (\E b \in attested : Withdraw(b)) \/ Tick \/ Distrust \/ UNCHANGED vars
    BY <1>5, OtherIInv
<1> QED BY <1>1, <1>2, <1>3, <1>4, <1>5 DEF Next

THEOREM Invariance == Spec => []IInv
BY InitIInv, NextIInv, PTL DEF Spec

(* State is well typed.                                                      *)
THEOREM TypeCorrect == Spec => []TypeOK
<1>1. IInv => TypeOK
    BY DEF IInv
<1> QED BY <1>1, Invariance, PTL

(* PASS evidence is about an execution that ran under its PRE proof and was  *)
(* completed, for any documents, bindings, alterations and timing.           *)
THEOREM PassTrue == Spec => []PassIsTrue
<1>1. IInv => PassIsTrue
    <2> SUFFICES ASSUME IInv, NEW e \in emitted, e.verdict = "PASS"
                 PROVE  Ran(e).pre = e.binding.pre /\ Completed(Ran(e))
        BY DEF PassIsTrue
    <2>1. EvidenceBound(e) /\ BindingTrue(e.binding)
        BY DEF IInv, EvidenceBound
    <2>2. e.content \in Verification
        BY VerificationsAssumption DEF IInv, TypeOK, Evidence
    <2>3. Genuine(e.content, Ran(e)) /\ Ran(e).pre = e.binding.pre
        BY <2>1 DEF EvidenceBound, BindingTrue, Ran
    <2>4. PassIsCompletion(e.content, Ran(e))
        BY <2>2, PassSound
    <2> QED BY <2>1, <2>3, <2>4 DEF PassIsCompletion, EvidenceBound
<1> QED BY <1>1, Invariance, PTL

(* FAIL evidence reports a failed verification or a real failure.            *)
THEOREM FailTrue == Spec => []FailIsTrue
<1>1. IInv => FailIsTrue
    <2> SUFFICES ASSUME IInv, NEW e \in emitted, e.verdict = "FAIL"
                 PROVE  e.content.status = "FAIL" \/ Ran(e).outcome = "FAILED"
        BY DEF FailIsTrue
    <2>1. EvidenceBound(e) /\ BindingTrue(e.binding)
        BY DEF IInv, EvidenceBound
    <2>2. e.content \in Verification
        BY VerificationsAssumption DEF IInv, TypeOK, Evidence
    <2>3. Genuine(e.content, Ran(e))
        BY <2>1 DEF EvidenceBound, BindingTrue, Ran
    <2>4. FailIsFailure(e.content, Ran(e))
        BY <2>2, FailSound
    <2> QED BY <2>1, <2>3, <2>4 DEF FailIsFailure, EvidenceBound
<1> QED BY <1>1, Invariance, PTL

(* Evidence is emitted only from a binding that is vouched for and unexpired *)
(* at that moment, although the authority takes its time to answer.          *)
THEOREM EmissionCurrent == Spec => EmissionIsCurrent
<1>1. IInv /\ [Next]_vars =>
        [\A e \in emitted' \ emitted :
            /\ e.binding \in attested \ withdrawn
            /\ e.binding.issued < e.binding.expires
            /\ e.binding.expires > clock
            /\ e.binding.pre \notin BadPres]_vars
    <2> SUFFICES ASSUME IInv, Next, NEW e \in emitted' \ emitted
                 PROVE  /\ e.binding \in attested \ withdrawn
                        /\ e.binding.issued < e.binding.expires
                        /\ e.binding.expires > clock
                        /\ e.binding.pre \notin BadPres
        OBVIOUS
    <2>1. PICK c \in call : Normalize(c)
        BY DEF Next, Attest, Withdraw, Tick, Adapt, Alter, Distrust
    <2>2. e = Evidenced(c) /\ Buildable(Normalized(c), clock)
        BY <2>1 DEF Normalize
    <2>3. e.binding = c.binding
        BY <2>2 DEF Evidenced
    <2>4. c \in Calls /\ CallBound(c) /\ clock \in Int
        BY ClockAssumption DEF IInv, TypeOK
    <2>5. c.binding.issued \in 0 .. MaxClock /\ c.binding.expires \in 0 .. MaxClock + 1
        BY <2>4 DEF Calls, Bindings
    <2>6. ~ Overdue(Receipt(Normalized(c), TRUE, TRUE), clock)
        BY <2>2 DEF Buildable, ValidReceipt, VerifyExecutionReceipt
    <2>7. Receipt(Normalized(c), TRUE, TRUE).fields.expires = c.binding.expires
        BY DEF Receipt, Normalized
    <2>8. c.binding.expires # NoExpiry /\ c.binding.expires \in Int
        BY <2>5, ClockAssumption DEF NoExpiry
    <2>9. ~ (c.binding.expires <= clock)
        BY <2>6, <2>7, <2>8 DEF Overdue
    <2>10. c.binding.expires > clock
        BY <2>9, <2>8, <2>4
    <2> QED BY <2>1, <2>3, <2>4, <2>10 DEF Normalize, Vouched, CallBound
<1> QED BY <1>1, Invariance, PTL DEF Spec, EmissionIsCurrent
-----------------------------------------------------------------------------
(* HoweDo: what is in each variable.                                         *)
HTypeOK ==
    /\ decided \subseteq Howedo!Statement
    /\ bindings \subseteq Howedo!Binding
    /\ adapting \subseteq Howedo!Call
    /\ continuity \subseteq Howedo!Evidence

(* What holds of a binding the authority attested, of a call that waits for  *)
(* it, and of evidence: the snapshot, the action and the reasons of all of    *)
(* them are those of the statement behind the witness digest.                *)
StatementBound(b) ==
    /\ b.witness_digest \in decided
    /\ b.snapshot = b.witness_digest.snapshot
    /\ b.operation = About[b.snapshot]

WitnessBound(c) ==
    /\ c.document.witness_digest = Howedo!Content(c.document)
    /\ c.binding.witness_digest = c.document.witness_digest
    /\ c.binding.snapshot = c.document.snapshot
    /\ c.binding.operation = c.operation
    /\ c.document.action \in Howedo!Actions
    /\ Howedo!WindowOpen(c.binding.window)

DecisionBound(e) ==
    /\ e.binding \in bindings
    /\ e.operation = About[e.snapshot]
    /\ e.binding.witness_digest.snapshot = e.snapshot
    /\ e.binding.witness_digest.action = e.decision
    /\ e.verdict = Howedo!Verdict(e.decision)

HInv ==
    /\ HTypeOK
    /\ \A b \in bindings : StatementBound(b)
    /\ \A c \in adapting : WitnessBound(c)
    /\ \A e \in continuity : DecisionBound(e)

(* Nothing has been decided, attested, asked or emitted at first.            *)
LEMMA HowedoInit == Howedo!Init => HInv
BY DEF Howedo!Init, HInv, HTypeOK

(* A decision, an attested binding or a withdrawal leaves what is known in    *)
(* place; an attested binding is about the operation of its snapshot.         *)
LEMMA AuthorityKeeps ==
    ASSUME HInv,
           \/ \E s \in Howedo!Statement : Howedo!Decide(s)
           \/ \E s \in decided, w \in Howedo!Window : Howedo!Attest(s, w)
           \/ \E b \in bindings : Howedo!Withdraw(b)
    PROVE  HInv'
<1>1. /\ adapting' = adapting /\ continuity' = continuity
      /\ decided \subseteq decided' /\ bindings \subseteq bindings'
    BY DEF Howedo!Decide, Howedo!Attest, Howedo!Withdraw
<1>2. HTypeOK' /\ \A b \in bindings' : b \in bindings \/ StatementBound(b)
    <2>1. CASE \E s \in Howedo!Statement : Howedo!Decide(s)
        BY <2>1 DEF HInv, HTypeOK, Howedo!Decide
    <2>2. ASSUME NEW s \in decided, NEW w \in Howedo!Window, Howedo!Attest(s, w)
          PROVE  HTypeOK' /\ \A b \in bindings' : b \in bindings \/ StatementBound(b)
        <3> DEFINE b == [operation |-> About[s.snapshot], snapshot |-> s.snapshot,
                         witness_digest |-> s, window |-> w]
        <3>1. s \in Howedo!Statement /\ s.snapshot \in Snapshots
            BY DEF HInv, HTypeOK, Howedo!Statement
        <3>2. b \in Howedo!Binding
            BY <3>1, AboutAssumption DEF Howedo!Binding
        <3>3. StatementBound(b)
            BY DEF StatementBound
        <3>4. bindings' = bindings \cup {b} /\ decided' = decided
            BY <2>2 DEF Howedo!Attest
        <3> HIDE DEF b
        <3> QED BY <1>1, <3>2, <3>3, <3>4 DEF HInv, HTypeOK
    <2>3. CASE \E b \in bindings : Howedo!Withdraw(b)
        BY <2>3 DEF HInv, HTypeOK, Howedo!Withdraw
    <2> QED BY <2>1, <2>2, <2>3
<1>3. \A b \in bindings' : StatementBound(b)'
    BY <1>1, <1>2 DEF HInv, StatementBound
<1>4. \A c \in adapting' : WitnessBound(c)'
    BY <1>1 DEF HInv, WitnessBound
<1>5. \A e \in continuity' : DecisionBound(e)'
    BY <1>1 DEF HInv, DecisionBound
<1> QED BY <1>2, <1>3, <1>4, <1>5 DEF HInv

(* A call that starts holds a document whose digest is right and a binding    *)
(* of this very document and operation, whoever wrote either of them.         *)
LEMMA AdaptKeeps ==
    ASSUME HInv, NEW o \in Operations, NEW d \in Howedo!Document, NEW b \in Howedo!Binding,
           Howedo!Adapt(o, d, b)
    PROVE  HInv'
<1> DEFINE c == [operation |-> o, document |-> d, live |-> d, binding |-> b]
<1>1. c \in Howedo!Call
    BY DEF Howedo!Call
<1>2. WitnessBound(c)
    BY DEF WitnessBound, Howedo!Adapt, Howedo!Acceptable, Howedo!WitnessValid,
           Howedo!BindingMatches
<1>3. adapting' = {c} /\ UNCHANGED <<decided, bindings, revoked, continuity>>
    BY DEF Howedo!Adapt
<1> HIDE DEF c
<1> QED BY <1>1, <1>2, <1>3 DEF HInv, HTypeOK, StatementBound, WitnessBound, DecisionBound

(* The bindings a caller presents: attested ones, and edits of these.         *)
LEMMA PresentedTyped ==
    ASSUME HInv, NEW b \in bindings, NEW o \in Operations, NEW w \in Howedo!Window,
           NEW d \in Howedo!Document
    PROVE  /\ b \in Howedo!Binding
           /\ [b EXCEPT !.operation = o, !.window = w] \in Howedo!Binding
           /\ [b EXCEPT !.witness_digest = d.witness_digest] \in Howedo!Binding
<1>1. b \in Howedo!Binding /\ d.witness_digest \in Howedo!Statement
    BY DEF HInv, HTypeOK, Howedo!Document
<1> QED BY <1>1 DEF Howedo!Binding

(* What the caller does to its own document while it waits does not reach     *)
(* the adapter's copy.                                                       *)
LEMMA AlterKeeps ==
    ASSUME HInv, NEW d \in Howedo!Document, Howedo!Alter(d)
    PROVE  HInv'
<1>1. PICK c \in adapting : adapting' = {[c EXCEPT !.live = d]}
    BY DEF Howedo!Alter
<1> DEFINE a == [c EXCEPT !.live = d]
<1>2. c \in Howedo!Call /\ WitnessBound(c)
    BY DEF HInv, HTypeOK
<1>3. /\ a \in Howedo!Call
      /\ a.document = c.document /\ a.binding = c.binding /\ a.operation = c.operation
    BY <1>2 DEF Howedo!Call
<1>4. adapting' = {a} /\ UNCHANGED <<decided, bindings, revoked, continuity>>
    BY <1>1 DEF Howedo!Alter
<1> HIDE DEF a
<1>5. WitnessBound(a)
    BY <1>2, <1>3 DEF WitnessBound
<1> QED BY <1>3, <1>4, <1>5 DEF HInv, HTypeOK, StatementBound, WitnessBound, DecisionBound

(* Emitted evidence is about the statement of a binding that is attested at   *)
(* that moment.                                                              *)
LEMMA EmitKeeps ==
    ASSUME HInv, NEW c \in adapting, Howedo!Emit(c)
    PROVE  HInv'
<1> DEFINE e == Howedo!Envelope(c)
<1>1. c \in Howedo!Call /\ WitnessBound(c)
    BY DEF HInv, HTypeOK
<1>2. c.binding \in bindings /\ StatementBound(c.binding)
    BY DEF HInv, Howedo!Emit, Howedo!Vouched
<1>3. /\ e.operation = c.operation /\ e.snapshot = c.document.snapshot
      /\ e.decision = c.document.action /\ e.binding = c.binding
      /\ e.verdict = Howedo!Verdict(c.document.action)
    BY DEF Howedo!Envelope, Howedo!SnapshotDocument
<1>4. /\ c.document.witness_digest.snapshot = c.document.snapshot
      /\ c.document.witness_digest.action = c.document.action
    BY <1>1 DEF WitnessBound, Howedo!Content
<1>5. DecisionBound(e)
    BY <1>1, <1>2, <1>3, <1>4 DEF DecisionBound, WitnessBound, StatementBound
<1>6. e \in Howedo!Evidence
    <2>1. /\ c.operation \in Operations /\ c.document.snapshot \in Snapshots
          /\ c.binding \in Howedo!Binding
        BY <1>1 DEF Howedo!Call, Howedo!Document
    <2>2. c.document.action \in Howedo!Actions
        BY <1>1 DEF WitnessBound
    <2>3. Howedo!Verdict(c.document.action) \in {"PASS", "FAIL"}
        BY DEF Howedo!Verdict
    <2> QED BY <2>1, <2>2, <2>3 DEF Howedo!Envelope, Howedo!SnapshotDocument, Howedo!Evidence
<1>7. /\ adapting' = {} /\ continuity' = continuity \cup {e}
      /\ UNCHANGED <<decided, bindings, revoked>>
    BY DEF Howedo!Emit
<1> HIDE DEF e
<1> QED BY <1>5, <1>6, <1>7 DEF HInv, HTypeOK, StatementBound, WitnessBound, DecisionBound

LEMMA HowedoNext == HInv /\ [Howedo!Next]_(Howedo!vars) => HInv'
<1> SUFFICES ASSUME HInv, [Howedo!Next]_(Howedo!vars) PROVE HInv'
    OBVIOUS
<1>1. CASE \/ \E s \in Howedo!Statement : Howedo!Decide(s)
           \/ \E s \in decided, w \in Howedo!Window : Howedo!Attest(s, w)
           \/ \E b \in bindings : Howedo!Withdraw(b)
    BY <1>1, AuthorityKeeps
<1>2. ASSUME NEW d \in Howedo!Circulating, NEW b \in bindings,
             NEW o \in Operations, NEW w \in Howedo!Window,
             \/ Howedo!Adapt(o, d, b)
             \/ Howedo!Adapt(o, d, [b EXCEPT !.operation = o, !.window = w])
             \/ Howedo!Adapt(o, d, [b EXCEPT !.witness_digest = d.witness_digest])
      PROVE  HInv'
    <2>1. d \in Howedo!Document
        BY DEF Howedo!Circulating
    <2>2. /\ b \in Howedo!Binding
          /\ [b EXCEPT !.operation = o, !.window = w] \in Howedo!Binding
          /\ [b EXCEPT !.witness_digest = d.witness_digest] \in Howedo!Binding
        BY <2>1, PresentedTyped
    <2> QED BY <1>2, <2>1, <2>2, AdaptKeeps
<1>3. CASE \E d \in Howedo!Circulating : Howedo!Alter(d)
    BY <1>3, AlterKeeps DEF Howedo!Circulating
<1>4. CASE \E c \in adapting : Howedo!Emit(c)
    BY <1>4, EmitKeeps
<1>5. CASE Howedo!Distrust \/ UNCHANGED Howedo!vars
    BY <1>5 DEF Howedo!Distrust, Howedo!vars, HInv, HTypeOK, StatementBound, WitnessBound,
                DecisionBound
<1> QED BY <1>1, <1>2, <1>3, <1>4, <1>5 DEF Howedo!Next

LEMMA HowedoInvariance == Howedo!Spec => []HInv
BY HowedoInit, HowedoNext, PTL DEF Howedo!Spec

(* Continuity evidence repeats a decision HOWEDO took about a snapshot of     *)
(* this operation and passes only for CONTINUE, however witnesses and         *)
(* bindings are edited and mixed and whatever the caller does to its          *)
(* document while the authority is asked.                                    *)
THEOREM ContinuityTrue == Howedo!Spec => []EvidenceIsDecision
<1>1. HInv => EvidenceIsDecision
    <2> SUFFICES ASSUME HInv, NEW e \in continuity
                 PROVE  /\ About[e.snapshot] = e.operation
                        /\ e.binding \in bindings
                        /\ \E s \in decided :
                              /\ s.snapshot = e.snapshot
                              /\ s.action = e.decision
                              /\ e.verdict = "PASS" <=> s.action = "CONTINUE"
                              /\ e.binding.witness_digest = s
        BY DEF EvidenceIsDecision, Howedo!EvidenceIsDecision
    <2>1. DecisionBound(e) /\ StatementBound(e.binding)
        BY DEF HInv, DecisionBound
    <2>2. e.verdict = "PASS" <=> e.binding.witness_digest.action = "CONTINUE"
        BY <2>1 DEF DecisionBound, Howedo!Verdict
    <2> QED BY <2>1, <2>2 DEF DecisionBound, StatementBound
<1> QED BY <1>1, HowedoInvariance, PTL

(* Evidence leaves the adapter only while the authority stands by a binding   *)
(* of this very operation, whose window does not end before it begins.       *)
THEOREM ContinuityCurrent ==
    Howedo!Spec => [][\A e \in continuity' \ continuity :
                         /\ e.binding \in bindings \ revoked
                         /\ e.binding.operation = e.operation
                         /\ Howedo!WindowOpen(e.binding.window)]_howedo
<1>1. HInv /\ [Howedo!Next]_(Howedo!vars) =>
        [\A e \in continuity' \ continuity :
            /\ e.binding \in bindings \ revoked
            /\ e.binding.operation = e.operation
            /\ Howedo!WindowOpen(e.binding.window)]_howedo
    <2> SUFFICES ASSUME HInv, Howedo!Next, NEW e \in continuity' \ continuity
                 PROVE  /\ e.binding \in bindings \ revoked
                        /\ e.binding.operation = e.operation
                        /\ Howedo!WindowOpen(e.binding.window)
        BY DEF Howedo!vars, howedo
    <2>1. PICK c \in adapting : Howedo!Emit(c)
        BY DEF Howedo!Next, Howedo!Decide, Howedo!Attest, Howedo!Withdraw, Howedo!Adapt,
               Howedo!Alter, Howedo!Distrust
    <2>2. e = Howedo!Envelope(c) /\ c.binding \in bindings \ revoked
        BY <2>1 DEF Howedo!Emit, Howedo!Vouched
    <2>3. e.binding = c.binding /\ e.operation = c.operation
        BY <2>2 DEF Howedo!Envelope
    <2> QED BY <2>2, <2>3 DEF HInv, WitnessBound
<1> QED BY <1>1, HowedoInvariance, PTL DEF Howedo!Spec
===============================================================================
