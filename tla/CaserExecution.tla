---------------------------- MODULE CaserExecution ----------------------------
(***************************************************************************)
(* CaserExecutionAdapter.adapt with its surroundings: executions that        *)
(* happened, CASER's documents about them, the authority that binds exact    *)
(* documents to a PRE proof, a caller who owns the documents it passes, and  *)
(* the clock, which adapt reads before and after it asks the authority.      *)
(***************************************************************************)
EXTENDS CaserVerdict, ExecutionReceipt, FiniteSets

CONSTANTS
    Instances,     \* executions
    Pres,          \* PRE proofs
    Operation,     \* [Pres -> operations]
    BadPres,       \* PRE proofs that are invalid or not VERIFIED
    Verifications, \* contents of verification documents in play
    Forged,        \* bindings written by someone else
    MaxClock,      \* bound: last instant
    MaxBindings    \* bound: bindings the authority attests

ASSUME PresAssumption == BadPres \subseteq Pres
ASSUME ClockAssumption == MaxClock \in Nat
ASSUME VerificationsAssumption == Verifications \subseteq Verification

Facts ==
    [pre : Pres, outcome : {"SUCCEEDED", "FAILED"}, effect : {"READ_ONLY", "MUTATING"},
     settled : BOOLEAN]

\* genuine is FALSE for a receipt altered under an unchanged contentIdentity.
Receipts == [instance : Instances, operation : {Operation[p] : p \in Pres}, genuine : BOOLEAN]

\* A verification document refers to its receipt by operation, instance and identity.
Documents ==
    [instance : Instances, operation : {Operation[p] : p \in Pres},
     content : Verifications, verifiedAt : 0 .. MaxClock]

\* Both document digests are in a binding, so that it names the documents themselves.
Bindings ==
    [pre : Pres, receipt : Receipts, verification : Documents,
     issued : 0 .. MaxClock, expires : 0 .. MaxClock + 1]

ASSUME ForgedAssumption == Forged \subseteq Bindings

Evidence ==
    [binding : Bindings, receipt : Receipts, content : Verifications,
     verdict : {"PASS", "FAIL", "UNKNOWN"}, at : 0 .. MaxClock]

\* receipt and content are the adapter's snapshots; live is the caller's own document.
Calls ==
    [binding : Bindings, receipt : Receipts, content : Verifications, live : Verifications]

VARIABLES
    clock,
    fact,       \* [Instances -> Facts], what happened
    attested,   \* bindings the authority has attested
    withdrawn,  \* those it has withdrawn since
    call,       \* the call of adapt in progress, if any: a set of at most one
    emitted,    \* evidence adapt has returned
    raised      \* how the last call failed: "none", "CaserExecutionError" or "ValueError"

vars == <<clock, fact, attested, withdrawn, call, emitted, raised>>

world == <<fact, attested, withdrawn>>

TypeOK ==
    /\ clock \in 0 .. MaxClock
    /\ fact \in [Instances -> Facts]
    /\ attested \subseteq Bindings
    /\ withdrawn \subseteq attested
    /\ call \subseteq Calls
    /\ emitted \subseteq Evidence
    /\ raised \in {"none", "CaserExecutionError", "ValueError"}

Init ==
    /\ clock = 0
    /\ fact \in [Instances -> Facts]
    /\ attested = {}
    /\ withdrawn = {}
    /\ call = {}
    /\ emitted = {}
    /\ raised = "none"

-----------------------------------------------------------------------------
(* The authority binds only documents CASER really wrote, to the PRE proof    *)
(* the execution ran under, and may withdraw a binding at any time.           *)
Truthful(b) ==
    /\ b.receipt.genuine
    /\ b.receipt.operation = Operation[b.pre]
    /\ fact[b.receipt.instance].pre = b.pre
    /\ b.verification.operation = b.receipt.operation
    /\ b.verification.instance = b.receipt.instance
    /\ b.verification.verifiedAt <= clock
    /\ Genuine(b.verification.content, fact[b.receipt.instance])

Attest(b) ==
    /\ Cardinality(attested) < MaxBindings
    /\ Truthful(b)
    /\ attested' = attested \cup {b}
    /\ UNCHANGED <<clock, fact, withdrawn, call, emitted, raised>>

Withdraw(b) ==
    /\ withdrawn' = withdrawn \cup {b}
    /\ UNCHANGED <<clock, fact, attested, call, emitted, raised>>

Tick ==
    /\ clock < MaxClock
    /\ clock' = clock + 1
    /\ UNCHANGED <<world, call, emitted, raised>>

-----------------------------------------------------------------------------
(* What is checked before the authority is asked, for documents d and receipt *)
(* r, a binding b and the PRE proof pre.                                      *)
PreAccepted(pre) == pre \notin BadPres

DocumentsConsistent(pre, r, d) ==
    /\ r.operation = Operation[pre]
    /\ d.operation = Operation[pre]
    /\ d.instance = r.instance

\* The native identities only: they survive an alteration of the documents.
BindingByIdentity(pre, r, d, b) ==
    /\ b.pre = pre
    /\ b.receipt.instance = r.instance
    /\ b.verification.instance = d.instance

BindingMatches(pre, r, d, b) ==
    b.pre = pre /\ b.receipt = r /\ b.verification = d

BindingInTime(b, now) ==
    /\ b.issued >= b.verification.verifiedAt
    /\ b.expires > b.issued
    /\ b.expires > now

Acceptable(pre, r, d, b) ==
    /\ PreAccepted(pre)
    /\ DocumentsConsistent(pre, r, d)
    /\ BindingMatches(pre, r, d, b)
    /\ BindingInTime(b, clock)

Adapt(pre, r, d, b) ==
    /\ call = {}
    /\ IF Acceptable(pre, r, d, b)
       THEN /\ call' = {[binding |-> b, receipt |-> r, content |-> d.content, live |-> d.content]}
            /\ raised' = "none"
       ELSE /\ raised' = "CaserExecutionError"
            /\ UNCHANGED call
    /\ UNCHANGED <<clock, world, emitted>>

\* The caller, or the callback itself, alters the caller's object.
Alter(content) ==
    /\ \E c \in call : call' = {[c EXCEPT !.live = content]}
    /\ UNCHANGED <<clock, world, emitted, raised>>

Live(c) == c.live

Snapshot(c) == c.content

Normalized(c) ==
    [effect          |-> VerifiedEffect(Snapshot(c)),
     outcome         |-> VerifiedOutcome(Snapshot(c)),
     outcomeVerified |-> Snapshot(c).outcomeClaim,
     issued          |-> c.binding.issued,
     expires         |-> c.binding.expires]

EverVouched(b) == b \in attested

Vouched(b) == b \in attested \ withdrawn

Evidenced(c) ==
    [binding |-> c.binding, receipt |-> c.receipt, content |-> Snapshot(c),
     verdict |-> Verdict(Snapshot(c)), at |-> clock]

\* The authority answers True, and the rest of adapt runs.
Normalize(c) ==
    /\ Vouched(c.binding)
    /\ call' = {}
    /\ \/ /\ ~ Normalizable(Snapshot(c))
          /\ raised' = "CaserExecutionError"
          /\ UNCHANGED emitted
       \/ /\ Normalizable(Snapshot(c))
          /\ ~ Buildable(Normalized(c), clock)
          /\ raised' = "ValueError"
          /\ UNCHANGED emitted
       \/ /\ Normalizable(Snapshot(c))
          /\ Buildable(Normalized(c), clock)
          /\ raised' = "none"
          /\ emitted' = emitted \cup {Evidenced(c)}
    /\ UNCHANGED <<clock, world>>

\* It answers anything else, or raises, whether or not it attested the binding.
Distrust ==
    /\ call # {}
    /\ call' = {}
    /\ raised' = "CaserExecutionError"
    /\ UNCHANGED <<clock, world, emitted>>

Next ==
    \/ \E b \in Bindings : Attest(b)
    \/ \E b \in attested : Withdraw(b)
    \/ Tick
    \/ \E pre \in Pres, r \in Receipts, d \in Documents, b \in attested \cup Forged :
          Adapt(pre, r, d, b)
    \/ \E content \in Verifications : Alter(content)
    \/ \E c \in call : Normalize(c)
    \/ Distrust

Spec == Init /\ [][Next]_vars

-----------------------------------------------------------------------------
Ran(e) == fact[e.receipt.instance]

(* PASS evidence of an execution for a PRE proof means that this execution    *)
(* ran under this very proof, succeeded, and changed nothing or left the      *)
(* state the provider confirmed, whatever documents and bindings were mixed,  *)
(* altered or replayed and whatever changed while the authority was asked.    *)
PassIsTrue ==
    \A e \in emitted :
        e.verdict = "PASS" =>
            /\ Ran(e).pre = e.binding.pre
            /\ Completed(Ran(e))

(* FAIL evidence without a failed verification reports a real failure.        *)
FailIsTrue ==
    \A e \in emitted :
        e.verdict = "FAIL" =>
            \/ e.content.status = "FAIL"
            \/ Ran(e).outcome = "FAILED"

(* Evidence leaves the adapter only from a binding the authority vouches for  *)
(* at that moment, that has not expired by then, and only for a PRE proof that *)
(* was accepted: time that passes while the authority is asked counts.  The   *)
(* start of the binding's validity is compared with its end, never with the   *)
(* clock (caser.py:352-361).                                                  *)
EmissionIsCurrent ==
    [][\A e \in emitted' \ emitted :
          /\ e.binding \in attested \ withdrawn
          /\ e.binding.issued < e.binding.expires
          /\ e.binding.expires > clock
          /\ e.binding.pre \notin BadPres]_vars
=============================================================================
