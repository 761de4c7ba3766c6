------------------------- MODULE ExecutionProvenance -------------------------
(***************************************************************************)
(* attest_execution_receipt and attest_final_proof (provenance.py) over the   *)
(* recorder.  Each verifies its document against the clock, compares it with   *)
(* the subject and PRE proof the caller names, and only then calls            *)
(* record_event, which reads the head of the chain: other callers, and time,   *)
(* come in between.  Documents of all qualities are presented to every chain.  *)
(***************************************************************************)
EXTENDS ProvenanceRecorder, ExecutionReceipt

CONSTANTS
    Receipts,   \* execution receipts: [fields, wellFormed, intact]
    Finals,     \* proofs: [phase, operation, subject, pre, until]
    Lifecycle,  \* stands for the event of the gateway, which has no document
    MaxTime     \* bound: last instant

\* A proof verifies up to the first expiry of its evidence.
FinalProof ==
    [phase : {"PRE", "FINAL"}, operation : Operations, subject : Subjects, pre : Proofs,
     until : 0 .. MaxTime + 1]

Fields ==
    [operation : Operations, pre : Proofs, issued : Int, expires : Int, effect : Effects,
     outcome : Outcomes, outcomeVerified : BOOLEAN]

\* at is the instant of the verification; attestations do not carry it.
ReceiptEvents == [type : {"execution_receipt_verified"}, artifact : Receipts, at : 0 .. MaxTime]
FinalEvents   == [type : {"final_proof_composed"}, artifact : Finals, at : 0 .. MaxTime]

ASSUME DocumentsAssumption ==
    /\ MaxTime \in Nat
    /\ \A x \in Receipts : x.fields \in Fields /\ x.wellFormed \in BOOLEAN /\ x.intact \in BOOLEAN
    /\ Finals \subseteq FinalProof
    /\ ReceiptEvents \cup FinalEvents \cup {Lifecycle} \subseteq Events

VARIABLES
    clock,
    verified    \* [Recorders -> what it has verified and is about to record, at most one]

provenance == <<heads, records, seen_ids, calls, clock, verified>>

ProvenanceInit ==
    /\ Init
    /\ clock = 0
    /\ verified = [r \in Recorders |-> {}]

-----------------------------------------------------------------------------
(* Faulty variants: the PRE proof is taken from the caller, the receipt was   *)
(* verified some time before, its integrity alone is verified.                *)
ReceiptOfAnyProof(x, p) == ValidReceipt(x, clock)

ReceiptOnceValid(x, p) == ValidReceipt(x, 0) /\ x.fields.pre = p

ReceiptIntactOnly(x, p) == x.wellFormed /\ x.intact /\ x.fields.pre = p

ReceiptAttestable(x, p) == ValidReceipt(x, clock) /\ x.fields.pre = p

AttestExecutionReceipt(r, x, s, p) ==
    /\ calls[r].pc = "idle" /\ verified[r] = {}
    /\ ReceiptAttestable(x, p)
    /\ verified' = [verified EXCEPT ![r] =
         {[event |-> [type |-> "execution_receipt_verified", artifact |-> x, at |-> clock],
           operation |-> x.fields.operation, subject |-> s, pre |-> p]}]
    /\ UNCHANGED <<store, calls, clock>>

(* Faulty variants: the subject, or the phase, is not compared.             *)
FinalOfAnySubject(f, s, p) == clock < f.until /\ f.phase = "FINAL" /\ f.pre = p

FinalOfAnyPhase(f, s, p) == clock < f.until /\ f.subject = s /\ f.pre = p

FinalAttestable(f, s, p) ==
    /\ clock < f.until
    /\ f.phase = "FINAL"
    /\ f.subject = s
    /\ f.pre = p

AttestFinalProof(r, f, s, p) ==
    /\ calls[r].pc = "idle" /\ verified[r] = {}
    /\ FinalAttestable(f, s, p)
    /\ verified' = [verified EXCEPT ![r] =
         {[event |-> [type |-> "final_proof_composed", artifact |-> f, at |-> clock],
           operation |-> f.operation, subject |-> s, pre |-> p]}]
    /\ UNCHANGED <<store, calls, clock>>

(* record_event on behalf of the two functions                              *)
Record(r) ==
    /\ \E c \in verified[r], authentic \in BOOLEAN :
         \/ \E id \in Ids : RecordEvent(r, c.operation, c.subject, c.pre, c.event, id, authentic)
         \/ RecordRefused(r, c.operation, c.subject, c.pre, authentic)
    /\ verified' = [verified EXCEPT ![r] = {}]
    /\ UNCHANGED clock

(* The gateway's wrappers record on the same chains.                        *)
RecordLifecycle(r, o, s, p) ==
    /\ verified[r] = {}
    /\ \E id \in Ids : RecordEvent(r, o, s, p, Lifecycle, id, TRUE)
    /\ UNCHANGED <<clock, verified>>

Proceed(r) ==
    /\ Step(r) \/ Return(r) \/ Die(r)
    /\ UNCHANGED <<clock, verified>>

Tick ==
    /\ clock < MaxTime
    /\ clock' = clock + 1
    /\ UNCHANGED <<store, calls, verified>>

ProvenanceNext ==
    \/ \E r \in Recorders :
         \/ \E s \in Subjects, p \in Proofs :
              \/ \E x \in Receipts : AttestExecutionReceipt(r, x, s, p)
              \/ \E f \in Finals : AttestFinalProof(r, f, s, p)
              \/ \E o \in Operations : RecordLifecycle(r, o, s, p)
         \/ Record(r)
         \/ Proceed(r)
    \/ Tick

ProvenanceSpec == ProvenanceInit /\ [][ProvenanceNext]_provenance

-----------------------------------------------------------------------------
Entries(o, type) ==
    {records[o][i] : i \in {j \in 1 .. Len(records[o]) :
        records[o][j].artifact_type # Lifecycle /\ records[o][j].artifact_type.type = type}}

(* A chain with a receipt and a FINAL proof is about one execution: whoever   *)
(* recorded them, in whatever order and between whatever other entries, both   *)
(* name this operation and the same PRE proof, which is the one the chain is   *)
(* anchored to, and the FINAL proof has the subject of the chain.             *)
OneExecution ==
    \A o \in Operations :
        LET receipts == Entries(o, "execution_receipt_verified")
            finals   == Entries(o, "final_proof_composed")
        IN  /\ \A a \in receipts, b \in finals :
                  /\ a.artifact_type.artifact.fields.pre = b.artifact_type.artifact.pre
                  /\ a.subject_digest = b.artifact_type.artifact.subject
            /\ \A a \in receipts : a.artifact_type.artifact.fields.operation = o
            /\ \A b \in finals : b.artifact_type.artifact.operation = o
            /\ \A a \in receipts \cup finals :
                  /\ heads[o] # NoHead
                  /\ a.proof_digest = heads[o].proof_digest

(* "A signature cannot turn an unverified execution receipt into execution   *)
(* PASS" (docs/ATTESTATIONS.md:130): an attested receipt was intact, in its   *)
(* validity when it was verified, and its outcome, when it claims one, was    *)
(* independently verified; an attested FINAL proof is one and was valid.      *)
AttestedWasVerified ==
    \A o \in Operations :
        /\ \A a \in Entries(o, "execution_receipt_verified") :
              LET x == a.artifact_type.artifact IN
              /\ x.wellFormed /\ x.intact
              /\ x.fields.outcome # "UNKNOWN" => x.fields.outcomeVerified
              /\ x.fields.expires # NoExpiry => a.artifact_type.at < x.fields.expires
        /\ \A b \in Entries(o, "final_proof_composed") :
              /\ b.artifact_type.artifact.phase = "FINAL"
              /\ b.artifact_type.at < b.artifact_type.artifact.until
===============================================================================
