-------------------------- MODULE ProvenanceRecorder --------------------------
(***************************************************************************)
(* ProvenanceRecorder.record_event (provenance.py) run by several threads  *)
(* or gateway instances against one attestation store.  The head is read   *)
(* in one critical section of the store and the attestation appended in a  *)
(* later one; what happens in between (build, sign, verify the signature)  *)
(* is local to the caller.  A call therefore has three steps that matter:  *)
(*                                                                         *)
(*   RecordEvent   head(), anchor validation, signing, self-verification   *)
(*   AppendEvent   append(), the compare-and-set against the store         *)
(*   ReadBack      head output and read-back validation, then telemetry    *)
(*                                                                         *)
(* The signer, the verifier and the store are adapters.  With Faults they  *)
(* may fail: head() raises, the signature is refused, append() raises      *)
(* before or after the entry is durable, the read-back is missing or       *)
(* refused, or the instance that runs the call dies.                       *)
(***************************************************************************)
EXTENDS AttestationStore

CONSTANTS
    Recorders,          \* concurrent callers of record_event
    Faults,             \* may adapters fail and instances die?
    ExportOutcomes,     \* what emit_telemetry_best_effort may return
    NoAttestation

ASSUME RecorderAssumption ==
    /\ Faults \in BOOLEAN
    /\ ExportOutcomes \in SUBSET BOOLEAN
    /\ NoAttestation \notin Attestation

VARIABLE calls

vars == <<heads, records, seen_ids, calls>>

CallStates == {"idle", "append", "readback", "ok", "failed"}
Idle == [pc |-> "idle", att |-> NoAttestation, exported |-> FALSE]

TypeOK ==
    /\ StoreTypeOK
    /\ calls \in [Recorders -> [pc : CallStates, att : Attestation \cup {NoAttestation},
                                exported : BOOLEAN]]

Init == StoreInit /\ calls = [r \in Recorders |-> Idle]

Goto(r, pc) == calls' = [calls EXCEPT ![r].pc = pc]

(* The attestation record_event builds on the head it has just read.        *)
Draft(o, s, p, e, id, authentic) ==
    [attestation_id |-> id, operation_id |-> o, subject_digest |-> s,
     proof_digest |-> p, artifact_type |-> e, sequence |-> NextSequence(o),
     previous |-> Predecessor(o), authentic |-> authentic]

(* Faulty variant: the recorder trusts its signer.                          *)
SignatureUnchecked(authentic) == TRUE

(* The recorder verifies its own signature before it stores anything.       *)
SignatureAccepted(authentic) == authentic

(* The head fits the caller's anchor and the signature verifies.            *)
RecordEvent(r, o, s, p, e, id, authentic) ==
    /\ calls[r].pc = "idle"
    /\ AnchorMatches(o, s, p)
    /\ SignatureAccepted(authentic)
    /\ calls' = [calls EXCEPT ![r] =
         [pc |-> "append", att |-> Draft(o, s, p, e, id, authentic), exported |-> FALSE]]
    /\ UNCHANGED store

(* The head belongs to another subject or proof, or an adapter fails: the   *)
(* call raises before anything is stored.                                   *)
RecordRefused(r, o, s, p, authentic) ==
    /\ calls[r].pc = "idle"
    /\ Faults \/ ~AnchorMatches(o, s, p) \/ ~SignatureAccepted(authentic)
    /\ Goto(r, "failed")
    /\ UNCHANGED store

(* append() succeeds.                                                       *)
AppendEvent(r) ==
    /\ calls[r].pc = "append"
    /\ Appendable(calls[r].att)
    /\ Persist(calls[r].att)
    /\ Goto(r, "readback")

(* append() refuses: no room, a stale position, another anchor, a known id. *)
AppendRefused(r) ==
    /\ calls[r].pc = "append"
    /\ Faults \/ ~Appendable(calls[r].att)
    /\ Goto(r, "failed")
    /\ UNCHANGED store

(* Faulty variant: a readable position is enough, whoever filled it.        *)
ReadBackAny(r) ==
    /\ calls[r].pc \in {"append", "readback"}
    /\ calls[r].att.sequence < Len(records[calls[r].att.operation_id])
    /\ \E x \in ExportOutcomes :
         calls' = [calls EXCEPT ![r].pc = "ok", ![r].exported = x]
    /\ UNCHANGED store

(* The entry reads back as submitted: the call succeeds, and whether the    *)
(* telemetry sink takes the event does not matter to its result.            *)
ReadBack(r) ==
    /\ calls[r].pc = "readback"
    /\ ReadsBack(calls[r].att)
    /\ \E x \in ExportOutcomes :
         calls' = [calls EXCEPT ![r].pc = "ok", ![r].exported = x]
    /\ UNCHANGED store

(* The entry is durable but the call raises all the same.                   *)
ReadBackRefused(r) ==
    /\ calls[r].pc = "readback"
    /\ Faults \/ ~ReadsBack(calls[r].att)
    /\ Goto(r, "failed")
    /\ UNCHANGED store

(* The caller takes the result.                                             *)
Return(r) ==
    /\ calls[r].pc \in {"ok", "failed"}
    /\ calls' = [calls EXCEPT ![r] = Idle]
    /\ UNCHANGED store

(* The instance dies in the middle of a call; the store is durable.         *)
Die(r) ==
    /\ Faults
    /\ calls[r].pc \in {"append", "readback"}
    /\ calls' = [calls EXCEPT ![r] = Idle]
    /\ UNCHANGED store

(* The steps of a call once it has started.                                 *)
Step(r) ==
    \/ AppendEvent(r) \/ AppendRefused(r)
    \/ ReadBack(r) \/ ReadBackRefused(r)

Next ==
    \E r \in Recorders :
        \/ \E o \in Operations, s \in Subjects, p \in Proofs, authentic \in BOOLEAN :
             \/ \E e \in Events, id \in Ids : RecordEvent(r, o, s, p, e, id, authentic)
             \/ RecordRefused(r, o, s, p, authentic)
        \/ Step(r) \/ Return(r) \/ Die(r)

(* No step of record_event waits for another caller, so each caller that is *)
(* inside a call keeps being scheduled.                                     *)
Spec == Init /\ [][Next]_vars /\ \A r \in Recorders : WF_vars(Step(r))

-------------------------------------------------------------------------------
(* Whatever the callers, the faults and the interleaving: the stored chain  *)
(* of every operation passes verify_provenance_chain.                       *)
ChainVerifies ==
    \A o \in Operations : records[o] # <<>> => VerifyProvenanceChain(records[o], o)

(* head() always describes the last entry of the chain.                     *)
HeadIsLast ==
    \A o \in Operations :
        LET n == Len(records[o]) IN
        IF n = 0 THEN heads[o] = NoHead
        ELSE /\ heads[o] # NoHead
             /\ heads[o].sequence = n - 1
             /\ heads[o].attestation_id = records[o][n].attestation_id
             /\ heads[o].subject_digest = records[o][n].subject_digest
             /\ heads[o].proof_digest = records[o][n].proof_digest

(* A caller that was told "persisted" finds its very attestation in the     *)
(* chain, now and after any number of later appends; telemetry never leaves *)
(* for an event that is not attested.                                       *)
SuccessIsDurable ==
    \A r \in Recorders :
        calls[r].pc = "ok" \/ calls[r].exported => ReadsBack(calls[r].att)

(* The sequence number alone detects a stale head: when it still fits, so   *)
(* do the predecessor and the anchor the caller has read (no ABA).          *)
StaleHeadDetected ==
    \A r \in Recorders :
        LET att == calls[r].att IN
        calls[r].pc = "append" =>
            /\ att.sequence <= Len(records[att.operation_id])
            /\ att.sequence = Len(records[att.operation_id]) =>
                 /\ att.previous = Predecessor(att.operation_id)
                 /\ AnchorMatches(att.operation_id, att.subject_digest, att.proof_digest)

(* The store stops at its capacity, and no id is ever stored twice, in one  *)
(* chain or in two.                                                         *)
CapacityRespected ==
    /\ Total <= MaxAttestations
    /\ Cardinality(seen_ids) = Total

(* Chains only grow: no step changes or drops a stored entry.               *)
AppendOnly ==
    [][\A o \in Operations :
         /\ Len(records[o]) <= Len(records'[o])
         /\ \A i \in 1..Len(records[o]) : records'[o][i] = records[o][i]]_records

(* Without faults the recorders are lock-free: a caller that has read the   *)
(* head at position n is refused only when the chain has grown past n, the  *)
(* store is full, or its attestation id was taken; nobody blocks anybody.   *)
AppendProgress ==
    \A r \in Recorders, o \in Operations, id \in Ids, n \in 0..(MaxAttestations - 1) :
        (/\ calls[r].pc = "append"
         /\ calls[r].att.operation_id = o
         /\ calls[r].att.attestation_id = id
         /\ calls[r].att.sequence = n)
        ~> (Len(records[o]) > n \/ ~HasRoom \/ id \in seen_ids)
===============================================================================
