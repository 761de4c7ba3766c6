--------------------------- MODULE AttestationStore ---------------------------
(***************************************************************************)
(* MemoryAttestationStore (attestation_store.py): one append-only chain of *)
(* signed attestations per operation, and the auditor's check of a chain,  *)
(* verify_provenance_chain (attestation.py).  append() runs under the lock *)
(* and is one atomic action.                                               *)
(*                                                                         *)
(* An attestation is known by its attestation_id.  The digest is a hash    *)
(* over an object that contains the id, so attestations with different ids *)
(* have different digests, and one with an id that is already stored is    *)
(* refused by the id test whatever its digest: the model names a digest by *)
(* the id.  "authentic" says whether the signature verifies.               *)
(***************************************************************************)
EXTENDS Naturals, Sequences, FiniteSets

CONSTANTS
    Operations, Subjects, Proofs,   \* operation ids, subject and PRE proof digests
    Events,                         \* artifact types
    Ids,                            \* what uuid4 may return
    MaxAttestations,                \* max_attestations
    GENESIS, NoHead

Attestation ==
    [attestation_id : Ids, operation_id : Operations, subject_digest : Subjects,
     proof_digest : Proofs, artifact_type : Events, sequence : Nat,
     previous : Ids \cup {GENESIS}, authentic : BOOLEAN]

(* AttestationStoreHead, its operation_id being the index in heads.         *)
StoreHead == [subject_digest : Subjects, proof_digest : Proofs, sequence : Nat,
              attestation_id : Ids]

ASSUME StoreAssumption ==
    /\ MaxAttestations \in Nat \ {0}
    /\ GENESIS \notin Ids
    /\ NoHead \notin StoreHead

VARIABLES heads, records, seen_ids

store == <<heads, records, seen_ids>>

StoreTypeOK ==
    /\ heads \in [Operations -> StoreHead \cup {NoHead}]
    /\ records \in [Operations -> Seq(Attestation)]
    /\ seen_ids \in SUBSET Ids

StoreInit ==
    /\ heads = [o \in Operations |-> NoHead]
    /\ records = [o \in Operations |-> <<>>]
    /\ seen_ids = {}

(* The position the next attestation of operation o has to take.            *)
NextSequence(o) == IF heads[o] = NoHead THEN 0 ELSE heads[o].sequence + 1
Predecessor(o) == IF heads[o] = NoHead THEN GENESIS ELSE heads[o].attestation_id

(* The subject and PRE proof a chain was started with stay its anchor.      *)
AnchorMatches(o, s, p) ==
    heads[o] # NoHead => heads[o].subject_digest = s /\ heads[o].proof_digest = p

(* The places that are taken, over all chains.                              *)
Stored == UNION {{<<o, i>> : i \in 1..Len(records[o])} : o \in Operations}

Total == Cardinality(Stored)

(* Faulty variant: off by one at the limit.                                 *)
HasRoomLate == Total <= MaxAttestations

HasRoom == Total < MaxAttestations

(* Faulty variant: compared with the sequence of the head, not the next one. *)
PositionOfHead(att) ==
    /\ att.sequence = IF heads[att.operation_id] = NoHead THEN 0
                      ELSE heads[att.operation_id].sequence
    /\ att.previous = Predecessor(att.operation_id)

(* Compare-and-set: the caller's view of the head is still current.         *)
PositionCurrent(att) ==
    /\ att.sequence = NextSequence(att.operation_id)
    /\ att.previous = Predecessor(att.operation_id)

(* The tests of append() under the lock.                                    *)
Appendable(att) ==
    /\ HasRoom
    /\ PositionCurrent(att)
    /\ AnchorMatches(att.operation_id, att.subject_digest, att.proof_digest)
    /\ att.attestation_id \notin seen_ids

(* What append() writes once its tests have passed.                         *)
Persist(att) ==
    /\ records' = [records EXCEPT ![att.operation_id] = Append(@, att)]
    /\ heads' = [heads EXCEPT ![att.operation_id] =
         [subject_digest |-> att.subject_digest, proof_digest |-> att.proof_digest,
          sequence |-> att.sequence, attestation_id |-> att.attestation_id]]
    /\ seen_ids' = seen_ids \cup {att.attestation_id}

(* read(): the stored entry att.sequence of the chain is the entry att.     *)
ReadsBack(att) ==
    /\ att.sequence < Len(records[att.operation_id])
    /\ records[att.operation_id][att.sequence + 1] = att

(* No entry of the chain gives verify_provenance_chain a reason to complain. *)
EntriesClean(chain, o) ==
    \A i \in 1..Len(chain) :
        /\ chain[i].authentic
        /\ chain[i].operation_id = o
        /\ chain[i].subject_digest = chain[1].subject_digest
        /\ chain[i].proof_digest = chain[1].proof_digest
        /\ chain[i].sequence = i - 1
        /\ chain[i].previous = IF i = 1 THEN GENESIS ELSE chain[i-1].attestation_id
        /\ \A j \in 1..Len(chain) : chain[i].attestation_id = chain[j].attestation_id => i = j

(* verify_provenance_chain with the signer's verifier and the expected      *)
(* operation; an empty chain is refused.                                    *)
VerifyProvenanceChain(chain, o) == chain # <<>> /\ EntriesClean(chain, o)
===============================================================================
