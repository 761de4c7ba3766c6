------------------------- MODULE MCProvenanceRecorder -------------------------
(* Two callers, two proofs to anchor a chain to, up to MaxAttestations entries *)
(* and one attestation id more, so that uuid collisions, stale heads, foreign   *)
(* anchors and a full store all occur.  No adapter fails and no instance dies:  *)
(* the steps only Faults enable, Die and ReadBackRefused, are left out.         *)
EXTENDS ProvenanceRecorder

FaultFreeStep(r) == AppendEvent(r) \/ AppendRefused(r) \/ ReadBack(r)

FaultFreeNext ==
    \E r \in Recorders :
        \/ \E o \in Operations, s \in Subjects, p \in Proofs, authentic \in BOOLEAN :
             \/ \E e \in Events, id \in Ids : RecordEvent(r, o, s, p, e, id, authentic)
             \/ RecordRefused(r, o, s, p, authentic)
        \/ FaultFreeStep(r) \/ Return(r)

FaultFreeSpec ==
    Init /\ [][FaultFreeNext]_vars /\ \A r \in Recorders : WF_vars(FaultFreeStep(r))
===============================================================================
