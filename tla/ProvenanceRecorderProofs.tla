----------------------- MODULE ProvenanceRecorderProofs -----------------------
(***************************************************************************)
(* For any number of callers, operations and attestation ids, any capacity *)
(* and any failing of the adapters: every stored chain verifies, a reported *)
(* success is durable, chains only grow and the capacity holds.            *)
(*                                                                         *)
(* The inductive invariant ties the three pieces of state of the store     *)
(* together (a head describes the last entry, the seen ids are those of    *)
(* the entries) and says what a caller between its head() and its append() *)
(* knows: as long as its sequence number still fits, so does everything    *)
(* else it has read.  Counted adds that there are as many ids as entries.  *)
(*                                                                         *)
(* ExecutionProvenance attests receipts and FINAL proofs by steps of the   *)
(* recorder, so all of this holds there too; PInv follows a document from  *)
(* its verification over the call that carries it into the chain.          *)
(***************************************************************************)
EXTENDS ExecutionProvenance, FiniteSetTheorems, TLAPS

(* Every stored id is in seen_ids, so a fresh id occurs nowhere.            *)
IdsSeen ==
    \A o \in Operations : \A i \in 1..Len(records[o]) :
        records[o][i].attestation_id \in seen_ids

(* What a caller holds in each state of its call.                           *)
CallsKnow ==
    \A r \in Recorders :
        /\ calls[r].pc \in {"append", "readback", "ok"} => calls[r].att \in Attestation
        /\ calls[r].pc = "append" => calls[r].att.authentic
        /\ calls[r].pc \in {"readback", "ok"} => ReadsBack(calls[r].att)
        /\ calls[r].exported => calls[r].pc = "ok"

(* Every stored chain is clean, the empty one included.                     *)
ChainsClean == \A o \in Operations : EntriesClean(records[o], o)

IInv == TypeOK /\ ChainsClean /\ HeadIsLast /\ StaleHeadDetected /\ IdsSeen /\ CallsKnow

USE StoreAssumption, RecorderAssumption

(* The empty store and idle callers satisfy the invariant.                  *)
LEMMA InitInv == Init => IInv
<1> SUFFICES ASSUME Init PROVE IInv
  OBVIOUS
<1> USE DEF Init, StoreInit
<1>1. TypeOK
  BY DEF TypeOK, StoreTypeOK, Idle, CallStates
<1>2. ChainsClean /\ HeadIsLast /\ IdsSeen
  BY DEF ChainsClean, EntriesClean, HeadIsLast, IdsSeen
<1>3. StaleHeadDetected /\ CallsKnow
  BY DEF StaleHeadDetected, CallsKnow, Idle
<1> QED
  BY <1>1, <1>2, <1>3 DEF IInv

(* A step that leaves the store alone keeps what is said of the store.      *)
LEMMA StoreUntouched ==
  ASSUME IInv, UNCHANGED store
  PROVE  StoreTypeOK' /\ ChainsClean' /\ HeadIsLast' /\ IdsSeen'
BY DEF IInv, TypeOK, StoreTypeOK, ChainsClean, EntriesClean, HeadIsLast,
       IdsSeen, store

(* The head and the length of a chain always agree.                         *)
LEMMA NextIsLength ==
  ASSUME IInv, NEW o \in Operations
  PROVE  /\ Len(records[o]) \in Nat
         /\ NextSequence(o) = Len(records[o])
         /\ Predecessor(o) \in Ids \cup {GENESIS}
         /\ Predecessor(o) = IF Len(records[o]) = 0 THEN GENESIS
                             ELSE records[o][Len(records[o])].attestation_id
<1>1. records[o] \in Seq(Attestation) /\ heads[o] \in StoreHead \cup {NoHead}
  BY DEF IInv, TypeOK, StoreTypeOK
<1>2. Len(records[o]) \in Nat
  BY <1>1
<1>3. CASE Len(records[o]) = 0
  BY <1>3, <1>1 DEF IInv, HeadIsLast, NextSequence, Predecessor
<1>4. CASE Len(records[o]) # 0
  <2>1. /\ heads[o] # NoHead
        /\ heads[o].sequence = Len(records[o]) - 1
        /\ heads[o].attestation_id = records[o][Len(records[o])].attestation_id
    BY <1>4 DEF IInv, HeadIsLast
  <2>2. heads[o] \in StoreHead
    BY <1>1, <2>1
  <2> QED
    BY <1>2, <1>4, <2>1, <2>2 DEF NextSequence, Predecessor, StoreHead
<1> QED
  BY <1>2, <1>3, <1>4

(* Starting a call: the draft sits exactly at the end of the chain.         *)
LEMMA RecordEventInv ==
  ASSUME IInv,
         NEW r \in Recorders, NEW o \in Operations, NEW s \in Subjects, NEW p \in Proofs,
         NEW e \in Events, NEW id \in Ids, NEW authentic \in BOOLEAN,
         RecordEvent(r, o, s, p, e, id, authentic)
  PROVE  IInv'
<1> DEFINE att == Draft(o, s, p, e, id, authentic)
<1>1. StoreTypeOK' /\ ChainsClean' /\ HeadIsLast' /\ IdsSeen'
  BY StoreUntouched DEF RecordEvent
<1>2. att \in Attestation
  BY NextIsLength DEF Draft, Attestation
<1>3. \A q \in Recorders : calls'[q] =
        IF q = r THEN [pc |-> "append", att |-> att, exported |-> FALSE] ELSE calls[q]
  BY DEF RecordEvent, IInv, TypeOK
<1>4. TypeOK'
  BY <1>1, <1>2 DEF RecordEvent, IInv, TypeOK, CallStates
<1>5. heads' = heads /\ records' = records /\ seen_ids' = seen_ids
  BY DEF RecordEvent, store
<1>6. CallsKnow'
  <2>1. authentic
    BY DEF RecordEvent, SignatureAccepted
  <2>2. att.authentic
    BY <2>1 DEF Draft
  <2> QED
    BY <1>2, <1>3, <1>5, <2>2 DEF IInv, CallsKnow, ReadsBack
<1>7. StaleHeadDetected'
  <2>1. /\ att.operation_id = o /\ att.sequence = Len(records[o])
        /\ att.previous = Predecessor(o)
        /\ att.subject_digest = s /\ att.proof_digest = p
        /\ Len(records[o]) \in Nat
    BY NextIsLength DEF Draft
  <2>2. AnchorMatches(o, s, p)
    BY DEF RecordEvent
  <2> QED
    BY <1>3, <1>5, <2>1, <2>2 DEF IInv, StaleHeadDetected, Predecessor, AnchorMatches
<1> QED
  BY <1>1, <1>4, <1>6, <1>7 DEF IInv

(* A step that only changes the state of one call, to one in which nothing  *)
(* is claimed or in which the claim is already known, keeps the invariant.  *)
LEMMA CallOnlyInv ==
  ASSUME IInv, NEW r \in Recorders, UNCHANGED store,
         NEW c, c \in [pc : CallStates, att : Attestation \cup {NoAttestation},
                       exported : BOOLEAN],
         \/ c.pc \in {"idle", "failed"} /\ ~c.exported
         \/ c.pc = "ok" /\ c.att = calls[r].att /\ calls[r].pc = "readback",
         calls' = [calls EXCEPT ![r] = c]
  PROVE  IInv'
<1>1. StoreTypeOK' /\ ChainsClean' /\ HeadIsLast' /\ IdsSeen'
  BY StoreUntouched
<1>2. heads' = heads /\ records' = records /\ seen_ids' = seen_ids
  BY DEF store
<1>3. \A q \in Recorders : calls'[q] = IF q = r THEN c ELSE calls[q]
  BY DEF IInv, TypeOK
<1>4. TypeOK'
  BY <1>1 DEF IInv, TypeOK
<1>5. CallsKnow'
  BY <1>2, <1>3 DEF IInv, CallsKnow, ReadsBack
<1>6. StaleHeadDetected'
  BY <1>2, <1>3 DEF IInv, StaleHeadDetected, Predecessor, AnchorMatches
<1> QED
  BY <1>1, <1>4, <1>5, <1>6 DEF IInv

(* The appended entry continues its chain: it is authentic, sits at the     *)
(* next position, points at the last entry, shares the anchor, and its id   *)
(* is new.  Whoever read the head before is now behind the chain.           *)
LEMMA AppendEventInv ==
  ASSUME IInv, NEW r \in Recorders, AppendEvent(r)
  PROVE  IInv'
<1>1. PICK att \in Attestation : att = calls[r].att
  BY DEF IInv, CallsKnow, AppendEvent
<1>2. PICK o \in Operations : o = att.operation_id
  BY DEF Attestation
<1> DEFINE n == Len(records[o])
<1>3. /\ att.attestation_id \in Ids /\ att.subject_digest \in Subjects
      /\ att.proof_digest \in Proofs /\ att.sequence \in Nat /\ att.authentic
  BY <1>1 DEF IInv, CallsKnow, AppendEvent, Attestation
<1>4. Appendable(att) /\ Persist(att)
  BY <1>1 DEF AppendEvent
<1>5. records[o] \in Seq(Attestation) /\ n \in Nat
  BY DEF IInv, TypeOK, StoreTypeOK
<1>6. /\ att.sequence = n
      /\ att.previous = IF n = 0 THEN GENESIS ELSE records[o][n].attestation_id
  BY <1>2, <1>4, NextIsLength DEF Appendable, PositionCurrent
<1>7. /\ records' = [records EXCEPT ![o] = Append(records[o], att)]
      /\ seen_ids' = seen_ids \cup {att.attestation_id}
  BY <1>2, <1>4 DEF Persist
<1>8. heads' = [heads EXCEPT ![o] =
         [subject_digest |-> att.subject_digest, proof_digest |-> att.proof_digest,
          sequence |-> att.sequence, attestation_id |-> att.attestation_id]]
  BY <1>2, <1>4 DEF Persist
<1>9. \A x \in Operations : records'[x] = IF x = o THEN Append(records[o], att) ELSE records[x]
  BY <1>7 DEF IInv, TypeOK, StoreTypeOK
<1>10. /\ Len(records'[o]) = n + 1
       /\ \A i \in 1..n : records'[o][i] = records[o][i]
       /\ records'[o][n + 1] = att
  <2>1. records'[o] = Append(records[o], att)
    BY <1>9
  <2>2. Len(Append(records[o], att)) = n + 1 /\ Append(records[o], att)[n + 1] = att
    BY <1>5
  <2>3. \A i \in 1..n : Append(records[o], att)[i] = records[o][i]
    BY <1>5
  <2> QED
    BY <2>1, <2>2, <2>3
<1>11. \A q \in Recorders : /\ calls'[q].att = calls[q].att
                            /\ calls'[q].exported = calls[q].exported
                            /\ calls'[q].pc = IF q = r THEN "readback" ELSE calls[q].pc
  BY DEF AppendEvent, Goto, IInv, TypeOK
<1>12. TypeOK'
  <2>1. StoreTypeOK'
    BY <1>3, <1>5, <1>7, <1>8 DEF IInv, TypeOK, StoreTypeOK, StoreHead
  <2>2. calls' \in [Recorders -> [pc : CallStates, att : Attestation \cup {NoAttestation},
                                  exported : BOOLEAN]]
    BY DEF AppendEvent, Goto, IInv, TypeOK, CallStates
  <2> QED
    BY <2>1, <2>2 DEF TypeOK
<1>13. HeadIsLast'
  <2>1. /\ heads'[o] = [subject_digest |-> att.subject_digest, proof_digest |-> att.proof_digest,
                        sequence |-> att.sequence, attestation_id |-> att.attestation_id]
        /\ \A x \in Operations \ {o} : heads'[x] = heads[x] /\ records'[x] = records[x]
    BY <1>8, <1>9 DEF IInv, TypeOK, StoreTypeOK
  <2>2. heads'[o] \in StoreHead
    BY <1>3, <2>1 DEF StoreHead
  <2>3. heads'[o] # NoHead /\ n + 1 # 0 /\ (n + 1) - 1 = n
    BY <1>5, <2>2
  <2>4. ASSUME NEW x \in Operations \ {o}
        PROVE  LET k == Len(records'[x]) IN
               IF k = 0 THEN heads'[x] = NoHead
               ELSE /\ heads'[x] # NoHead
                    /\ heads'[x].sequence = k - 1
                    /\ heads'[x].attestation_id = records'[x][k].attestation_id
                    /\ heads'[x].subject_digest = records'[x][k].subject_digest
                    /\ heads'[x].proof_digest = records'[x][k].proof_digest
    BY <2>1 DEF IInv, HeadIsLast
  <2>5. /\ heads'[o].sequence = Len(records'[o]) - 1
        /\ heads'[o].attestation_id = records'[o][Len(records'[o])].attestation_id
        /\ heads'[o].subject_digest = records'[o][Len(records'[o])].subject_digest
        /\ heads'[o].proof_digest = records'[o][Len(records'[o])].proof_digest
    BY <1>6, <1>10, <2>1, <2>3
  <2> QED
    BY <1>10, <2>3, <2>4, <2>5 DEF HeadIsLast
<1>14. IdsSeen'
  BY <1>5, <1>7, <1>9, <1>10 DEF IInv, IdsSeen
<1>15. ChainsClean'
  <2>1. ASSUME NEW x \in Operations, x # o PROVE EntriesClean(records'[x], x)
    BY <1>9, <2>1 DEF IInv, ChainsClean
  <2>2. EntriesClean(records'[o], o)
    <3>1. EntriesClean(records[o], o)
      BY DEF IInv, ChainsClean
    <3>2. n > 0 => /\ att.subject_digest = records[o][1].subject_digest
                   /\ att.proof_digest = records[o][1].proof_digest
      <4>1. AnchorMatches(o, att.subject_digest, att.proof_digest)
        BY <1>2, <1>4 DEF Appendable
      <4>2. n > 0 => /\ heads[o] # NoHead
                     /\ heads[o].subject_digest = records[o][n].subject_digest
                     /\ heads[o].proof_digest = records[o][n].proof_digest
        BY <1>5 DEF IInv, HeadIsLast
      <4>3. n > 0 => /\ records[o][n].subject_digest = records[o][1].subject_digest
                     /\ records[o][n].proof_digest = records[o][1].proof_digest
        BY <1>5, <3>1 DEF EntriesClean
      <4> QED
        BY <4>1, <4>2, <4>3 DEF AnchorMatches
    <3>3. \A i \in 1..n : records[o][i].attestation_id # att.attestation_id
      BY <1>4 DEF IInv, IdsSeen, Appendable
    <3>4. \A i \in 1..n : /\ records'[o][i] = records[o][i]
                          /\ records'[o][1] = records[o][1]
                          /\ i # 1 => records'[o][i-1] = records[o][i-1]
      BY <1>5, <1>10
    <3>5. ASSUME NEW i \in 1..(n+1)
          PROVE  LET c == records'[o] IN
                 /\ c[i].authentic
                 /\ c[i].operation_id = o
                 /\ c[i].subject_digest = c[1].subject_digest
                 /\ c[i].proof_digest = c[1].proof_digest
                 /\ c[i].sequence = i - 1
                 /\ c[i].previous = IF i = 1 THEN GENESIS ELSE c[i-1].attestation_id
      <4>1. CASE i \in 1..n
        BY <1>5, <3>1, <3>4, <4>1 DEF EntriesClean
      <4>2. CASE i = n + 1 /\ n = 0
        BY <1>2, <1>3, <1>6, <1>10, <4>2
      <4>3. CASE i = n + 1 /\ n > 0
        <5>1. records'[o][1] = records[o][1] /\ records'[o][n] = records[o][n]
          BY <1>5, <1>10, <4>3
        <5>2. i - 1 = n /\ i # 1
          BY <1>5, <4>3
        <5> QED
          BY <1>2, <1>3, <1>5, <1>6, <1>10, <3>2, <4>3, <5>1, <5>2
      <4> QED
        BY <1>5, <4>1, <4>2, <4>3
    <3>6. \A i, j \in 1..(n+1) :
             records'[o][i].attestation_id = records'[o][j].attestation_id => i = j
      <4>1. \A i \in 1..(n+1) : i = n + 1 \/ i \in 1..n
        BY <1>5
      <4>2. \A i, j \in 1..n : records[o][i].attestation_id = records[o][j].attestation_id => i = j
        BY <3>1 DEF EntriesClean
      <4> QED
        BY <1>10, <3>3, <4>1, <4>2
    <3> QED
      BY <1>10, <3>5, <3>6 DEF EntriesClean
  <2> QED
    BY <2>1, <2>2 DEF ChainsClean
<1>16. CallsKnow'
  <2> SUFFICES ASSUME NEW q \in Recorders
               PROVE /\ calls'[q].pc \in {"append", "readback", "ok"} => calls'[q].att \in Attestation
                     /\ calls'[q].pc = "append" => calls'[q].att.authentic
                     /\ calls'[q].pc \in {"readback", "ok"} => ReadsBack(calls[q].att)'
                     /\ calls'[q].exported => calls'[q].pc = "ok"
    BY DEF CallsKnow
  <2>1. CASE q = r
    <3>1. ReadsBack(calls[q].att)'
      <4>1. calls'[q].att = att
        BY <1>1, <1>11, <2>1
      <4>2. att.sequence < Len(records'[o]) /\ records'[o][att.sequence + 1] = att
        BY <1>5, <1>6, <1>10
      <4> QED
        BY <1>2, <4>1, <4>2 DEF ReadsBack
    <3>2. ~calls[r].exported
      BY DEF AppendEvent, IInv, CallsKnow
    <3> QED
      BY <1>1, <1>11, <2>1, <3>1, <3>2
  <2>2. CASE q # r
    <3>1. calls'[q].pc = calls[q].pc /\ calls'[q].att = calls[q].att
      BY <1>11, <2>2
    <3>2. ASSUME calls[q].pc \in {"readback", "ok"} PROVE ReadsBack(calls[q].att)'
      <4>1. ReadsBack(calls[q].att) /\ calls[q].att \in Attestation
        BY <3>2 DEF IInv, CallsKnow
      <4>2. calls[q].att.operation_id \in Operations /\ calls[q].att.sequence \in Nat
        BY <4>1 DEF Attestation
      <4>3. CASE calls[q].att.operation_id = o
        <5>1. calls[q].att.sequence < n /\ records[o][calls[q].att.sequence + 1] = calls[q].att
          BY <4>1, <4>3 DEF ReadsBack
        <5>2. calls[q].att.sequence < n + 1 /\ calls[q].att.sequence + 1 \in 1..n
          BY <1>5, <4>2, <5>1
        <5> QED
          BY <1>10, <3>1, <4>3, <5>1, <5>2 DEF ReadsBack
      <4>4. CASE calls[q].att.operation_id # o
        BY <1>9, <3>1, <4>1, <4>2, <4>4 DEF ReadsBack
      <4> QED
        BY <4>3, <4>4
    <3> QED
      BY <1>11, <2>2, <3>1, <3>2 DEF IInv, CallsKnow
  <2> QED
    BY <2>1, <2>2
<1>17. StaleHeadDetected'
  <2> SUFFICES ASSUME NEW q \in Recorders, calls'[q].pc = "append"
               PROVE (LET a == calls[q].att IN
                      /\ a.sequence <= Len(records[a.operation_id])
                      /\ a.sequence = Len(records[a.operation_id]) =>
                           /\ a.previous = Predecessor(a.operation_id)
                           /\ AnchorMatches(a.operation_id, a.subject_digest, a.proof_digest))'
    BY DEF StaleHeadDetected
  <2>1. q # r /\ calls[q].pc = "append" /\ calls'[q].att = calls[q].att
    BY <1>11
  <2>2. PICK a \in Attestation : a = calls[q].att
    BY <2>1 DEF IInv, CallsKnow
  <2>3. a.operation_id \in Operations /\ a.sequence \in Nat
    BY DEF Attestation
  <2>4. /\ a.sequence <= Len(records[a.operation_id])
        /\ a.sequence = Len(records[a.operation_id]) =>
             /\ a.previous = Predecessor(a.operation_id)
             /\ AnchorMatches(a.operation_id, a.subject_digest, a.proof_digest)
    BY <2>1, <2>2 DEF IInv, StaleHeadDetected
  <2>5. CASE a.operation_id = o
    BY <1>5, <1>10, <2>1, <2>2, <2>3, <2>4, <2>5
  <2>6. CASE a.operation_id # o
    <3>1. records'[a.operation_id] = records[a.operation_id]
      BY <1>9, <2>3, <2>6
    <3>2. heads'[a.operation_id] = heads[a.operation_id]
      BY <1>8, <2>3, <2>6 DEF IInv, TypeOK, StoreTypeOK
    <3> QED
      BY <2>1, <2>2, <2>4, <3>1, <3>2 DEF Predecessor, AnchorMatches
  <2> QED
    BY <2>5, <2>6
<1> QED
  BY <1>12, <1>13, <1>14, <1>15, <1>16, <1>17 DEF IInv

(* Every step of every caller keeps the invariant.                          *)
LEMMA NextInv == IInv /\ [Next]_vars => IInv'
<1> SUFFICES ASSUME IInv, [Next]_vars PROVE IInv'
  OBVIOUS
<1> USE DEF CallStates
<1>0. \A r \in Recorders : /\ calls[r] \in [pc : CallStates, att : Attestation \cup {NoAttestation},
                                            exported : BOOLEAN]
                           /\ calls[r].exported => calls[r].pc = "ok"
                           /\ calls[r].pc = "readback" => calls[r].att \in Attestation
  BY DEF IInv, TypeOK, CallsKnow
<1>1. ASSUME NEW r \in Recorders, calls[r].pc # "ok", Goto(r, "failed"), UNCHANGED store
      PROVE  IInv'
  <2> DEFINE c == [calls[r] EXCEPT !.pc = "failed"]
  <2>1. /\ c \in [pc : CallStates, att : Attestation \cup {NoAttestation}, exported : BOOLEAN]
        /\ c.pc = "failed" /\ ~c.exported
    BY <1>0, <1>1
  <2>2. calls' = [calls EXCEPT ![r] = c]
    BY <1>1 DEF Goto
  <2> HIDE DEF c
  <2> QED
    BY <1>1, <2>1, <2>2, CallOnlyInv
<1>2. ASSUME NEW r \in Recorders, calls' = [calls EXCEPT ![r] = Idle], UNCHANGED store
      PROVE  IInv'
  <2>1. /\ Idle \in [pc : CallStates, att : Attestation \cup {NoAttestation}, exported : BOOLEAN]
        /\ Idle.pc = "idle" /\ ~Idle.exported
    BY DEF Idle
  <2> QED
    BY <1>2, <2>1, CallOnlyInv
<1>3. ASSUME NEW r \in Recorders, ReadBack(r)
      PROVE  IInv'
  <2>1. PICK x \in ExportOutcomes : calls' = [calls EXCEPT ![r].pc = "ok", ![r].exported = x]
    BY <1>3 DEF ReadBack
  <2> DEFINE c == [calls[r] EXCEPT !.pc = "ok", !.exported = x]
  <2>2. x \in BOOLEAN
    BY <2>1
  <2>3. /\ c \in [pc : CallStates, att : Attestation \cup {NoAttestation}, exported : BOOLEAN]
        /\ c.pc = "ok" /\ c.att = calls[r].att
    BY <1>0, <2>2
  <2>4. calls' = [calls EXCEPT ![r] = c] /\ calls[r].pc = "readback" /\ UNCHANGED store
    BY <1>3, <2>1 DEF ReadBack
  <2> HIDE DEF c
  <2> QED
    BY <2>3, <2>4, CallOnlyInv
<1>4. ASSUME NEW r \in Recorders, NEW o \in Operations, NEW s \in Subjects, NEW p \in Proofs,
             NEW authentic \in BOOLEAN, RecordRefused(r, o, s, p, authentic)
      PROVE  IInv'
  BY <1>1, <1>4 DEF RecordRefused
<1>5. ASSUME NEW r \in Recorders, Step(r) PROVE IInv'
  BY <1>1, <1>3, <1>5, AppendEventInv DEF Step, AppendRefused, ReadBackRefused
<1>6. ASSUME NEW r \in Recorders, Return(r) \/ Die(r) PROVE IInv'
  BY <1>2, <1>6 DEF Return, Die
<1>7. CASE UNCHANGED vars
  <2>1. heads' = heads /\ records' = records /\ seen_ids' = seen_ids /\ calls' = calls
    BY <1>7 DEF vars
  <2>2. TypeOK' /\ ChainsClean' /\ HeadIsLast' /\ IdsSeen'
    BY <2>1 DEF IInv, TypeOK, StoreTypeOK, ChainsClean, EntriesClean, HeadIsLast, IdsSeen
  <2>3. CallsKnow'
    BY <2>1 DEF IInv, CallsKnow, ReadsBack
  <2>4. StaleHeadDetected'
    BY <2>1 DEF IInv, StaleHeadDetected, Predecessor, AnchorMatches
  <2> QED
    BY <2>2, <2>3, <2>4 DEF IInv
<1> QED
  BY <1>4, <1>5, <1>6, <1>7, RecordEventInv DEF Next

(* Only an append changes the store.                                        *)
LEMMA OnlyAppends ==
  ASSUME [Next]_vars, ~UNCHANGED store
  PROVE  \E r \in Recorders : AppendEvent(r)
<1>1. Next
  BY DEF vars, store
<1> QED
  BY <1>1 DEF Next, RecordEvent, RecordRefused, Step, AppendRefused, ReadBack, ReadBackRefused,
              Return, Die

(* The invariant holds in every behaviour of the recorders.                 *)
THEOREM Invariance == Spec => []IInv
BY InitInv, NextInv, PTL DEF Spec

(* Types of the store and of the calls.                                     *)
THEOREM TypeCorrect == Spec => []TypeOK
<1>1. IInv => TypeOK
  BY DEF IInv
<1> QED
  BY <1>1, Invariance, PTL

(* Every stored chain passes verify_provenance_chain, for any number of     *)
(* concurrent recorders and any pattern of adapter failures.                *)
THEOREM ChainsVerify == Spec => []ChainVerifies
<1>1. IInv => ChainVerifies
  BY DEF IInv, ChainVerifies, ChainsClean, VerifyProvenanceChain
<1> QED
  BY <1>1, Invariance, PTL

(* head() describes the last entry of the chain.                            *)
THEOREM HeadsAgree == Spec => []HeadIsLast
<1>1. IInv => HeadIsLast
  BY DEF IInv
<1> QED
  BY <1>1, Invariance, PTL

(* A success that was reported to a caller, or exported as telemetry, is in *)
(* the chain and stays there.                                               *)
THEOREM SuccessDurable == Spec => []SuccessIsDurable
<1>1. IInv => SuccessIsDurable
  BY DEF IInv, CallsKnow, SuccessIsDurable
<1> QED
  BY <1>1, Invariance, PTL

(* The sequence number is a sufficient version for the compare-and-set.     *)
THEOREM NoStaleAppend == Spec => []StaleHeadDetected
<1>1. IInv => StaleHeadDetected
  BY DEF IInv
<1> QED
  BY <1>1, Invariance, PTL

(* No step changes or removes a stored entry.                               *)
THEOREM ChainsOnlyGrow == Spec => AppendOnly
<1> DEFINE Grows == \A o \in Operations :
         /\ Len(records[o]) <= Len(records'[o])
         /\ \A i \in 1..Len(records[o]) : records'[o][i] = records[o][i]
<1>1. IInv /\ [Next]_vars => [Grows]_records
  <2> HIDE DEF Grows
  <2> SUFFICES ASSUME IInv, [Next]_vars, records' # records PROVE Grows
    OBVIOUS
  <2>1. PICK r \in Recorders : AppendEvent(r)
    BY OnlyAppends DEF store
  <2>2. PICK att \in Attestation : att = calls[r].att
    BY <2>1 DEF IInv, CallsKnow, AppendEvent
  <2>3. records' = [records EXCEPT ![att.operation_id] = Append(@, att)]
    BY <2>1, <2>2 DEF AppendEvent, Persist
  <2>4. ASSUME NEW o \in Operations
        PROVE  /\ Len(records[o]) <= Len(records'[o])
               /\ \A i \in 1..Len(records[o]) : records'[o][i] = records[o][i]
    <3>1. records[o] \in Seq(Attestation)
      BY DEF IInv, TypeOK, StoreTypeOK
    <3>2. records'[o] = records[o] \/ records'[o] = Append(records[o], att)
      BY <2>3 DEF IInv, TypeOK, StoreTypeOK
    <3>3. Len(records[o]) \in Nat
      BY <3>1
    <3>4. CASE records'[o] = records[o]
      BY <3>3, <3>4
    <3>5. CASE records'[o] = Append(records[o], att)
      BY <3>1, <3>3, <3>5
    <3> QED
      BY <3>2, <3>4, <3>5
  <2> QED
    BY <2>4 DEF Grows
<1> QED
  BY <1>1, Invariance, PTL DEF Spec, AppendOnly
-------------------------------------------------------------------------------
(* The capacity.  The ids seen are as many as the places taken: an append     *)
(* takes a place and an id that were both free.                               *)
Counted ==
    /\ IsFiniteSet(Stored) /\ IsFiniteSet(seen_ids)
    /\ CapacityRespected

LEMMA StoredMember ==
  ASSUME NEW o \in Operations, NEW i
  PROVE  <<o, i>> \in Stored <=> i \in 1..Len(records[o])
<1>1. <<o, i>> \in Stored <=> \E x \in Operations : <<o, i>> \in {<<x, j>> : j \in 1..Len(records[x])}
  BY DEF Stored
<1> QED
  BY <1>1

LEMMA AppendCounted ==
  ASSUME IInv, Counted, NEW r \in Recorders, AppendEvent(r)
  PROVE  Counted'
<1>1. PICK att \in Attestation : att = calls[r].att
  BY DEF IInv, CallsKnow, AppendEvent
<1>2. PICK o \in Operations : o = att.operation_id
  BY DEF Attestation
<1>3. PICK n \in Nat : n = Len(records[o])
  BY <1>2, NextIsLength
<1>4. /\ records' = [records EXCEPT ![o] = Append(@, att)]
      /\ seen_ids' = seen_ids \cup {att.attestation_id}
      /\ att.attestation_id \notin seen_ids
      /\ Total < MaxAttestations
  BY <1>1, <1>2 DEF AppendEvent, Persist, Appendable, HasRoom
<1>5. /\ \A x \in Operations \ {o} : records'[x] = records[x]
      /\ Len(records'[o]) = n + 1
  BY <1>3, <1>4 DEF IInv, TypeOK, StoreTypeOK
<1>6. Stored' = Stored \cup {<<o, n + 1>>}
  <2>1. \A x \in Operations \ {o} :
          {<<x, j>> : j \in 1..Len(records'[x])} = {<<x, j>> : j \in 1..Len(records[x])}
    BY <1>5
  <2>2. {<<o, j>> : j \in 1..Len(records'[o])}
          = {<<o, j>> : j \in 1..Len(records[o])} \cup {<<o, n + 1>>}
    <3>1. 1..(n + 1) = (1..n) \cup {n + 1}
      OBVIOUS
    <3> QED
      BY <1>3, <1>5, <3>1
  <2>3. PICK f : f = [x \in Operations |-> {<<x, j>> : j \in 1..Len(records[x])}]
    OBVIOUS
  <2>4. PICK g : g = [x \in Operations |-> {<<x, j>> : j \in 1..Len(records'[x])}]
    OBVIOUS
  <2>5. /\ Stored = UNION {f[x] : x \in Operations}
        /\ Stored' = UNION {g[x] : x \in Operations}
    BY <2>3, <2>4 DEF Stored
  <2>6. /\ g[o] = f[o] \cup {<<o, n + 1>>}
        /\ \A x \in Operations \ {o} : g[x] = f[x]
    BY <2>1, <2>2, <2>3, <2>4
  <2> QED
    BY <2>5, <2>6
<1>7. <<o, n + 1>> \notin Stored
  BY <1>3, StoredMember
<1>8. /\ IsFiniteSet(Stored') /\ Cardinality(Stored') = Cardinality(Stored) + 1
      /\ IsFiniteSet(seen_ids') /\ Cardinality(seen_ids') = Cardinality(seen_ids) + 1
  BY <1>4, <1>6, <1>7, FS_AddElement DEF Counted
<1>9. Cardinality(Stored) \in Nat
  BY FS_CardinalityType DEF Counted
<1> QED
  BY <1>4, <1>8, <1>9 DEF Counted, CapacityRespected, Total

LEMMA CountedInv ==
  ASSUME IInv, Counted, [Next]_vars
  PROVE  Counted'
<1>1. CASE UNCHANGED store
  BY <1>1 DEF store, Counted, CapacityRespected, Total, Stored
<1>2. CASE ~UNCHANGED store
  BY <1>2, OnlyAppends, AppendCounted
<1> QED
  BY <1>1, <1>2

LEMMA CountedInit ==
  ASSUME Init
  PROVE  Counted
<1>1. seen_ids = {} /\ \A o \in Operations : 1..Len(records[o]) = {}
  BY DEF Init, StoreInit
<1>2. Stored = {}
  BY <1>1 DEF Stored
<1> QED
  BY <1>1, <1>2, FS_EmptySet DEF Counted, CapacityRespected, Total

(* However many callers append: the store holds no more than its capacity,    *)
(* and no two entries have the same id.                                      *)
THEOREM WithinCapacity == Spec => []CapacityRespected
<1>1. Counted => CapacityRespected
  BY DEF Counted
<1> QED
  BY <1>1, CountedInit, CountedInv, InitInv, NextInv, PTL DEF Spec

-------------------------------------------------------------------------------
(* ExecutionProvenance.  What was checked about an event before it was handed *)
(* to record_event stays true of it: of the event a caller is about to        *)
(* record, of the draft in its call, and of the entry in the chain.           *)
Checked(e, o, s, p) ==
    \/ e = Lifecycle
    \/ /\ e \in ReceiptEvents
       /\ ValidReceipt(e.artifact, e.at)
       /\ e.artifact.fields.operation = o /\ e.artifact.fields.pre = p
    \/ /\ e \in FinalEvents
       /\ e.artifact.phase = "FINAL" /\ e.at < e.artifact.until
       /\ e.artifact.operation = o /\ e.artifact.subject = s /\ e.artifact.pre = p

Claim == [event : Events, operation : Operations, subject : Subjects, pre : Proofs]

EntryChecked(a) == Checked(a.artifact_type, a.operation_id, a.subject_digest, a.proof_digest)

PInv ==
    /\ IInv
    /\ clock \in 0 .. MaxTime
    /\ verified \in [Recorders -> SUBSET Claim]
    /\ \A r \in Recorders : \A c \in verified[r] :
         Checked(c.event, c.operation, c.subject, c.pre)
    /\ \A r \in Recorders : calls[r].pc = "append" => EntryChecked(calls[r].att)
    /\ \A o \in Operations : \A i \in 1..Len(records[o]) : EntryChecked(records[o][i])

(* Every step is a step of the recorder, or none.                             *)
LEMMA RecorderStep ==
  ASSUME PInv, [ProvenanceNext]_provenance
  PROVE  [Next]_vars
<1>1. ASSUME NEW r \in Recorders, Record(r) PROVE Next
  <2>1. PICK c \in verified[r], authentic \in BOOLEAN :
          \/ \E id \in Ids : RecordEvent(r, c.operation, c.subject, c.pre, c.event, id, authentic)
          \/ RecordRefused(r, c.operation, c.subject, c.pre, authentic)
    BY <1>1 DEF Record
  <2>2. c \in Claim
    BY DEF PInv
  <2> QED
    BY <2>1, <2>2 DEF Next, Claim
<1>2. ASSUME NEW r \in Recorders, Proceed(r) PROVE Next
  BY <1>2 DEF Proceed, Next
<1>3. ASSUME NEW r \in Recorders, NEW s \in Subjects, NEW p \in Proofs, NEW o \in Operations,
             RecordLifecycle(r, o, s, p)
      PROVE  Next
  BY <1>3, DocumentsAssumption DEF RecordLifecycle, Next
<1> QED
  BY <1>1, <1>2, <1>3
  DEF ProvenanceNext, AttestExecutionReceipt, AttestFinalProof, Tick, store, vars, provenance

LEMMA ReceiptChecked ==
  ASSUME PInv, NEW r \in Recorders, NEW x \in Receipts, NEW s \in Subjects, NEW p \in Proofs,
         AttestExecutionReceipt(r, x, s, p)
  PROVE  \E c \in Claim :
           /\ verified' = [verified EXCEPT ![r] = {c}]
           /\ Checked(c.event, c.operation, c.subject, c.pre)
<1>1. PICK e : e = [type |-> "execution_receipt_verified", artifact |-> x, at |-> clock]
  OBVIOUS
<1>2. PICK c : c = [event |-> e, operation |-> x.fields.operation, subject |-> s, pre |-> p]
  OBVIOUS
<1>3. e \in ReceiptEvents /\ e.artifact = x /\ e.at = clock /\ e \in Events
  BY <1>1, DocumentsAssumption DEF PInv, ReceiptEvents
<1>4. x.fields.operation \in Operations
  BY DocumentsAssumption DEF Fields
<1>5. c \in Claim
  BY <1>2, <1>3, <1>4 DEF Claim
<1>6. Checked(c.event, c.operation, c.subject, c.pre)
  BY <1>2, <1>3 DEF AttestExecutionReceipt, ReceiptAttestable, Checked
<1> QED
  BY <1>1, <1>2, <1>5, <1>6 DEF AttestExecutionReceipt

LEMMA FinalChecked ==
  ASSUME PInv, NEW r \in Recorders, NEW f \in Finals, NEW s \in Subjects, NEW p \in Proofs,
         AttestFinalProof(r, f, s, p)
  PROVE  \E c \in Claim :
           /\ verified' = [verified EXCEPT ![r] = {c}]
           /\ Checked(c.event, c.operation, c.subject, c.pre)
<1>1. PICK e : e = [type |-> "final_proof_composed", artifact |-> f, at |-> clock]
  OBVIOUS
<1>2. PICK c : c = [event |-> e, operation |-> f.operation, subject |-> s, pre |-> p]
  OBVIOUS
<1>3. e \in FinalEvents /\ e.artifact = f /\ e.at = clock /\ e \in Events
  BY <1>1, DocumentsAssumption DEF PInv, FinalEvents
<1>4. f.operation \in Operations
  BY DocumentsAssumption DEF FinalProof
<1>5. c \in Claim
  BY <1>2, <1>3, <1>4 DEF Claim
<1>6. Checked(c.event, c.operation, c.subject, c.pre)
  BY <1>2, <1>3 DEF AttestFinalProof, FinalAttestable, Checked
<1> QED
  BY <1>1, <1>2, <1>5, <1>6 DEF AttestFinalProof

(* What callers are about to record.                                         *)
LEMMA VerifiedInv ==
  ASSUME PInv, [ProvenanceNext]_provenance
  PROVE  /\ clock' \in 0 .. MaxTime
         /\ verified' \in [Recorders -> SUBSET Claim]
         /\ \A r \in Recorders : \A c \in verified'[r] :
              Checked(c.event, c.operation, c.subject, c.pre)
<1>1. ASSUME NEW r \in Recorders, NEW c \in Claim,
             verified' = [verified EXCEPT ![r] = {c}],
             Checked(c.event, c.operation, c.subject, c.pre)
      PROVE  /\ verified' \in [Recorders -> SUBSET Claim]
             /\ \A q \in Recorders : \A d \in verified'[q] :
                  Checked(d.event, d.operation, d.subject, d.pre)
  BY <1>1 DEF PInv
<1>2. CASE \E r \in Recorders, s \in Subjects, p \in Proofs :
             \/ \E x \in Receipts : AttestExecutionReceipt(r, x, s, p)
             \/ \E f \in Finals : AttestFinalProof(r, f, s, p)
  <2>1. clock' = clock
    BY <1>2 DEF AttestExecutionReceipt, AttestFinalProof
  <2> QED
    BY <1>1, <1>2, <2>1, ReceiptChecked, FinalChecked DEF PInv
<1>3. CASE \E r \in Recorders : Record(r)
  BY <1>3 DEF Record, PInv
<1>4. CASE Tick
  BY <1>4, DocumentsAssumption DEF Tick, PInv
<1>5. CASE UNCHANGED <<clock, verified>>
  BY <1>5 DEF PInv
<1> QED
  BY <1>2, <1>3, <1>4, <1>5 DEF ProvenanceNext, RecordLifecycle, Proceed, provenance

(* The draft of a call that starts is about what was checked.                *)
LEMMA DraftChecked ==
  ASSUME PInv, NEW r \in Recorders, NEW o, NEW s, NEW p, NEW e, NEW id, NEW authentic,
         Checked(e, o, s, p), RecordEvent(r, o, s, p, e, id, authentic)
  PROVE  \A q \in Recorders : calls'[q].pc = "append" => EntryChecked(calls'[q].att)
<1>1. PICK att : att = Draft(o, s, p, e, id, authentic)
  OBVIOUS
<1>2. EntryChecked(att)
  BY <1>1 DEF Draft, EntryChecked
<1>3. \A q \in Recorders : calls'[q].att = IF q = r THEN att ELSE calls[q].att
  BY <1>1 DEF RecordEvent, PInv, IInv, TypeOK
<1>4. \A q \in Recorders \ {r} : calls'[q] = calls[q]
  BY DEF RecordEvent, PInv, IInv, TypeOK
<1> QED
  BY <1>2, <1>3, <1>4 DEF PInv

(* A step of a call other than its start puts no draft into anybody's hands.  *)
LEMMA NoNewDraft ==
  ASSUME IInv, NEW r \in Recorders,
         \/ Step(r) \/ Return(r) \/ Die(r)
         \/ \E o, s, p, authentic : RecordRefused(r, o, s, p, authentic)
  PROVE  \A q \in Recorders : calls'[q].pc = "append" => calls'[q] = calls[q]
<1>1. calls[r] \in [pc : CallStates, att : Attestation \cup {NoAttestation}, exported : BOOLEAN]
  BY DEF IInv, TypeOK
<1>2. \A q \in Recorders \ {r} : calls'[q] = calls[q]
  BY DEF IInv, TypeOK, Step, AppendEvent, AppendRefused, ReadBack, ReadBackRefused, Return, Die,
         RecordRefused, Goto
<1>3. calls'[r].pc # "append"
  <2>1. CASE Return(r) \/ Die(r)
    BY <2>1 DEF Return, Die, Idle, IInv, TypeOK
  <2>2. CASE ReadBack(r)
    BY <1>1, <2>2 DEF ReadBack, IInv, TypeOK
  <2>3. CASE Goto(r, "failed") \/ Goto(r, "readback")
    BY <1>1, <2>3 DEF Goto, IInv, TypeOK
  <2> QED
    BY <2>1, <2>2, <2>3
    DEF Step, AppendEvent, AppendRefused, ReadBackRefused, RecordRefused
<1> QED
  BY <1>2, <1>3

LEMMA DraftsInv ==
  ASSUME PInv, [ProvenanceNext]_provenance
  PROVE  \A q \in Recorders : calls'[q].pc = "append" => EntryChecked(calls'[q].att)
<1>1. ASSUME NEW r \in Recorders, Record(r)
      PROVE  \A q \in Recorders : calls'[q].pc = "append" => EntryChecked(calls'[q].att)
  <2>1. PICK c \in verified[r], authentic \in BOOLEAN :
          \/ \E id \in Ids : RecordEvent(r, c.operation, c.subject, c.pre, c.event, id, authentic)
          \/ RecordRefused(r, c.operation, c.subject, c.pre, authentic)
    BY <1>1 DEF Record
  <2>2. Checked(c.event, c.operation, c.subject, c.pre)
    BY DEF PInv
  <2>3. CASE RecordRefused(r, c.operation, c.subject, c.pre, authentic)
    BY <2>3, NoNewDraft DEF PInv
  <2> QED
    BY <2>1, <2>2, <2>3, DraftChecked
<1>2. ASSUME NEW r \in Recorders, Proceed(r)
      PROVE  \A q \in Recorders : calls'[q].pc = "append" => EntryChecked(calls'[q].att)
  BY <1>2, NoNewDraft DEF Proceed, PInv
<1>3. ASSUME NEW r \in Recorders, NEW o, NEW s, NEW p, RecordLifecycle(r, o, s, p)
      PROVE  \A q \in Recorders : calls'[q].pc = "append" => EntryChecked(calls'[q].att)
  <2>1. Checked(Lifecycle, o, s, p)
    BY DEF Checked
  <2> QED
    BY <1>3, <2>1, DraftChecked DEF RecordLifecycle
<1>4. CASE UNCHANGED calls
  BY <1>4 DEF PInv
<1> QED
  BY <1>1, <1>2, <1>3, <1>4
  DEF ProvenanceNext, AttestExecutionReceipt, AttestFinalProof, Tick, provenance

(* Entries are drafts of calls.                                              *)
LEMMA EntriesInv ==
  ASSUME PInv, [Next]_vars
  PROVE  \A o \in Operations : \A i \in 1..Len(records'[o]) : EntryChecked(records'[o][i])
<1>1. CASE UNCHANGED store
  BY <1>1 DEF store, PInv
<1>2. CASE ~UNCHANGED store
  <2>1. PICK r \in Recorders : AppendEvent(r)
    BY <1>2, OnlyAppends
  <2>2. PICK att \in Attestation : att = calls[r].att
    BY <2>1 DEF PInv, IInv, CallsKnow, AppendEvent
  <2>3. EntryChecked(att)
    BY <2>1, <2>2 DEF PInv, AppendEvent
  <2>4. records' = [records EXCEPT ![att.operation_id] = Append(@, att)]
    BY <2>1, <2>2 DEF AppendEvent, Persist
  <2>5. ASSUME NEW o \in Operations, NEW i \in 1..Len(records'[o]) PROVE EntryChecked(records'[o][i])
    <3>1. records[o] \in Seq(Attestation)
      BY DEF PInv, IInv, TypeOK, StoreTypeOK
    <3>2. records'[o] = records[o] \/ records'[o] = Append(records[o], att)
      BY <2>4 DEF PInv, IInv, TypeOK, StoreTypeOK
    <3>3. CASE records'[o] = records[o]
      BY <2>5, <3>3 DEF PInv
    <3>4. CASE records'[o] = Append(records[o], att)
      <4>1. PICK n \in Nat : n = Len(records[o])
        BY <3>1
      <4>2. /\ Len(records'[o]) = n + 1 /\ records'[o][n + 1] = att
            /\ \A j \in 1..n : records'[o][j] = records[o][j]
        BY <3>1, <3>4, <4>1
      <4>3. i \in 1..n \/ i = n + 1
        BY <4>2
      <4> QED
        BY <2>3, <4>1, <4>2, <4>3 DEF PInv
    <3> QED
      BY <3>2, <3>3, <3>4
  <2> QED
    BY <2>5
<1> QED
  BY <1>1, <1>2

LEMMA ProvenanceInvariance == ProvenanceSpec => []PInv
<1>1. ProvenanceInit => PInv
  <2> SUFFICES ASSUME ProvenanceInit PROVE PInv
    OBVIOUS
  <2>1. Init => IInv
    BY InitInv
  <2> QED
    BY <2>1, DocumentsAssumption DEF ProvenanceInit, PInv, Init, StoreInit, Idle
<1>2. PInv /\ [ProvenanceNext]_provenance => PInv'
  <2> SUFFICES ASSUME PInv, [ProvenanceNext]_provenance PROVE PInv'
    OBVIOUS
  <2>1. [Next]_vars
    BY RecorderStep
  <2>2. IInv'
    BY <2>1, NextInv DEF PInv
  <2>3. (\A r \in Recorders : \A c \in verified[r] :
           Checked(c.event, c.operation, c.subject, c.pre))'
    BY VerifiedInv DEF Checked
  <2>4. (\A r \in Recorders : calls[r].pc = "append" => EntryChecked(calls[r].att))'
    BY DraftsInv DEF EntryChecked, Checked
  <2>5. (\A o \in Operations : \A i \in 1..Len(records[o]) : EntryChecked(records[o][i]))'
    BY <2>1, EntriesInv DEF EntryChecked, Checked
  <2> QED
    BY <2>2, <2>3, <2>4, <2>5, VerifiedInv DEF PInv
<1> QED
  BY <1>1, <1>2, PTL DEF ProvenanceSpec

-------------------------------------------------------------------------------
(* The gateway, receipts and FINAL proofs record on the same chains, and what  *)
(* is proved of the recorder holds there too.                                *)
THEOREM ProvenanceVerifies == ProvenanceSpec => []ChainVerifies
<1>1. PInv => ChainVerifies
  BY DEF PInv, IInv, ChainVerifies, ChainsClean, VerifyProvenanceChain
<1> QED
  BY <1>1, ProvenanceInvariance, PTL

(* A success reported for a receipt or a FINAL proof is in the chain.         *)
THEOREM ProvenanceDurable == ProvenanceSpec => []SuccessIsDurable
<1>1. PInv => SuccessIsDurable
  BY DEF PInv, IInv, CallsKnow, SuccessIsDurable
<1> QED
  BY <1>1, ProvenanceInvariance, PTL

(* Receipts and FINAL proofs change chains only the way record_event does.    *)
THEOREM ProvenanceRecords == ProvenanceSpec => Init /\ [][Next]_vars
<1>1. ProvenanceInit => Init
  BY DEF ProvenanceInit
<1> QED
  BY <1>1, RecorderStep, ProvenanceInvariance, PTL DEF ProvenanceSpec

(* An entry of the chain of o, as its type says.                             *)
LEMMA ReceiptEntry ==
  ASSUME PInv, NEW o \in Operations, NEW a \in Entries(o, "execution_receipt_verified")
  PROVE  /\ \E i \in 1..Len(records[o]) : a = records[o][i]
         /\ ValidReceipt(a.artifact_type.artifact, a.artifact_type.at)
         /\ a.artifact_type \in ReceiptEvents
         /\ a.artifact_type.artifact.fields.operation = o
         /\ a.artifact_type.artifact.fields.pre = a.proof_digest
<1>1. PICK i \in 1..Len(records[o]) :
        /\ a = records[o][i]
        /\ a.artifact_type # Lifecycle
        /\ a.artifact_type.type = "execution_receipt_verified"
  BY DEF Entries
<1>2. EntryChecked(a)
  BY <1>1 DEF PInv
<1>3. a.operation_id = o
  BY <1>1 DEF PInv, IInv, ChainsClean, EntriesClean
<1>4. a.artifact_type \notin FinalEvents
  BY <1>1 DEF FinalEvents
<1> QED
  BY <1>1, <1>2, <1>3, <1>4 DEF EntryChecked, Checked

LEMMA FinalEntry ==
  ASSUME PInv, NEW o \in Operations, NEW a \in Entries(o, "final_proof_composed")
  PROVE  /\ \E i \in 1..Len(records[o]) : a = records[o][i]
         /\ a.artifact_type.artifact.phase = "FINAL"
         /\ a.artifact_type.at < a.artifact_type.artifact.until
         /\ a.artifact_type.artifact.operation = o
         /\ a.artifact_type.artifact.subject = a.subject_digest
         /\ a.artifact_type.artifact.pre = a.proof_digest
<1>1. PICK i \in 1..Len(records[o]) :
        /\ a = records[o][i]
        /\ a.artifact_type # Lifecycle
        /\ a.artifact_type.type = "final_proof_composed"
  BY DEF Entries
<1>2. EntryChecked(a)
  BY <1>1 DEF PInv
<1>3. a.operation_id = o
  BY <1>1 DEF PInv, IInv, ChainsClean, EntriesClean
<1>4. a.artifact_type \notin ReceiptEvents
  BY <1>1 DEF ReceiptEvents
<1> QED
  BY <1>1, <1>2, <1>3, <1>4 DEF EntryChecked, Checked

(* All entries of a chain have the anchor its head has.                      *)
LEMMA OneAnchor ==
  ASSUME IInv, NEW o \in Operations, NEW i \in 1..Len(records[o])
  PROVE  /\ heads[o] # NoHead
         /\ records[o][i].subject_digest = heads[o].subject_digest
         /\ records[o][i].proof_digest = heads[o].proof_digest
<1>1. PICK n \in Nat : n = Len(records[o])
  BY NextIsLength
<1>2. n # 0 /\ n \in 1..n
  BY <1>1
<1>3. /\ heads[o] # NoHead
      /\ heads[o].subject_digest = records[o][n].subject_digest
      /\ heads[o].proof_digest = records[o][n].proof_digest
  BY <1>1, <1>2 DEF IInv, HeadIsLast
<1>4. \A j \in 1..n : /\ records[o][j].subject_digest = records[o][1].subject_digest
                      /\ records[o][j].proof_digest = records[o][1].proof_digest
  BY <1>1 DEF IInv, ChainsClean, EntriesClean
<1> QED
  BY <1>1, <1>2, <1>3, <1>4

(* A chain with a receipt and a FINAL proof is about one execution.           *)
THEOREM ChainIsOneExecution == ProvenanceSpec => []OneExecution
<1>1. PInv => OneExecution
  <2> SUFFICES ASSUME PInv, NEW o \in Operations
               PROVE  LET receipts == Entries(o, "execution_receipt_verified")
                          finals   == Entries(o, "final_proof_composed")
                      IN  /\ \A a \in receipts, b \in finals :
                                /\ a.artifact_type.artifact.fields.pre = b.artifact_type.artifact.pre
                                /\ a.subject_digest = b.artifact_type.artifact.subject
                          /\ \A a \in receipts : a.artifact_type.artifact.fields.operation = o
                          /\ \A b \in finals : b.artifact_type.artifact.operation = o
                          /\ \A a \in receipts \cup finals :
                                /\ heads[o] # NoHead
                                /\ a.proof_digest = heads[o].proof_digest
    BY DEF OneExecution
  <2>1. \A i \in 1..Len(records[o]) :
          /\ heads[o] # NoHead
          /\ records[o][i].subject_digest = heads[o].subject_digest
          /\ records[o][i].proof_digest = heads[o].proof_digest
    BY OneAnchor DEF PInv
  <2>2. \A a \in Entries(o, "execution_receipt_verified") :
          /\ heads[o] # NoHead
          /\ a.subject_digest = heads[o].subject_digest
          /\ a.proof_digest = heads[o].proof_digest
          /\ a.artifact_type.artifact.fields.pre = heads[o].proof_digest
          /\ a.artifact_type.artifact.fields.operation = o
    BY <2>1, ReceiptEntry
  <2>3. \A b \in Entries(o, "final_proof_composed") :
          /\ heads[o] # NoHead
          /\ b.proof_digest = heads[o].proof_digest
          /\ b.artifact_type.artifact.subject = heads[o].subject_digest
          /\ b.artifact_type.artifact.pre = heads[o].proof_digest
          /\ b.artifact_type.artifact.operation = o
    BY <2>1, FinalEntry
  <2> QED
    BY <2>2, <2>3
<1> QED
  BY <1>1, ProvenanceInvariance, PTL

(* A signature does not turn an unverified document into evidence: what is    *)
(* attested was intact and valid, and its outcome verified, when it was seen. *)
THEOREM OnlyVerifiedAttested == ProvenanceSpec => []AttestedWasVerified
<1>1. ASSUME NEW x \in Receipts, NEW at \in Nat, ValidReceipt(x, at)
      PROVE  /\ x.wellFormed /\ x.intact
             /\ x.fields.outcome # "UNKNOWN" => x.fields.outcomeVerified
             /\ x.fields.expires # NoExpiry => at < x.fields.expires
  <2>1. /\ ~MalformedReceipt(x) /\ ~Overdue(x, at) /\ ~UnverifiedClaim(x)
        /\ ~(x.wellFormed /\ ~x.intact)
    BY <1>1 DEF ValidReceipt, VerifyExecutionReceipt
  <2>2. x.fields.expires \in Int
    BY DocumentsAssumption DEF Fields
  <2> QED
    BY <2>1, <2>2 DEF MalformedReceipt, Overdue, UnverifiedClaim, Outcomes
<1>2. PInv => AttestedWasVerified
  <2> SUFFICES ASSUME PInv, NEW o \in Operations
               PROVE  /\ \A a \in Entries(o, "execution_receipt_verified") :
                            LET x == a.artifact_type.artifact IN
                            /\ x.wellFormed /\ x.intact
                            /\ x.fields.outcome # "UNKNOWN" => x.fields.outcomeVerified
                            /\ x.fields.expires # NoExpiry => a.artifact_type.at < x.fields.expires
                      /\ \A b \in Entries(o, "final_proof_composed") :
                            /\ b.artifact_type.artifact.phase = "FINAL"
                            /\ b.artifact_type.at < b.artifact_type.artifact.until
    BY DEF AttestedWasVerified
  <2>1. ASSUME NEW a \in Entries(o, "execution_receipt_verified")
        PROVE  /\ a.artifact_type.artifact \in Receipts /\ a.artifact_type.at \in Nat
               /\ ValidReceipt(a.artifact_type.artifact, a.artifact_type.at)
    BY ReceiptEntry, DocumentsAssumption DEF ReceiptEvents
  <2> QED
    BY <1>1, <2>1, FinalEntry
<1> QED
  BY <1>2, ProvenanceInvariance, PTL

===============================================================================
